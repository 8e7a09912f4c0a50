------------------------ MODULE AgentSession_proofs ------------------------
(***************************************************************************)
(* Proofs about AgentSession: its type invariant, that no action that      *)
(* needs an approval is done without one, that the module implements the   *)
(* abstract ApprovalGate, and then, with what the life of a session adds   *)
(* to the invariant, what a resumed graph finds, the order of a session's  *)
(* states, how far its audit trail lags, and where it comes to rest.       *)
(***************************************************************************)
EXTENDS AgentSession, TLAPS

(* Definitions that only name a place or a set.                             *)
USE DEF Procs, Kinds, Nodes, Awaits, Over, Calls, At, Goto

----------------------------------------------------------------------------
(* Lemmas on the operators of the pipeline.                                 *)

(* The state machine's tables stay among the states.                        *)
LEMMA TablesType ==
  ASSUME NEW r, NEW node \in Nodes \ {"idle", "approvals"}
  PROVE  From(node) \in AgentStates /\ To(node, r) \in AgentStates
BY DEF From, To, AgentStates

(* Every edge and every exception leads to a place in the code.             *)
LEMMA EdgesType ==
  ASSUME NEW r, NEW node \in Nodes \ {"idle", "approvals"}
  PROVE  NextNode(node, r) \in [node : Nodes, call : Calls]
BY DEF NextNode

LEMMA HandlerType ==
  ASSUME NEW where \in [node : Nodes, call : Calls]
  PROVE  Handler(where) \in [node : Nodes, call : Calls]
BY DEF Handler

----------------------------------------------------------------------------
(* Where an invocation can be, and what it implies.                         *)

(* The places of a graph run.                                               *)
RunAt(r) ==
  \/ at[r].node = "idle" /\ at[r].call = "idle" /\ ask[r] = NoAsk
  \/ at[r].node = "receive" /\ at[r].call \in {"create", "update", "audit"} \cup Over
  \/ /\ at[r].node \in {"loadContext", "compilePrompt", "callLlm", "decideAction"}
     /\ at[r].call \in {"update", "audit", "mark"} \cup Over
  \/ /\ at[r].node = "awaitApproval"
     /\ at[r].call \in {"lock", "insert", "release", "unwind", "suspend", "mark"} \cup Over
     /\ NeedsApproval(r)
  \/ /\ at[r].node = "execute"
     /\ at[r].call \in {"update", "audit", "mark"} \cup Over
     /\ ~NeedsApproval(r)

(* The places of a request: only one that approves resumes the graph.       *)
RequestAt(q) ==
  \/ at[q].node = "idle" /\ at[q].call = "idle" /\ req[q] = NoRequest
  \/ /\ at[q].node = "approvals"
     /\ at[q].call \in {"resolve"} \cup Over
     /\ req[q] \in [kind : Kinds, run : Runs]
  \/ /\ at[q].node = "awaitApproval"
     /\ at[q].call \in {"read", "update", "audit", "mark"} \cup Over
     /\ req[q] \in [kind : {"approve"}, run : Runs]
  \/ /\ at[q].node = "execute"
     /\ at[q].call \in {"update", "audit", "mark"} \cup Over
     /\ req[q] \in [kind : {"approve"}, run : Runs]

Places ==
  /\ \A r \in Runs : RunAt(r)
  /\ \A q \in Requests : RequestAt(q)

(* TypeOK is inductive only together with the places: a call is made from a *)
(* node that has a state to write, on a session that exists.                *)
TypeInv == TypeOK /\ Places

(* What makes the work of an invocation legitimate: it has performed the    *)
(* action only in the execute node, and a session that executes was either  *)
(* granted or belongs to a started run that needs no approval.              *)
Legitimate ==
  /\ \A p \in performed : at[p].node = "execute"
  /\ \A r \in Runs :
       session[r] \in {"EXECUTING", "COMPLETED"} =>
         Granted(r) \/ (at[r].node # "idle" /\ ~NeedsApproval(r))

IInv == TypeInv /\ Legitimate

----------------------------------------------------------------------------

LEMMA InitTypeInv == Init => TypeInv
<1> SUFFICES ASSUME Init PROVE TypeInv
  OBVIOUS
<1>1. TypeOK
  BY FaultsAssumption DEF Init, TypeOK
<1>2. Places
  BY RunsAssumption DEF Init, Places, RunAt, RequestAt
<1> QED
  BY <1>1, <1>2 DEF TypeInv

(* Only the invocation that takes a step moves.                             *)
LEMMA PlacesFrame ==
  ASSUME TypeInv, NEW p \in Procs, NEW where \in [node : Nodes, call : Calls],
         Goto(p, where),
         \A s \in Runs \ {p} : ask'[s] = ask[s],
         \A q \in Requests \ {p} : req'[q] = req[q],
         p \in Runs => RunAt(p)',
         p \in Requests => RequestAt(p)'
  PROVE  Places'
<1>1. ASSUME NEW r \in Runs, r # p PROVE RunAt(r)'
  <2>1. at'[r] = at[r] /\ ask'[r] = ask[r] /\ (NeedsApproval(r)' <=> NeedsApproval(r))
    BY <1>1 DEF TypeInv, TypeOK, NeedsApproval, Decision
  <2>2. RunAt(r)
    BY DEF TypeInv, Places
  <2> QED
    BY <2>1, <2>2 DEF RunAt
<1>2. ASSUME NEW q \in Requests, q # p PROVE RequestAt(q)'
  <2>1. at'[q] = at[q] /\ req'[q] = req[q]
    BY <1>2 DEF TypeInv, TypeOK
  <2>2. RequestAt(q)
    BY DEF TypeInv, Places
  <2> QED
    BY <2>1, <2>2 DEF RequestAt
<1> QED
  BY <1>1, <1>2 DEF Places

(* A step of one invocation that keeps the types keeps the places too.      *)
LEMMA NodeStepTypeInv ==
  ASSUME TypeInv, NEW p \in Procs, NodeStep(p) \/ Throw(p) \/ Crash(p)
  PROVE  TypeInv'
<1> USE FaultsAssumption
<1> DEFINE n == at[p].node
           r == Subject(p)
<1>1. at[p] \in [node : Nodes, call : Calls]
  BY DEF TypeInv, TypeOK
<1>2. /\ p \in Runs => RunAt(p)
      /\ p \in Requests => RequestAt(p)
  BY DEF TypeInv, Places
<1>3. at[p].call \notin Over \cup {"idle"} => r \in Runs
  BY <1>2 DEF Subject, RequestAt
<1>4. UNCHANGED << ask, req >>
  BY DEF NodeStep, UpdateState, LogTransition, MarkFailed, Throw, Crash, rows
<1>5. NeedsApproval(p)' <=> NeedsApproval(p)
  BY <1>4 DEF NeedsApproval, Decision
<1>6. CASE UpdateState(p)
  <2>1. n \in Nodes \ {"idle", "approvals"} /\ r \in Runs
    BY <1>1, <1>2, <1>3, <1>6 DEF UpdateState, RunAt, RequestAt
  <2>2. To(n, r) \in AgentStates
    BY <2>1, TablesType
  <2>3. TypeOK'
    BY <1>1, <1>6, <2>1, <2>2 DEF UpdateState, TypeInv, TypeOK
  <2>4. Goto(p, At(n, "audit"))
    BY <1>6 DEF UpdateState
  <2>5. at'[p] = At(n, "audit")
    BY <2>4 DEF TypeInv, TypeOK
  <2>6. /\ p \in Runs => RunAt(p)'
        /\ p \in Requests => RequestAt(p)'
    BY <1>2, <1>4, <1>5, <1>6, <2>5 DEF UpdateState, RunAt, RequestAt
  <2> QED
    BY <1>1, <1>4, <2>3, <2>4, <2>6, PlacesFrame DEF TypeInv
<1>7. CASE LogTransition(p)
  <2>1. n \in Nodes \ {"idle", "approvals"} /\ r \in Runs
    BY <1>1, <1>2, <1>3, <1>7 DEF LogTransition, RunAt, RequestAt
  <2>2. From(n) \in AgentStates /\ To(n, r) \in AgentStates
    BY <2>1, TablesType
  <2>3. NextNode(n, r) \in [node : Nodes, call : Calls]
    BY <2>1, EdgesType
  <2>4. TypeOK'
    BY <1>7, <2>1, <2>2, <2>3 DEF LogTransition, TypeInv, TypeOK
  <2>5. Goto(p, NextNode(n, r))
    BY <1>7 DEF LogTransition
  <2>6. at'[p] = NextNode(n, r)
    BY <2>5 DEF TypeInv, TypeOK
  <2>7. p \in Runs => RunAt(p)'
    <3> SUFFICES ASSUME p \in Runs PROVE RunAt(p)'
      OBVIOUS
    <3>1. r = p /\ at[p].call = "audit"
      BY <1>7 DEF LogTransition, Subject
    <3>2. CASE n = "execute"
      BY <1>2, <1>5, <2>6, <3>1, <3>2 DEF RunAt, NextNode
    <3>3. CASE n = "decideAction"
      <4>1. at'[p] = IF NeedsApproval(p) THEN At("awaitApproval", "lock")
                                         ELSE At("execute", "update")
        BY <2>6, <3>1, <3>3 DEF NextNode
      <4> QED
        BY <1>5, <4>1 DEF RunAt
    <3>4. CASE n \in {"receive", "loadContext", "compilePrompt", "callLlm"}
      BY <2>6, <3>1, <3>4 DEF RunAt, NextNode
    <3> QED
      BY <1>2, <3>1, <3>2, <3>3, <3>4 DEF RunAt
  <2>8. p \in Requests => RequestAt(p)'
    BY <1>2, <1>4, <1>7, <2>6 DEF LogTransition, RequestAt, NextNode
  <2> QED
    BY <2>3, <2>4, <2>5, <2>7, <2>8, <1>4, PlacesFrame DEF TypeInv
<1>8. CASE MarkFailed(p)
  <2>1. r \in Runs
    BY <1>3, <1>8 DEF MarkFailed
  <2>2. TypeOK'
    <3>1. /\ session' \in [Runs -> AgentStates \cup {"none"}]
          /\ been' \in [Runs -> SUBSET AgentStates]
      BY <1>8, <2>1 DEF MarkFailed, TypeInv, TypeOK, AgentStates
    <3>2. faults' \in 0..MaxFaults
      BY <1>8, FaultsAssumption DEF MarkFailed, TypeInv, TypeOK
    <3>3. at' \in [Procs -> [node : Nodes, call : Calls]]
      BY <1>1, <1>8 DEF MarkFailed, TypeInv, TypeOK
    <3> QED
      BY <1>8, <3>1, <3>2, <3>3 DEF MarkFailed, TypeInv, TypeOK
  <2>3. Goto(p, At(n, "end"))
    BY <1>8 DEF MarkFailed
  <2>4. at'[p] = At(n, "end")
    BY <2>3 DEF TypeInv, TypeOK
  <2>5. /\ p \in Runs => RunAt(p)'
        /\ p \in Requests => RequestAt(p)'
    BY <1>2, <1>4, <1>5, <1>8, <2>4 DEF MarkFailed, RunAt, RequestAt
  <2> QED
    BY <1>1, <1>4, <2>2, <2>3, <2>5, PlacesFrame DEF TypeInv
<1>9. CASE Throw(p)
  <2>1. Handler(at[p]) \in [node : Nodes, call : Calls]
    BY <1>1, HandlerType
  <2>2. TypeOK'
    BY <1>9, <2>1 DEF Throw, rows, TypeInv, TypeOK
  <2>3. Goto(p, Handler(at[p]))
    BY <1>9 DEF Throw
  <2>4. at'[p] = Handler(at[p])
    BY <2>3 DEF TypeInv, TypeOK
  <2>5. p \in Runs => RunAt(p)'
    BY <1>2, <1>5, <1>9, <2>4 DEF Throw, RunAt, Handler
  <2>6. p \in Requests => RequestAt(p)'
    BY <1>2, <1>4, <1>9, <2>4 DEF Throw, RequestAt, Handler
  <2> QED
    BY <1>4, <2>1, <2>2, <2>3, <2>5, <2>6, PlacesFrame DEF TypeInv
<1>10. CASE Crash(p)
  <2>1. TypeOK'
    BY <1>1, <1>10 DEF Crash, rows, TypeInv, TypeOK
  <2>2. Goto(p, At(n, "dead"))
    BY <1>10 DEF Crash
  <2>3. at'[p] = At(n, "dead")
    BY <2>2 DEF TypeInv, TypeOK
  <2>4. /\ p \in Runs => RunAt(p)'
        /\ p \in Requests => RequestAt(p)'
    BY <1>2, <1>4, <1>5, <1>10, <2>3 DEF Crash, InFlight, RunAt, RequestAt
  <2> QED
    BY <1>1, <1>4, <2>1, <2>2, <2>4, PlacesFrame DEF TypeInv
<1> QED
  BY <1>6, <1>7, <1>8, <1>9, <1>10 DEF NodeStep

(* The steps that only a run takes.                                         *)
LEMMA RunStepTypeInv ==
  ASSUME TypeInv, NEW r \in Runs, RunStep(r)
  PROVE  TypeInv'
<1>1. at[r] \in [node : Nodes, call : Calls] /\ r \in Procs /\ r \notin Requests
  BY RunsAssumption DEF TypeInv, TypeOK
<1>2. RunAt(r)
  BY DEF TypeInv, Places
<1>3. UNCHANGED << ask, req >>
  BY DEF RunStep, CreateSession, AcquireApprovalLock, CreatePendingApproval,
         ReleaseLock, Suspend
<1>4. TypeOK'
  <2>1. CASE CreateSession(r)
    BY <1>1, <2>1 DEF CreateSession, TypeInv, TypeOK, AgentStates
  <2>2. CASE AcquireApprovalLock(r)
    BY <1>1, <2>2, FaultsAssumption DEF AcquireApprovalLock, TypeInv, TypeOK
  <2>3. CASE CreatePendingApproval(r)
    BY <1>1, <2>3 DEF CreatePendingApproval, TypeInv, TypeOK
  <2>4. CASE ReleaseLock(r)
    BY <1>1, <2>4 DEF ReleaseLock, TypeInv, TypeOK
  <2>5. CASE Suspend(r)
    BY <1>1, <2>5 DEF Suspend, TypeInv, TypeOK, AgentStates
  <2> QED
    BY <2>1, <2>2, <2>3, <2>4, <2>5 DEF RunStep
<1>5. \E where \in [node : {"receive"}, call : {"update"}]
              \cup [node : {"awaitApproval"},
                    call : {"insert", "release", "suspend", "mark", "end"}] :
        Goto(r, where)
  <2>1. CASE CreateSession(r)
    BY <2>1 DEF CreateSession
  <2>2. CASE AcquireApprovalLock(r)
    <3>1. PICK call \in {"mark", "insert"} : Goto(r, At("awaitApproval", call))
      <4>1. PICK resent \in BOOLEAN :
              Goto(r, At("awaitApproval",
                         IF resent \/ r \in locks THEN "mark" ELSE "insert"))
        BY <2>2 DEF AcquireApprovalLock
      <4> QED
        BY <4>1
    <3> QED
      BY <3>1
  <2>3. CASE CreatePendingApproval(r)
    BY <2>3 DEF CreatePendingApproval
  <2>4. CASE ReleaseLock(r)
    <3>1. CASE at[r].call = "release"
      <4>1. Goto(r, At("awaitApproval", "suspend"))
        BY <2>4, <3>1 DEF ReleaseLock
      <4> QED
        BY <4>1
    <3>2. CASE at[r].call # "release"
      <4>1. Goto(r, At("awaitApproval", "mark"))
        BY <2>4, <3>2 DEF ReleaseLock
      <4> QED
        BY <4>1
    <3> QED
      BY <3>1, <3>2
  <2>5. CASE Suspend(r)
    BY <2>5 DEF Suspend
  <2> QED
    BY <2>1, <2>2, <2>3, <2>4, <2>5 DEF RunStep
<1>6. PICK where \in [node : {"receive"}, call : {"update"}]
                 \cup [node : {"awaitApproval"},
                       call : {"insert", "release", "suspend", "mark", "end"}] :
        Goto(r, where)
  BY <1>5
<1>7. at'[r] = where /\ where \in [node : Nodes, call : Calls]
  BY <1>1, <1>6 DEF TypeInv, TypeOK
<1>8. where.node = "awaitApproval" => at[r].node = "awaitApproval"
  <2>1. ~ CreateSession(r) => at[r].node = "awaitApproval"
    BY <1>2 DEF RunStep, AcquireApprovalLock, CreatePendingApproval, ReleaseLock,
       Suspend, RunAt
  <2>2. CreateSession(r) => at'[r].node = "receive"
    BY <1>1 DEF CreateSession, TypeInv, TypeOK
  <2> QED
    BY <1>7, <2>1, <2>2
<1>9. NeedsApproval(r)' <=> NeedsApproval(r)
  BY <1>3 DEF NeedsApproval, Decision
<1>10. RunAt(r)'
  BY <1>2, <1>6, <1>7, <1>8, <1>9 DEF RunAt
<1> QED
  BY <1>1, <1>3, <1>4, <1>6, <1>7, <1>10, PlacesFrame DEF TypeInv

(* The steps that only a request takes.                                     *)
LEMMA RequestStepTypeInv ==
  ASSUME TypeInv, NEW q \in Requests, RequestStep(q)
  PROVE  TypeInv'
<1>1. at[q] \in [node : Nodes, call : Calls] /\ q \in Procs /\ q \notin Runs
  BY RunsAssumption DEF TypeInv, TypeOK
<1>2. RequestAt(q)
  BY DEF TypeInv, Places
<1>3. UNCHANGED << ask, req >>
  BY DEF RequestStep, ResolveApproval, ReadApproval
<1>4. CASE ResolveApproval(q)
  <2>1. at[q].node = "approvals" /\ req[q] \in [kind : Kinds, run : Runs]
    BY <1>2, <1>4 DEF ResolveApproval, RequestAt
  <2>2. TypeOK'
    <3>1. PICK status \in {"approved", "rejected"} :
            approval' = [approval EXCEPT ![req[q].run] = status]
      BY <1>4 DEF ResolveApproval
    <3>2. approval' \in [Runs -> {"none", "pending", "approved", "rejected"}]
      BY <2>1, <3>1 DEF TypeInv, TypeOK
    <3>3. at' \in [Procs -> [node : Nodes, call : Calls]]
      <4>1. PICK where \in [node : Nodes, call : Calls] : Goto(q, where)
        <5>1. /\ At("awaitApproval", "read") \in [node : Nodes, call : Calls]
              /\ At("approvals", "end") \in [node : Nodes, call : Calls]
          OBVIOUS
        <5> QED
          BY <1>4, <5>1 DEF ResolveApproval
      <4> QED
        BY <4>1 DEF TypeInv, TypeOK
    <3>4. UNCHANGED << session, been, expired, locks, trail, performed, ask, req, faults >>
      BY <1>4 DEF ResolveApproval
    <3> QED
      BY <3>2, <3>3, <3>4 DEF TypeInv, TypeOK
  <2>3. PICK where \in [node : Nodes, call : Calls] :
          /\ Goto(q, where)
          /\ \/ where = At("awaitApproval", "read") /\ req[q].kind = "approve"
             \/ where = At("approvals", "end")
    <3>1. CASE req[q].kind = "approve"
      <4>1. Goto(q, At("awaitApproval", "read"))
        BY <1>4, <3>1 DEF ResolveApproval
      <4> QED
        BY <3>1, <4>1
    <3>2. CASE req[q].kind # "approve"
      <4>1. Goto(q, At("approvals", "end"))
        BY <1>4, <3>2 DEF ResolveApproval
      <4> QED
        BY <4>1
    <3> QED
      BY <3>1, <3>2
  <2>4. at'[q] = where
    BY <1>1, <2>3 DEF TypeInv, TypeOK
  <2>5. RequestAt(q)'
    BY <1>3, <2>1, <2>3, <2>4 DEF RequestAt
  <2> QED
    BY <1>1, <1>3, <2>2, <2>3, <2>5, PlacesFrame DEF TypeInv
<1>5. CASE ReadApproval(q)
  <2>1. at[q].node = "awaitApproval" /\ req[q] \in [kind : {"approve"}, run : Runs]
    BY <1>2, <1>5 DEF ReadApproval, RequestAt
  <2>2. PICK where \in [node : {"awaitApproval"}, call : {"update", "end", "mark"}] :
          Goto(q, where)
    <3> DEFINE call == CASE approval[req[q].run] = "approved" -> "update"
                         [] /\ approval[req[q].run] = "pending"
                            /\ req[q].run \notin expired -> "end"
                         [] OTHER -> "mark"
    <3>1. Goto(q, At("awaitApproval", call))
      BY <1>5 DEF ReadApproval
    <3>2. call \in {"update", "end", "mark"}
      OBVIOUS
    <3> HIDE DEF call
    <3> QED
      BY <3>1, <3>2
  <2>3. at'[q] = where /\ where \in [node : Nodes, call : Calls]
    BY <1>1, <2>2 DEF TypeInv, TypeOK
  <2>4. TypeOK'
    BY <1>1, <1>5, <2>2, <2>3 DEF ReadApproval, rows, TypeInv, TypeOK
  <2>5. RequestAt(q)'
    BY <1>3, <2>1, <2>3 DEF RequestAt
  <2> QED
    BY <1>1, <1>3, <2>2, <2>3, <2>4, <2>5, PlacesFrame DEF TypeInv
<1> QED
  BY <1>4, <1>5 DEF RequestStep

(* A message arrives.                                                       *)
LEMMA ReceiveTypeInv ==
  ASSUME TypeInv, NEW r \in Runs, NEW a \in Asks, Receive(r, a)
  PROVE  TypeInv'
<1>1. r \in Procs /\ r \notin Requests
  BY RunsAssumption
<1>2. PICK call \in {"create", "end"} : Goto(r, At("receive", call))
  BY DEF Receive
<1>3. at'[r] = At("receive", call) /\ At("receive", call) \in [node : Nodes, call : Calls]
  BY <1>1, <1>2 DEF TypeInv, TypeOK
<1>4. TypeOK'
  BY <1>1, <1>2, <1>3 DEF Receive, rows, TypeInv, TypeOK
<1>5. \A s \in Runs \ {r} : ask'[s] = ask[s]
  BY DEF Receive, TypeInv, TypeOK
<1>6. UNCHANGED req
  BY DEF Receive
<1>7. RunAt(r)'
  BY <1>3 DEF RunAt
<1> QED
  BY <1>1, <1>2, <1>3, <1>4, <1>5, <1>6, <1>7, PlacesFrame DEF TypeInv

(* A request arrives.                                                       *)
LEMMA FetchAndVerifyTypeInv ==
  ASSUME TypeInv, NEW q \in Requests, NEW k \in Kinds, NEW r \in Runs,
         FetchAndVerify(q, k, r)
  PROVE  TypeInv'
<1>1. q \in Procs /\ q \notin Runs
  BY RunsAssumption
<1>2. PICK call \in {"resolve", "end"} : Goto(q, At("approvals", call))
  <2> DEFINE c == IF approval[r] = "pending" THEN "resolve" ELSE "end"
  <2>1. Goto(q, At("approvals", c))
    BY DEF FetchAndVerify
  <2>2. c \in {"resolve", "end"}
    OBVIOUS
  <2> QED
    BY <2>1, <2>2
<1>3. /\ at'[q] = At("approvals", call)
      /\ At("approvals", call) \in [node : Nodes, call : Calls]
  BY <1>1, <1>2 DEF TypeInv, TypeOK
<1>4. req' = [req EXCEPT ![q] = [kind |-> k, run |-> r]]
  BY DEF FetchAndVerify
<1>5. TypeOK'
  BY <1>1, <1>2, <1>3, <1>4 DEF FetchAndVerify, rows, TypeInv, TypeOK
<1>6. \A s \in Requests \ {q} : req'[s] = req[s]
  BY <1>4 DEF TypeInv, TypeOK
<1>7. UNCHANGED ask
  BY DEF FetchAndVerify
<1>8. RequestAt(q)'
  BY <1>3, <1>4 DEF RequestAt, TypeInv, TypeOK
<1> QED
  BY <1>1, <1>2, <1>3, <1>5, <1>6, <1>7, <1>8, PlacesFrame DEF TypeInv

(* Steps that move no invocation.                                           *)
LEMMA PlacesUnchanged ==
  ASSUME Places, UNCHANGED << at, ask, req >>
  PROVE  Places'
<1>1. \A r \in Runs : NeedsApproval(r)' <=> NeedsApproval(r)
  BY DEF NeedsApproval, Decision
<1> QED
  BY <1>1 DEF Places, RunAt, RequestAt

LEMMA NextTypeInv ==
  ASSUME TypeInv, [Next]_vars
  PROVE  TypeInv'
<1>1. ASSUME NEW r \in Runs, NEW a \in Asks, Receive(r, a) PROVE TypeInv'
  BY <1>1, ReceiveTypeInv
<1>2. ASSUME NEW r \in Runs, RunStep(r) PROVE TypeInv'
  BY <1>2, RunStepTypeInv
<1>3. ASSUME NEW r \in Runs, ExpireApproval(r) PROVE TypeInv'
  <2>1. TypeOK'
    BY <1>3 DEF ExpireApproval, TypeInv, TypeOK
  <2> QED
    BY <1>3, <2>1, PlacesUnchanged DEF ExpireApproval, TypeInv
<1>4. ASSUME NEW r \in Runs, ExpireLock(r) PROVE TypeInv'
  <2>1. TypeOK'
    BY <1>4 DEF ExpireLock, TypeInv, TypeOK
  <2> QED
    BY <1>4, <2>1, PlacesUnchanged DEF ExpireLock, TypeInv
<1>5. ASSUME NEW q \in Requests, NEW k \in Kinds, NEW r \in Runs,
             FetchAndVerify(q, k, r)
      PROVE  TypeInv'
  BY <1>5, FetchAndVerifyTypeInv
<1>6. ASSUME NEW q \in Requests, RequestStep(q) PROVE TypeInv'
  BY <1>6, RequestStepTypeInv
<1>7. ASSUME NEW p \in Procs, NodeStep(p) \/ Throw(p) \/ Crash(p) PROVE TypeInv'
  BY <1>7, NodeStepTypeInv
<1>8. CASE UNCHANGED vars
  <2>1. TypeOK'
    BY <1>8 DEF vars, TypeInv, TypeOK
  <2> QED
    BY <1>8, <2>1, PlacesUnchanged DEF vars, TypeInv
<1> QED
  BY <1>1, <1>2, <1>3, <1>4, <1>5, <1>6, <1>7, <1>8 DEF Next

(* Every reachable state is a state of the right shape, and every           *)
(* invocation is at a place the code has: the type invariant of the run,    *)
(* for any number of runs, requests and faults.                             *)
THEOREM TypeCorrect == Spec => [](TypeOK /\ Places)
<1>1. Init => TypeInv
  BY InitTypeInv
<1>2. TypeInv /\ [Next]_vars => TypeInv'
  BY NextTypeInv
<1>3. TypeInv => TypeOK /\ Places
  BY DEF TypeInv
<1> QED
  BY <1>1, <1>2, <1>3, PTL DEF Spec

----------------------------------------------------------------------------
(* Invocations only move on: they do not become idle again, one that works  *)
(* on a granted approval keeps doing so, and execute is the last node.      *)

Onward(from, to) ==
  /\ from.node # "idle" => to.node # "idle"
  /\ from.node \in {"awaitApproval", "execute"} =>
       to.node \in {"awaitApproval", "execute"}
  /\ from.node = "execute" => to.node = "execute"

LEMMA NextNodeOnward ==
  ASSUME NEW r, NEW where \in [node : Nodes \ {"idle", "approvals"}, call : Calls]
  PROVE  Onward(where, NextNode(where.node, r))
BY DEF Onward, NextNode

LEMMA HandlerOnward ==
  ASSUME NEW where \in [node : Nodes, call : Calls]
  PROVE  Onward(where, Handler(where))
BY DEF Onward, Handler

LEMMA InvocationsMoveOn ==
  ASSUME TypeInv, [Next]_vars, NEW p \in Procs
  PROVE  Onward(at[p], at'[p])
<1>1. /\ at \in [Procs -> [node : Nodes, call : Calls]]
      /\ \A r \in Runs : RunAt(r)
      /\ \A q \in Requests : RequestAt(q)
  BY DEF TypeInv, TypeOK, Places
<1>2. CASE UNCHANGED at
  BY <1>2 DEF Onward
<1>3. ASSUME NEW r \in Runs, NEW a \in Asks, Receive(r, a)
      PROVE  Onward(at[p], at'[p])
  <2>1. at[r] = At("idle", "idle")
    BY <1>3 DEF Receive
  <2>2. PICK call \in {"create", "end"} : Goto(r, At("receive", call))
    BY <1>3 DEF Receive
  <2> QED
    BY <1>1, <2>1, <2>2 DEF Onward
<1>4. ASSUME NEW r \in Runs, RunStep(r)
      PROVE  Onward(at[p], at'[p])
  <2>1. CASE CreateSession(r)
    BY <1>1, <2>1 DEF CreateSession, Onward
  <2>2. CASE AcquireApprovalLock(r)
    <3>1. at[r].node = "awaitApproval"
      BY <1>1, <2>2, RunsAssumption DEF AcquireApprovalLock, RunAt
    <3>2. \E call \in {"mark", "insert"} : Goto(r, At("awaitApproval", call))
      BY <2>2 DEF AcquireApprovalLock
    <3> QED
      BY <1>1, <3>1, <3>2 DEF Onward
  <2>3. CASE CreatePendingApproval(r)
    <3>1. at[r].node = "awaitApproval"
      BY <1>1, <2>3, RunsAssumption DEF CreatePendingApproval, RunAt
    <3> QED
      BY <1>1, <2>3, <3>1 DEF CreatePendingApproval, Onward
  <2>4. CASE ReleaseLock(r)
    <3>1. at[r].node = "awaitApproval"
      BY <1>1, <2>4, RunsAssumption DEF ReleaseLock, RunAt
    <3>2. PICK call : Goto(r, At("awaitApproval", call))
      BY <2>4 DEF ReleaseLock
    <3> QED
      BY <1>1, <3>1, <3>2 DEF Onward
  <2>5. CASE Suspend(r)
    <3>1. at[r].node = "awaitApproval"
      BY <1>1, <2>5, RunsAssumption DEF Suspend, RunAt
    <3> QED
      BY <1>1, <2>5, <3>1 DEF Suspend, Onward
  <2> QED
    BY <1>4, <2>1, <2>2, <2>3, <2>4, <2>5 DEF RunStep
<1>5. ASSUME NEW q \in Requests, NEW k \in Kinds, NEW r \in Runs,
             FetchAndVerify(q, k, r)
      PROVE  Onward(at[p], at'[p])
  <2>1. at[q] = At("idle", "idle")
    BY <1>5 DEF FetchAndVerify
  <2>2. PICK call : Goto(q, At("approvals", call))
    BY <1>5 DEF FetchAndVerify
  <2> QED
    BY <1>1, <2>1, <2>2 DEF Onward
<1>6. ASSUME NEW q \in Requests, RequestStep(q)
      PROVE  Onward(at[p], at'[p])
  <2>1. CASE ResolveApproval(q)
    <3>1. at[q].node = "approvals"
      BY <1>1, <2>1, RunsAssumption DEF ResolveApproval, RequestAt
    <3>2. PICK where \in { At("awaitApproval", "read"), At("approvals", "end") } :
            Goto(q, where)
      BY <2>1 DEF ResolveApproval
    <3> QED
      BY <1>1, <3>1, <3>2 DEF Onward
  <2>2. CASE ReadApproval(q)
    <3>1. at[q].node = "awaitApproval"
      BY <1>1, <2>2, RunsAssumption DEF ReadApproval, RequestAt
    <3>2. PICK call : Goto(q, At("awaitApproval", call))
      BY <2>2 DEF ReadApproval
    <3> QED
      BY <1>1, <3>1, <3>2 DEF Onward
  <2> QED
    BY <1>6, <2>1, <2>2 DEF RequestStep
<1>7. ASSUME NEW m \in Procs, NodeStep(m) \/ Throw(m) \/ Crash(m)
      PROVE  Onward(at[p], at'[p])
  <2>1. PICK where : Goto(m, where) /\ Onward(at[m], where)
    <3>1. CASE UpdateState(m) \/ MarkFailed(m) \/ Crash(m)
      <4>1. PICK call : Goto(m, At(at[m].node, call))
        BY <3>1 DEF UpdateState, MarkFailed, Crash
      <4>2. Onward(at[m], At(at[m].node, call))
        BY DEF Onward
      <4> QED
        BY <4>1, <4>2
    <3>2. CASE LogTransition(m)
      <4>1. at[m].node \in Nodes \ {"idle", "approvals"}
        BY <1>1, <3>2 DEF LogTransition, RunAt, RequestAt
      <4>2. at[m] \in [node : Nodes \ {"idle", "approvals"}, call : Calls]
        BY <1>1, <4>1
      <4>3. Goto(m, NextNode(at[m].node, Subject(m)))
        BY <3>2 DEF LogTransition
      <4> QED
        BY <4>2, <4>3, NextNodeOnward
    <3>3. CASE Throw(m)
      <4>1. Goto(m, Handler(at[m]))
        BY <3>3 DEF Throw
      <4> QED
        BY <1>1, <4>1, HandlerOnward
    <3> QED
      BY <1>7, <3>1, <3>2, <3>3 DEF NodeStep
  <2>2. CASE m = p
    BY <1>1, <2>1, <2>2
  <2>3. CASE m # p
    BY <1>1, <2>1, <2>3 DEF Onward
  <2> QED
    BY <2>2, <2>3
<1> QED
  BY <1>2, <1>3, <1>4, <1>5, <1>6, <1>7 DEF Next, ExpireApproval, ExpireLock, vars

(* What a run was asked is settled when it starts.                          *)
LEMMA AskSettled ==
  ASSUME TypeInv, [Next]_vars, NEW r \in Runs, at[r].node # "idle"
  PROVE  NeedsApproval(r)' <=> NeedsApproval(r)
<1>1. ask'[r] = ask[r]
  <2>1. CASE UNCHANGED ask
    BY <2>1
  <2>2. ASSUME NEW s \in Runs, NEW a \in Asks, Receive(s, a) PROVE ask'[r] = ask[r]
    <3>1. s # r
      BY <2>2 DEF Receive
    <3> QED
      BY <2>2, <3>1 DEF Receive, TypeInv, TypeOK
  <2> QED
    BY <2>1, <2>2 DEF Next, RunStep, RequestStep, NodeStep, CreateSession,
       AcquireApprovalLock, CreatePendingApproval, ReleaseLock, Suspend,
       ExpireApproval, ExpireLock, FetchAndVerify, ResolveApproval, ReadApproval,
       UpdateState, LogTransition, MarkFailed, Throw, Crash, rows, vars
<1> QED
  BY <1>1 DEF NeedsApproval, Decision

(* What a request asks for is settled when it arrives.                      *)
LEMMA RequestSettled ==
  ASSUME TypeInv, [Next]_vars, NEW q \in Requests, at[q].node # "idle"
  PROVE  req'[q] = req[q]
<1>1. CASE UNCHANGED req
  BY <1>1
<1>2. ASSUME NEW s \in Requests, NEW k \in Kinds, NEW r \in Runs,
             FetchAndVerify(s, k, r)
      PROVE  req'[q] = req[q]
  <2>1. s # q
    BY <1>2 DEF FetchAndVerify
  <2> QED
    BY <1>2, <2>1 DEF FetchAndVerify, TypeInv, TypeOK
<1> QED
  BY <1>1, <1>2 DEF Next, RunStep, RequestStep, NodeStep, CreateSession,
     AcquireApprovalLock, CreatePendingApproval, ReleaseLock, Suspend,
     ExpireApproval, ExpireLock, Receive, ResolveApproval, ReadApproval,
     UpdateState, LogTransition, MarkFailed, Throw, Crash, rows, vars

(* An approval that was given stays given.                                  *)
LEMMA GrantedStable ==
  ASSUME TypeInv, [Next]_vars, NEW r \in Runs, Granted(r)
  PROVE  Granted(r)'
<1>1. PICK q \in Requests :
        req[q] = [kind |-> "approve", run |-> r] /\ at[q].node # "approvals"
  BY DEF Granted
<1>2. at[q].node \in {"awaitApproval", "execute"}
  BY <1>1, RequestAssumption DEF TypeInv, Places, RequestAt
<1>3. at'[q].node \in {"awaitApproval", "execute"}
  BY <1>2, InvocationsMoveOn DEF Onward
<1>4. req'[q] = req[q]
  BY <1>2, RequestSettled
<1> QED
  BY <1>1, <1>3, <1>4 DEF Granted

(* A request beyond the approvals service has granted its run's action.     *)
LEMMA ResumedIsGranted ==
  ASSUME TypeInv, NEW q \in Requests, at[q].node \in {"awaitApproval", "execute"}
  PROVE  req[q].run \in Runs /\ Granted(req[q].run)
<1>1. req[q] \in [kind : {"approve"}, run : Runs]
  BY DEF TypeInv, Places, RequestAt
<1> QED
  BY <1>1 DEF Granted

----------------------------------------------------------------------------

(* Only updateSessionState makes a session execute.                         *)
LEMMA ExecutingWrites ==
  ASSUME TypeInv, [Next]_vars, NEW r \in Runs,
         session'[r] \in {"EXECUTING", "COMPLETED"}, session'[r] # session[r]
  PROVE  \E p \in Procs : /\ UpdateState(p) /\ Subject(p) = r
                          /\ session'[r] = To(at[p].node, r)
<1>1. session \in [Runs -> AgentStates \cup {"none"}]
  BY DEF TypeInv, TypeOK
<1>2. ASSUME NEW p \in Procs, UpdateState(p)
      PROVE  Subject(p) = r /\ session'[r] = To(at[p].node, r)
  BY <1>1, <1>2 DEF UpdateState
<1>3. ASSUME NEW s \in Runs, CreateSession(s) \/ Suspend(s) PROVE FALSE
  BY <1>1, <1>3 DEF CreateSession, Suspend
<1>4. ASSUME NEW p \in Procs, MarkFailed(p) PROVE FALSE
  BY <1>1, <1>4 DEF MarkFailed
<1>5. CASE UNCHANGED session
  BY <1>5
<1> QED
  BY <1>2, <1>3, <1>4, <1>5 DEF Next, RunStep, RequestStep, NodeStep,
     AcquireApprovalLock, CreatePendingApproval, ReleaseLock, ExpireApproval,
     ExpireLock, Receive, FetchAndVerify, ResolveApproval, ReadApproval,
     LogTransition, Throw, Crash, rows, vars

(* Only the execute node performs an action.                                *)
LEMMA Performers ==
  ASSUME TypeInv, [Next]_vars, NEW p \in performed', p \notin performed
  PROVE  p \in Procs /\ UpdateState(p) /\ at[p].node = "execute"
<1>1. ASSUME NEW m \in Procs, UpdateState(m)
      PROVE  m = p /\ at[p].node = "execute"
  BY <1>1 DEF UpdateState
<1>2. ~ UNCHANGED performed
  OBVIOUS
<1> QED
  BY <1>1, <1>2 DEF Next, RunStep, RequestStep, NodeStep, CreateSession,
     AcquireApprovalLock, CreatePendingApproval, ReleaseLock, Suspend,
     ExpireApproval, ExpireLock, Receive, FetchAndVerify, ResolveApproval,
     ReadApproval, LogTransition, MarkFailed, Throw, Crash, rows, vars

LEMMA InitLegitimate == Init => Legitimate
BY DEF Init, Legitimate

LEMMA NextLegitimate ==
  ASSUME IInv, [Next]_vars
  PROVE  Legitimate'
<1>1. TypeInv /\ Legitimate
  BY DEF IInv
<1>2. ASSUME NEW p \in performed' PROVE at'[p].node = "execute"
  <2>1. p \in Procs /\ at[p].node = "execute"
    <3>1. CASE p \in performed
      BY <1>1, <3>1 DEF TypeInv, TypeOK, Legitimate
    <3>2. CASE p \notin performed
      BY <1>1, <3>2, Performers
    <3> QED
      BY <3>1, <3>2
  <2> QED
    BY <1>1, <2>1, InvocationsMoveOn DEF Onward
<1>3. ASSUME NEW r \in Runs, session'[r] \in {"EXECUTING", "COMPLETED"}
      PROVE  Granted(r)' \/ (at'[r].node # "idle" /\ ~NeedsApproval(r)')
  <2>1. Granted(r) \/ (at[r].node # "idle" /\ ~NeedsApproval(r))
    <3>1. CASE session'[r] = session[r]
      BY <1>1, <1>3, <3>1 DEF Legitimate
    <3>2. CASE session'[r] # session[r]
      <4>1. PICK p \in Procs : /\ UpdateState(p) /\ Subject(p) = r
                               /\ session'[r] = To(at[p].node, r)
        BY <1>1, <1>3, <3>2, ExecutingWrites
      <4>2. CASE p \in Requests
        <5>1. req[p].run = r /\ at[p].node \in {"awaitApproval", "execute"}
          BY <1>1, <4>1, <4>2, RunsAssumption
             DEF Subject, UpdateState, TypeInv, Places, RequestAt
        <5> QED
          BY <1>1, <4>2, <5>1, ResumedIsGranted
      <4>3. CASE p \in Runs
        <5>1. p = r /\ RunAt(r) /\ at[r].call = "update"
          BY <1>1, <4>1, <4>3 DEF Subject, UpdateState, TypeInv, Places
        <5>2. at[r].node \in {"decideAction", "execute"}
          BY <1>3, <4>1, <5>1 DEF RunAt, To
        <5>3. at[r].node = "decideAction" => ~NeedsApproval(r)
          BY <1>3, <4>1, <5>1 DEF To
        <5> QED
          BY <5>1, <5>2, <5>3 DEF RunAt
      <4> QED
        BY <4>2, <4>3
    <3> QED
      BY <3>1, <3>2
  <2>2. CASE Granted(r)
    BY <1>1, <2>2, GrantedStable
  <2>3. CASE at[r].node # "idle" /\ ~NeedsApproval(r)
    BY <1>1, <2>3, AskSettled, InvocationsMoveOn DEF Onward
  <2> QED
    BY <2>1, <2>2, <2>3
<1> QED
  BY <1>2, <1>3 DEF Legitimate

LEMMA LegitimateGates == IInv => NoApprovalBypass
<1> SUFFICES ASSUME IInv, NEW r \in Runs, NeedsApproval(r),
                    \/ session[r] \in {"EXECUTING", "COMPLETED"}
                    \/ \E p \in performed : Subject(p) = r
             PROVE  Granted(r)
  BY DEF NoApprovalBypass
<1>1. CASE session[r] \in {"EXECUTING", "COMPLETED"}
  BY <1>1 DEF IInv, Legitimate
<1>2. ASSUME NEW p \in performed, Subject(p) = r PROVE Granted(r)
  <2>1. p \in Procs /\ at[p].node = "execute"
    BY DEF IInv, TypeInv, TypeOK, Legitimate
  <2>2. p \notin Runs
    BY <1>2, <2>1 DEF Subject, IInv, TypeInv, Places, RunAt
  <2> QED
    BY <1>2, <2>1, <2>2, ResumedIsGranted DEF Subject, IInv
<1> QED
  BY <1>1, <1>2

LEMMA Inductive == Spec => []IInv
<1>1. Init => IInv
  BY InitTypeInv, InitLegitimate DEF IInv
<1>2. IInv /\ [Next]_vars => IInv'
  <2> SUFFICES ASSUME IInv, [Next]_vars PROVE IInv'
    OBVIOUS
  <2>1. TypeInv'
    BY NextTypeInv DEF IInv
  <2>2. Legitimate'
    BY NextLegitimate
  <2> QED
    BY <2>1, <2>2 DEF IInv
<1> QED
  BY <1>1, <1>2, PTL DEF Spec

(* The zero tolerance of the approval flow: whatever is concurrent, throws  *)
(* or dies, an action that needs an approval is done, and its session       *)
(* executes or is completed, only after somebody approved it.               *)
THEOREM ApprovalIsNeverBypassed == Spec => []NoApprovalBypass
BY Inductive, LegitimateGates, PTL

----------------------------------------------------------------------------
(* Refinement of ApprovalGate.  The gate is told of an action's need before *)
(* the action is granted or done, so approvals must belong to runs that     *)
(* have started and need one.                                               *)

Requested ==
  /\ \A r \in Runs : approval[r] # "none" => at[r].node # "idle" /\ NeedsApproval(r)
  /\ \A q \in Requests :
       at[q].call = "resolve" \/ at[q].node \in {"awaitApproval", "execute"} =>
         approval[req[q].run] # "none"

RInv == IInv /\ Requested

(* Approvals are only created by createPendingApproval, and never deleted.  *)
LEMMA ApprovalsCreated ==
  ASSUME TypeInv, [Next]_vars, NEW r \in Runs
  PROVE  /\ approval[r] # "none" => approval'[r] # "none"
         /\ approval[r] = "none" /\ approval'[r] # "none" =>
              \/ CreatePendingApproval(r)
              \/ \E q \in Requests : ResolveApproval(q) /\ req[q].run = r
<1>1. approval \in [Runs -> {"none", "pending", "approved", "rejected"}]
  BY DEF TypeInv, TypeOK
<1>2. CASE UNCHANGED approval
  BY <1>2
<1>3. ASSUME NEW s \in Runs, CreatePendingApproval(s)
      PROVE  (s = r /\ approval'[r] # "none") \/ approval'[r] = approval[r]
  BY <1>1, <1>3 DEF CreatePendingApproval
<1>4. ASSUME NEW q \in Requests, ResolveApproval(q)
      PROVE  (req[q].run = r /\ approval'[r] # "none") \/ approval'[r] = approval[r]
  BY <1>1, <1>4 DEF ResolveApproval
<1> QED
  BY <1>2, <1>3, <1>4 DEF Next, RunStep, RequestStep, NodeStep, CreateSession,
     AcquireApprovalLock, ReleaseLock, Suspend, ExpireApproval, ExpireLock,
     Receive, FetchAndVerify, ReadApproval, UpdateState, LogTransition,
     MarkFailed, Throw, Crash, rows, vars

(* A request gets to resolve an approval by finding it pending, and beyond  *)
(* the approvals service by resolving it.                                   *)
LEMMA RequestsProgress ==
  ASSUME TypeInv, [Next]_vars, NEW q \in Requests
  PROVE  /\ at'[q].call = "resolve" =>
              \/ at[q].call = "resolve"
              \/ /\ req'[q].run \in Runs
                 /\ approval[req'[q].run] = "pending" /\ approval' = approval
         /\ at'[q].node \in {"awaitApproval", "execute"} =>
              \/ at[q].node \in {"awaitApproval", "execute"}
              \/ ResolveApproval(q) /\ req[q].kind = "approve"
<1> DEFINE Goal == /\ at'[q].call = "resolve" =>
                        \/ at[q].call = "resolve"
                        \/ /\ req'[q].run \in Runs
                           /\ approval[req'[q].run] = "pending" /\ approval' = approval
                   /\ at'[q].node \in {"awaitApproval", "execute"} =>
                        \/ at[q].node \in {"awaitApproval", "execute"}
                        \/ ResolveApproval(q) /\ req[q].kind = "approve"
<1>1. /\ at \in [Procs -> [node : Nodes, call : Calls]]
      /\ req \in [Requests -> [kind : Kinds, run : Runs] \cup {NoRequest}]
      /\ RequestAt(q)
  BY DEF TypeInv, TypeOK, Places
<1>2. CASE at'[q] = at[q]
  BY <1>2
<1>3. ASSUME NEW k \in Kinds, NEW r \in Runs, FetchAndVerify(q, k, r) PROVE Goal
  <2>1. at'[q] = At("approvals", IF approval[r] = "pending" THEN "resolve" ELSE "end")
    BY <1>1, <1>3 DEF FetchAndVerify
  <2>2. req'[q] = [kind |-> k, run |-> r] /\ approval' = approval
    BY <1>1, <1>3 DEF FetchAndVerify, rows
  <2> QED
    BY <2>1, <2>2
<1>4. CASE ResolveApproval(q)
  <2>1. CASE req[q].kind = "approve"
    <3>1. at'[q] = At("awaitApproval", "read")
      BY <1>1, <1>4, <2>1 DEF ResolveApproval
    <3> QED
      BY <1>4, <2>1, <3>1
  <2>2. CASE req[q].kind # "approve"
    <3>1. at'[q] = At("approvals", "end")
      BY <1>1, <1>4, <2>2 DEF ResolveApproval
    <3> QED
      BY <3>1
  <2> QED
    BY <2>1, <2>2
<1>5. CASE ReadApproval(q)
  <2>1. at[q].node = "awaitApproval"
    BY <1>1, <1>5 DEF ReadApproval, RequestAt
  <2>2. at'[q].call # "resolve"
    <3> DEFINE call == CASE approval[req[q].run] = "approved" -> "update"
                         [] /\ approval[req[q].run] = "pending"
                            /\ req[q].run \notin expired -> "end"
                         [] OTHER -> "mark"
    <3>1. at'[q] = At("awaitApproval", call)
      BY <1>1, <1>5 DEF ReadApproval
    <3>2. call # "resolve"
      OBVIOUS
    <3> HIDE DEF call
    <3> QED
      BY <3>1, <3>2
  <2> QED
    BY <2>1, <2>2
<1>6. CASE NodeStep(q) \/ Throw(q) \/ Crash(q)
  <2>1. at'[q].call # "resolve"
    <3>1. CASE LogTransition(q)
      <4>1. at'[q] = NextNode(at[q].node, Subject(q))
        BY <1>1, <3>1 DEF LogTransition
      <4>2. at[q].node \in {"awaitApproval", "execute"}
        BY <1>1, <3>1 DEF LogTransition, RequestAt
      <4> QED
        BY <4>1, <4>2 DEF NextNode
    <3>2. CASE Throw(q)
      <4>1. at'[q] = Handler(at[q])
        BY <1>1, <3>2 DEF Throw
      <4> QED
        BY <4>1 DEF Handler
    <3>3. CASE UpdateState(q) \/ MarkFailed(q) \/ Crash(q)
      BY <1>1, <3>3 DEF UpdateState, MarkFailed, Crash
    <3> QED
      BY <1>6, <3>1, <3>2, <3>3 DEF NodeStep
  <2>2. at'[q].node \in {"awaitApproval", "execute"} =>
          at[q].node \in {"awaitApproval", "execute"}
    <3>1. CASE LogTransition(q)
      BY <1>1, <3>1 DEF LogTransition, RequestAt
    <3>2. CASE Throw(q)
      <4>1. at'[q] = Handler(at[q])
        BY <1>1, <3>2 DEF Throw
      <4>2. at'[q].node = at[q].node
        BY <4>1 DEF Handler
      <4> QED
        BY <4>2
    <3>3. CASE UpdateState(q) \/ MarkFailed(q) \/ Crash(q)
      BY <1>1, <3>3 DEF UpdateState, MarkFailed, Crash
    <3> QED
      BY <1>6, <3>1, <3>2, <3>3 DEF NodeStep
  <2> QED
    BY <2>1, <2>2
<1>7. ASSUME NEW p \in Procs, p # q, NEW where, Goto(p, where) PROVE at'[q] = at[q]
  BY <1>1, <1>7
<1>8. ASSUME NEW r \in Runs,
             (\E a \in Asks : Receive(r, a)) \/ RunStep(r)
      PROVE  at'[q] = at[q]
  <2>1. r \in Procs /\ r # q
    BY RunsAssumption
  <2>2. \E where : Goto(r, where)
    BY <1>8 DEF Receive, RunStep, CreateSession, AcquireApprovalLock,
       CreatePendingApproval, ReleaseLock, Suspend
  <2> QED
    BY <1>7, <2>1, <2>2
<1>9. ASSUME NEW s \in Requests, s # q,
             (\E k \in Kinds, r \in Runs : FetchAndVerify(s, k, r)) \/ RequestStep(s)
      PROVE  at'[q] = at[q]
  <2>1. \E where : Goto(s, where)
    BY <1>9 DEF FetchAndVerify, RequestStep, ResolveApproval, ReadApproval
  <2> QED
    BY <1>7, <1>9, <2>1
<1>10. ASSUME NEW p \in Procs, p # q, NodeStep(p) \/ Throw(p) \/ Crash(p)
       PROVE  at'[q] = at[q]
  <2>1. \E where : Goto(p, where)
    BY <1>10 DEF NodeStep, UpdateState, LogTransition, MarkFailed, Throw, Crash
  <2> QED
    BY <1>7, <1>10, <2>1
<1>11. CASE UNCHANGED at
  BY <1>2, <1>11
<1> HIDE DEF Goal
<1>12. at'[q] = at[q] => Goal
  BY <1>2 DEF Goal
<1>13. Goal
  BY <1>3, <1>4, <1>5, <1>6, <1>8, <1>9, <1>10, <1>11, <1>12
     DEF Next, RequestStep, ExpireApproval, ExpireLock, vars, Goal
<1> QED
  BY <1>13 DEF Goal

LEMMA InitRequested == Init => Requested
BY DEF Init, Requested

LEMMA NextRequested ==
  ASSUME RInv, [Next]_vars
  PROVE  Requested'
<1>1. TypeInv /\ Requested
  BY DEF RInv, IInv
<1>2. TypeInv'
  BY <1>1, NextTypeInv
<1>3. ASSUME NEW r \in Runs, approval'[r] # "none"
      PROVE  at'[r].node # "idle" /\ NeedsApproval(r)'
  <2>1. at[r].node # "idle" /\ NeedsApproval(r)
    <3>1. CASE approval[r] # "none"
      BY <1>1, <3>1 DEF Requested
    <3>2. CASE approval[r] = "none"
      <4>1. \/ CreatePendingApproval(r)
            \/ \E q \in Requests : ResolveApproval(q) /\ req[q].run = r
        BY <1>1, <1>3, <3>2, ApprovalsCreated
      <4>2. CASE CreatePendingApproval(r)
        BY <1>1, <4>2 DEF CreatePendingApproval, TypeInv, Places, RunAt
      <4>3. ASSUME NEW q \in Requests, ResolveApproval(q), req[q].run = r PROVE FALSE
        BY <1>1, <3>2, <4>3 DEF ResolveApproval, Requested
      <4> QED
        BY <4>1, <4>2, <4>3
    <3> QED
      BY <3>1, <3>2
  <2> QED
    BY <1>1, <2>1, AskSettled, InvocationsMoveOn DEF Onward
<1>4. ASSUME NEW q \in Requests,
             at'[q].call = "resolve" \/ at'[q].node \in {"awaitApproval", "execute"}
      PROVE  approval'[req'[q].run] # "none"
  <2>1. CASE at[q].call = "resolve" \/ at[q].node \in {"awaitApproval", "execute"}
    <3>1. req[q].run \in Runs /\ at[q].node # "idle"
      BY <1>1, <2>1 DEF TypeInv, Places, RequestAt
    <3>2. req'[q] = req[q]
      BY <1>1, <3>1, RequestSettled
    <3>3. approval[req[q].run] # "none"
      BY <1>1, <2>1 DEF Requested
    <3> QED
      BY <1>1, <3>1, <3>2, <3>3, ApprovalsCreated
  <2>2. CASE ~(at[q].call = "resolve" \/ at[q].node \in {"awaitApproval", "execute"})
    <3>1. at'[q].call = "resolve"
      BY <1>1, <1>4, <2>2, RequestsProgress DEF ResolveApproval
    <3>2. /\ req'[q].run \in Runs
          /\ approval[req'[q].run] = "pending" /\ approval' = approval
      BY <1>1, <2>2, <3>1, RequestsProgress
    <3> QED
      BY <3>2
  <2> QED
    BY <2>1, <2>2
<1> QED
  BY <1>3, <1>4 DEF Requested

LEMMA RInductive == Spec => []RInv
<1>1. Init => RInv
  BY InitTypeInv, InitLegitimate, InitRequested DEF RInv, IInv
<1>2. RInv /\ [Next]_vars => RInv'
  <2> SUFFICES ASSUME RInv, [Next]_vars PROVE RInv'
    OBVIOUS
  <2>1. TypeInv' /\ Legitimate'
    BY NextTypeInv, NextLegitimate DEF RInv, IInv
  <2>2. Requested'
    BY NextRequested
  <2> QED
    BY <2>1, <2>2 DEF RInv, IInv
<1> QED
  BY <1>1, <1>2, PTL DEF Spec

(* Membership in the three sets of the gate, and what a step changes.       *)
LEMMA GatedChanges ==
  ASSUME RInv, [Next]_vars, NEW r \in Runs
  PROVE  /\ NeedsApproval(r) => NeedsApproval(r)'
         /\ NeedsApproval(r)' /\ ~NeedsApproval(r) => \E a \in Asks : Receive(r, a)
<1>1. TypeInv
  BY DEF RInv, IInv
<1>2. NeedsApproval(r) => at[r].node # "idle"
  BY <1>1 DEF TypeInv, Places, RunAt, NeedsApproval
<1>3. CASE at[r].node # "idle"
  BY <1>1, <1>3, AskSettled
<1>4. CASE at[r].node = "idle"
  <2>1. CASE ask'[r] = ask[r]
    BY <1>2, <1>4, <2>1 DEF NeedsApproval, Decision
  <2>2. ASSUME NEW s \in Runs, NEW a \in Asks, Receive(s, a)
        PROVE  s = r \/ ask'[r] = ask[r]
    BY <1>1, <2>2 DEF Receive, TypeInv, TypeOK
  <2>3. CASE UNCHANGED ask
    BY <2>1, <2>3
  <2> QED
    BY <1>2, <1>4, <2>1, <2>2, <2>3 DEF Next, RunStep, RequestStep, NodeStep, CreateSession,
       AcquireApprovalLock, CreatePendingApproval, ReleaseLock, Suspend,
       ExpireApproval, ExpireLock, FetchAndVerify, ResolveApproval, ReadApproval,
       UpdateState, LogTransition, MarkFailed, Throw, Crash, rows, vars
<1> QED
  BY <1>3, <1>4

LEMMA GrantedChanges ==
  ASSUME RInv, [Next]_vars, NEW r \in Runs
  PROVE  /\ Granted(r) => Granted(r)'
         /\ Granted(r)' /\ ~Granted(r) =>
              \E q \in Requests : ResolveApproval(q) /\ req[q].run = r
<1>1. TypeInv /\ TypeInv'
  BY NextTypeInv DEF RInv, IInv
<1>2. Granted(r) => Granted(r)'
  BY <1>1, GrantedStable
<1>3. ASSUME Granted(r)', ~Granted(r)
      PROVE  \E q \in Requests : ResolveApproval(q) /\ req[q].run = r
  <2>1. PICK q \in Requests :
          req'[q] = [kind |-> "approve", run |-> r] /\ at'[q].node # "approvals"
    BY <1>3 DEF Granted
  <2>2. at'[q].node \in {"awaitApproval", "execute"}
    BY <1>1, <2>1, RequestAssumption DEF TypeInv, Places, RequestAt
  <2>3. \/ at[q].node \in {"awaitApproval", "execute"}
        \/ ResolveApproval(q) /\ req[q].kind = "approve"
    BY <1>1, <2>2, RequestsProgress
  <2>4. at[q].node # "idle"
    BY <1>1, <2>3 DEF ResolveApproval, TypeInv, Places, RequestAt
  <2>5. req'[q] = req[q]
    BY <1>1, <2>4, RequestSettled
  <2>6. at[q].node \notin {"awaitApproval", "execute"}
    BY <1>3, <2>1, <2>5 DEF Granted
  <2> QED
    BY <2>1, <2>3, <2>5, <2>6
<1> QED
  BY <1>2, <1>3

(* Whose action an invocation did does not change afterwards.               *)
LEMMA DoneChanges ==
  ASSUME RInv, [Next]_vars
  PROVE  /\ \A p \in performed : p \in performed' /\ Subject(p)' = Subject(p)
         /\ \A p \in performed' \ performed :
              /\ p \in Procs /\ UpdateState(p) /\ at[p].node = "execute"
              /\ performed' = performed \cup {p} /\ Subject(p)' = Subject(p)
<1>1. TypeInv /\ Legitimate
  BY DEF RInv, IInv
<1>2. ASSUME NEW p \in performed PROVE p \in performed' /\ Subject(p)' = Subject(p)
  <2>1. p \in Procs /\ at[p].node = "execute"
    BY <1>1 DEF TypeInv, TypeOK, Legitimate
  <2>2. Subject(p)' = Subject(p)
    BY <1>1, <2>1, RequestSettled DEF Subject
  <2>3. performed \subseteq performed'
    BY DEF Next, RunStep, RequestStep, NodeStep, CreateSession,
       AcquireApprovalLock, CreatePendingApproval, ReleaseLock, Suspend,
       ExpireApproval, ExpireLock, Receive, FetchAndVerify, ResolveApproval,
       ReadApproval, UpdateState, LogTransition, MarkFailed, Throw, Crash, rows, vars
  <2> QED
    BY <2>2, <2>3
<1>3. ASSUME NEW p \in performed', p \notin performed
      PROVE  /\ p \in Procs /\ UpdateState(p) /\ at[p].node = "execute"
             /\ performed' = performed \cup {p} /\ Subject(p)' = Subject(p)
  <2>1. p \in Procs /\ UpdateState(p) /\ at[p].node = "execute"
    BY <1>1, <1>3, Performers
  <2> QED
    BY <2>1 DEF UpdateState, Subject
<1> QED
  BY <1>2, <1>3

(* Receiving a message is the only step that gates an action, and it does   *)
(* nothing else the gate sees.                                              *)
LEMMA ReceiveGates ==
  ASSUME RInv, [Next]_vars, NEW r \in Runs, NEW a \in Asks, Receive(r, a)
  PROVE  /\ r \notin { Subject(p) : p \in performed }
         /\ \A s \in Runs : NeedsApproval(s)' => NeedsApproval(s) \/ s = r
         /\ \A s \in Runs : Granted(s)' <=> Granted(s)
         /\ \A p \in performed' : p \in performed
<1>1. TypeInv /\ Legitimate /\ Requested
  BY DEF RInv, IInv
<1>2. at[r].node = "idle" /\ performed' = performed
  BY DEF Receive, rows
<1>3. ASSUME NEW p \in performed, Subject(p) = r PROVE FALSE
  <2>1. p \in Procs /\ at[p].node = "execute"
    BY <1>1 DEF TypeInv, TypeOK, Legitimate
  <2>2. p \in Requests /\ req[p].run = r
    BY <1>2, <1>3, <2>1 DEF Subject
  <2>3. approval[r] # "none"
    BY <1>1, <2>1, <2>2 DEF Requested
  <2> QED
    BY <1>1, <1>2, <2>3 DEF Requested
<1>4. ASSUME NEW s \in Runs, s # r PROVE NeedsApproval(s)' <=> NeedsApproval(s)
  <2>1. ask'[s] = ask[s]
    BY <1>1, <1>4 DEF Receive, TypeInv, TypeOK
  <2> QED
    BY <2>1 DEF NeedsApproval, Decision
<1>5. ask' # ask
  BY <1>1, <1>2, AsksAssumption DEF Receive, TypeInv, TypeOK, Places, RunAt
<1>6. ASSUME NEW s \in Runs PROVE Granted(s)' <=> Granted(s)
  BY <1>5, GrantedChanges DEF ResolveApproval
<1> QED
  BY <1>2, <1>3, <1>4, <1>6

(* Resolving an approval is the only step that grants an action, one that   *)
(* is gated.                                                                *)
LEMMA ResolveGrants ==
  ASSUME RInv, [Next]_vars, NEW q \in Requests, ResolveApproval(q), req[q].run \in Runs
  PROVE  /\ NeedsApproval(req[q].run)
         /\ \A s \in Runs : NeedsApproval(s)' <=> NeedsApproval(s)
         /\ \A s \in Runs : Granted(s)' => Granted(s) \/ s = req[q].run
         /\ \A p \in performed' : p \in performed
<1>1. TypeInv /\ Requested
  BY DEF RInv, IInv
<1>2. at[q].call = "resolve" /\ UNCHANGED << ask, performed >>
  BY DEF ResolveApproval
<1>3. NeedsApproval(req[q].run)
  BY <1>1, <1>2 DEF Requested
<1>4. at'[q].call # "resolve"
  <2>1. at \in [Procs -> [node : Nodes, call : Calls]]
    BY <1>1 DEF TypeInv, TypeOK
  <2>2. CASE req[q].kind = "approve"
    BY <2>1, <2>2 DEF ResolveApproval
  <2>3. CASE req[q].kind # "approve"
    BY <2>1, <2>3 DEF ResolveApproval
  <2> QED
    BY <2>2, <2>3
<1>5. ASSUME NEW t \in Requests, ResolveApproval(t) PROVE t = q
  <2>1. \E where : Goto(t, where)
    BY <1>5 DEF ResolveApproval
  <2> QED
    BY <1>1, <1>2, <1>4, <2>1 DEF TypeInv, TypeOK
<1>6. ASSUME NEW s \in Runs, Granted(s)', ~Granted(s) PROVE s = req[q].run
  BY <1>5, <1>6, GrantedChanges
<1> QED
  BY <1>2, <1>3, <1>6 DEF NeedsApproval, Decision

(* The execute node is the only one that does an action, one that is not    *)
(* gated or was granted.                                                    *)
LEMMA ExecutePerforms ==
  ASSUME RInv, [Next]_vars, NEW p \in performed', p \notin performed
  PROVE  /\ Subject(p) \in Runs /\ (NeedsApproval(Subject(p)) => Granted(Subject(p)))
         /\ \A s \in Runs : NeedsApproval(s)' <=> NeedsApproval(s)
         /\ \A s \in Runs : Granted(s)' <=> Granted(s)
<1>1. TypeInv
  BY DEF RInv, IInv
<1>2. p \in Procs /\ UpdateState(p) /\ at[p].node = "execute"
  BY <1>1, Performers
<1>3. Subject(p) \in Runs /\ (NeedsApproval(Subject(p)) => Granted(Subject(p)))
  <2>1. CASE p \in Runs
    BY <1>1, <1>2, <2>1 DEF Subject, TypeInv, Places, RunAt
  <2>2. CASE p \in Requests
    BY <1>1, <1>2, <2>2, ResumedIsGranted, RunsAssumption DEF Subject
  <2> QED
    BY <1>2, <2>1, <2>2
<1>4. ask' = ask /\ performed' # performed
  BY <1>2 DEF UpdateState
<1>5. ASSUME NEW s \in Runs PROVE Granted(s)' <=> Granted(s)
  BY <1>4, GrantedChanges DEF ResolveApproval
<1> QED
  BY <1>3, <1>4, <1>5 DEF NeedsApproval, Decision

LEMMA GateStep ==
  ASSUME RInv, [Next]_vars
  PROVE  [Gate!GateNext]_(Gate!gateVars)
<1> DEFINE gated   == { r \in Runs : NeedsApproval(r) }
           granted == { r \in Runs : Granted(r) }
           done    == { Subject(p) : p \in performed }
<1>1. ASSUME NEW r \in Runs, NEW a \in Asks, Receive(r, a)
      PROVE  Gate!Require(r) \/ UNCHANGED Gate!gateVars
  <2>1. gated \subseteq gated' /\ gated' \subseteq gated \cup {r}
    BY <1>1, ReceiveGates, GatedChanges
  <2>2. granted' = granted
    BY <1>1, ReceiveGates
  <2>3. done' = done /\ r \notin done
    BY <1>1, ReceiveGates, DoneChanges
  <2>4. CASE r \in gated'
    BY <2>1, <2>2, <2>3, <2>4 DEF Gate!Require
  <2>5. CASE r \notin gated'
    BY <2>1, <2>2, <2>3, <2>5 DEF Gate!gateVars
  <2> QED
    BY <2>4, <2>5
<1>2. ASSUME NEW q \in Requests, ResolveApproval(q), req[q].run \in Runs
      PROVE  Gate!Grant(req[q].run) \/ UNCHANGED Gate!gateVars
  <2>1. gated' = gated /\ req[q].run \in gated
    BY <1>2, ResolveGrants
  <2>2. granted \subseteq granted' /\ granted' \subseteq granted \cup {req[q].run}
    BY <1>2, ResolveGrants, GrantedChanges
  <2>3. done' = done
    BY <1>2, ResolveGrants, DoneChanges
  <2>4. CASE req[q].run \in granted'
    BY <2>1, <2>2, <2>3, <2>4 DEF Gate!Grant
  <2>5. CASE req[q].run \notin granted'
    BY <2>1, <2>2, <2>3, <2>5 DEF Gate!gateVars
  <2> QED
    BY <2>4, <2>5
<1>3. ASSUME NEW p \in performed', p \notin performed
      PROVE  Gate!Perform(Subject(p))
  <2>1. gated' = gated /\ granted' = granted
    BY <1>3, ExecutePerforms
  <2>2. Subject(p) \in gated => Subject(p) \in granted
    BY <1>3, ExecutePerforms
  <2>3. done' = done \cup {Subject(p)}
    BY <1>3, DoneChanges
  <2> QED
    BY <2>1, <2>2, <2>3 DEF Gate!Perform
<1>4. CASE gated' = gated /\ granted' = granted /\ done' = done
  BY <1>4 DEF Gate!gateVars
<1>5. CASE gated' # gated
  <2>1. PICK r \in Runs, a \in Asks : Receive(r, a)
    BY <1>5, GatedChanges
  <2> QED
    BY <1>1, <2>1 DEF Gate!GateNext
<1>6. CASE granted' # granted
  <2>1. PICK q \in Requests : ResolveApproval(q) /\ req[q].run \in Runs
    BY <1>6, GrantedChanges
  <2> QED
    BY <1>2, <2>1 DEF Gate!GateNext
<1>7. CASE done' # done
  <2>1. PICK p \in performed' : p \notin performed
    BY <1>7, DoneChanges
  <2>2. Subject(p) \in Runs
    BY <2>1, ExecutePerforms
  <2> QED
    BY <1>3, <2>1, <2>2 DEF Gate!GateNext
<1> QED
  BY <1>4, <1>5, <1>6, <1>7

(* The whole pipeline is an implementation of ApprovalGate: seen from       *)
(* outside, actions are required to be approved, granted and done, in that  *)
(* order and for good.                                                      *)
THEOREM PipelineImplementsGate == Spec => ImplementsGate
<1>1. Init => Gate!GateInit
  <2> SUFFICES ASSUME Init PROVE Gate!GateInit
    OBVIOUS
  <2>1. \A r \in Runs : ~NeedsApproval(r)
    BY DEF Init, NeedsApproval
  <2>2. \A r \in Runs : ~Granted(r)
    BY RequestAssumption DEF Init, Granted
  <2>3. performed = {}
    BY DEF Init
  <2> QED
    BY <2>1, <2>2, <2>3 DEF Gate!GateInit
<1>2. RInv /\ [Next]_vars => [Gate!GateNext]_(Gate!gateVars)
  BY GateStep
<1> QED
  BY <1>1, <1>2, RInductive, PTL DEF Spec, ImplementsGate, Gate!GateSpec

----------------------------------------------------------------------------
(* What a step does to one invocation, one session, one approval and one    *)
(* trail.  The properties that follow are proved from these.                *)

RunMove(r) ==
  \/ \E a \in Asks : /\ Receive(r, a)
                     /\ at'[r] \in { At("receive", "create"), At("receive", "end") }
  \/ CreateSession(r) /\ at'[r] = At("receive", "update")
  \/ UpdateState(r) /\ at'[r] = At(at[r].node, "audit")
  \/ LogTransition(r) /\ at'[r] = NextNode(at[r].node, r)
  \/ /\ AcquireApprovalLock(r)
     /\ at'[r] \in { At("awaitApproval", "mark"), At("awaitApproval", "insert") }
  \/ CreatePendingApproval(r) /\ at'[r] = At("awaitApproval", "release")
  \/ /\ ReleaseLock(r)
     /\ at'[r] = At("awaitApproval", IF at[r].call = "release" THEN "suspend" ELSE "mark")
  \/ Suspend(r) /\ at'[r] = At("awaitApproval", "end")
  \/ MarkFailed(r) /\ at'[r] = At(at[r].node, "end")
  \/ Throw(r) /\ at'[r] = Handler(at[r])
  \/ Crash(r) /\ at'[r] = At(at[r].node, "dead")

RequestMove(q) ==
  \/ \E k \in Kinds, r \in Runs :
       /\ FetchAndVerify(q, k, r)
       /\ at'[q] \in { At("approvals", "resolve"), At("approvals", "end") }
  \/ ResolveApproval(q) /\ req[q].kind = "approve" /\ at'[q] = At("awaitApproval", "read")
  \/ ResolveApproval(q) /\ req[q].kind # "approve" /\ at'[q] = At("approvals", "end")
  \/ /\ ReadApproval(q)
     /\ at'[q] \in { At("awaitApproval", "update"), At("awaitApproval", "end"),
                     At("awaitApproval", "mark") }
  \/ UpdateState(q) /\ at'[q] = At(at[q].node, "audit")
  \/ LogTransition(q) /\ at'[q] = NextNode(at[q].node, req[q].run)
  \/ MarkFailed(q) /\ at'[q] = At(at[q].node, "end")
  \/ Throw(q) /\ at'[q] = Handler(at[q])
  \/ Crash(q) /\ at'[q] = At(at[q].node, "dead")

(* Who takes a step, and that nobody else moves.                            *)
LEMMA OneMoves ==
  ASSUME TypeInv, NEW p \in Procs, NEW where, Goto(p, where)
  PROVE  at'[p] = where /\ \A o \in Procs \ {p} : at'[o] = at[o]
BY DEF TypeInv, TypeOK

LEMMA RunActs ==
  ASSUME TypeInv, NEW r \in Runs,
         \/ \E a \in Asks : Receive(r, a)
         \/ RunStep(r)
         \/ NodeStep(r) \/ Throw(r) \/ Crash(r)
  PROVE  RunMove(r) /\ \A o \in Procs \ {r} : at'[o] = at[o]
<1>1. ASSUME NEW a \in Asks, Receive(r, a)
      PROVE  RunMove(r) /\ \A o \in Procs \ {r} : at'[o] = at[o]
  <2>1. \E where \in { At("receive", "create"), At("receive", "end") } : Goto(r, where)
    BY <1>1 DEF Receive
  <2>2. at'[r] \in { At("receive", "create"), At("receive", "end") }
        /\ \A o \in Procs \ {r} : at'[o] = at[o]
    BY <2>1, OneMoves
  <2> QED
    BY <1>1, <2>2 DEF RunMove
<1>2. CASE CreateSession(r)
  <2>1. Goto(r, At("receive", "update"))
    BY <1>2 DEF CreateSession
  <2>2. at'[r] = At("receive", "update") /\ \A o \in Procs \ {r} : at'[o] = at[o]
    BY <2>1, OneMoves
  <2> QED
    BY <1>2, <2>2 DEF RunMove
<1>3. CASE AcquireApprovalLock(r)
  <2>1. \E where \in { At("awaitApproval", "mark"), At("awaitApproval", "insert") } :
          Goto(r, where)
    BY <1>3 DEF AcquireApprovalLock
  <2>2. at'[r] \in { At("awaitApproval", "mark"), At("awaitApproval", "insert") }
        /\ \A o \in Procs \ {r} : at'[o] = at[o]
    BY <2>1, OneMoves
  <2> QED
    BY <1>3, <2>2 DEF RunMove
<1>4. CASE CreatePendingApproval(r)
  <2>1. Goto(r, At("awaitApproval", "release"))
    BY <1>4 DEF CreatePendingApproval
  <2>2. at'[r] = At("awaitApproval", "release") /\ \A o \in Procs \ {r} : at'[o] = at[o]
    BY <2>1, OneMoves
  <2> QED
    BY <1>4, <2>2 DEF RunMove
<1>5. CASE ReleaseLock(r)
  <2>1. Goto(r, At("awaitApproval", IF at[r].call = "release" THEN "suspend" ELSE "mark"))
    BY <1>5 DEF ReleaseLock
  <2>2. at'[r] = At("awaitApproval", IF at[r].call = "release" THEN "suspend" ELSE "mark")
        /\ \A o \in Procs \ {r} : at'[o] = at[o]
    BY <2>1, OneMoves
  <2> QED
    BY <1>5, <2>2 DEF RunMove
<1>6. CASE Suspend(r)
  <2>1. Goto(r, At("awaitApproval", "end"))
    BY <1>6 DEF Suspend
  <2>2. at'[r] = At("awaitApproval", "end") /\ \A o \in Procs \ {r} : at'[o] = at[o]
    BY <2>1, OneMoves
  <2> QED
    BY <1>6, <2>2 DEF RunMove
<1>7. CASE UpdateState(r)
  <2>1. Goto(r, At(at[r].node, "audit"))
    BY <1>7 DEF UpdateState
  <2>2. at'[r] = At(at[r].node, "audit") /\ \A o \in Procs \ {r} : at'[o] = at[o]
    BY <2>1, OneMoves
  <2> QED
    BY <1>7, <2>2 DEF RunMove
<1>8. CASE LogTransition(r)
  <2>1. Goto(r, NextNode(at[r].node, r))
    BY <1>8 DEF LogTransition, Subject
  <2>2. at'[r] = NextNode(at[r].node, r) /\ \A o \in Procs \ {r} : at'[o] = at[o]
    BY <2>1, OneMoves
  <2> QED
    BY <1>8, <2>2 DEF RunMove
<1>9. CASE MarkFailed(r)
  <2>1. Goto(r, At(at[r].node, "end"))
    BY <1>9 DEF MarkFailed
  <2>2. at'[r] = At(at[r].node, "end") /\ \A o \in Procs \ {r} : at'[o] = at[o]
    BY <2>1, OneMoves
  <2> QED
    BY <1>9, <2>2 DEF RunMove
<1>10. CASE Throw(r)
  <2>1. Goto(r, Handler(at[r]))
    BY <1>10 DEF Throw
  <2>2. at'[r] = Handler(at[r]) /\ \A o \in Procs \ {r} : at'[o] = at[o]
    BY <2>1, OneMoves
  <2> QED
    BY <1>10, <2>2 DEF RunMove
<1>11. CASE Crash(r)
  <2>1. Goto(r, At(at[r].node, "dead"))
    BY <1>11 DEF Crash
  <2>2. at'[r] = At(at[r].node, "dead") /\ \A o \in Procs \ {r} : at'[o] = at[o]
    BY <2>1, OneMoves
  <2> QED
    BY <1>11, <2>2 DEF RunMove
<1> QED
  BY <1>1, <1>2, <1>3, <1>4, <1>5, <1>6, <1>7, <1>8, <1>9, <1>10, <1>11
     DEF RunStep, NodeStep

LEMMA RequestActs ==
  ASSUME TypeInv, NEW q \in Requests,
         \/ \E k \in Kinds, r \in Runs : FetchAndVerify(q, k, r)
         \/ RequestStep(q)
         \/ NodeStep(q) \/ Throw(q) \/ Crash(q)
  PROVE  RequestMove(q) /\ \A o \in Procs \ {q} : at'[o] = at[o]
<1> q \notin Runs
  BY RunsAssumption
<1>1. ASSUME NEW k \in Kinds, NEW r \in Runs, FetchAndVerify(q, k, r)
      PROVE  RequestMove(q) /\ \A o \in Procs \ {q} : at'[o] = at[o]
  <2>1. \E where \in { At("approvals", "resolve"), At("approvals", "end") } : Goto(q, where)
    BY <1>1 DEF FetchAndVerify
  <2>2. at'[q] \in { At("approvals", "resolve"), At("approvals", "end") }
        /\ \A o \in Procs \ {q} : at'[o] = at[o]
    BY <2>1, OneMoves
  <2> QED
    BY <1>1, <2>2 DEF RequestMove
<1>2. CASE ResolveApproval(q)
  <2>1. CASE req[q].kind = "approve"
    <3>1. Goto(q, At("awaitApproval", "read"))
      BY <1>2, <2>1 DEF ResolveApproval
    <3>2. at'[q] = At("awaitApproval", "read") /\ \A o \in Procs \ {q} : at'[o] = at[o]
      BY <3>1, OneMoves
    <3> QED
      BY <1>2, <2>1, <3>2 DEF RequestMove
  <2>2. CASE req[q].kind # "approve"
    <3>1. Goto(q, At("approvals", "end"))
      BY <1>2, <2>2 DEF ResolveApproval
    <3>2. at'[q] = At("approvals", "end") /\ \A o \in Procs \ {q} : at'[o] = at[o]
      BY <3>1, OneMoves
    <3> QED
      BY <1>2, <2>2, <3>2 DEF RequestMove
  <2> QED
    BY <2>1, <2>2
<1>3. CASE ReadApproval(q)
  <2>1. \E where \in { At("awaitApproval", "update"), At("awaitApproval", "end"),
                       At("awaitApproval", "mark") } : Goto(q, where)
    BY <1>3 DEF ReadApproval
  <2>2. at'[q] \in { At("awaitApproval", "update"), At("awaitApproval", "end"),
                     At("awaitApproval", "mark") }
        /\ \A o \in Procs \ {q} : at'[o] = at[o]
    BY <2>1, OneMoves
  <2> QED
    BY <1>3, <2>2 DEF RequestMove
<1>4. CASE UpdateState(q)
  <2>1. Goto(q, At(at[q].node, "audit"))
    BY <1>4 DEF UpdateState
  <2>2. at'[q] = At(at[q].node, "audit") /\ \A o \in Procs \ {q} : at'[o] = at[o]
    BY <2>1, OneMoves
  <2> QED
    BY <1>4, <2>2 DEF RequestMove
<1>5. CASE LogTransition(q)
  <2>1. Goto(q, NextNode(at[q].node, req[q].run))
    BY <1>5 DEF LogTransition, Subject
  <2>2. at'[q] = NextNode(at[q].node, req[q].run) /\ \A o \in Procs \ {q} : at'[o] = at[o]
    BY <2>1, OneMoves
  <2> QED
    BY <1>5, <2>2 DEF RequestMove
<1>6. CASE MarkFailed(q)
  <2>1. Goto(q, At(at[q].node, "end"))
    BY <1>6 DEF MarkFailed
  <2>2. at'[q] = At(at[q].node, "end") /\ \A o \in Procs \ {q} : at'[o] = at[o]
    BY <2>1, OneMoves
  <2> QED
    BY <1>6, <2>2 DEF RequestMove
<1>7. CASE Throw(q)
  <2>1. Goto(q, Handler(at[q]))
    BY <1>7 DEF Throw
  <2>2. at'[q] = Handler(at[q]) /\ \A o \in Procs \ {q} : at'[o] = at[o]
    BY <2>1, OneMoves
  <2> QED
    BY <1>7, <2>2 DEF RequestMove
<1>8. CASE Crash(q)
  <2>1. Goto(q, At(at[q].node, "dead"))
    BY <1>8 DEF Crash
  <2>2. at'[q] = At(at[q].node, "dead") /\ \A o \in Procs \ {q} : at'[o] = at[o]
    BY <2>1, OneMoves
  <2> QED
    BY <1>8, <2>2 DEF RequestMove
<1> QED
  BY <1>1, <1>2, <1>3, <1>4, <1>5, <1>6, <1>7, <1>8 DEF RequestStep, NodeStep

LEMMA StepKinds ==
  ASSUME TypeInv, [Next]_vars
  PROVE  \/ \E r \in Runs : RunMove(r) /\ \A o \in Procs \ {r} : at'[o] = at[o]
         \/ \E q \in Requests : RequestMove(q) /\ \A o \in Procs \ {q} : at'[o] = at[o]
         \/ \E r \in Runs : ExpireApproval(r) \/ ExpireLock(r)
         \/ UNCHANGED vars
<1>1. ASSUME NEW r \in Runs, (\E a \in Asks : Receive(r, a)) \/ RunStep(r)
      PROVE  RunMove(r) /\ \A o \in Procs \ {r} : at'[o] = at[o]
  BY <1>1, RunActs
<1>2. ASSUME NEW q \in Requests,
             (\E k \in Kinds, r \in Runs : FetchAndVerify(q, k, r)) \/ RequestStep(q)
      PROVE  RequestMove(q) /\ \A o \in Procs \ {q} : at'[o] = at[o]
  BY <1>2, RequestActs
<1>3. ASSUME NEW p \in Procs, NodeStep(p) \/ Throw(p) \/ Crash(p)
      PROVE  \/ p \in Runs /\ RunMove(p) /\ \A o \in Procs \ {p} : at'[o] = at[o]
             \/ p \in Requests /\ RequestMove(p) /\ \A o \in Procs \ {p} : at'[o] = at[o]
  BY <1>3, RunActs, RequestActs
<1> QED
  BY <1>1, <1>2, <1>3 DEF Next

(* Where a run, or a request, is after a step: where it was, or moved.      *)
LEMMA RunMoves ==
  ASSUME TypeInv, [Next]_vars, NEW r \in Runs
  PROVE  at'[r] = at[r] \/ RunMove(r)
<1>1. r \notin Requests
  BY RunsAssumption
<1>2. CASE \E s \in Runs : ExpireApproval(s) \/ ExpireLock(s)
  BY <1>2 DEF ExpireApproval, ExpireLock
<1> QED
  BY <1>1, <1>2, StepKinds DEF vars

LEMMA RequestMoves ==
  ASSUME TypeInv, [Next]_vars, NEW q \in Requests
  PROVE  at'[q] = at[q] \/ RequestMove(q)
<1>1. q \notin Runs
  BY RunsAssumption
<1>2. CASE \E s \in Runs : ExpireApproval(s) \/ ExpireLock(s)
  BY <1>2 DEF ExpireApproval, ExpireLock
<1> QED
  BY <1>1, <1>2, StepKinds DEF vars

LEMMA SessionChanges ==
  ASSUME TypeInv, [Next]_vars, NEW r \in Runs, session'[r] # session[r]
  PROVE  \/ CreateSession(r) /\ session'[r] = "RECEIVED"
         \/ \E p \in Procs : /\ UpdateState(p) /\ Subject(p) = r
                             /\ session'[r] = To(at[p].node, r)
         \/ Suspend(r) /\ session'[r] = "AWAITING_APPROVAL"
         \/ \E p \in Procs : MarkFailed(p) /\ Subject(p) = r /\ session'[r] = "FAILED"
<1>1. session \in [Runs -> AgentStates \cup {"none"}]
  BY DEF TypeInv, TypeOK
<1>2. ASSUME NEW s \in Runs, CreateSession(s) PROVE s = r /\ session'[r] = "RECEIVED"
  BY <1>1, <1>2 DEF CreateSession
<1>3. ASSUME NEW p \in Procs, UpdateState(p)
      PROVE  Subject(p) = r /\ session'[r] = To(at[p].node, r)
  BY <1>1, <1>3 DEF UpdateState
<1>4. ASSUME NEW s \in Runs, Suspend(s) PROVE s = r /\ session'[r] = "AWAITING_APPROVAL"
  BY <1>1, <1>4 DEF Suspend
<1>5. ASSUME NEW p \in Procs, MarkFailed(p) PROVE Subject(p) = r /\ session'[r] = "FAILED"
  BY <1>1, <1>5 DEF MarkFailed
<1>6. ~UNCHANGED session
  OBVIOUS
<1> QED
  BY <1>2, <1>3, <1>4, <1>5, <1>6
     DEF Next, RunStep, RequestStep, NodeStep, AcquireApprovalLock, CreatePendingApproval,
         ReleaseLock, ExpireApproval, ExpireLock, Receive, FetchAndVerify, ResolveApproval,
         ReadApproval, LogTransition, Throw, Crash, rows, vars

LEMMA ApprovalChanges ==
  ASSUME TypeInv, [Next]_vars, NEW r \in Runs, approval'[r] # approval[r]
  PROVE  \/ CreatePendingApproval(r) /\ approval'[r] = "pending"
         \/ \E q \in Requests : /\ ResolveApproval(q) /\ req[q].run = r
                                /\ approval'[r] \in {"approved", "rejected"}
<1>1. approval \in [Runs -> {"none", "pending", "approved", "rejected"}]
  BY DEF TypeInv, TypeOK
<1>2. ASSUME NEW s \in Runs, CreatePendingApproval(s)
      PROVE  s = r /\ approval'[r] = "pending"
  BY <1>1, <1>2 DEF CreatePendingApproval
<1>3. ASSUME NEW q \in Requests, ResolveApproval(q)
      PROVE  req[q].run = r /\ approval'[r] \in {"approved", "rejected"}
  BY <1>1, <1>3 DEF ResolveApproval
<1>4. ~UNCHANGED approval
  OBVIOUS
<1> QED
  BY <1>2, <1>3, <1>4
     DEF Next, RunStep, RequestStep, NodeStep, CreateSession, AcquireApprovalLock,
         ReleaseLock, Suspend, ExpireApproval, ExpireLock, Receive, FetchAndVerify,
         ReadApproval, UpdateState, LogTransition, MarkFailed, Throw, Crash, rows, vars

----------------------------------------------------------------------------
(* Approvals are decided once their request resumes the graph: a run that   *)
(* has an approval has nothing left to insert.                              *)

Asked ==
  /\ \A r \in Runs : approval[r] # "none" =>
       at[r].node = "awaitApproval" /\ at[r].call \notin {"lock", "insert", "unwind"}
  /\ \A r \in Runs : at[r].call \in {"release", "suspend"} => approval[r] # "none"
  /\ \A q \in Requests :
       at[q].node \in {"awaitApproval", "execute"} =>
         approval[req[q].run] \in {"approved", "rejected"}

LEMMA NextAsked ==
  ASSUME RInv, Asked, [Next]_vars
  PROVE  Asked'
<1>1. TypeInv /\ Requested /\ TypeInv'
  BY NextTypeInv DEF RInv, IInv
<1>2. ASSUME NEW r \in Runs PROVE RunAt(r) /\ r \notin Requests
  BY <1>1, RunsAssumption DEF TypeInv, Places
<1>3. ASSUME NEW r \in Runs, approval'[r] # "none"
      PROVE  at'[r].node = "awaitApproval" /\ at'[r].call \notin {"lock", "insert", "unwind"}
  <2>1. CASE approval[r] = "none"
    <3>1. CreatePendingApproval(r)
      BY <1>1, <1>3, <2>1, ApprovalChanges DEF ResolveApproval, Requested
    <3>2. Goto(r, At("awaitApproval", "release"))
      BY <3>1 DEF CreatePendingApproval
    <3>3. at'[r] = At("awaitApproval", "release")
      BY <1>1, <3>2, OneMoves
    <3> QED
      BY <3>3
  <2>2. CASE approval[r] # "none"
    <3>1. at[r].node = "awaitApproval" /\ at[r].call \notin {"lock", "insert", "unwind"}
      BY <2>2 DEF Asked
    <3>2. at'[r] = at[r] \/ RunMove(r)
      BY <1>1, RunMoves
    <3>3. CASE RunMove(r)
      <4>1. at[r].call \in {"release", "suspend", "mark"} \cup Over
        BY <1>2, <3>1 DEF RunAt
      <4>2. ~(\E a \in Asks : Receive(r, a)) /\ ~CreateSession(r) /\ ~UpdateState(r)
            /\ ~LogTransition(r) /\ ~AcquireApprovalLock(r) /\ ~CreatePendingApproval(r)
        BY <4>1 DEF Receive, CreateSession, UpdateState, LogTransition,
                    AcquireApprovalLock, CreatePendingApproval
      <4>3. ReleaseLock(r) => at[r].call = "release"
        BY <4>1 DEF ReleaseLock
      <4>4. Handler(at[r]) = At("awaitApproval", "mark")
        BY <3>1, <4>1 DEF Handler
      <4> QED
        BY <3>1, <3>3, <4>2, <4>3, <4>4 DEF RunMove
    <3> QED
      BY <3>1, <3>2, <3>3
  <2> QED
    BY <2>1, <2>2
<1>4. ASSUME NEW r \in Runs, at'[r].call \in {"release", "suspend"}
      PROVE  approval'[r] # "none"
  <2>1. at'[r] = at[r] \/ RunMove(r)
    BY <1>1, RunMoves
  <2>2. approval[r] # "none" \/ CreatePendingApproval(r)
    <3>1. CASE at'[r] = at[r]
      BY <1>4, <3>1 DEF Asked
    <3>2. CASE LogTransition(r) /\ at'[r] = NextNode(at[r].node, r)
      BY <1>2, <1>4, <3>2 DEF LogTransition, NextNode, RunAt
    <3>3. CASE Throw(r) /\ at'[r] = Handler(at[r])
      BY <1>4, <3>3 DEF Handler
    <3>4. CASE ReleaseLock(r) /\ at'[r] = At("awaitApproval",
                                 IF at[r].call = "release" THEN "suspend" ELSE "mark")
      BY <1>4, <3>4 DEF Asked
    <3> QED
      BY <1>4, <2>1, <3>1, <3>2, <3>3, <3>4 DEF RunMove
  <2>3. CASE CreatePendingApproval(r)
    BY <1>1, <2>3 DEF CreatePendingApproval, TypeInv, TypeOK
  <2> QED
    BY <1>1, <2>2, <2>3, ApprovalsCreated
<1>5. ASSUME NEW q \in Requests, at'[q].node \in {"awaitApproval", "execute"}
      PROVE  approval'[req'[q].run] \in {"approved", "rejected"}
  <2>1. CASE at[q].node \in {"awaitApproval", "execute"}
    <3>1. req[q].run \in Runs /\ req'[q] = req[q]
      BY <1>1, <2>1, RequestSettled DEF TypeInv, Places, RequestAt
    <3>2. approval[req[q].run] \in {"approved", "rejected"}
      BY <2>1 DEF Asked
    <3>3. ~CreatePendingApproval(req[q].run)
      BY <3>1, <3>2 DEF CreatePendingApproval, Asked
    <3> QED
      BY <1>1, <3>1, <3>2, <3>3, ApprovalChanges
  <2>2. CASE ResolveApproval(q) /\ req[q].kind = "approve"
    <3>1. req[q].run \in Runs /\ req' = req
      BY <1>1, <2>2 DEF ResolveApproval, TypeInv, Places, RequestAt
    <3>2. approval' = [approval EXCEPT ![req[q].run] = "approved"]
      BY <2>2 DEF ResolveApproval
    <3> QED
      BY <1>1, <3>1, <3>2 DEF TypeInv, TypeOK
  <2> QED
    BY <1>1, <1>5, <2>1, <2>2, RequestsProgress
<1> QED
  BY <1>3, <1>4, <1>5 DEF Asked

LEMMA AlwaysAsked == Spec => [](RInv /\ Asked)
<1>1. Init => Asked
  BY DEF Init, Asked
<1> QED
  BY <1>1, NextAsked, RInductive, PTL DEF Spec

(* approvals.service.ts, await-approval.node.ts: a graph is only resumed by *)
(* a request that has decided the approval, and no run takes a decision     *)
(* back by inserting its row again.                                         *)
THEOREM ResumesAfterDecision == Spec => []ResumeSeesDecision
<1>1. RInv /\ Asked => ResumeSeesDecision
  <2> SUFFICES ASSUME RInv, Asked, NEW q \in Requests, at[q].call = "read"
               PROVE  approval[req[q].run] \in {"approved", "rejected"}
    BY DEF ResumeSeesDecision
  <2>1. at[q].node = "awaitApproval"
    BY DEF RInv, IInv, TypeInv, Places, RequestAt
  <2> QED
    BY <2>1 DEF Asked
<1> QED
  BY <1>1, AlwaysAsked, PTL

----------------------------------------------------------------------------
(* The order of a session's states.  Until its approval is requested only   *)
(* the run itself writes a session, and the node the run is in tells the    *)
(* state it finds.                                                          *)

InOrder(r) ==
  approval[r] = "none" =>
    /\ at[r].call \in {"idle", "create"} => session[r] = "none"
    /\ at[r].call = "update" => session[r] = From(at[r].node)
    /\ at[r].call = "audit" => session[r] = To(at[r].node, r)

Order == \A r \in Runs : InOrder(r)

LEMMA RunWrites ==
  ASSUME TypeInv, Asked, [Next]_vars, NEW r \in Runs, approval[r] = "none",
         session'[r] # session[r]
  PROVE  \/ /\ CreateSession(r) /\ session'[r] = "RECEIVED"
            /\ at'[r] = At("receive", "update")
         \/ /\ UpdateState(r) /\ session'[r] = To(at[r].node, r)
            /\ at'[r] = At(at[r].node, "audit")
         \/ /\ MarkFailed(r) /\ session'[r] = "FAILED"
            /\ at'[r] = At(at[r].node, "end")
<1>1. ASSUME NEW q \in Requests, UpdateState(q) \/ MarkFailed(q), Subject(q) = r
      PROVE  FALSE
  <2>1. q \notin Runs /\ RequestAt(q) /\ at[q].call \in {"update", "mark"}
    BY <1>1, RunsAssumption DEF TypeInv, Places, UpdateState, MarkFailed
  <2>2. at[q].node \in {"awaitApproval", "execute"} /\ req[q].run = r
    BY <1>1, <2>1 DEF RequestAt, Subject
  <2> QED
    BY <2>2 DEF Asked
<1>2. ~Suspend(r)
  BY DEF Suspend, Asked
<1>3. \/ CreateSession(r) /\ session'[r] = "RECEIVED"
      \/ UpdateState(r) /\ session'[r] = To(at[r].node, r)
      \/ MarkFailed(r) /\ session'[r] = "FAILED"
  BY <1>1, <1>2, SessionChanges DEF Subject
<1>4. /\ CreateSession(r) => at'[r] = At("receive", "update")
      /\ UpdateState(r) => at'[r] = At(at[r].node, "audit")
      /\ MarkFailed(r) => at'[r] = At(at[r].node, "end")
  BY OneMoves DEF CreateSession, UpdateState, MarkFailed
<1> QED
  BY <1>3, <1>4

LEMMA NextOrder ==
  ASSUME RInv, Asked, Order, [Next]_vars
  PROVE  Order'
<1> SUFFICES ASSUME NEW r \in Runs, approval'[r] = "none"
             PROVE  InOrder(r)'
  BY DEF Order, InOrder
<1>1. TypeInv /\ RunAt(r)
  BY DEF RInv, IInv, TypeInv, Places
<1>2. approval[r] = "none" /\ InOrder(r)
  BY <1>1, ApprovalsCreated DEF Order
<1>3. at[r].node # "idle" => To(at[r].node, r)' = To(at'[r].node, r)
  BY <1>1, AskSettled DEF To
<1>4. CASE session'[r] # session[r]
  <2>1. \/ session'[r] = "RECEIVED" /\ at'[r] = At("receive", "update")
        \/ /\ UpdateState(r) /\ session'[r] = To(at[r].node, r)
           /\ at'[r] = At(at[r].node, "audit")
        \/ at'[r] = At(at[r].node, "end")
    BY <1>1, <1>2, <1>4, RunWrites
  <2>2. UpdateState(r) => at[r].node # "idle"
    BY <1>1 DEF UpdateState, RunAt
  <2> QED
    BY <1>3, <2>1, <2>2 DEF InOrder, From
<1>5. CASE session'[r] = session[r]
  <2>1. at'[r] = at[r] \/ RunMove(r)
    BY <1>1, RunMoves
  <2>2. CASE at'[r] = at[r]
    <3>1. at[r].call = "audit" => at[r].node # "idle"
      BY <1>1 DEF RunAt
    <3> QED
      BY <1>2, <1>3, <1>5, <2>2, <3>1 DEF InOrder
  <2>3. CASE /\ \E a \in Asks : Receive(r, a)
             /\ at'[r] \in { At("receive", "create"), At("receive", "end") }
    <3>1. at[r].call = "idle"
      BY <2>3 DEF Receive
    <3> QED
      BY <1>2, <1>5, <2>3, <3>1 DEF InOrder
  <2>4. CASE LogTransition(r) /\ at'[r] = NextNode(at[r].node, r)
    <3>1. at[r].call = "audit" /\ session[r] = To(at[r].node, r)
      BY <1>2, <2>4 DEF LogTransition, InOrder
    <3>2. at[r].node \in Nodes \ {"idle", "approvals"}
      BY <1>1, <3>1 DEF RunAt
    <3>3. at'[r].call \in {"update", "lock", "end"}
      BY <2>4, <3>2 DEF NextNode
    <3>4. at'[r].call = "update" => session[r] = From(at'[r].node)
      BY <2>4, <3>1, <3>2 DEF NextNode, From, To
    <3> QED
      BY <1>5, <3>3, <3>4 DEF InOrder
  <2>5. CASE CreateSession(r) \/ UpdateState(r)
    <3>1. session'[r] = IF CreateSession(r) THEN "RECEIVED" ELSE To(at[r].node, r)
      BY <1>1, <2>5 DEF CreateSession, UpdateState, TypeInv, TypeOK, Subject
    <3>2. at'[r] = IF CreateSession(r) THEN At("receive", "update") ELSE At(at[r].node, "audit")
      BY <1>1, <2>5, OneMoves DEF CreateSession, UpdateState
    <3>3. UpdateState(r) => at[r].node # "idle"
      BY <1>1 DEF UpdateState, RunAt
    <3> QED
      BY <1>3, <2>5, <3>1, <3>2, <3>3 DEF InOrder, From
  <2>6. CASE Throw(r) /\ at'[r] = Handler(at[r])
    <3>1. at'[r].call \in {"end", "unwind", "mark"}
      BY <2>6 DEF Handler
    <3> QED
      BY <3>1 DEF InOrder
  <2> QED
    BY <2>1, <2>2, <2>3, <2>4, <2>5, <2>6 DEF RunMove, InOrder
<1> QED
  BY <1>4, <1>5

(* state-machine.ts and the nodes: until its approval is requested a        *)
(* session moves along VALID_TRANSITIONS or fails, and afterwards only      *)
(* among its last three states, although no write looks at what it          *)
(* overwrites.                                                              *)
THEOREM SessionsKeepTheOrder == Spec => LifecycleOrder
<1>1. Init => Order
  BY DEF Init, Order, InOrder
<1>2. RInv /\ Asked /\ Order /\ [Next]_vars => Order'
  BY NextOrder
<1>3. RInv /\ Asked /\ Order /\ [Next]_vars =>
        [\A r \in Runs :
           session'[r] # session[r] =>
             \/ session'[r] = "FAILED"
             \/ session[r] = "none" /\ session'[r] = "RECEIVED"
             \/ << session[r], session'[r] >> \in ValidTransitions
             \/ /\ approval[r] # "none"
                /\ session'[r] \in {"AWAITING_APPROVAL", "EXECUTING", "COMPLETED"}]_vars
  <2> SUFFICES ASSUME RInv, Asked, Order, [Next]_vars,
                      NEW r \in Runs, session'[r] # session[r]
               PROVE  \/ session'[r] = "FAILED"
                      \/ session[r] = "none" /\ session'[r] = "RECEIVED"
                      \/ << session[r], session'[r] >> \in ValidTransitions
                      \/ /\ approval[r] # "none"
                         /\ session'[r] \in {"AWAITING_APPROVAL", "EXECUTING", "COMPLETED"}
    OBVIOUS
  <2>1. TypeInv
    BY DEF RInv, IInv
  <2>2. CASE approval[r] = "none"
    <3>1. \/ CreateSession(r) /\ session'[r] = "RECEIVED"
          \/ UpdateState(r) /\ session'[r] = To(at[r].node, r)
          \/ session'[r] = "FAILED"
      BY <2>1, <2>2, RunWrites
    <3>2. CreateSession(r) => session[r] = "none"
      BY <2>2 DEF CreateSession, Order, InOrder
    <3>3. CASE UpdateState(r) /\ session'[r] = To(at[r].node, r)
      <4>1. at[r].call = "update" /\ session[r] = From(at[r].node)
        BY <2>2, <3>3 DEF UpdateState, Order, InOrder
      <4>2. at[r].node \in { "receive", "loadContext", "compilePrompt", "callLlm",
                             "decideAction", "execute" }
        BY <2>1, <4>1 DEF TypeInv, Places, RunAt
      <4> QED
        BY <3>3, <4>1, <4>2 DEF From, To, ValidTransitions
    <3> QED
      BY <3>1, <3>2, <3>3
  <2>3. CASE approval[r] # "none"
    <3>1. at[r].node = "awaitApproval"
      BY <2>3 DEF Asked
    <3>2. ~CreateSession(r)
      BY <3>1 DEF CreateSession
    <3>3. ASSUME NEW p \in Procs, UpdateState(p), Subject(p) = r
          PROVE  To(at[p].node, r) \in {"EXECUTING", "COMPLETED"}
      <4>1. at[p].call = "update"
        BY <3>3 DEF UpdateState
      <4>2. at[p].node \in {"awaitApproval", "execute"}
        BY <2>1, <3>1, <3>3, <4>1 DEF TypeInv, Places, RequestAt, Subject
      <4> QED
        BY <4>2 DEF To
    <3> QED
      BY <2>1, <2>3, <3>2, <3>3, SessionChanges
  <2> QED
    BY <2>2, <2>3
<1> QED
  BY <1>1, <1>2, <1>3, AlwaysAsked, PTL DEF Spec, LifecycleOrder

----------------------------------------------------------------------------
(* The audit trail.  An invocation enters a node only after the transition  *)
(* of the node before was logged: in a node, all that comes before the      *)
(* state it writes is in the trail.                                         *)

Reached(r, node) == PathBefore(r, To(node, r)) \subseteq trail[r]

Logged(p) ==
  \A r \in Runs, n \in Nodes \ {"idle", "approvals"} :
    Subject(p) = r /\ at[p].node = n => Reached(r, n)

(* It enters a node only when the session has been in the state the node    *)
(* leaves, and logs a transition only when it has been in both ends.        *)
Visited(p) ==
  \A r \in Runs, n \in Nodes \ {"idle", "approvals"} :
    Subject(p) = r /\ at[p].node = n =>
      /\ n # "receive" \/ at[p].call \in {"update", "audit"} => From(n) \in been[r]
      /\ at[p].call = "audit" => To(n, r) \in been[r]

TrailInv ==
  /\ \A p \in Procs : Logged(p) /\ Visited(p)
  /\ \A r \in Runs : PathBefore(r, session[r]) \subseteq trail[r]
  /\ \A r \in Runs : at[r].node = "idle" => been[r] = {}
  /\ TrailLagsByOne

LEMMA FirstStepsGrow ==
  /\ FirstSteps(1) = { << "RECEIVED", "CONTEXT_LOADED" >> }
  /\ FirstSteps(2) = FirstSteps(1) \cup { << "CONTEXT_LOADED", "PROMPT_COMPILED" >> }
  /\ FirstSteps(3) = FirstSteps(2) \cup { << "PROMPT_COMPILED", "LLM_CALLED" >> }
  /\ FirstSteps(4) = FirstSteps(3) \cup { << "LLM_CALLED", "ACTION_DECIDED" >> }
<1>1. 1..1 = {1} /\ 1..2 = {1, 2} /\ 1..3 = {1, 2, 3} /\ 1..4 = {1, 2, 3, 4}
  OBVIOUS
<1>2. /\ FirstSteps(1) = { FirstStep(1) }
      /\ FirstSteps(2) = { FirstStep(1), FirstStep(2) }
      /\ FirstSteps(3) = { FirstStep(1), FirstStep(2), FirstStep(3) }
      /\ FirstSteps(4) = { FirstStep(1), FirstStep(2), FirstStep(3), FirstStep(4) }
  BY <1>1 DEF FirstSteps
<1>3. /\ FirstStep(1) = << "RECEIVED", "CONTEXT_LOADED" >>
      /\ FirstStep(2) = << "CONTEXT_LOADED", "PROMPT_COMPILED" >>
      /\ FirstStep(3) = << "PROMPT_COMPILED", "LLM_CALLED" >>
      /\ FirstStep(4) = << "LLM_CALLED", "ACTION_DECIDED" >>
  BY DEF FirstStep
<1> QED
  BY <1>2, <1>3

(* Logging a node's transition is all the next node needs.                  *)
LEMMA NodesFollow ==
  ASSUME NEW r, NEW node \in Nodes \ {"idle", "approvals"},
         node = "awaitApproval" => NeedsApproval(r)
  PROVE  PathBefore(r, To(NextNode(node, r).node, r))
           \subseteq PathBefore(r, To(node, r)) \cup { << From(node), To(node, r) >> }
<1>3. CASE node = "receive"
  BY <1>3, FirstStepsGrow DEF PathBefore, To, From, NextNode
<1>4. CASE node = "loadContext"
  BY <1>4, FirstStepsGrow DEF PathBefore, To, From, NextNode
<1>5. CASE node = "compilePrompt"
  BY <1>5, FirstStepsGrow DEF PathBefore, To, From, NextNode
<1>6. CASE node = "callLlm"
  BY <1>6, FirstStepsGrow DEF PathBefore, To, From, NextNode
<1>2. CASE node \in { "decideAction", "awaitApproval", "execute" }
  BY <1>2 DEF PathBefore, To, From, NextNode, DecidedPath
<1> QED
  BY <1>2, <1>3, <1>4, <1>5, <1>6

LEMMA TrailGrows ==
  ASSUME TypeInv, [Next]_vars, NEW r \in Runs
  PROVE  trail[r] \subseteq trail'[r]
<1>1. trail \in [Runs -> SUBSET (AgentStates \X AgentStates)]
  BY DEF TypeInv, TypeOK
<1>2. ASSUME NEW p \in Procs, LogTransition(p) PROVE trail[r] \subseteq trail'[r]
  BY <1>1, <1>2 DEF LogTransition
<1>3. CASE UNCHANGED trail
  BY <1>3
<1> QED
  BY <1>2, <1>3
     DEF Next, RunStep, RequestStep, NodeStep, CreateSession, AcquireApprovalLock,
         CreatePendingApproval, ReleaseLock, Suspend, ExpireApproval, ExpireLock, Receive,
         FetchAndVerify, ResolveApproval, ReadApproval, UpdateState, MarkFailed, Throw,
         Crash, rows, vars

(* Once a run has started, what it has reached stays reached.               *)
LEMMA ReachedStable ==
  ASSUME TypeInv, [Next]_vars, NEW r \in Runs, NEW node \in Nodes, at[r].node # "idle",
         Reached(r, node)
  PROVE  Reached(r, node)'
<1>1. PathBefore(r, To(node, r))' = PathBefore(r, To(node, r))
  BY AskSettled DEF PathBefore, DecidedPath, To
<1> QED
  BY <1>1, TrailGrows DEF Reached

(* Whose node an invocation is in, and where it was before.                 *)
LEMMA NodeChanges ==
  ASSUME TypeInv, [Next]_vars, NEW p \in Procs, at'[p].node # at[p].node
  PROVE  \/ at'[p].node \in {"receive", "approvals"}
         \/ LogTransition(p) /\ at'[p] = NextNode(at[p].node, Subject(p))
         \/ p \in Requests /\ ResolveApproval(p) /\ at'[p].node = "awaitApproval"
<1>1. CASE p \in Runs
  <2>1. RunMove(p) /\ RunAt(p) /\ Subject(p) = p
    BY <1>1, RunMoves DEF TypeInv, Places, Subject
  <2>2. CreateSession(p) => at'[p].node = "receive"
    BY <2>1, OneMoves DEF CreateSession
  <2>3. at[p].call \in {"lock", "insert", "release", "unwind", "suspend"}
          => at[p].node = "awaitApproval"
    BY <2>1 DEF RunAt
  <2>4. /\ AcquireApprovalLock(p) => at[p].call = "lock"
        /\ CreatePendingApproval(p) => at[p].call = "insert"
        /\ ReleaseLock(p) => at[p].call \in {"release", "unwind"}
        /\ Suspend(p) => at[p].call = "suspend"
    BY DEF AcquireApprovalLock, CreatePendingApproval, ReleaseLock, Suspend
  <2>5. Handler(at[p]).node = at[p].node
    BY DEF Handler
  <2> QED
    BY <2>1, <2>2, <2>3, <2>4, <2>5 DEF RunMove
<1>2. CASE p \in Requests
  <2>1. RequestMove(p) /\ RequestAt(p) /\ Subject(p) = req[p].run
    BY <1>2, RequestMoves, RunsAssumption DEF TypeInv, Places, Subject
  <2>2. ReadApproval(p) => at[p].node = "awaitApproval"
    BY <2>1 DEF ReadApproval, RequestAt
  <2>3. Handler(at[p]).node = at[p].node
    BY DEF Handler
  <2> QED
    BY <1>2, <2>1, <2>2, <2>3 DEF RequestMove
<1> QED
  BY <1>1, <1>2

(* Past the receive node an invocation works on a run that has started.     *)
LEMMA SubjectKept ==
  ASSUME RInv, Asked, [Next]_vars, NEW p \in Procs, NEW r \in Runs,
         NEW n \in Nodes \ {"idle", "approvals", "receive"},
         Subject(p)' = r, at'[p].node = n
  PROVE  Subject(p) = r /\ at[r].node # "idle"
<1>1. TypeInv /\ TypeInv' /\ Requested
  BY NextTypeInv DEF RInv, IInv
<1>2. CASE p \in Runs
  <2>1. RunAt(p) /\ p = r
    BY <1>1, <1>2 DEF TypeInv, Places, Subject
  <2>2. LogTransition(p) => at[p].node # "idle"
    BY <2>1 DEF LogTransition, RunAt
  <2>3. at[p].node # "idle"
    BY <1>1, <1>2, <2>2, NodeChanges, RunsAssumption
  <2> QED
    BY <1>2, <2>1, <2>3 DEF Subject
<1>3. CASE p \in Requests
  <2>1. p \notin Runs /\ n \in {"awaitApproval", "execute"}
    BY <1>1, <1>3, RunsAssumption DEF TypeInv, Places, RequestAt
  <2>2. at[p].node # "idle"
    BY <1>1, <1>3, <2>1, RequestsProgress DEF ResolveApproval, TypeInv, Places, RequestAt
  <2>3. req'[p] = req[p] /\ req[p].run = r
    BY <1>1, <1>3, <2>1, <2>2, RequestSettled DEF Subject
  <2>4. approval[r] # "none"
    BY <1>1, <1>3, <2>1, <2>3, RequestsProgress DEF Requested, ResolveApproval
  <2> QED
    BY <2>1, <2>3, <2>4 DEF Asked, Subject
<1> QED
  BY <1>2, <1>3 DEF Procs

LEMMA NextLogged ==
  ASSUME RInv, Asked, TrailInv, [Next]_vars, NEW p \in Procs
  PROVE  Logged(p)'
<1> SUFFICES ASSUME NEW r \in Runs, NEW n \in Nodes \ {"idle", "approvals"},
                    Subject(p)' = r, at'[p].node = n
             PROVE  Reached(r, n)'
  BY DEF Logged
<1>1. TypeInv /\ TypeInv' /\ Requested
  BY NextTypeInv DEF RInv, IInv
<1>2. CASE n = "receive"
  BY <1>2 DEF Reached, PathBefore, To
<1>3. ASSUME n # "receive"
      PROVE  Subject(p) = r /\ at[r].node # "idle"
  BY <1>3, SubjectKept
<1>4. CASE n # "receive" /\ n = at[p].node
  BY <1>1, <1>3, <1>4, ReachedStable DEF TrailInv, Logged
<1>5. CASE n # "receive" /\ n # at[p].node
  <2>1. \/ LogTransition(p) /\ at'[p] = NextNode(at[p].node, r)
        \/ p \in Requests /\ ResolveApproval(p) /\ n = "awaitApproval"
    BY <1>1, <1>3, <1>5, NodeChanges
  <2>2. CASE LogTransition(p) /\ at'[p] = NextNode(at[p].node, r)
    <3>1. PICK m \in Nodes \ {"idle", "approvals"} :
            at[p].node = m /\ (m = "awaitApproval" => NeedsApproval(r))
      <4>1. /\ at[p].call = "audit" /\ (p \in Runs => RunAt(p) /\ p = r)
            /\ (p \in Requests => RequestAt(p) /\ p \notin Runs)
        BY <1>1, <1>3, <1>5, <2>2, RunsAssumption
           DEF LogTransition, TypeInv, Places, Subject
      <4>2. p \in Requests /\ at[p].node = "awaitApproval" => NeedsApproval(r)
        BY <1>1, <1>3, <1>5, <4>1 DEF Requested, Subject
      <4> QED
        BY <4>1, <4>2 DEF RunAt, RequestAt
    <3>2. Reached(r, m)
      BY <1>3, <1>5, <3>1 DEF TrailInv, Logged
    <3>3. trail'[r] = trail[r] \cup { << From(m), To(m, r) >> }
      BY <1>1, <1>3, <1>5, <2>2, <3>1 DEF LogTransition, TypeInv, TypeOK
    <3>4. n = NextNode(m, r).node
      BY <2>2, <3>1
    <3>5. PathBefore(r, To(n, r)) \subseteq trail'[r]
      BY <3>1, <3>2, <3>3, <3>4, NodesFollow DEF Reached
    <3>6. PathBefore(r, To(n, r))' = PathBefore(r, To(n, r))
      BY <1>1, <1>3, <1>5, AskSettled DEF PathBefore, DecidedPath, To
    <3> QED
      BY <3>5, <3>6 DEF Reached
  <2>3. CASE p \in Requests /\ ResolveApproval(p) /\ n = "awaitApproval"
    <3>1. approval[r] # "none"
      BY <1>1, <1>3, <1>5, <2>3, RunsAssumption DEF Requested, Subject, ResolveApproval
    <3>2. at[r].node = "awaitApproval"
      BY <3>1 DEF Asked
    <3>3. Reached(r, n)
      BY <2>3, <3>2 DEF TrailInv, Logged, Subject
    <3> QED
      BY <1>1, <1>3, <1>5, <3>3, ReachedStable
  <2> QED
    BY <2>1, <2>2, <2>3
<1> QED
  BY <1>2, <1>4, <1>5

LEMMA NextTrail ==
  ASSUME RInv, Asked, Order, TrailInv, [Next]_vars, NEW r \in Runs
  PROVE  (PathBefore(r, session[r]) \subseteq trail[r])'
<1>1. TypeInv /\ RunAt(r) /\ PathBefore(r, session[r]) \subseteq trail[r]
  BY DEF RInv, IInv, TypeInv, Places, TrailInv
<1>2. CASE session'[r] = session[r] /\ at[r].node = "idle"
  <2>1. approval[r] = "none" /\ at[r].call = "idle"
    BY <1>1, <1>2 DEF Asked, RunAt
  <2>2. session[r] = "none"
    BY <2>1 DEF Order, InOrder
  <2> QED
    BY <1>2, <2>2 DEF PathBefore
<1>3. CASE session'[r] = session[r] /\ at[r].node # "idle"
  <2>1. PathBefore(r, session[r])' = PathBefore(r, session[r])
    BY <1>1, <1>3, AskSettled DEF PathBefore, DecidedPath
  <2> QED
    BY <1>1, <2>1, TrailGrows
<1>4. CASE session'[r] \in {"RECEIVED", "FAILED"}
  BY <1>4 DEF PathBefore
<1>5. CASE Suspend(r) /\ session'[r] = "AWAITING_APPROVAL"
  <2>1. at[r].node = "awaitApproval" /\ NeedsApproval(r)
    BY <1>1, <1>5 DEF Suspend, RunAt
  <2>2. Reached(r, "awaitApproval")
    BY <2>1 DEF TrailInv, Logged, Subject
  <2>3. FirstSteps(4) \subseteq trail[r]
    BY <2>1, <2>2 DEF Reached, PathBefore, To, DecidedPath
  <2>4. PathBefore(r, session[r])' = FirstSteps(4)
    BY <1>5 DEF PathBefore
  <2> QED
    BY <1>1, <2>3, <2>4, TrailGrows
<1>6. ASSUME NEW p \in Procs, UpdateState(p), Subject(p) = r,
             session'[r] = To(at[p].node, r)
      PROVE  (PathBefore(r, session[r]) \subseteq trail[r])'
  <2>1. /\ p \in Runs => RunAt(p) /\ p = r
        /\ p \in Requests => RequestAt(p) /\ req[p].run = r
        /\ at[p].call = "update"
    BY <1>1, <1>6, RunsAssumption DEF TypeInv, Places, Subject, UpdateState
  <2>2. PICK n \in Nodes \ {"idle", "approvals"} : at[p].node = n
    BY <2>1 DEF RunAt, RequestAt
  <2>3. Reached(r, n)
    BY <1>6, <2>2 DEF TrailInv, Logged
  <2>4. at[r].node # "idle"
    BY <1>1, <2>1 DEF RunAt, RequestAt, Asked
  <2>5. Reached(r, n)' /\ To(n, r)' = To(n, r)
    BY <1>1, <2>3, <2>4, ReachedStable, AskSettled DEF To
  <2> QED
    BY <1>6, <2>2, <2>5 DEF Reached
<1> QED
  BY <1>1, <1>2, <1>3, <1>4, <1>5, <1>6, SessionChanges

(* What is written into a session is the state it is in afterwards.         *)
LEMMA BeenChanges ==
  ASSUME TypeInv, [Next]_vars, NEW r \in Runs
  PROVE  /\ been[r] \subseteq been'[r] /\ been'[r] \subseteq been[r] \cup {session'[r]}
         /\ CreateSession(r) => "RECEIVED" \in been'[r]
         /\ \A p \in Procs :
              UpdateState(p) /\ Subject(p) = r => To(at[p].node, r) \in been'[r]
<1> DEFINE Grows == been[r] \subseteq been'[r]
                    /\ been'[r] \subseteq been[r] \cup {session'[r]}
<1>1. /\ session \in [Runs -> AgentStates \cup {"none"}]
      /\ been \in [Runs -> SUBSET AgentStates]
  BY DEF TypeInv, TypeOK
<1>2. ASSUME NEW s \in Runs, CreateSession(s)
      PROVE  Grows /\ (s = r => "RECEIVED" \in been'[r])
  BY <1>1, <1>2 DEF CreateSession
<1>3. ASSUME NEW p \in Procs, UpdateState(p)
      PROVE  Grows /\ (Subject(p) = r => To(at[p].node, r) \in been'[r])
  <2>1. PICK o, new : /\ o = Subject(p) /\ new = To(at[p].node, o)
                      /\ session' = [session EXCEPT ![o] = new]
                      /\ been' = [been EXCEPT ![o] = @ \cup {new}]
    BY <1>3 DEF UpdateState
  <2> QED
    BY <1>1, <2>1
<1>4. ASSUME NEW s \in Runs, Suspend(s) PROVE Grows
  BY <1>1, <1>4 DEF Suspend
<1>5. ASSUME NEW p \in Procs, MarkFailed(p) PROVE Grows
  <2>1. CASE UNCHANGED been
    BY <2>1
  <2>2. CASE ~UNCHANGED been
    <3>1. PICK o : /\ session' = [session EXCEPT ![o] = "FAILED"]
                   /\ been' = [been EXCEPT ![o] = @ \cup {"FAILED"}]
      BY <1>5, <2>2 DEF MarkFailed
    <3> QED
      BY <1>1, <3>1
  <2> QED
    BY <2>1, <2>2
<1>6. ASSUME UNCHANGED been PROVE Grows
  BY <1>6
<1>7. Grows
  <2> HIDE DEF Grows
  <2> QED
    BY <1>2, <1>3, <1>4, <1>5, <1>6
       DEF Next, RunStep, RequestStep, NodeStep, AcquireApprovalLock, CreatePendingApproval,
           ReleaseLock, ExpireApproval, ExpireLock, Receive, FetchAndVerify, ResolveApproval,
           ReadApproval, LogTransition, Throw, Crash, rows, vars
<1> QED
  BY <1>2, <1>3, <1>7

LEMMA AuditEntered ==
  ASSUME TypeInv, [Next]_vars, NEW p \in Procs, at'[p].call = "audit"
  PROVE  at'[p] = at[p] \/ (UpdateState(p) /\ at'[p].node = at[p].node)
<1>1. Handler(at[p]).call # "audit"
  BY DEF Handler, At
<1>2. CASE p \in Runs
  <2>1. RunAt(p)
    BY <1>2 DEF TypeInv, Places
  <2>2. LogTransition(p) => NextNode(at[p].node, p).call # "audit"
    BY <2>1 DEF LogTransition, RunAt, NextNode, At
  <2>3. at'[p] # at[p] => UpdateState(p) /\ at'[p] = At(at[p].node, "audit")
    <3>1. at'[p] # at[p] => RunMove(p)
      BY <1>2, RunMoves
    <3>2. RunMove(p) /\ ~UpdateState(p) => at'[p].call # "audit"
      BY <1>1, <2>2 DEF RunMove
    <3>3. RunMove(p) /\ UpdateState(p) => at'[p] = At(at[p].node, "audit")
      BY <1>2, RunsAssumption, OneMoves DEF UpdateState
    <3> QED
      BY <3>1, <3>2, <3>3
  <2> QED
    BY <2>3
<1>3. CASE p \in Requests
  <2>1. RequestAt(p)
    BY <1>3 DEF TypeInv, Places
  <2>2. LogTransition(p) => NextNode(at[p].node, req[p].run).call # "audit"
    BY <2>1 DEF LogTransition, RequestAt, NextNode, At
  <2>3. at'[p] # at[p] => UpdateState(p) /\ at'[p] = At(at[p].node, "audit")
    <3>1. at'[p] # at[p] => RequestMove(p)
      BY <1>3, RequestMoves
    <3>2. RequestMove(p) /\ ~UpdateState(p) => at'[p].call # "audit"
      BY <1>1, <2>2 DEF RequestMove
    <3>3. RequestMove(p) /\ UpdateState(p) => at'[p] = At(at[p].node, "audit")
      BY <1>3, RunsAssumption, OneMoves DEF UpdateState
    <3> QED
      BY <3>1, <3>2, <3>3
  <2> QED
    BY <2>3
<1> QED
  BY <1>2, <1>3 DEF Procs

LEMMA NextVisited ==
  ASSUME RInv, Asked, TrailInv, [Next]_vars, NEW p \in Procs
  PROVE  Visited(p)'
<1> SUFFICES ASSUME NEW r \in Runs, NEW n \in Nodes \ {"idle", "approvals"},
                    Subject(p)' = r, at'[p].node = n
             PROVE  /\ n # "receive" \/ at'[p].call \in {"update", "audit"}
                         => From(n) \in been'[r]
                    /\ at'[p].call = "audit" => To(n, r)' \in been'[r]
  BY DEF Visited, From
<1>1. TypeInv /\ TypeInv' /\ Requested
  BY NextTypeInv DEF RInv, IInv
<1>2. CASE n = "receive"
  <2>1. p \in Runs /\ p = r
    BY <1>1, <1>2 DEF Procs, TypeInv, Places, RequestAt, Subject
  <2>2. Subject(p) = r
    BY <2>1 DEF Subject
  <2>3. CASE at'[p] = at[p]
    <3>1. /\ at[p].call \in {"update", "audit"} => From(n) \in been[r]
          /\ at[p].call = "audit" => To(n, r) \in been[r]
      BY <2>2, <2>3 DEF TrailInv, Visited
    <3>2. To(n, r)' = To(n, r)
      BY <1>2 DEF To
    <3> QED
      BY <1>1, <1>2, <2>3, <3>1, <3>2, BeenChanges
  <2>4. CASE CreateSession(p) /\ at'[p] = At("receive", "update")
    BY <1>1, <1>2, <2>1, <2>4, BeenChanges DEF From, At
  <2>5. CASE UpdateState(p) /\ at'[p] = At(at[p].node, "audit")
    <3>1. at[p].node = n /\ at[p].call = "update"
      BY <2>5 DEF UpdateState, At
    <3>2. From(n) \in been[r]
      BY <2>2, <3>1 DEF TrailInv, Visited
    <3>3. To(n, r) \in been'[r] /\ To(n, r)' = To(n, r)
      BY <1>1, <1>2, <2>2, <2>5, <3>1, BeenChanges DEF To
    <3> QED
      BY <1>1, <3>2, <3>3, BeenChanges
  <2>6. CASE at'[p].call \notin {"update", "audit"}
    BY <1>2, <2>6
  <2>7. LogTransition(p) => NextNode(at[p].node, p).node # "receive"
    BY <1>1, <2>1 DEF TypeInv, Places, LogTransition, RunAt, NextNode, At
  <2>8. Handler(at[p]).call \notin {"update", "audit"}
    BY DEF Handler, At
  <2>9. RunMove(p) => \/ CreateSession(p) /\ at'[p] = At("receive", "update")
                      \/ UpdateState(p) /\ at'[p] = At(at[p].node, "audit")
                      \/ LogTransition(p) /\ at'[p] = NextNode(at[p].node, p)
                      \/ at'[p].call \notin {"update", "audit"}
    BY <2>8 DEF RunMove
  <2>10. ~(LogTransition(p) /\ at'[p] = NextNode(at[p].node, p))
    BY <1>2, <2>7
  <2> QED
    BY <1>1, <2>1, <2>3, <2>4, <2>5, <2>6, <2>9, <2>10, RunMoves
<1>3. ASSUME n # "receive"
      PROVE  Subject(p) = r /\ at[r].node # "idle" /\ (To(n, r)' = To(n, r))
  <2>1. Subject(p) = r /\ at[r].node # "idle"
    BY <1>3, SubjectKept
  <2> QED
    BY <1>1, <2>1, AskSettled DEF To
<1>4. CASE n # "receive" /\ n = at[p].node
  <2>1. From(n) \in been[r] /\ (at[p].call = "audit" => To(n, r) \in been[r])
    BY <1>3, <1>4 DEF TrailInv, Visited
  <2>2. at'[p].call = "audit" => at[p].call = "audit" \/ UpdateState(p)
    BY <1>1, AuditEntered
  <2> QED
    BY <1>1, <1>3, <1>4, <2>1, <2>2, BeenChanges
<1>5. CASE n # "receive" /\ n # at[p].node
  <2>1. at'[p].call # "audit"
    BY <1>1, <1>5, AuditEntered
  <2>2. \/ LogTransition(p) /\ at'[p] = NextNode(at[p].node, r)
        \/ p \in Requests /\ ResolveApproval(p) /\ n = "awaitApproval"
    BY <1>1, <1>3, <1>5, NodeChanges
  <2>3. CASE LogTransition(p) /\ at'[p] = NextNode(at[p].node, r)
    <3>1. PICK m \in Nodes \ {"idle", "approvals"} : at[p].node = m /\ at[p].call = "audit"
      BY <1>1, <2>3, RunsAssumption DEF LogTransition, TypeInv, Places, RunAt, RequestAt, Procs
    <3>2. To(m, r) \in been[r]
      BY <1>3, <1>5, <3>1 DEF TrailInv, Visited
    <3>3. n = NextNode(m, r).node /\ n # m
      BY <1>5, <2>3, <3>1
    <3>4. From(n) = To(m, r)
      BY <3>1, <3>3 DEF NextNode, From, To, At, Nodes
    <3> QED
      BY <1>1, <2>1, <3>2, <3>4, BeenChanges
  <2>4. CASE p \in Requests /\ ResolveApproval(p) /\ n = "awaitApproval"
    <3>1. approval[r] # "none"
      BY <1>1, <1>3, <1>5, <2>4, RunsAssumption DEF Requested, Subject, ResolveApproval
    <3>2. at[r].node = "awaitApproval" /\ Subject(r) = r /\ r \in Procs
      BY <3>1 DEF Asked, Subject, Procs
    <3>3. From(n) \in been[r]
      BY <2>4, <3>2 DEF TrailInv, Visited
    <3> QED
      BY <1>1, <2>1, <3>3, BeenChanges
  <2> QED
    BY <2>2, <2>3, <2>4
<1> QED
  BY <1>2, <1>4, <1>5

(* A run that has not started has no session.                               *)
LEMMA NextUnstarted ==
  ASSUME RInv, Asked, Asked', Order', TrailInv, [Next]_vars, NEW r \in Runs,
         at'[r].node = "idle"
  PROVE  been'[r] = {}
<1>1. TypeInv /\ TypeInv' /\ r \in Procs
  BY NextTypeInv DEF RInv, IInv, Procs
<1>2. at[r].node = "idle"
  <2>1. LogTransition(r) => NextNode(at[r].node, r).node # "idle"
    BY <1>1 DEF TypeInv, Places, LogTransition, RunAt, NextNode, At
  <2> QED
    BY <1>1, <2>1, NodeChanges, RunsAssumption DEF Subject
<1>3. been[r] = {}
  BY <1>2 DEF TrailInv
<1>4. at'[r].call = "idle"
  BY <1>1 DEF TypeInv, Places, RunAt
<1>5. approval'[r] = "none"
  BY DEF Asked
<1>6. session'[r] = "none"
  BY <1>4, <1>5 DEF Order, InOrder
<1>7. been'[r] \subseteq AgentStates /\ "none" \notin AgentStates
  BY <1>1 DEF TypeInv, TypeOK, AgentStates
<1> QED
  BY <1>1, <1>3, <1>6, <1>7, BeenChanges

LEMMA NextLags ==
  ASSUME RInv, Asked, Order, TrailInv, [Next]_vars, NEW r \in Runs
  PROVE  /\ \A state \in been'[r] : PathBefore(r, state)' \subseteq trail'[r]
         /\ trail'[r] \subseteq been'[r] \X been'[r]
<1>1. TypeInv /\ TrailLagsByOne
  BY DEF RInv, IInv, TrailInv
<1>2. ASSUME NEW state \in been'[r] PROVE PathBefore(r, state)' \subseteq trail'[r]
  <2>1. CASE state \in been[r]
    <3>1. at[r].node # "idle"
      BY <2>1 DEF TrailInv
    <3>2. PathBefore(r, state)' = PathBefore(r, state)
      BY <1>1, <3>1, AskSettled DEF PathBefore, DecidedPath
    <3>3. PathBefore(r, state) \subseteq trail[r]
      BY <1>1, <2>1 DEF TrailLagsByOne
    <3> QED
      BY <1>1, <3>2, <3>3, TrailGrows
  <2>2. CASE state = session'[r]
    <3>1. (PathBefore(r, session[r]) \subseteq trail[r])'
      BY NextTrail
    <3>2. PathBefore(r, state)' = PathBefore(r, session[r])'
      BY <2>2 DEF PathBefore
    <3> QED
      BY <3>1, <3>2
  <2> QED
    BY <1>1, <1>2, <2>1, <2>2, BeenChanges
<1>3. trail'[r] \subseteq been'[r] \X been'[r]
  <2>1. trail[r] \subseteq been[r] \X been[r] /\ been[r] \subseteq been'[r]
    BY <1>1, BeenChanges DEF TrailLagsByOne
  <2>2. CASE trail'[r] = trail[r]
    BY <2>1, <2>2
  <2>3. ASSUME NEW p \in Procs, LogTransition(p), Subject(p) = r
        PROVE  trail'[r] \subseteq been'[r] \X been'[r]
    <3>1. PICK m \in Nodes \ {"idle", "approvals"} : at[p].node = m /\ at[p].call = "audit"
      BY <1>1, <2>3, RunsAssumption DEF LogTransition, TypeInv, Places, RunAt, RequestAt, Procs
    <3>2. From(m) \in been[r] /\ To(m, r) \in been[r]
      BY <2>3, <3>1 DEF TrailInv, Visited
    <3>3. trail'[r] = trail[r] \cup { << From(m), To(m, r) >> }
      BY <1>1, <2>3, <3>1 DEF LogTransition, TypeInv, TypeOK
    <3> QED
      BY <2>1, <3>2, <3>3
  <2>4. ASSUME NEW p \in Procs, LogTransition(p), Subject(p) # r
        PROVE  trail'[r] = trail[r]
    BY <1>1, <2>4 DEF LogTransition, TypeInv, TypeOK
  <2> QED
    BY <2>2, <2>3, <2>4
       DEF Next, RunStep, RequestStep, NodeStep, CreateSession, AcquireApprovalLock,
           CreatePendingApproval, ReleaseLock, Suspend, ExpireApproval, ExpireLock, Receive,
           FetchAndVerify, ResolveApproval, ReadApproval, UpdateState, MarkFailed, Throw,
           Crash, rows, vars
<1> QED
  BY <1>2, <1>3

LEMMA NextTrailInv ==
  ASSUME RInv, Asked, Order, TrailInv, [Next]_vars, Asked', Order'
  PROVE  TrailInv'
<1>1. \A p \in Procs : Logged(p)' /\ Visited(p)'
  BY NextLogged, NextVisited
<1>2. \A r \in Runs : (PathBefore(r, session[r]) \subseteq trail[r])'
  BY NextTrail
<1>3. \A r \in Runs : at'[r].node = "idle" => been'[r] = {}
  BY NextUnstarted
<1>4. TrailLagsByOne'
  BY NextLags DEF TrailLagsByOne
<1> QED
  BY <1>1, <1>2, <1>3, <1>4 DEF TrailInv

(* audit.service.ts and the nodes: however the calls fail and whoever       *)
(* overtakes, the audit trail has all the transitions between the states,   *)
(* other than FAILED, that a session has ever been in, but the last one, and *)
(* none that it has not.                                                    *)
THEOREM TrailIsNeverTwoBehind == Spec => []TrailLagsByOne
<1>1. Init => Order /\ TrailInv
  <2> SUFFICES ASSUME Init PROVE Order /\ TrailInv
    OBVIOUS
  <2>1. /\ \A p \in Procs : at[p].node = "idle"
        /\ \A r \in Runs : session[r] = "none" /\ been[r] = {} /\ trail[r] = {}
    BY DEF Init, At
  <2>2. Order
    BY DEF Init, Order, InOrder
  <2>3. TrailInv
    BY <2>1 DEF TrailInv, Logged, Visited, TrailLagsByOne, PathBefore
  <2> QED
    BY <2>2, <2>3
<1>2. RInv /\ Asked /\ Order /\ TrailInv /\ [Next]_vars /\ Asked' /\ Order' => TrailInv'
  BY NextTrailInv
<1>3. RInv /\ Asked /\ Order /\ [Next]_vars => Order'
  BY NextOrder
<1>4. TrailInv => TrailLagsByOne
  BY DEF TrailInv
<1> QED
  BY <1>1, <1>2, <1>3, <1>4, AlwaysAsked, PTL DEF Spec

----------------------------------------------------------------------------
(* Runs that nothing has gone wrong in: where they stop, and what their     *)
(* session is then.                                                         *)

Settled(r) ==
  /\ at[r].call \notin {"dead", "unwind", "mark"}
  /\ r \in locks => at[r].call \in {"insert", "release"}
  /\ at[r].call = "end" =>
       /\ at[r].node \in {"receive", "awaitApproval", "execute"}
       /\ at[r].node = "receive" => session[r] = "none"
       /\ at[r].node = "execute" => session[r] = "COMPLETED"
       /\ at[r].node = "awaitApproval" => approval[r] # "none"

(* A session whose run awaits its approval executes only while a request    *)
(* is between its two writes.                                               *)
Awaited(r) ==
  at[r].node = "awaitApproval" =>
    /\ approval[r] \in {"none", "pending"} => session[r] = "AWAITING_APPROVAL"
    /\ session[r] \in {"AWAITING_APPROVAL", "EXECUTING"} \cup TerminalStates
    /\ session[r] = "EXECUTING" =>
         \E q \in Requests :
           /\ req[q].run = r
           /\ at[q] \in { At("awaitApproval", "audit"), At("execute", "update") }

Calm == faults = 0 => \A r \in Runs : Settled(r) /\ Awaited(r)

Known == RInv /\ Asked /\ Order /\ Calm

LEMMA Faultless ==
  ASSUME TypeInv, [Next]_vars, faults' = 0
  PROVE  /\ faults = 0
         /\ \A p \in Procs : ~Throw(p) /\ ~Crash(p)
         /\ \A r \in Runs : AcquireApprovalLock(r) =>
              at'[r] = At("awaitApproval", IF r \in locks THEN "mark" ELSE "insert")
<1>1. faults \in Nat /\ faults' >= faults
  <2>1. faults \in Nat
    BY FaultsAssumption DEF TypeInv, TypeOK
  <2>2. \/ faults' = faults \/ faults' = faults + 1
    BY DEF Next, RunStep, RequestStep, NodeStep, CreateSession, AcquireApprovalLock,
           CreatePendingApproval, ReleaseLock, Suspend, ExpireApproval, ExpireLock, Receive,
           FetchAndVerify, ResolveApproval, ReadApproval, UpdateState, LogTransition,
           MarkFailed, Throw, Crash, vars
  <2> QED
    BY <2>1, <2>2
<1>2. \A p \in Procs : ~Throw(p) /\ ~Crash(p)
  BY <1>1 DEF Throw, Crash
<1>3. ASSUME NEW r \in Runs, AcquireApprovalLock(r)
      PROVE  at'[r] = At("awaitApproval", IF r \in locks THEN "mark" ELSE "insert")
  <2>1. PICK resent \in BOOLEAN :
          /\ faults' = IF resent THEN faults + 1 ELSE faults
          /\ Goto(r, At("awaitApproval", IF resent \/ r \in locks THEN "mark" ELSE "insert"))
    BY <1>3 DEF AcquireApprovalLock
  <2>2. resent = FALSE
    BY <1>1, <2>1
  <2>3. Goto(r, At("awaitApproval", IF r \in locks THEN "mark" ELSE "insert"))
    BY <2>1, <2>2
  <2> QED
    BY <2>3, OneMoves
<1> QED
  BY <1>1, <1>2, <1>3

LEMMA LocksTaken ==
  ASSUME TypeInv, [Next]_vars, NEW r \in Runs, r \in locks'
  PROVE  (r \in locks /\ ~ReleaseLock(r)) \/ AcquireApprovalLock(r)
<1>1. ~ReleaseLock(r)
  BY DEF ReleaseLock
<1>2. CASE UNCHANGED locks
  BY <1>1, <1>2
<1>3. CASE \E s \in Runs : AcquireApprovalLock(s) \/ ReleaseLock(s) \/ ExpireLock(s)
  BY <1>1, <1>3 DEF AcquireApprovalLock, ReleaseLock, ExpireLock
<1> QED
  BY <1>2, <1>3
     DEF Next, RunStep, RequestStep, NodeStep, CreateSession, CreatePendingApproval,
         Suspend, ExpireApproval, Receive, FetchAndVerify, ResolveApproval, ReadApproval,
         UpdateState, LogTransition, MarkFailed, Throw, Crash, rows, vars

LEMMA NextSettled ==
  ASSUME Known, [Next]_vars, faults' = 0, NEW r \in Runs
  PROVE  Settled(r)'
<1>1. TypeInv /\ RunAt(r) /\ Asked /\ InOrder(r)
  BY DEF Known, RInv, IInv, TypeInv, Places, Order
<1>2. /\ Settled(r) /\ ~Throw(r) /\ ~Crash(r)
      /\ AcquireApprovalLock(r) =>
           at'[r] = At("awaitApproval", IF r \in locks THEN "mark" ELSE "insert")
  BY <1>1, Faultless DEF Known, Calm
<1>3. at'[r] = at[r] \/ RunMove(r)
  BY <1>1, RunMoves
<1>4. AcquireApprovalLock(r) => at'[r] = At("awaitApproval", "insert")
  BY <1>2 DEF Settled, AcquireApprovalLock
<1>5. /\ ReleaseLock(r) => at'[r] = At("awaitApproval", "suspend")
      /\ ~MarkFailed(r)
  BY <1>2, <1>3, OneMoves, <1>1 DEF Settled, ReleaseLock, MarkFailed
<1>6. LogTransition(r) => at[r].node \in Nodes \ {"idle", "approvals", "awaitApproval"}
  BY <1>1 DEF LogTransition, RunAt
<1>7. LogTransition(r) /\ at'[r] = NextNode(at[r].node, r) =>
        at'[r].call \in {"update", "lock"} \/ at'[r] = At("execute", "end")
  BY <1>6 DEF NextNode
<1>8. at'[r].call \notin {"dead", "unwind", "mark"}
  BY <1>2, <1>3, <1>4, <1>5, <1>7 DEF Settled, RunMove
<1>9. r \in locks' => at'[r].call \in {"insert", "release"}
  <2> SUFFICES ASSUME r \in locks' PROVE at'[r].call \in {"insert", "release"}
    OBVIOUS
  <2>1. (r \in locks /\ ~ReleaseLock(r)) \/ AcquireApprovalLock(r)
    BY <1>1, LocksTaken
  <2>2. CASE r \in locks /\ ~ReleaseLock(r)
    <3>1. at[r].call \in {"insert", "release"}
      BY <1>2, <2>2 DEF Settled
    <3>2. CreatePendingApproval(r) \/ at'[r] = at[r]
      BY <1>2, <1>3, <2>2, <3>1
         DEF RunMove, Receive, CreateSession, UpdateState, LogTransition,
             AcquireApprovalLock, Suspend, MarkFailed
    <3>3. CreatePendingApproval(r) => at'[r] = At("awaitApproval", "release")
      BY <1>1, OneMoves DEF CreatePendingApproval
    <3> QED
      BY <3>1, <3>2, <3>3
  <2> QED
    BY <1>4, <2>1, <2>2
<1>10. ASSUME at'[r].call = "end"
       PROVE  /\ at'[r].node \in {"receive", "awaitApproval", "execute"}
              /\ at'[r].node = "receive" => session'[r] = "none"
              /\ at'[r].node = "execute" => session'[r] = "COMPLETED"
              /\ at'[r].node = "awaitApproval" => approval'[r] # "none"
  <2>1. CASE at[r].call = "end"
    <3>1. at'[r] = at[r]
      BY <1>2, <1>3, <2>1
         DEF RunMove, Receive, CreateSession, UpdateState, LogTransition,
             AcquireApprovalLock, CreatePendingApproval, ReleaseLock, Suspend, MarkFailed
    <3>2. at[r].node # "awaitApproval" => session'[r] = session[r]
      <4>1. at[r].node # "awaitApproval" => approval[r] = "none"
        BY <1>1 DEF Asked
      <4>2. ~CreateSession(r) /\ ~UpdateState(r) /\ ~MarkFailed(r)
        BY <2>1 DEF CreateSession, UpdateState, MarkFailed
      <4> QED
        BY <1>1, <4>1, <4>2, RunWrites
    <3>3. approval[r] # "none" => approval'[r] # "none"
      BY <1>1, ApprovalsCreated
    <3> QED
      BY <1>2, <2>1, <3>1, <3>2, <3>3 DEF Settled
  <2>2. CASE /\ \E a \in Asks : Receive(r, a)
             /\ at'[r] \in { At("receive", "create"), At("receive", "end") }
    <3>1. session'[r] = session[r] /\ at[r].node = "idle" /\ at[r].call = "idle"
      BY <2>2 DEF Receive, rows
    <3>2. session[r] = "none"
      BY <1>1, <3>1 DEF Asked, InOrder
    <3> QED
      BY <2>2, <3>1, <3>2
  <2>3. CASE LogTransition(r) /\ at'[r] = NextNode(at[r].node, r)
    <3>1. at'[r] = At("execute", "end") /\ at[r].call = "audit" /\ session'[r] = session[r]
      BY <1>7, <1>10, <2>3 DEF LogTransition
    <3>2. at[r].node = "execute"
      BY <1>6, <2>3, <3>1 DEF NextNode
    <3>3. session[r] = "COMPLETED"
      BY <1>1, <3>1, <3>2 DEF Asked, InOrder, To
    <3> QED
      BY <3>1, <3>3
  <2>4. CASE Suspend(r) /\ at'[r] = At("awaitApproval", "end")
    <3>1. approval[r] # "none"
      BY <1>1, <2>4 DEF Suspend, Asked
    <3> QED
      BY <1>1, <2>4, <3>1, ApprovalsCreated
  <2> QED
    BY <1>2, <1>3, <1>4, <1>5, <1>10, <2>1, <2>2, <2>3, <2>4 DEF RunMove
<1> QED
  BY <1>8, <1>9, <1>10 DEF Settled

LEMMA NextAwaited ==
  ASSUME Known, [Next]_vars, faults' = 0, NEW r \in Runs
  PROVE  Awaited(r)'
<1> SUFFICES ASSUME at'[r].node = "awaitApproval"
             PROVE  Awaited(r)'
  BY DEF Awaited
<1>1. /\ TypeInv /\ TypeInv' /\ RunAt(r) /\ Asked /\ Asked' /\ InOrder(r)
      /\ Settled(r) /\ Awaited(r)
  BY NextTypeInv, NextAsked, Faultless DEF Known, RInv, IInv, TypeInv, Places, Order, Calm
<1>2. CASE at[r].node # "awaitApproval"
  <2>1. LogTransition(r) /\ at'[r] = NextNode(at[r].node, r)
    BY <1>1, <1>2, NodeChanges, RunsAssumption DEF Subject
  <2>2. at[r].call = "audit" /\ session'[r] = session[r] /\ approval[r] = "none"
    BY <1>1, <1>2, <2>1 DEF LogTransition, Asked
  <2>3. at[r].node = "decideAction" /\ NeedsApproval(r)
    BY <1>1, <1>2, <2>1, <2>2 DEF RunAt, NextNode
  <2>4. session'[r] = "AWAITING_APPROVAL"
    BY <1>1, <2>2, <2>3 DEF InOrder, To
  <2> QED
    BY <2>4 DEF Awaited
<1>3. CASE at[r].node = "awaitApproval"
  <2>1. /\ approval'[r] \in {"none", "pending", "approved", "rejected"}
        /\ approval[r] \in {"approved", "rejected"} => approval'[r] \in {"approved", "rejected"}
        /\ approval'[r] \in {"none", "pending"} => approval[r] \in {"none", "pending"}
    BY <1>1, ApprovalChanges DEF TypeInv, TypeOK, Asked, CreatePendingApproval
  <2>2. CASE session'[r] = session[r]
    <3>1. ASSUME session[r] = "EXECUTING"
          PROVE  \E q \in Requests :
                   /\ req'[q].run = r
                   /\ at'[q] \in { At("awaitApproval", "audit"), At("execute", "update") }
      <4>1. PICK q \in Requests :
              /\ req[q].run = r
              /\ at[q] \in { At("awaitApproval", "audit"), At("execute", "update") }
        BY <1>1, <1>3, <3>1 DEF Awaited
      <4>2. req'[q].run = r /\ q \notin Runs /\ Subject(q) = r
        BY <1>1, <4>1, RequestSettled, RunsAssumption DEF Subject
      <4>3. ~UpdateState(q) \/ at[q] # At("execute", "update")
        <5> SUFFICES ASSUME UpdateState(q), at[q] = At("execute", "update") PROVE FALSE
          OBVIOUS
        <5>1. session'[r] = "COMPLETED"
          BY <1>1, <4>2 DEF UpdateState, To, TypeInv, TypeOK
        <5> QED
          BY <2>2, <3>1, <5>1
      <4>4. at'[q] = at[q] \/ at'[q] = At("execute", "update")
        <5>1. at'[q] = at[q] \/ RequestMove(q)
          BY <1>1, RequestMoves
        <5>2. ~Throw(q) /\ ~Crash(q)
          BY <1>1, Faultless
        <5>3. LogTransition(q) /\ at'[q] = NextNode(at[q].node, req[q].run) =>
                at'[q] = At("execute", "update")
          BY <4>1 DEF LogTransition, NextNode
        <5> QED
          BY <4>1, <4>3, <5>1, <5>2, <5>3
             DEF RequestMove, FetchAndVerify, ResolveApproval, ReadApproval, UpdateState,
                 MarkFailed
      <4> QED
        BY <4>1, <4>2, <4>4
    <3> QED
      BY <1>1, <1>3, <2>1, <2>2, <3>1 DEF Awaited
  <2>3. CASE session'[r] # session[r]
    <3>1. \/ Suspend(r) /\ session'[r] = "AWAITING_APPROVAL"
          \/ \E q \in Requests : /\ UpdateState(q) /\ Subject(q) = r
                                 /\ session'[r] = To(at[q].node, r)
          \/ \E q \in Requests : MarkFailed(q) /\ Subject(q) = r /\ session'[r] = "FAILED"
      <4>1. ~CreateSession(r) /\ ~UpdateState(r) /\ ~MarkFailed(r)
        BY <1>1, <1>3 DEF CreateSession, UpdateState, MarkFailed, RunAt, Settled
      <4>2. \A p \in Runs : Subject(p) = p
        BY DEF Subject
      <4> QED
        BY <1>1, <2>3, <4>1, <4>2, SessionChanges
    <3>2. CASE Suspend(r) /\ session'[r] = "AWAITING_APPROVAL"
      BY <3>2 DEF Awaited
    <3>3. ASSUME NEW q \in Requests, UpdateState(q) \/ MarkFailed(q), Subject(q) = r
          PROVE  /\ at[q].node \in {"awaitApproval", "execute"} /\ req[q].run = r
                 /\ approval'[r] \notin {"none", "pending"}
      <4>1. RequestAt(q) /\ q \notin Runs /\ at[q].call \in {"update", "mark"}
        BY <1>1, <3>3, RunsAssumption DEF TypeInv, Places, UpdateState, MarkFailed
      <4>2. at[q].node \in {"awaitApproval", "execute"} /\ req[q].run = r
        BY <3>3, <4>1 DEF RequestAt, Subject
      <4>3. approval[r] \in {"approved", "rejected"}
        BY <1>1, <4>2 DEF Asked
      <4> QED
        BY <2>1, <4>2, <4>3
    <3>4. ASSUME NEW q \in Requests, UpdateState(q), Subject(q) = r,
                 session'[r] = To(at[q].node, r)
          PROVE  Awaited(r)'
      <4>1. CASE at[q].node = "execute"
        <5>1. session'[r] = "COMPLETED"
          BY <3>4, <4>1 DEF To
        <5> QED
          BY <3>3, <3>4, <5>1 DEF Awaited, TerminalStates
      <4>2. CASE at[q].node = "awaitApproval"
        <5>1. session'[r] = "EXECUTING"
          BY <3>4, <4>2 DEF To
        <5>2. at'[q] = At("awaitApproval", "audit") /\ req'[q].run = r
          BY <1>1, <3>3, <3>4, <4>2, OneMoves DEF UpdateState
        <5> QED
          BY <3>3, <3>4, <5>1, <5>2 DEF Awaited
      <4> QED
        BY <3>3, <3>4, <4>1, <4>2
    <3>5. ASSUME NEW q \in Requests, MarkFailed(q), Subject(q) = r, session'[r] = "FAILED"
          PROVE  Awaited(r)'
      BY <3>3, <3>5 DEF Awaited, TerminalStates
    <3> QED
      BY <3>1, <3>2, <3>4, <3>5
  <2> QED
    BY <2>2, <2>3
<1> QED
  BY <1>2, <1>3

LEMMA CalmRests == TypeInv /\ Asked /\ Order /\ Calm => RestingStates
<1> SUFFICES ASSUME TypeInv, Asked, Order, Calm, faults = 0, NEW r \in Runs, AtRest(r)
             PROVE  /\ IsActive(r) =>
                         session[r] = "AWAITING_APPROVAL" /\ approval[r] # "none"
                    /\ approval[r] = "pending" => session[r] = "AWAITING_APPROVAL"
                    /\ r \notin locks
  BY DEF RestingStates
<1>1. RunAt(r) /\ Settled(r) /\ Awaited(r) /\ InOrder(r)
  BY DEF TypeInv, Places, Calm, Order
<1>2. at[r].call \in {"end", "idle"}
  BY <1>1 DEF AtRest, InFlight, Subject, Settled
<1>3. r \notin locks
  BY <1>1, <1>2 DEF Settled
<1>4. approval[r] = "pending" => session[r] = "AWAITING_APPROVAL"
  BY <1>1 DEF Asked, Awaited
<1>5. ASSUME IsActive(r) PROVE session[r] = "AWAITING_APPROVAL" /\ approval[r] # "none"
  <2>1. at[r].call = "idle" => session[r] = "none"
    BY <1>1 DEF Asked, InOrder, RunAt
  <2>2. at[r].node = "awaitApproval" /\ at[r].call = "end"
    BY <1>1, <1>2, <1>5, <2>1 DEF Settled, IsActive, TerminalStates
  <2>3. session[r] # "EXECUTING"
    <3> SUFFICES ASSUME session[r] = "EXECUTING" PROVE FALSE
      OBVIOUS
    <3>1. PICK q \in Requests :
            /\ req[q].run = r
            /\ at[q] \in { At("awaitApproval", "audit"), At("execute", "update") }
      BY <1>1, <2>2 DEF Awaited
    <3> QED
      BY <3>1, RunsAssumption DEF AtRest, InFlight, Subject
  <2> QED
    BY <1>1, <1>5, <2>2, <2>3 DEF Settled, Awaited, IsActive
<1> QED
  BY <1>3, <1>4, <1>5

(* The pipeline and the approvals service: as long as nothing throws or     *)
(* dies, a session nobody works on is finished or waits for an approval     *)
(* that was asked for, and no lock is left behind.                          *)
THEOREM CalmSessionsRest == Spec => []RestingStates
<1>1. Init => Order /\ Calm
  BY DEF Init, Order, InOrder, Calm, Settled, Awaited
<1>2. Known /\ [Next]_vars => Calm'
  BY NextSettled, NextAwaited DEF Calm
<1>3. RInv /\ Asked /\ Order /\ [Next]_vars => Order'
  BY NextOrder
<1>4. RInv /\ Asked /\ Order /\ Calm => RestingStates
  BY CalmRests DEF RInv, IInv
<1> QED
  BY <1>1, <1>2, <1>3, <1>4, AlwaysAsked, PTL DEF Spec, Known
============================================================================
