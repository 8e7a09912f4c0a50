---------------------------- MODULE AgentContext ----------------------------
(***************************************************************************)
(* What a run of the agent is given before it calls the model: the private *)
(* memory of its user and of its role, decrypted with the key its process  *)
(* was started with, and a system prompt compiled from the built-in core   *)
(* and the tenant's general layer within a budget of tokens.               *)
(*                                                                         *)
(* A text is its length in characters, and for a layer whether it trips    *)
(* one of the conflict patterns; an encrypted row is the key it was made   *)
(* with.  The key is a secret of the environment that operators rotate;    *)
(* the layers are edited by administrators outside this repository's code. *)
(***************************************************************************)
EXTENDS Integers

CONSTANTS
  Runs,          \* runs of the agent
  Replicas,      \* processes of the API
  UserEntries,   \* keys of the user's memory
  RoleEntries,   \* keys of the role's memory
  Layers,        \* general layers of the tenant
  NoLayer,       \* there is none
  NoRow,         \* nothing is stored under a key
  Length,        \* length of each layer's content
  Conflicting,   \* layers that match a conflict pattern
  CoreLength,    \* length of LAYER1_SYSTEM_CORE under its label
  LabelLength,   \* length of a separator and the label of a general layer
  Limits,        \* what maxTokens may be
  MaxRotations   \* bound: keys made

ASSUME ContextAssumption ==
  /\ NoLayer \notin Layers /\ NoRow \notin Nat
  /\ Length \in [Layers -> Nat] /\ Conflicting \subseteq Layers
  /\ CoreLength \in Nat /\ LabelLength \in Nat /\ Limits \subseteq Nat
  /\ MaxRotations \in Nat

VARIABLES
  secret,    \* the key in the environment, as a number; it grows
  key,       \* the key each replica was started with
  memory,    \* per entry, the key its row was encrypted with, or NoRow
  active,    \* layers whose is_active is set
  maxTokens,
  at,        \* the await each run is about to make, or how it ended
  on,        \* the replica each run is in
  loaded,    \* the memories a run has loaded
  chosen,    \* the general layer a run's compiler read
  result     \* what the compiler returned: [layer, length, trimmed, conflict]

stores == << secret, key, memory, active, maxTokens >>
vars == << stores, at, on, loaded, chosen, result >>

NoResult == [layer |-> NoLayer, length |-> 0, trimmed |-> FALSE, conflict |-> FALSE]

----------------------------------------------------------------------------

(* Mutant: a token begun is not counted.                                    *)
CountTokensDown(length) == length \div 4

(* countTokens: Math.ceil(length / 4).                                      *)
CountTokens(length) == (length + 3) \div 4

(* assemblePrompt of the core, and of the core and a general layer.         *)
FullLength(l) ==
  IF l = NoLayer THEN CoreLength ELSE CoreLength + LabelLength + Length[l]

(* Mutant: a prompt that fills the budget is trimmed.                       *)
FitsBelow(length) == CountTokens(length) < maxTokens

Fits(length) == CountTokens(length) <= maxTokens

(* enforceBudget, of a prompt that is not too long with its core alone.     *)
EnforceBudget(l, conflict) ==
  IF Fits(FullLength(l))
    THEN [layer |-> l, length |-> FullLength(l), trimmed |-> FALSE, conflict |-> conflict]
    ELSE [layer |-> NoLayer, length |-> CoreLength, trimmed |-> TRUE, conflict |-> conflict]

(* detectConflicts: every pattern that matches rejects the layer.           *)
Rejected(l) == l \in Conflicting

(* compile: a layer in conflict with the core is left out whole.            *)
Compiled(l) ==
  IF Rejected(l) THEN EnforceBudget(NoLayer, TRUE) ELSE EnforceBudget(l, FALSE)

----------------------------------------------------------------------------

Goto(n, where) == at' = [at EXCEPT ![n] = where]

Init ==
  /\ secret = 0 /\ key = [r \in Replicas |-> 0]
  /\ memory = [e \in UserEntries \cup RoleEntries |-> NoRow]
  /\ active \in SUBSET Layers
  /\ maxTokens \in Limits
  /\ at     = [n \in Runs |-> "idle"] /\ on \in [Runs -> Replicas]
  /\ loaded = [n \in Runs |-> {}]
  /\ chosen = [n \in Runs |-> NoLayer]
  /\ result = [n \in Runs |-> NoResult]

(* loadContext starts to load both memories, side by side.                  *)
StartLoading(n) ==
  /\ at[n] = "idle"
  /\ Goto(n, "load")
  /\ UNCHANGED << stores, on, loaded, chosen, result >>

(* Every row of a memory is made with this key.                             *)
Readable(entries, k) == \A e \in entries : memory[e] \in {NoRow, k}

(* loadAllUserMemory, loadAllRoleMemory: one row that cannot be decrypted   *)
(* fails the whole load, and the run.                                       *)
LoadMemory(n, which) ==
  /\ at[n] = "load" /\ which \notin loaded[n]
  /\ LET entries == IF which = "user" THEN UserEntries ELSE RoleEntries
     IN IF Readable(entries, key[on[n]])
          THEN /\ loaded' = [loaded EXCEPT ![n] = @ \cup {which}]
               /\ Goto(n, IF loaded'[n] = {"user", "role"} THEN "compile" ELSE "load")
          ELSE UNCHANGED loaded /\ Goto(n, "unreadable")
  /\ UNCHANGED << stores, on, chosen, result >>

(* What getActiveGeneralLayer may return: it asks for one row in no order.  *)
GeneralLayers == IF active = {} THEN {NoLayer} ELSE active

(* compile throws when the core alone is too long.                          *)
Compile(n) ==
  /\ at[n] = "compile"
  /\ \E l \in GeneralLayers :
       /\ chosen' = [chosen EXCEPT ![n] = l]
       /\ IF Fits(CoreLength) \/ (~Rejected(l) /\ Fits(FullLength(l)))
            THEN result' = [result EXCEPT ![n] = Compiled(l)] /\ Goto(n, "compiled")
            ELSE UNCHANGED result /\ Goto(n, "failed")
  /\ UNCHANGED << stores, on, loaded >>

(* encryptMemory: a row that only the key of the replica can open.          *)
Encrypted(r) == key[r]

(* upsertUserMemory, upsertRoleMemory: what was stored is overwritten.      *)
Upsert(e, row) == memory' = [memory EXCEPT ![e] = row]

(* writeUserMemory, writeRoleMemory.                                        *)
WriteMemory(r, e) ==
  /\ Upsert(e, Encrypted(r))
  /\ UNCHANGED << secret, key, active, maxTokens, at, on, loaded, chosen, result >>

(* Operators rotate the secret; no process takes notice.                    *)
Rotate ==
  /\ secret < MaxRotations
  /\ secret' = secret + 1
  /\ UNCHANGED << key, memory, active, maxTokens, at, on, loaded, chosen, result >>

(* Mutant: a process makes up a key of its own.                             *)
RestartFresh(r) ==
  /\ key[r] < MaxRotations
  /\ key' = [key EXCEPT ![r] = @ + 1]
  /\ at' = [n \in Runs |-> IF on[n] = r /\ at[n] \in {"load", "compile"}
                             THEN "failed" ELSE at[n]]
  /\ UNCHANGED << secret, memory, active, maxTokens, on, loaded, chosen, result >>

(* A replica starts anew, with the key of the day; its runs are lost.       *)
Restart(r) ==
  /\ key' = [key EXCEPT ![r] = secret]
  /\ at' = [n \in Runs |-> IF on[n] = r /\ at[n] \in {"load", "compile"}
                             THEN "failed" ELSE at[n]]
  /\ UNCHANGED << secret, memory, active, maxTokens, on, loaded, chosen, result >>

(* Administrators change which layers are active.                           *)
EditLayers ==
  /\ \E l \in Layers :
       active' = IF l \in active THEN active \ {l} ELSE active \cup {l}
  /\ UNCHANGED << secret, key, memory, maxTokens, at, on, loaded, chosen, result >>

Next ==
  \/ \E n \in Runs : \/ StartLoading(n) \/ Compile(n)
                     \/ \E which \in {"user", "role"} : LoadMemory(n, which)
  \/ \E r \in Replicas : \/ Restart(r)
                         \/ \E e \in UserEntries \cup RoleEntries : WriteMemory(r, e)
  \/ Rotate \/ EditLayers

Spec == Init /\ [][Next]_vars

----------------------------------------------------------------------------

TypeOK ==
  /\ secret \in 0..MaxRotations /\ key \in [Replicas -> 0..MaxRotations]
  /\ memory \in [UserEntries \cup RoleEntries -> 0..MaxRotations \cup {NoRow}]
  /\ active \subseteq Layers /\ maxTokens \in Limits
  /\ at \in [Runs -> {"idle", "load", "compile", "compiled", "unreadable", "failed"}]
  /\ on \in [Runs -> Replicas] /\ loaded \in [Runs -> SUBSET {"user", "role"}]
  /\ chosen \in [Runs -> Layers \cup {NoLayer}]
  /\ result \in [Runs -> [layer : Layers \cup {NoLayer}, length : Nat,
                          trimmed : BOOLEAN, conflict : BOOLEAN]]

(* A compiled prompt is no longer than the budget, at four characters a     *)
(* token: rounding, separator and labels included (token-budget.ts:44).     *)
PromptFits ==
  \A n \in Runs : at[n] = "compiled" => result[n].length <= 4 * maxTokens

(* The general layer that was read is in the prompt, unless it conflicts    *)
(* with the core or does not fit; and the flags, from which the audit       *)
(* events are made, say which (prompt-compiler.ts:19-32,                    *)
(* token-budget.ts:44-67).                                                  *)
NothingLeftOutSilently ==
  \A n \in Runs : at[n] = "compiled" =>
    /\ result[n].conflict <=> chosen[n] \in Conflicting
    /\ result[n].trimmed <=> /\ chosen[n] \notin Conflicting
                             /\ FullLength(chosen[n]) > 4 * maxTokens
    /\ result[n].layer = IF result[n].conflict \/ result[n].trimmed
                           THEN NoLayer ELSE chosen[n]

(* A run fails over a row it cannot decrypt only after the key was rotated: *)
(* all replicas, restarted at any time, use one key until then              *)
(* (memory-service.ts:28, agent.module.ts:27).                              *)
UnreadableOnlyAfterRotation ==
  \A n \in Runs : at[n] = "unreadable" => secret > 0
=============================================================================
