------------------------ MODULE AgentContext_proofs -------------------------
(***************************************************************************)
(* Theorems about AgentContext, for any runs, replicas, memory entries,    *)
(* layers and lengths of texts, any budgets and any number of rotations.   *)
(***************************************************************************)
EXTENDS AgentContext, TLAPS

(* Rounding up to whole tokens is exact: a text of n characters is within m *)
(* tokens if and only if it has at most 4 * m characters.                   *)
LEMMA RoundingUp ==
  ASSUME NEW n \in Nat, NEW m \in Nat
  PROVE  CountTokens(n) <= m <=> n <= 4 * m
BY DEF CountTokens

LEMMA FullLengthType == \A l \in Layers \cup {NoLayer} : FullLength(l) \in Nat
BY ContextAssumption DEF FullLength

(* What the compiler returns is of its type.                                *)
LEMMA CompiledType ==
  ASSUME NEW l \in Layers \cup {NoLayer}
  PROVE  Compiled(l) \in [layer : Layers \cup {NoLayer}, length : Nat,
                          trimmed : BOOLEAN, conflict : BOOLEAN]
BY ContextAssumption, FullLengthType DEF Compiled, Rejected, EnforceBudget

LEMMA TypeStep == TypeOK /\ [Next]_vars => TypeOK'
<1> SUFFICES ASSUME TypeOK, [Next]_vars PROVE TypeOK'
  OBVIOUS
<1> USE ContextAssumption
<1>1. ASSUME NEW n \in Runs, StartLoading(n) PROVE TypeOK'
  BY <1>1 DEF TypeOK, StartLoading, Goto, stores
<1>2. ASSUME NEW n \in Runs, Compile(n) PROVE TypeOK'
  <2>1. PICK l \in Layers \cup {NoLayer} :
          /\ chosen' = [chosen EXCEPT ![n] = l]
          /\ \/ result' = [result EXCEPT ![n] = Compiled(l)] /\ Goto(n, "compiled")
             \/ UNCHANGED result /\ Goto(n, "failed")
    BY <1>2 DEF TypeOK, Compile, GeneralLayers, Rejected
  <2>2. result' \in [Runs -> [layer : Layers \cup {NoLayer}, length : Nat,
                              trimmed : BOOLEAN, conflict : BOOLEAN]]
    BY <2>1, CompiledType DEF TypeOK
  <2> QED
    BY <1>2, <2>1, <2>2 DEF TypeOK, Compile, Goto, stores
<1>3. ASSUME NEW n \in Runs, NEW which \in {"user", "role"}, LoadMemory(n, which)
      PROVE  TypeOK'
  <2>1. loaded' \in [Runs -> SUBSET {"user", "role"}]
    BY <1>3 DEF TypeOK, LoadMemory
  <2> QED
    BY <1>3, <2>1 DEF TypeOK, LoadMemory, Goto, stores
<1>4. ASSUME NEW r \in Replicas, Restart(r) PROVE TypeOK'
  BY <1>4 DEF TypeOK, Restart
<1>5. ASSUME NEW r \in Replicas, NEW e \in UserEntries \cup RoleEntries, WriteMemory(r, e)
      PROVE  TypeOK'
  BY <1>5 DEF TypeOK, WriteMemory, Upsert, Encrypted
<1>6. CASE Rotate
  BY <1>6 DEF TypeOK, Rotate
<1>7. CASE EditLayers
  BY <1>7 DEF TypeOK, EditLayers
<1>8. CASE UNCHANGED vars
  BY <1>8 DEF TypeOK, vars, stores
<1> QED
  BY <1>1, <1>2, <1>3, <1>4, <1>5, <1>6, <1>7, <1>8 DEF Next

(* Every variable keeps its type.                                           *)
THEOREM TypeCorrect == Spec => []TypeOK
<1>1. Init => TypeOK
  BY ContextAssumption DEF Init, TypeOK, NoResult
<1> QED
  BY <1>1, TypeStep, PTL DEF Spec

----------------------------------------------------------------------------

(* What there is to say of a prompt at the moment it was compiled: it is    *)
(* the compiler's answer for the layer read, which did not throw.           *)
AnswerFor(n, l) ==
  /\ result[n] = Compiled(l)
  /\ Fits(CoreLength) \/ (l \notin Conflicting /\ Fits(FullLength(l)))

Answered == \A n \in Runs : at[n] = "compiled" => AnswerFor(n, chosen[n])

(* The budget is fixed, and no step touches a prompt that is compiled.      *)
LEMMA AnsweredStep == TypeOK /\ Answered /\ [Next]_vars => Answered'
<1> SUFFICES ASSUME TypeOK, Answered, [Next]_vars PROVE Answered'
  OBVIOUS
<1>1. maxTokens' = maxTokens
  BY DEF Next, vars, stores, StartLoading, Compile, LoadMemory, Restart, WriteMemory,
         Rotate, EditLayers
<1>2. ASSUME NEW n \in Runs, at'[n] = "compiled"
      PROVE  /\ result'[n] = Compiled(chosen'[n])
             /\ \/ Fits(CoreLength)
                \/ chosen'[n] \notin Conflicting /\ Fits(FullLength(chosen'[n]))
  <2>1. CASE at[n] = "compiled"
    <3>1. result'[n] = result[n] /\ chosen'[n] = chosen[n]
      BY <2>1 DEF TypeOK, Next, vars, stores, StartLoading, Compile, LoadMemory, Restart,
                  WriteMemory, Rotate, EditLayers
    <3> QED
      BY <2>1, <3>1 DEF Answered, AnswerFor
  <2>2. CASE at[n] # "compiled"
    <3>1. Compile(n)
      BY <1>2, <2>2 DEF TypeOK, Next, vars, StartLoading, Compile, LoadMemory, Restart,
                        WriteMemory, Rotate, EditLayers, Goto
    <3>2. \E l \in Layers \cup {NoLayer} :
            /\ chosen'[n] = l /\ result'[n] = Compiled(l)
            /\ Fits(CoreLength) \/ (l \notin Conflicting /\ Fits(FullLength(l)))
      BY <1>2, <3>1 DEF TypeOK, Compile, GeneralLayers, Rejected, Goto
    <3> QED
      BY <3>2
  <2> QED
    BY <2>1, <2>2
<1> QED
  BY <1>1, <1>2 DEF Answered, AnswerFor, Compiled, Rejected, EnforceBudget, Fits, FullLength

(* Every compiled prompt is the compiler's answer.                          *)
LEMMA AlwaysAnswered == Spec => []Answered
<1>1. Init => Answered
  BY DEF Init, Answered
<1> QED
  BY <1>1, TypeCorrect, AnsweredStep, PTL DEF Spec

(* token-budget.ts:44: whatever the lengths of the core, the labels and the *)
(* layers, a compiled prompt has at most four characters a token.           *)
THEOREM PromptsFit == Spec => []PromptFits
<1>1. TypeOK /\ Answered => PromptFits
  <2> SUFFICES ASSUME TypeOK, Answered, NEW n \in Runs, at[n] = "compiled"
               PROVE  result[n].length <= 4 * maxTokens
    BY DEF PromptFits
  <2> DEFINE l == chosen[n]
  <2>1. l \in Layers \cup {NoLayer} /\ maxTokens \in Nat /\ CoreLength \in Nat
        /\ FullLength(NoLayer) = CoreLength
    BY ContextAssumption DEF TypeOK, FullLength
  <2>2. result[n] = Compiled(l)
        /\ (Fits(CoreLength) \/ (l \notin Conflicting /\ Fits(FullLength(l))))
    BY DEF Answered, AnswerFor
  <2>3. result[n].length \in Nat /\ Fits(result[n].length)
    BY <2>1, <2>2, FullLengthType DEF Compiled, Rejected, EnforceBudget
  <2> QED
    BY <2>1, <2>3, RoundingUp DEF Fits
<1> QED
  BY <1>1, TypeCorrect, AlwaysAnswered, PTL

(* prompt-compiler.ts:19-32: the general layer is left out only when it is  *)
(* in conflict or does not fit, and the flags tell which.                   *)
THEOREM LeavingOutIsFlagged == Spec => []NothingLeftOutSilently
<1>1. TypeOK /\ Answered => NothingLeftOutSilently
  <2> SUFFICES ASSUME TypeOK, Answered, NEW n \in Runs, at[n] = "compiled"
               PROVE  /\ result[n].conflict <=> chosen[n] \in Conflicting
                      /\ result[n].trimmed <=> /\ chosen[n] \notin Conflicting
                                               /\ FullLength(chosen[n]) > 4 * maxTokens
                      /\ result[n].layer = IF result[n].conflict \/ result[n].trimmed
                                             THEN NoLayer ELSE chosen[n]
    BY DEF NothingLeftOutSilently
  <2> DEFINE l == chosen[n]
  <2>1. l \in Layers \cup {NoLayer} /\ maxTokens \in Nat /\ CoreLength \in Nat
        /\ FullLength(NoLayer) = CoreLength
    BY ContextAssumption DEF TypeOK, FullLength
  <2>2. result[n] = Compiled(l)
        /\ (Fits(CoreLength) \/ (l \notin Conflicting /\ Fits(FullLength(l))))
    BY DEF Answered, AnswerFor
  <2>3. Fits(FullLength(l)) <=> ~(FullLength(l) > 4 * maxTokens)
    BY <2>1, FullLengthType, RoundingUp DEF Fits
  <2>4. CASE l \in Conflicting
    BY <2>1, <2>2, <2>4 DEF Compiled, Rejected, EnforceBudget
  <2>5. CASE l \notin Conflicting
    BY <2>2, <2>3, <2>5 DEF Compiled, Rejected, EnforceBudget
  <2> QED
    BY <2>4, <2>5
<1> QED
  BY <1>1, TypeCorrect, AlwaysAnswered, PTL

----------------------------------------------------------------------------

(* Until the secret is rotated there is one key, in every process and       *)
(* behind every row.                                                        *)
OneKey ==
  secret = 0 => /\ \A r \in Replicas : key[r] = 0
                /\ \A e \in UserEntries \cup RoleEntries : memory[e] \in {NoRow, 0}
                /\ \A n \in Runs : at[n] # "unreadable"

LEMMA OneKeyStep == TypeOK /\ OneKey /\ [Next]_vars => OneKey'
<1> SUFFICES ASSUME TypeOK, OneKey, [Next]_vars, secret' = 0 PROVE OneKey'
  BY DEF OneKey
<1>1. secret = 0 /\ ~Rotate
  BY DEF TypeOK, Next, vars, stores, StartLoading, Compile, LoadMemory, Restart,
         WriteMemory, Rotate, EditLayers
<1>2. ASSUME NEW n \in Runs, StartLoading(n) PROVE OneKey'
  BY <1>1, <1>2 DEF TypeOK, OneKey, StartLoading, Goto, stores
<1>3. ASSUME NEW n \in Runs, Compile(n) PROVE OneKey'
  BY <1>1, <1>3 DEF TypeOK, OneKey, Compile, Goto, stores
<1>4. ASSUME NEW n \in Runs, NEW which \in {"user", "role"}, LoadMemory(n, which)
      PROVE  OneKey'
  <2>1. key[on[n]] = 0
    BY <1>1 DEF TypeOK, OneKey
  <2>2. Readable(UserEntries, key[on[n]]) /\ Readable(RoleEntries, key[on[n]])
    BY <1>1, <2>1 DEF OneKey, Readable
  <2>3. \A m \in Runs : at'[m] # "unreadable"
    BY <1>1, <1>4, <2>2 DEF TypeOK, OneKey, LoadMemory, Goto
  <2> QED
    BY <1>1, <1>4, <2>3 DEF OneKey, LoadMemory, stores
<1>5. ASSUME NEW r \in Replicas, Restart(r) PROVE OneKey'
  BY <1>1, <1>5 DEF TypeOK, OneKey, Restart
<1>6. ASSUME NEW r \in Replicas, NEW e \in UserEntries \cup RoleEntries, WriteMemory(r, e)
      PROVE  OneKey'
  BY <1>1, <1>6 DEF TypeOK, OneKey, WriteMemory, Upsert, Encrypted
<1>7. CASE EditLayers
  BY <1>1, <1>7 DEF OneKey, EditLayers
<1>8. CASE UNCHANGED vars
  BY <1>1, <1>8 DEF OneKey, vars, stores
<1> QED
  BY <1>1, <1>2, <1>3, <1>4, <1>5, <1>6, <1>7, <1>8 DEF Next

(* memory-service.ts:28: with one key, no row of any user or role ever      *)
(* fails a run, whatever replicas write, restart and load.                  *)
THEOREM UnreadableByRotation == Spec => []UnreadableOnlyAfterRotation
<1>1. Init => OneKey
  BY DEF Init, OneKey
<1>2. TypeOK /\ OneKey => UnreadableOnlyAfterRotation
  BY DEF TypeOK, OneKey, UnreadableOnlyAfterRotation
<1> QED
  BY <1>1, <1>2, TypeCorrect, OneKeyStep, PTL DEF Spec
=============================================================================
