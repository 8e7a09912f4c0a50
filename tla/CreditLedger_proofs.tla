------------------------ MODULE CreditLedger_proofs -------------------------
(***************************************************************************)
(* Theorems about CreditLedger, for any calls, applications, jobs, bought  *)
(* credits and faults.                                                     *)
(***************************************************************************)
EXTENDS CreditLedger, FiniteSetTheorems, WellFoundedInduction, TLAPS

(* Every step keeps the types: a sum of the ledger is a number, a command   *)
(* sent twice included.                                                     *)
LEMMA TypeStep == TypeOK /\ [Next]_vars => TypeOK'
<1> SUFFICES ASSUME TypeOK, [Next]_vars PROVE TypeOK'
  OBVIOUS
<1> USE JobsAssumption, NoBalanceAssumption, CreditFaultsAssumption
<1> DEFINE Places == Awaiting \cup Ended \cup {"idle"}
<1>1. ASSUME NEW c \in Calls, NEW j \in Jobs, Call(c, j) PROVE TypeOK'
  <2>1. j.op \in {"use", "refund", "read"}
    OBVIOUS
  <2>2. at' \in [Calls -> Places]
    BY <1>1, <2>1 DEF TypeOK, Call, Goto, Awaiting
  <2>3. \A d \in Calls : at'[d] # "idle" => job'[d] \in Jobs
    BY <1>1 DEF TypeOK, Call, Goto
  <2> QED
    BY <1>1, <2>2, <2>3 DEF TypeOK, Call
<1>2. ASSUME NEW c \in Calls, Step(c) PROVE TypeOK'
  <2>1. at[c] # "idle" /\ job[c] \in Jobs /\ job[c].app \in Apps /\ job[c].amount \in Nat
    BY <1>2 DEF TypeOK, Step, Deduct, Debit, Credit, Load, Lookup, Sum, Fill
  <2>2. ASSUME NEW where \in Places, Goto(c, where), UNCHANGED job
        PROVE  /\ at' \in [Calls -> Places]
               /\ \A d \in Calls : at'[d] # "idle" => job'[d] \in Jobs
    BY <2>1, <2>2 DEF TypeOK, Goto
  <2>3. ASSUME NEW n \in Int, Record(c, n) PROVE ledger' \in [Apps -> Int]
    BY <2>1, <2>3 DEF TypeOK, Record
  <2>4. -job[c].amount \in Int /\ job[c].amount \in Int
    BY <2>1
  <2>5. Funds \in Int
    BY DEF TypeOK, Funds
  <2>6. CASE Deduct(c)
    <3>1. balance' \in Int \cup {NoBalance}
      BY <2>1, <2>6 DEF TypeOK, Deduct, Affords
    <3> QED
      BY <2>2, <2>6, <3>1 DEF TypeOK, Deduct, Awaiting, Ended
  <2>7. CASE Debit(c)
    BY <2>2, <2>3, <2>4, <2>7 DEF TypeOK, Debit, Ended
  <2>8. CASE Credit(c)
    BY <2>2, <2>3, <2>4, <2>8 DEF TypeOK, Credit, Awaiting
  <2>9. CASE Load(c)
    BY <2>1, <2>2, <2>5, <2>9 DEF TypeOK, Load, Ended
  <2>10. CASE Lookup(c)
    BY <2>2, <2>10 DEF TypeOK, Lookup, Awaiting, Ended
  <2>11. CASE Sum(c)
    <3>1. seen' \in [Calls -> Int]
      BY <2>1, <2>11 DEF TypeOK, Sum
    <3> QED
      BY <2>2, <2>11, <3>1 DEF TypeOK, Sum, Awaiting
  <2>12. CASE Fill(c)
    BY <2>2, <2>12 DEF TypeOK, Fill, Ended
  <2> QED
    BY <1>2, <2>6, <2>7, <2>8, <2>9, <2>10, <2>11, <2>12 DEF Step
<1>3. ASSUME NEW c \in Calls, Fail(c) PROVE TypeOK'
  BY <1>3 DEF TypeOK, Fail, Goto, Awaiting, Ended
<1>4. ASSUME NEW c \in Calls, LoseReply(c) PROVE TypeOK'
  <2>1. job[c] \in Jobs /\ job[c].amount \in Nat
    BY <1>4 DEF TypeOK, LoseReply
  <2>2. Funds \in Int
    BY DEF TypeOK, Funds
  <2>3. balance' \in Int \cup {NoBalance} /\ reloaded' \in Nat
    BY <1>4, <2>1, <2>2 DEF TypeOK, LoseReply, Affords
  <2> QED
    BY <1>4, <2>3 DEF TypeOK, LoseReply
<1>5. CASE UNCHANGED vars
  BY <1>5 DEF TypeOK, vars
<1> QED
  BY <1>1, <1>2, <1>3, <1>4, <1>5 DEF Next

(* Every variable keeps its type.                                           *)
THEOREM TypeCorrect == Spec => []TypeOK
<1>1. Init => TypeOK
  BY PurchasedAssumption, LoadedAssumption, CreditFaultsAssumption
  DEF Init, TypeOK
<1> QED
  BY <1>1, TypeStep, PTL DEF Spec

----------------------------------------------------------------------------

(* NeverOverdrawn is not inductive: a rebuilt balance may be any number.    *)
(* A key that is there at first is never missed, so that nobody rebuilds it *)
(* has to be part of the invariant.                                         *)
Solvent ==
  /\ balance # NoBalance /\ balance >= 0
  /\ \A c \in Calls : at[c] \notin {"sum", "fill"}

LEMMA SolventStep == TypeOK /\ Solvent /\ [Next]_vars => Solvent'
<1> SUFFICES ASSUME TypeOK, Solvent, [Next]_vars PROVE Solvent'
  OBVIOUS
<1> USE JobsAssumption, NoBalanceAssumption
<1>1. balance \in Nat
  BY DEF TypeOK, Solvent
<1>2. ASSUME NEW c \in Calls, NEW where, where \notin {"sum", "fill"}, Goto(c, where)
      PROVE  \A d \in Calls : at'[d] \notin {"sum", "fill"}
  BY <1>2 DEF TypeOK, Solvent, Goto
<1>3. ASSUME NEW c \in Calls, NEW j \in Jobs, Call(c, j) PROVE Solvent'
  <2>1. j.op \in {"use", "refund", "read"}
    OBVIOUS
  <2>2. \A d \in Calls : at'[d] \notin {"sum", "fill"}
    BY <1>2, <1>3, <2>1 DEF Call
  <2> QED
    BY <1>3, <2>2 DEF Solvent, Call
<1>4. ASSUME NEW c \in Calls, Step(c) PROVE Solvent'
  <2>1. at[c] # "idle" /\ job[c].amount \in Nat
    BY <1>4 DEF TypeOK, Step, Deduct, Debit, Credit, Load, Lookup, Sum, Fill
  <2>2. CASE Deduct(c)
    <3>1. balance' \in Nat
      BY <1>1, <2>1, <2>2 DEF Deduct, Affords
    <3> QED
      BY <1>2, <2>2, <3>1 DEF Solvent, Deduct
  <2>3. CASE Debit(c)
    BY <1>2, <2>3 DEF Solvent, Debit
  <2>4. CASE Credit(c)
    BY <1>2, <2>4 DEF Solvent, Credit
  <2>5. CASE Load(c)
    <3>1. balance' \in Nat
      BY <1>1, <2>1, <2>5 DEF Load, Funds
    <3> QED
      BY <1>2, <2>5, <3>1 DEF Solvent, Load
  <2>6. CASE Lookup(c)
    BY <1>2, <2>6 DEF Solvent, Lookup
  <2>7. ~Sum(c) /\ ~Fill(c)
    BY DEF Solvent, Sum, Fill
  <2> QED
    BY <1>4, <2>2, <2>3, <2>4, <2>5, <2>6, <2>7 DEF Step
<1>5. ASSUME NEW c \in Calls, Fail(c) PROVE Solvent'
  BY <1>2, <1>5 DEF Solvent, Fail
<1>6. ASSUME NEW c \in Calls, LoseReply(c) PROVE Solvent'
  <2>1. job[c].amount \in Nat
    BY <1>6 DEF TypeOK, LoseReply
  <2>2. balance' \in Nat
    BY <1>1, <1>6, <2>1 DEF LoseReply, Affords, Funds
  <2> QED
    BY <1>6, <2>2 DEF Solvent, LoseReply
<1>7. CASE UNCHANGED vars
  BY <1>7 DEF Solvent, vars
<1> QED
  BY <1>3, <1>4, <1>5, <1>6, <1>7 DEF Next

(* Whether the key was missing at first is a fact of the past.              *)
LEMMA ColdStays == [Next]_vars => cold' = cold
BY DEF Next, vars, Call, Step, Deduct, Debit, Credit, Load, Lookup, Sum, Fill,
       Fail, LoseReply

(* credits.ts:13: the script's check and its deduction cannot be separated. *)
(* A balance that was in Redis to begin with never goes below zero.         *)
THEOREM BalanceIsNeverOverdrawn == Spec => []NeverOverdrawn
<1>1. Init => cold \/ Solvent
  BY LoadedAssumption, NoBalanceAssumption DEF Init, Solvent
<1>2. cold \/ Solvent => NeverOverdrawn
  BY DEF Solvent, NeverOverdrawn
<1>3. TypeOK /\ (cold \/ Solvent) /\ [Next]_vars => (cold \/ Solvent)'
  BY SolventStep, ColdStays
<1> QED
  BY <1>1, <1>2, <1>3, TypeCorrect, PTL DEF Spec

----------------------------------------------------------------------------

(* Sums over finite sets.  The library defines them by a fold, and of the   *)
(* fold by choosing a function that obeys its equation; that there is one,  *)
(* and that it does not matter which element is taken first, is proved by   *)
(* induction: of the subsets with a counterexample, one would have none     *)
(* below it.                                                                *)

(* Of some subsets of a finite set, one has none of the others below it.    *)
LEMMA SmallestSubset ==
  ASSUME NEW T, IsFiniteSet(T), NEW Bad, Bad \subseteq SUBSET T, Bad # {}
  PROVE  \E s \in Bad : \A t \in Bad : t \subseteq s => t = s
<1>1. IsWellFoundedOn(StrictSubsetOrdering(T), SUBSET T)
  BY FS_StrictSubsetOrderingWellFounded, FS_FiniteSubsetsOfFinite
<1>2. PICK s \in Bad : \A t \in Bad : << t, s >> \notin StrictSubsetOrdering(T)
  BY <1>1, WFMin
<1>3. \A t \in Bad : t \subseteq s => t = s
  BY <1>2 DEF StrictSubsetOrdering
<1> QED
  BY <1>3

Pick(s) == CHOOSE x \in s : TRUE

(* g maps each subset of T to the sum of f over it: the equation by which   *)
(* the library defines its fold.                                            *)
IsSum(g, f, T) ==
  g = [s \in SUBSET T |-> IF s = {} THEN 0 ELSE f[Pick(s)] + g[s \ {Pick(s)}]]

LEMMA SumIsChosen ==
  ASSUME NEW f, NEW T PROVE SumFunctionOnSet(f, T) = (CHOOSE g : IsSum(g, f, T))[T]
BY DEF SumFunctionOnSet, FoldFunctionOnSet, MapThenFoldSet, IsSum, Pick

(* Two solutions agree where both are defined.                              *)
LEMMA SumUnique ==
  ASSUME NEW f, NEW g, NEW h, NEW S, NEW T, IsSum(g, f, S), IsSum(h, f, T),
         NEW U, U \subseteq S, U \subseteq T, IsFiniteSet(U)
  PROVE  g[U] = h[U]
<1> DEFINE Bad == { s \in SUBSET U : g[s] # h[s] }
<1> SUFFICES ASSUME Bad # {} PROVE FALSE
  OBVIOUS
<1>1. PICK s \in Bad : \A t \in Bad : t \subseteq s => t = s
  <2>1. Bad \subseteq SUBSET U
    OBVIOUS
  <2> HIDE DEF Bad
  <2> QED
    BY <2>1, SmallestSubset
<1>2. s \in SUBSET S /\ s \in SUBSET T
  OBVIOUS
<1>3. g[s] = IF s = {} THEN 0 ELSE f[Pick(s)] + g[s \ {Pick(s)}]
  BY <1>2 DEF IsSum
<1>4. h[s] = IF s = {} THEN 0 ELSE f[Pick(s)] + h[s \ {Pick(s)}]
  BY <1>2 DEF IsSum
<1>5. s # {}
  BY <1>3, <1>4
<1>6. Pick(s) \in s
  BY <1>5 DEF Pick
<1>7. g[s \ {Pick(s)}] = h[s \ {Pick(s)}]
  BY <1>1, <1>6
<1> QED
  BY <1>3, <1>4, <1>7

(* There is a solution, by induction over the subsets.                      *)
LEMMA SumExists ==
  ASSUME NEW f, NEW T, IsFiniteSet(T) PROVE \E g : IsSum(g, f, T)
<1> DEFINE V(s) == SumFunctionOnSet(f, s)
           Bad == { s \in SUBSET T : ~\E g : IsSum(g, f, s) }
<1> SUFFICES ASSUME Bad # {} PROVE FALSE
  OBVIOUS
<1>1. PICK s \in Bad : \A t \in Bad : t \subseteq s => t = s
  <2>1. Bad \subseteq SUBSET T
    OBVIOUS
  <2> HIDE DEF Bad
  <2> QED
    BY <2>1, SmallestSubset
<1>2. \A r \in SUBSET s : r # s => \E h : IsSum(h, f, r) /\ V(r) = h[r]
  BY <1>1, SumIsChosen
<1>3. ASSUME NEW r \in SUBSET s, r # s
      PROVE  V(r) = IF r = {} THEN 0 ELSE f[Pick(r)] + V(r \ {Pick(r)})
  <2>1. PICK h : IsSum(h, f, r) /\ V(r) = h[r]
    BY <1>2, <1>3
  <2>2. h[r] = IF r = {} THEN 0 ELSE f[Pick(r)] + h[r \ {Pick(r)}]
    BY <2>1 DEF IsSum
  <2>3. CASE r # {}
    <3> DEFINE q == r \ {Pick(r)}
    <3>1. q \subseteq r /\ q # s /\ IsFiniteSet(q)
      BY <1>3, FS_Subset
    <3>2. PICK k : IsSum(k, f, q) /\ V(q) = k[q]
      BY <1>2, <1>3, <3>1
    <3>3. h[q] = k[q]
      BY <2>1, <3>1, <3>2, SumUnique
    <3> QED
      BY <2>1, <2>2, <2>3, <3>2, <3>3
  <2> QED
    BY <2>1, <2>2, <2>3
<1> DEFINE g == [r \in SUBSET s |-> IF r = {} THEN 0 ELSE f[Pick(r)] + V(r \ {Pick(r)})]
<1>4. ASSUME NEW r \in SUBSET s, r # {} PROVE V(r \ {Pick(r)}) = g[r \ {Pick(r)}]
  <2>1. r \ {Pick(r)} \in SUBSET s /\ r \ {Pick(r)} # s
    BY <1>4 DEF Pick
  <2> QED
    BY <1>3, <2>1
<1>5. IsSum(g, f, s)
  <2>1. \A r \in SUBSET s :
          g[r] = IF r = {} THEN 0 ELSE f[Pick(r)] + g[r \ {Pick(r)}]
    BY <1>4
  <2>2. g = [r \in SUBSET s |-> g[r]]
    OBVIOUS
  <2> HIDE DEF g
  <2> QED
    BY <2>1, <2>2 DEF IsSum
<1> QED
  BY <1>5

(* The sum's own equation.                                                  *)
LEMMA SumEquation ==
  ASSUME NEW f, NEW T, IsFiniteSet(T)
  PROVE  SumFunctionOnSet(f, T)
           = IF T = {} THEN 0
             ELSE f[Pick(T)] + SumFunctionOnSet(f, T \ {Pick(T)})
<1>1. ASSUME NEW U, IsFiniteSet(U)
      PROVE  \E g : IsSum(g, f, U) /\ SumFunctionOnSet(f, U) = g[U]
  BY <1>1, SumIsChosen, SumExists
<1>2. PICK g : IsSum(g, f, T) /\ SumFunctionOnSet(f, T) = g[T]
  BY <1>1
<1> DEFINE U == T \ {Pick(T)}
<1>3. IsFiniteSet(U)
  BY FS_Subset
<1>4. PICK h : IsSum(h, f, U) /\ SumFunctionOnSet(f, U) = h[U]
  BY <1>1, <1>3
<1>5. g[U] = h[U]
  BY <1>2, <1>3, <1>4, SumUnique
<1>6. g[T] = IF T = {} THEN 0 ELSE f[Pick(T)] + g[U]
  BY <1>2 DEF IsSum
<1> QED
  BY <1>2, <1>4, <1>5, <1>6

(* The sum of integers is one, of naturals a natural.                       *)
LEMMA SumType ==
  ASSUME NEW f, NEW T, IsFiniteSet(T), \A x \in T : f[x] \in Int
  PROVE  /\ SumFunctionOnSet(f, T) \in Int
         /\ (\A x \in T : f[x] >= 0) => SumFunctionOnSet(f, T) >= 0
<1> DEFINE Fine(s) ==
             /\ SumFunctionOnSet(f, s) \in Int
             /\ (\A x \in T : f[x] >= 0) => SumFunctionOnSet(f, s) >= 0
           Bad == { s \in SUBSET T : ~Fine(s) }
<1> SUFFICES ASSUME Bad # {} PROVE FALSE
  OBVIOUS
<1>1. PICK s \in Bad : \A t \in Bad : t \subseteq s => t = s
  <2>1. Bad \subseteq SUBSET T
    OBVIOUS
  <2> HIDE DEF Bad
  <2> QED
    BY <2>1, SmallestSubset
<1>2. SumFunctionOnSet(f, s) = IF s = {} THEN 0
        ELSE f[Pick(s)] + SumFunctionOnSet(f, s \ {Pick(s)})
  BY SumEquation, FS_Subset
<1>3. s # {}
  BY <1>2
<1>4. Pick(s) \in s
  BY <1>3 DEF Pick
<1>5. Fine(s \ {Pick(s)})
  BY <1>1, <1>4
<1> QED
  BY <1>2, <1>3, <1>4, <1>5

(* Any element may be the first to be taken out.                            *)
LEMMA SumRemove ==
  ASSUME NEW f, NEW T, IsFiniteSet(T), \A x \in T : f[x] \in Int, NEW e \in T
  PROVE  SumFunctionOnSet(f, T) = f[e] + SumFunctionOnSet(f, T \ {e})
<1> DEFINE V(s) == SumFunctionOnSet(f, s)
           Bad == { s \in SUBSET T : \E x \in s : V(s) # f[x] + V(s \ {x}) }
<1> SUFFICES ASSUME Bad # {} PROVE FALSE
  OBVIOUS
<1>1. PICK s \in Bad : \A t \in Bad : t \subseteq s => t = s
  <2>1. Bad \subseteq SUBSET T
    OBVIOUS
  <2> HIDE DEF Bad
  <2> QED
    BY <2>1, SmallestSubset
<1>2. PICK x \in s : V(s) # f[x] + V(s \ {x})
  OBVIOUS
<1> DEFINE p == Pick(s)
<1>3. p \in s
  BY <1>2 DEF Pick
<1>4. V(s) = f[p] + V(s \ {p})
  BY <1>2, SumEquation, FS_Subset
<1>5. p # x
  BY <1>2, <1>4
<1>6. ASSUME NEW t \in SUBSET s, t # s, NEW y \in t
      PROVE  V(t) = f[y] + V(t \ {y})
  BY <1>1, <1>6
<1>7. V(s \ {p}) = f[x] + V((s \ {p}) \ {x})
  <2>1. s \ {p} \in SUBSET s /\ s \ {p} # s /\ x \in s \ {p}
    BY <1>2, <1>3, <1>5
  <2> QED
    BY <1>6, <2>1
<1>8. V(s \ {x}) = f[p] + V((s \ {x}) \ {p})
  <2>1. s \ {x} \in SUBSET s /\ s \ {x} # s /\ p \in s \ {x}
    BY <1>2, <1>3, <1>5
  <2> QED
    BY <1>6, <2>1
<1> DEFINE r == (s \ {x}) \ {p}
<1>9. (s \ {p}) \ {x} = r
  OBVIOUS
<1>10. V(r) \in Int
  BY SumType, FS_Subset
<1>11. f[p] \in Int /\ f[x] \in Int
  BY <1>3
<1>12. f[p] + (f[x] + V(r)) = f[x] + (f[p] + V(r))
  <2> HIDE DEF Bad, V, p, r
  <2> QED
    BY <1>10, <1>11
<1>13. V(s) = f[x] + V(s \ {x})
  BY <1>4, <1>7, <1>8, <1>9, <1>12
<1> QED
  BY <1>2, <1>13

(* Only what is summed matters.                                             *)
LEMMA SumSame ==
  ASSUME NEW f, NEW g, NEW T, IsFiniteSet(T), \A x \in T : f[x] = g[x]
  PROVE  SumFunctionOnSet(f, T) = SumFunctionOnSet(g, T)
<1> DEFINE Bad == { s \in SUBSET T : SumFunctionOnSet(f, s) # SumFunctionOnSet(g, s) }
<1> SUFFICES ASSUME Bad # {} PROVE FALSE
  OBVIOUS
<1>1. PICK s \in Bad : \A t \in Bad : t \subseteq s => t = s
  <2>1. Bad \subseteq SUBSET T
    OBVIOUS
  <2> HIDE DEF Bad
  <2> QED
    BY <2>1, SmallestSubset
<1>2. \A h : SumFunctionOnSet(h, s) = IF s = {} THEN 0
        ELSE h[Pick(s)] + SumFunctionOnSet(h, s \ {Pick(s)})
  BY SumEquation, FS_Subset
<1>3. s # {}
  BY <1>2
<1>4. Pick(s) \in s
  BY <1>3 DEF Pick
<1>5. SumFunctionOnSet(f, s \ {Pick(s)}) = SumFunctionOnSet(g, s \ {Pick(s)})
  BY <1>1, <1>4
<1> QED
  BY <1>2, <1>3, <1>4, <1>5

LEMMA SumOfZeros ==
  ASSUME NEW T, IsFiniteSet(T) PROVE SumFunctionOnSet([x \in T |-> 0], T) = 0
<1> DEFINE f == [x \in T |-> 0]
           Bad == { s \in SUBSET T : SumFunctionOnSet(f, s) # 0 }
<1> SUFFICES ASSUME Bad # {} PROVE FALSE
  OBVIOUS
<1>1. PICK s \in Bad : \A t \in Bad : t \subseteq s => t = s
  <2>1. Bad \subseteq SUBSET T
    OBVIOUS
  <2> HIDE DEF Bad
  <2> QED
    BY <2>1, SmallestSubset
<1>2. SumFunctionOnSet(f, s) = IF s = {} THEN 0
        ELSE f[Pick(s)] + SumFunctionOnSet(f, s \ {Pick(s)})
  BY SumEquation, FS_Subset
<1>3. s # {}
  BY <1>2
<1>4. Pick(s) \in s
  BY <1>3 DEF Pick
<1>5. SumFunctionOnSet(f, s \ {Pick(s)}) = 0
  BY <1>1, <1>4
<1>6. f[Pick(s)] = 0
  BY <1>4
<1> QED
  BY <1>2, <1>3, <1>5, <1>6

(* Changing one summand changes the sum by as much.                         *)
LEMMA SumUpdate ==
  ASSUME NEW f, NEW g, NEW T, IsFiniteSet(T), NEW e \in T,
         \A x \in T : f[x] \in Int, g[e] \in Int,
         \A x \in T : x # e => g[x] = f[x]
  PROVE  SumFunctionOnSet(g, T) = SumFunctionOnSet(f, T) - f[e] + g[e]
<1> DEFINE U == T \ {e}
<1>1. IsFiniteSet(U)
  BY FS_Subset
<1>2. SumFunctionOnSet(f, T) = f[e] + SumFunctionOnSet(f, U)
  BY SumRemove
<1>3. SumFunctionOnSet(g, T) = g[e] + SumFunctionOnSet(g, U)
  BY SumRemove
<1>4. SumFunctionOnSet(f, U) = SumFunctionOnSet(g, U)
  BY <1>1, SumSame
<1>5. SumFunctionOnSet(f, U) \in Int
  BY <1>1, SumType
<1> HIDE DEF U
<1> QED
  BY <1>2, <1>3, <1>4, <1>5

(* No summand is more than the sum, if none is below zero.                  *)
LEMMA SumAtLeast ==
  ASSUME NEW f, NEW T, IsFiniteSet(T), \A x \in T : f[x] \in Nat, NEW e \in T
  PROVE  f[e] <= SumFunctionOnSet(f, T)
<1>1. SumFunctionOnSet(f, T) = f[e] + SumFunctionOnSet(f, T \ {e})
  BY SumRemove
<1>2. SumFunctionOnSet(f, T \ {e}) \in Int /\ SumFunctionOnSet(f, T \ {e}) >= 0
  BY SumType, FS_Subset
<1> QED
  BY <1>1, <1>2

----------------------------------------------------------------------------

(* What a call has in flight is a number of credits.                        *)
LEMMA InFlightType ==
  ASSUME TypeOK
  PROVE  /\ \A c \in Calls : InFlight[c] \in Nat
         /\ Total \in Int /\ Pending \in Nat /\ Funds \in Int /\ Reserve \in Int
<1>1. \A c \in Calls : InFlight[c] \in Nat
  BY JobsAssumption DEF TypeOK, InFlight
<1>2. \A a \in Apps : ledger[a] \in Int
  BY DEF TypeOK
<1>3. Total \in Int
  BY <1>2, SumType, FiniteAssumption DEF Total
<1>4. Pending \in Nat
  BY <1>1, SumType, FiniteAssumption DEF Pending
<1>5. Funds \in Int
  BY NoBalanceAssumption DEF TypeOK, Funds
<1> QED
  BY <1>1, <1>3, <1>4, <1>5 DEF TypeOK, Reserve

LEMMA ReserveType == TypeOK => Reserve \in Int
BY InFlightType

LEMMA ReserveTypeNext == TypeOK' => (Reserve \in Int)'
BY ReserveType, PTL

(* A step of one call changes what is in flight by what that call does.     *)
LEMMA PendingMove ==
  ASSUME TypeOK, TypeOK', NEW c \in Calls,
         \A d \in Calls : d # c => at'[d] = at[d] /\ job'[d] = job[d]
  PROVE  Pending' = Pending - InFlight[c] + InFlight'[c]
<1>1. \A d \in Calls : InFlight[d] \in Nat
  BY InFlightType
<1>2. InFlight'[c] \in Int
  BY JobsAssumption DEF TypeOK, InFlight
<1>3. \A d \in Calls : d # c => InFlight'[d] = InFlight[d]
  BY DEF InFlight
<1> HIDE DEF InFlight
<1> QED
  BY <1>1, <1>2, <1>3, SumUpdate, FiniteAssumption DEF Pending

(* A row changes the total by its amount.                                   *)
LEMMA TotalMove ==
  ASSUME TypeOK, NEW c \in Calls, job[c] \in Jobs, NEW n \in Int, Record(c, n)
  PROVE  Total' = Total + n
<1> DEFINE a == job[c].app
<1>1. a \in Apps
  BY JobsAssumption
<1>2. /\ \A b \in Apps : ledger[b] \in Int
      /\ ledger'[a] = ledger[a] + n /\ ledger'[a] \in Int
      /\ \A b \in Apps : b # a => ledger'[b] = ledger[b]
  BY <1>1 DEF TypeOK, Record
<1> HIDE DEF a
<1>3. Total' = Total - ledger[a] + ledger'[a]
  BY <1>1, <1>2, SumUpdate, FiniteAssumption DEF Total
<1>4. Total \in Int
  BY InFlightType
<1> QED
  BY <1>1, <1>2, <1>3, <1>4

(* Only a balance that is rebuilt can make Redis grant more than before,    *)
(* and without a fault nothing changes what Redis and the ledger differ by. *)
LEMMA ReserveStep ==
  ASSUME TypeOK, TypeOK', [Next]_vars, \A c \in Calls : ~Fill(c)
  PROVE  Reserve' = Reserve \/ (Reserve' >= Reserve /\ faults' > 0)
<1> USE JobsAssumption, NoBalanceAssumption, InFlightType
<1>1. ASSUME NEW c \in Calls, NEW j \in Jobs, Call(c, j) PROVE Reserve' = Reserve
  <2>1. InFlight[c] = 0 /\ InFlight'[c] = 0
    <3>1. j.op \in {"use", "refund", "read"}
      OBVIOUS
    <3> QED
      BY <1>1, <3>1 DEF Call, Goto, InFlight, TypeOK
  <2>2. \A d \in Calls : d # c => at'[d] = at[d] /\ job'[d] = job[d]
    BY <1>1 DEF Call, Goto, TypeOK
  <2>3. Pending' = Pending
    BY <2>1, <2>2, PendingMove
  <2>4. Total' = Total /\ Funds' = Funds /\ reloaded' = reloaded
    BY <1>1 DEF Call, Total, Funds
  <2> QED
    BY <2>3, <2>4 DEF Reserve
<1>2. ASSUME NEW c \in Calls, Step(c) PROVE Reserve' = Reserve
  <2>1. /\ at[c] # "idle" /\ job[c] \in Jobs /\ job[c].amount \in Nat
        /\ UNCHANGED << job, reloaded >>
    BY <1>2 DEF TypeOK, Step, Deduct, Debit, Credit, Load, Lookup, Sum, Fill
  <2> DEFINE n == job[c].amount
  <2>2. ASSUME NEW where, Goto(c, where)
        PROVE  /\ Pending' = Pending - InFlight[c] + InFlight'[c]
               /\ InFlight[c] = IF at[c] \in {"debit", "load"} THEN n ELSE 0
               /\ InFlight'[c] = IF where \in {"debit", "load"} THEN n ELSE 0
    <3>1. \A d \in Calls : d # c => at'[d] = at[d] /\ job'[d] = job[d]
      BY <2>1, <2>2 DEF Goto, TypeOK
    <3>2. Pending' = Pending - InFlight[c] + InFlight'[c]
      BY <3>1, PendingMove
    <3> QED
      BY <2>1, <2>2, <3>2 DEF InFlight, Goto, TypeOK
  <2>3. UNCHANGED ledger => Total' = Total
    BY DEF Total
  <2>4. UNCHANGED balance => Funds' = Funds
    BY DEF Funds
  <2>5. CASE Deduct(c) /\ Affords(c)
    <3>1. Pending' = Pending + n
      BY <2>1, <2>2, <2>5 DEF Deduct
    <3>2. Funds' = Funds - n /\ Total' = Total
      BY <2>1, <2>3, <2>5 DEF Deduct, Affords, Funds, TypeOK
    <3> QED
      BY <2>1, <3>1, <3>2 DEF Reserve, TypeOK
  <2>6. CASE Deduct(c) /\ ~Affords(c)
    <3>1. Pending' = Pending
      BY <2>2, <2>6 DEF Deduct
    <3> QED
      BY <2>1, <2>3, <2>4, <2>6, <3>1 DEF Reserve, Deduct
  <2>7. CASE Debit(c)
    <3>1. Pending' = Pending - n
      BY <2>1, <2>2, <2>7 DEF Debit
    <3>2. Total' = Total + (-n)
      BY <2>1, <2>7, TotalMove DEF Debit
    <3>3. Funds' = Funds
      BY <2>4, <2>7 DEF Debit
    <3> QED
      BY <2>1, <3>1, <3>2, <3>3 DEF Reserve, TypeOK
  <2>8. CASE Credit(c)
    <3>1. Pending' = Pending + n
      BY <2>1, <2>2, <2>8 DEF Credit
    <3>2. Total' = Total + n
      BY <2>1, <2>8, TotalMove DEF Credit
    <3>3. Funds' = Funds
      BY <2>4, <2>8 DEF Credit
    <3> QED
      BY <2>1, <3>1, <3>2, <3>3 DEF Reserve, TypeOK
  <2>9. CASE Load(c)
    <3>1. Pending' = Pending - n
      BY <2>1, <2>2, <2>9 DEF Load
    <3>2. Funds' = Funds + n
      <4>1. Funds + n \in Int
        BY <2>1
      <4> QED
        BY <2>9, <4>1 DEF Load, Funds
    <3>3. Total' = Total
      BY <2>3, <2>9 DEF Load
    <3> QED
      BY <2>1, <3>1, <3>2, <3>3 DEF Reserve, TypeOK
  <2>10. CASE Lookup(c) \/ Sum(c)
    <3>1. PICK where \in {"sum", "done", "fill"} : Goto(c, where)
      BY <2>10 DEF Lookup, Sum
    <3>2. Pending' = Pending
      BY <2>2, <2>10, <3>1 DEF Lookup, Sum
    <3> QED
      BY <2>1, <2>3, <2>4, <2>10, <3>2 DEF Reserve, Lookup, Sum
  <2> QED
    BY <1>2, <2>5, <2>6, <2>7, <2>8, <2>9, <2>10 DEF Step
<1>3. ASSUME NEW c \in Calls, Fail(c) PROVE Reserve' >= Reserve /\ faults' > 0
  <2>1. \A d \in Calls : d # c => at'[d] = at[d] /\ job'[d] = job[d]
    BY <1>3 DEF Fail, Goto, TypeOK
  <2>2. InFlight'[c] = 0
    BY <1>3 DEF Fail, Goto, InFlight, TypeOK
  <2>3. Pending' = Pending - InFlight[c]
    BY <2>1, <2>2, PendingMove
  <2>4. Total' = Total /\ Funds' = Funds /\ reloaded' = reloaded /\ faults' > 0
    BY <1>3 DEF Fail, Total, Funds, TypeOK
  <2>5. InFlight[c] \in Nat
    OBVIOUS
  <2> QED
    BY <2>3, <2>4, <2>5 DEF Reserve, TypeOK
<1>4. ASSUME NEW c \in Calls, LoseReply(c) PROVE Reserve' >= Reserve /\ faults' > 0
  <2>1. job[c].amount \in Nat
    BY <1>4 DEF LoseReply, TypeOK
  <2>2. Total' = Total /\ Pending' = Pending /\ faults' > 0
    BY <1>4 DEF LoseReply, Total, Pending, InFlight, TypeOK
  <2>3. CASE at[c] = "deduct"
    <3>1. Funds' = Funds - job[c].amount /\ reloaded' = reloaded
      BY <1>4, <2>1, <2>3 DEF LoseReply, Affords, Funds, TypeOK
    <3> QED
      BY <2>1, <2>2, <3>1 DEF Reserve, TypeOK
  <2>4. CASE at[c] = "load"
    <3>1. balance' = Funds + job[c].amount /\ reloaded' = reloaded + job[c].amount
      BY <1>4, <2>4 DEF LoseReply
    <3>2. Funds + job[c].amount \in Int
      BY <2>1
    <3>3. Funds' = Funds + job[c].amount
      BY <3>1, <3>2 DEF Funds
    <3> QED
      BY <2>1, <2>2, <3>1, <3>3 DEF Reserve, TypeOK
  <2> QED
    BY <1>4, <2>3, <2>4 DEF LoseReply
<1>5. CASE UNCHANGED vars
  BY <1>5 DEF vars, Reserve, Total, Funds, Pending, InFlight
<1> QED
  BY <1>1, <1>2, <1>3, <1>4, <1>5 DEF Next

----------------------------------------------------------------------------

(* With a balance that is there at first, nobody rebuilds it: what the      *)
(* ledger grants never falls behind Redis, and is the same until a fault.   *)
Books ==
  /\ Solvent
  /\ Reserve >= 0
  /\ faults = 0 => Reserve = 0

LEMMA BooksInit == Init => cold \/ Books
<1> SUFFICES ASSUME Init, ~cold PROVE Books
  OBVIOUS
<1> USE InStepAssumption, LoadedAssumption, NoBalanceAssumption
<1>1. balance # NoBalance /\ balance \in Nat /\ balance = Total
  BY DEF Init, Total
<1>2. Solvent
  BY <1>1 DEF Init, Solvent
<1>3. Pending = 0
  <2>1. \A c \in Calls : InFlight[c] = 0
    BY DEF Init, InFlight
  <2> HIDE DEF InFlight
  <2>2. \A c \in Calls : [d \in Calls |-> 0][c] = 0
    OBVIOUS
  <2>3. Pending = SumFunctionOnSet([d \in Calls |-> 0], Calls)
    BY <2>1, <2>2, SumSame, FiniteAssumption DEF Pending
  <2> QED
    BY <2>3, SumOfZeros, FiniteAssumption
<1>4. Reserve = 0
  BY <1>1, <1>3 DEF Init, Reserve, Funds
<1> QED
  BY <1>2, <1>4 DEF Books

LEMMA BooksStep == TypeOK /\ TypeOK' /\ (cold \/ Books) /\ [Next]_vars => (cold \/ Books)'
<1> SUFFICES ASSUME TypeOK, TypeOK', Books, [Next]_vars PROVE Books'
  BY ColdStays
<1>1. Solvent'
  BY SolventStep DEF Books
<1>2. \A c \in Calls : ~Fill(c)
  BY DEF Books, Solvent, Fill
<1>3. Reserve' = Reserve \/ (Reserve' >= Reserve /\ faults' > 0)
  BY <1>2, ReserveStep
<1>4. faults' = 0 => faults = 0
  BY CreditFaultsAssumption DEF Next, vars, Call, Step, Deduct, Debit, Credit, Load, Lookup, Sum,
         Fill, Fail, LoseReply, TypeOK
<1>5. Reserve \in Int /\ Reserve' \in Int
  BY ReserveType, ReserveTypeNext
<1> QED
  BY <1>1, <1>3, <1>4, <1>5 DEF Books

LEMMA BooksHold == Spec => [](cold \/ Books)
BY BooksInit, BooksStep, TypeCorrect, PTL DEF Spec

(* credit.service.ts:19-54: with nothing lost, Redis and the ledger differ  *)
(* by the calls between the two, whatever the interleaving.                 *)
THEOREM BooksAlwaysAgree == Spec => []BooksAgree
<1>1. cold \/ Books => BooksAgree
  BY DEF Books, BooksAgree
<1> QED
  BY <1>1, BooksHold, PTL

(* credits.ts:14: failures, deaths and repeated commands included, what was *)
(* served is covered by what the tenant was given.                          *)
THEOREM SpendingIsCovered == Spec => []SpendingCovered
<1>1. TypeOK /\ (cold \/ Books) => SpendingCovered
  <2> SUFFICES ASSUME TypeOK, Books PROVE Total + reloaded >= 0
    BY DEF SpendingCovered
  <2>1. Funds \in Nat
    BY DEF Books, Solvent, Funds, TypeOK
  <2>2. Total + reloaded = Reserve + Funds + Pending
    BY InFlightType DEF Reserve, TypeOK
  <2> QED
    BY <2>1, <2>2, InFlightType DEF Books
<1> QED
  BY <1>1, BooksHold, TypeCorrect, PTL

----------------------------------------------------------------------------

(* As long as the key is missing nobody can spend, so that the ledger only  *)
(* grows and a sum that was read from it is not too much later.             *)
Missing ==
  balance = NoBalance =>
    /\ \A c \in Calls : at[c] # "debit"
    /\ \A a \in Apps : ledger[a] >= 0
    /\ \A c \in Calls : at[c] = "fill" => seen[c] <= ledger[job[c].app]

LEMMA MissingStep == TypeOK /\ TypeOK' /\ Missing /\ [Next]_vars => Missing'
<1> SUFFICES ASSUME TypeOK, TypeOK', Missing, [Next]_vars, balance' = NoBalance
             PROVE  /\ \A c \in Calls : at'[c] # "debit"
                    /\ \A a \in Apps : ledger'[a] >= 0
                    /\ \A c \in Calls : at'[c] = "fill" => seen'[c] <= ledger'[job'[c].app]
  BY DEF Missing
<1> USE JobsAssumption, NoBalanceAssumption
<1> DEFINE Goal ==
             /\ \A c \in Calls : at'[c] # "debit"
             /\ \A a \in Apps : ledger'[a] >= 0
             /\ \A c \in Calls : at'[c] = "fill" => seen'[c] <= ledger'[job'[c].app]
<1>1. ASSUME NEW c \in Calls, NEW j \in Jobs, Call(c, j) PROVE Goal
  <2>1. at'[c] \notin {"debit", "fill"}
    BY <1>1 DEF Call, Goto, TypeOK
  <2>2. \A d \in Calls : d # c => at'[d] = at[d] /\ job'[d] = job[d]
    BY <1>1 DEF Call, Goto, TypeOK
  <2> QED
    BY <1>1, <2>1, <2>2 DEF Call, Missing
<1>2. ASSUME NEW c \in Calls, Step(c) PROVE Goal
  <2>1. /\ at[c] # "idle" /\ job[c] \in Jobs /\ job[c].amount \in Nat
        /\ job[c].app \in Apps /\ UNCHANGED job
    BY <1>2 DEF TypeOK, Step, Deduct, Debit, Credit, Load, Lookup, Sum, Fill
  <2>2. ASSUME NEW where, where # "debit", Goto(c, where)
        PROVE  \A d \in Calls : at'[d] = IF d = c THEN where ELSE at[d]
    BY <2>2 DEF Goto, TypeOK
  <2>3. CASE Deduct(c)
    <3>1. ~Affords(c) /\ UNCHANGED << balance, ledger, seen >> /\ Goto(c, "refused")
      BY <2>1, <2>3 DEF Deduct, Affords, TypeOK
    <3> QED
      BY <2>1, <2>2, <3>1 DEF Missing
  <2>4. CASE Debit(c)
    BY <2>4 DEF Debit, Missing
  <2>5. CASE Credit(c)
    <3>1. \A a \in Apps : ledger'[a] >= ledger[a] /\ ledger[a] \in Int
      BY <2>1, <2>5 DEF Credit, Record, TypeOK
    <3>2. UNCHANGED << balance, seen >> /\ Goto(c, "load")
      BY <2>5 DEF Credit
    <3>3. \A a \in Apps : ledger'[a] \in Int /\ ledger'[a] >= 0
      BY <3>1, <3>2 DEF Missing, TypeOK
    <3>4. ASSUME NEW d \in Calls, at'[d] = "fill" PROVE seen'[d] <= ledger'[job'[d].app]
      <4>1. at[d] = "fill" /\ seen'[d] = seen[d] /\ job'[d] = job[d]
        BY <2>1, <2>2, <3>2, <3>4
      <4>2. seen[d] <= ledger[job[d].app] /\ job[d].app \in Apps /\ seen[d] \in Int
        BY <3>2, <4>1 DEF Missing, TypeOK
      <4> QED
        BY <3>1, <3>3, <4>1, <4>2
    <3> QED
      BY <2>2, <3>2, <3>3, <3>4 DEF Missing
  <2>6. CASE Load(c)
    BY <2>1, <2>6 DEF Load, Funds, TypeOK
  <2>7. CASE Lookup(c)
    <3>1. UNCHANGED << balance, ledger, seen >> /\ Goto(c, "sum")
      BY <2>7 DEF Lookup
    <3> QED
      BY <2>1, <2>2, <3>1 DEF Missing
  <2>8. CASE Sum(c)
    <3>1. /\ UNCHANGED << balance, ledger >> /\ Goto(c, "fill")
          /\ seen' = [seen EXCEPT ![c] = ledger[job[c].app]]
      BY <2>8 DEF Sum
    <3> QED
      BY <2>1, <2>2, <3>1 DEF Missing, TypeOK
  <2>9. CASE Fill(c)
    BY <2>9 DEF Fill, TypeOK
  <2> QED
    BY <1>2, <2>3, <2>4, <2>5, <2>6, <2>7, <2>8, <2>9 DEF Step
<1>3. ASSUME NEW c \in Calls, Fail(c) PROVE Goal
  BY <1>3 DEF Fail, Goto, Missing, TypeOK
<1>4. ASSUME NEW c \in Calls, LoseReply(c) PROVE Goal
  <2>1. job[c].amount \in Nat
    BY <1>4 DEF LoseReply, TypeOK
  <2>2. balance' # NoBalance
    BY <1>4, <2>1 DEF LoseReply, Affords, Funds, TypeOK
  <2> QED
    BY <2>2
<1>5. CASE UNCHANGED vars
  BY <1>5 DEF vars, Missing
<1> QED
  BY <1>1, <1>2, <1>3, <1>4, <1>5 DEF Next

(* credit.service.ts:61: the one way for Redis to come to grant more than   *)
(* the ledger is the SET of a read that others have overtaken.              *)
THEOREM OnlyAStaleFillMints == Spec => MintedByStaleFillOnly
<1>1. Init => Missing
  BY PurchasedAssumption DEF Init, Missing
<1>2. ASSUME TypeOK, TypeOK', Missing, [Next]_vars
      PROVE  Reserve >= 0 /\ Reserve' < 0 => \E c \in Calls : StaleFill(c)
  <2> SUFFICES ASSUME Reserve >= 0, Reserve' < 0, \A c \in Calls : ~StaleFill(c)
               PROVE  FALSE
    OBVIOUS
  <2>1. Reserve \in Int /\ Reserve' \in Int
    BY <1>2, ReserveType, ReserveTypeNext
  <2>2. PICK c \in Calls : Fill(c)
    BY <1>2, <2>1, ReserveStep
  <2>3. at'[c] = "done" /\ at[c] = "fill" /\ balance' = seen[c] /\ seen[c] \in Int
    BY <1>2, <2>2 DEF Fill, Goto, TypeOK
  <2>4. balance = NoBalance /\ \A d \in Calls : at[d] # "load"
    BY <2>3 DEF StaleFill
  <2>5. Pending' = 0
    <3>1. \A d \in Calls : InFlight'[d] = 0
      BY <1>2, <2>2, <2>4 DEF Missing, Fill, Goto, InFlight, TypeOK
    <3>2. \A d \in Calls : [e \in Calls |-> 0][d] = 0
      OBVIOUS
    <3>3. Pending' = SumFunctionOnSet([e \in Calls |-> 0], Calls)
      BY <3>1, <3>2, SumSame, FiniteAssumption DEF Pending
    <3> QED
      BY <3>3, SumOfZeros, FiniteAssumption
  <2>6. job[c].app \in Apps
    BY <1>2, <2>3, JobsAssumption DEF TypeOK
  <2>7. \A a \in Apps : ledger[a] \in Nat
    BY <1>2, <2>4 DEF Missing, TypeOK
  <2>8. seen[c] <= Total
    <3>1. ledger[job[c].app] <= Total
      BY <2>6, <2>7, SumAtLeast, FiniteAssumption DEF Total
    <3>2. seen[c] <= ledger[job[c].app]
      BY <1>2, <2>3, <2>4 DEF Missing
    <3> QED
      BY <2>3, <2>6, <2>7, <3>1, <3>2, InFlightType, <1>2
  <2>9. Funds' = seen[c] /\ Total' = Total /\ reloaded' = reloaded
    BY <2>2, <2>3, NoBalanceAssumption DEF Fill, Funds, Total
  <2>10. Reserve' = Total + reloaded - seen[c]
    BY <2>3, <2>5, <2>9, InFlightType, <1>2 DEF Reserve, TypeOK
  <2> QED
    BY <1>2, <2>1, <2>3, <2>8, <2>10, InFlightType DEF TypeOK
<1> QED
  BY <1>1, <1>2, MissingStep, TypeCorrect, PTL DEF Spec, MintedByStaleFillOnly
=============================================================================
