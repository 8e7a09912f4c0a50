---------------------------- MODULE CreditLedger ----------------------------
(***************************************************************************)
(* The credits of one tenant: a balance under one Redis key, which a Lua   *)
(* script deducts from, and an append-only ledger in PostgreSQL, which is  *)
(* written after the script when credits are spent, before the INCRBY when *)
(* they are given back, and summed to rebuild a balance that is missing.   *)
(*                                                                         *)
(* A call is a request that costs credits (the credit interceptor), a      *)
(* refund or a read of the balance.  Every await is a step of its own, so  *)
(* calls interleave between Redis and the ledger, may throw there and may  *)
(* die there.  The ledger's rows are never changed or removed, and only    *)
(* their sum per account application is ever read, so that is what is      *)
(* kept of them.                                                           *)
(***************************************************************************)
EXTENDS Integers, FiniteSetsExt

CONSTANTS
  Calls,      \* invocations of CreditService
  Apps,       \* the tenant's account applications
  Jobs,       \* what a call may be for: [op, app, amount]
  NoJob,      \* the job of a call that was not made yet
  Purchased,  \* what the ledger says of each application at first
  NoBalance,  \* what Redis answers for a key it does not have
  Loaded,     \* what Redis may hold at first: balances or NoBalance
  MaxFaults   \* bound: calls that throw or die, commands sent twice

ASSUME FiniteAssumption == IsFiniteSet(Calls) /\ IsFiniteSet(Apps)
ASSUME JobsAssumption ==
  /\ Jobs \subseteq [op : {"use", "refund", "read"}, app : Apps, amount : Nat]
  /\ NoJob \notin Jobs
ASSUME PurchasedAssumption == Purchased \in [Apps -> Nat]
ASSUME NoBalanceAssumption == NoBalance \notin Int
ASSUME LoadedAssumption == Loaded \subseteq Nat \cup {NoBalance}
(* A balance that is there at first is what was bought, for whichever       *)
(* application.                                                             *)
ASSUME InStepAssumption ==
  Loaded \subseteq {NoBalance, SumFunctionOnSet(Purchased, Apps)}
ASSUME CreditFaultsAssumption == MaxFaults \in Nat

VARIABLES
  balance,   \* the key credit:<tenant>:global
  cold,      \* it was missing at first, and may have to be rebuilt
  ledger,    \* per application, its credit rows less its debit rows
  job,       \* what each call is for
  at,        \* the await each call is about to make, or how it ended
  seen,      \* the sum a read has got from the ledger
  reloaded,  \* credits of INCRBYs that Redis did and was sent again
  faults     \* calls that threw or died, and commands sent twice, so far

vars == << balance, cold, ledger, job, at, seen, reloaded, faults >>

----------------------------------------------------------------------------

Awaiting == { "deduct", "debit", "credit", "load", "lookup", "sum", "fill" }

(* served: the request's handler runs; what becomes of it changes nothing.  *)
Ended == { "served", "refused", "done", "failed" }

(* The sum of all the ledger's rows.                                        *)
Total == SumFunctionOnSet(ledger, Apps)

(* What each call has put in Redis or in the ledger only, because it is     *)
(* between the two.                                                         *)
InFlight ==
  [c \in Calls |-> IF at[c] \in {"debit", "load"} THEN job[c].amount ELSE 0]

Pending == SumFunctionOnSet(InFlight, Calls)

(* What a tenant can spend now: a missing key refuses every request.        *)
Funds == IF balance = NoBalance THEN 0 ELSE balance

(* How much more the ledger grants than Redis does, calls in flight and     *)
(* repeated INCRBYs allowed for.                                            *)
Reserve == Total + reloaded - Funds - Pending

----------------------------------------------------------------------------

Init ==
  /\ ledger   = Purchased
  /\ balance  \in Loaded
  /\ cold     = (balance = NoBalance)
  /\ job      = [c \in Calls |-> NoJob]
  /\ at       = [c \in Calls |-> "idle"]
  /\ seen     = [c \in Calls |-> 0]
  /\ reloaded = 0
  /\ faults   = 0

Goto(c, where) == at' = [at EXCEPT ![c] = where]

Record(c, amount) == ledger' = [ledger EXCEPT ![job[c].app] = @ + amount]

(* A request reaches the interceptor, or the service is called.             *)
Call(c, j) ==
  /\ at[c] = "idle"
  /\ job' = [job EXCEPT ![c] = j]
  /\ Goto(c, CASE j.op = "use"    -> "deduct"
               [] j.op = "refund" -> "credit"
               [] j.op = "read"   -> "lookup")
  /\ UNCHANGED << cold, balance, ledger, seen, reloaded, faults >>

(* Mutant: any credit left is enough.                                       *)
AffordsAny(c) == balance # NoBalance /\ balance > 0

(* The check of DEDUCT_SCRIPT.                                              *)
Affords(c) == balance # NoBalance /\ balance >= job[c].amount

(* DEDUCT_SCRIPT, one step in Redis.  The interceptor answers 402 to a      *)
(* request that is refused.                                                 *)
Deduct(c) ==
  /\ at[c] = "deduct"
  /\ IF Affords(c)
       THEN balance' = balance - job[c].amount /\ Goto(c, "debit")
       ELSE UNCHANGED balance /\ Goto(c, "refused")
  /\ UNCHANGED << cold, ledger, job, seen, reloaded, faults >>

(* Mutant: the insert is not awaited and its failure goes unseen.           *)
DebitUnawaited(c) ==
  /\ at[c] = "debit"
  /\ Record(c, -job[c].amount) \/ UNCHANGED ledger
  /\ Goto(c, "served")
  /\ UNCHANGED << cold, balance, job, seen, reloaded, faults >>

(* The debit row, then the handler.  A handler that fails gets the caller   *)
(* no refund.                                                               *)
Debit(c) ==
  /\ at[c] = "debit"
  /\ Record(c, -job[c].amount)
  /\ Goto(c, "served")
  /\ UNCHANGED << cold, balance, job, seen, reloaded, faults >>

(* Mutant: a refund goes on without its row.                                *)
CreditUnawaited(c) ==
  /\ at[c] = "credit"
  /\ Record(c, job[c].amount) \/ UNCHANGED ledger
  /\ Goto(c, "load")
  /\ UNCHANGED << cold, balance, job, seen, reloaded, faults >>

(* refund: the credit row.                                                  *)
Credit(c) ==
  /\ at[c] = "credit"
  /\ Record(c, job[c].amount)
  /\ Goto(c, "load")
  /\ UNCHANGED << cold, balance, job, seen, reloaded, faults >>

(* refund: INCRBY, which takes a missing key for zero.                      *)
Load(c) ==
  /\ at[c] = "load"
  /\ balance' = Funds + job[c].amount
  /\ Goto(c, "done")
  /\ UNCHANGED << cold, ledger, job, seen, reloaded, faults >>

(* getBalance: a cached balance is the answer.                              *)
Lookup(c) ==
  /\ at[c] = "lookup"
  /\ Goto(c, IF balance = NoBalance THEN "sum" ELSE "done")
  /\ UNCHANGED << cold, balance, ledger, job, seen, reloaded, faults >>

(* getBalance: the sum of the application's rows.                           *)
Sum(c) ==
  /\ at[c] = "sum"
  /\ seen' = [seen EXCEPT ![c] = ledger[job[c].app]]
  /\ Goto(c, "fill")
  /\ UNCHANGED << cold, balance, ledger, job, reloaded, faults >>

(* getBalance: SET of the tenant's key, whatever it holds by now.           *)
Fill(c) ==
  /\ at[c] = "fill"
  /\ balance' = seen[c]
  /\ Goto(c, "done")
  /\ UNCHANGED << cold, ledger, job, seen, reloaded, faults >>

(* The await throws before it has an effect, or the process dies.           *)
Fail(c) ==
  /\ at[c] \in Awaiting
  /\ faults < MaxFaults
  /\ faults' = faults + 1
  /\ Goto(c, "failed")
  /\ UNCHANGED << cold, balance, ledger, job, seen, reloaded >>

(* Redis runs the command, its reply is lost, and the client sends it       *)
(* again: the call still waits, and the command will have two effects.      *)
LoseReply(c) ==
  /\ faults < MaxFaults
  /\ faults' = faults + 1
  /\ \/ /\ at[c] = "deduct" /\ Affords(c)
        /\ balance' = balance - job[c].amount
        /\ UNCHANGED reloaded
     \/ /\ at[c] = "load"
        /\ balance' = Funds + job[c].amount
        /\ reloaded' = reloaded + job[c].amount
  /\ UNCHANGED << cold, ledger, job, at, seen >>

Step(c) ==
  \/ Deduct(c)
  \/ Debit(c)
  \/ Credit(c)
  \/ Load(c)
  \/ Lookup(c)
  \/ Sum(c)
  \/ Fill(c)

Next ==
  \E c \in Calls :
    \/ \E j \in Jobs : Call(c, j)
    \/ Step(c)
    \/ Fail(c)
    \/ LoseReply(c)

Spec == Init /\ [][Next]_vars

----------------------------------------------------------------------------

TypeOK ==
  /\ balance \in Int \cup {NoBalance} /\ cold \in BOOLEAN
  /\ ledger \in [Apps -> Int]
  /\ job \in [Calls -> Jobs \cup {NoJob}]
  /\ at \in [Calls -> Awaiting \cup Ended \cup {"idle"}]
  /\ seen \in [Calls -> Int]
  /\ reloaded \in Nat
  /\ faults \in 0..MaxFaults
  /\ \A c \in Calls : at[c] # "idle" => job[c] \in Jobs

(* A balance that was there at first is never missing nor below zero: no    *)
(* interleaving of scripts, refunds, failures and repeated commands takes   *)
(* more than there is.                                                      *)
NeverOverdrawn == ~cold => balance # NoBalance /\ balance >= 0

(* credits.ts:14: requests whose combined cost is more than the balance     *)
(* cannot both succeed.  Every served request has its debit row, so the     *)
(* tenant has not been served more than it was ever given as long as its    *)
(* ledger is not in the red, an INCRBY sent twice apart.                    *)
SpendingCovered == ~cold => Total + reloaded >= 0

(* With nothing lost, Redis and the ledger differ by the calls that are     *)
(* between the two, and by nothing once all calls have ended.               *)
BooksAgree == faults = 0 /\ ~cold => Reserve = 0

(* c overwrites a balance other calls have used since it found none, or     *)
(* counts a refund's row that the refund itself is yet to load.             *)
StaleFill(c) ==
  /\ at[c] = "fill" /\ at'[c] = "done"
  /\ balance # NoBalance \/ \E d \in Calls : at[d] = "load"

(* Redis comes to grant more than the ledger does by no failure and by no   *)
(* interleaving but one: a balance rebuilt from a sum that is out of date.  *)
MintedByStaleFillOnly ==
  [][Reserve >= 0 /\ Reserve' < 0 => \E c \in Calls : StaleFill(c)]_vars
============================================================================
