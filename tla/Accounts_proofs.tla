-------------------------- MODULE Accounts_proofs ---------------------------
(***************************************************************************)
(* Theorems about Accounts, for any requests, users, roles and jobs, any   *)
(* rows and grants there are at first, any size of the pool and any number *)
(* of faults.                                                              *)
(***************************************************************************)
EXTENDS Accounts, FiniteSetTheorems, TLAPS

USE AccountRowsAssumption, AccountJobsAssumption, AccountBoundsAssumption

Updates == { "updateUser", "updateRole" }
Writers == Creates \cup Updates \cup { "removeUser" }

KindRows(t) == IF job[t].op \in UserOps THEN Users ELSE Roles

(* What a request has done by the statement it is about to make.            *)
Begun(t) ==
  /\ IF at[t] = "idle" THEN job[t] = NoJob ELSE job[t] \in Jobs
  /\ at[t] \in {"idle", "begin"} => put[t] = None
  /\ at[t] \in {"idle", "begin", "clear"} => added[t] = {}
  /\ at[t] = "check" => job[t].op \in Creates \cup Updates
  /\ at[t] = "write" => job[t].op \in Writers
  /\ at[t] = "clear" => job[t].op \in {"assignRoles", "removeRole"}
  /\ at[t] = "delete" => job[t].op = "removeRole"
  /\ at[t] \in {"nested", "find"} => job[t].op \in Updates /\ job[t].name = None

Assigned(t) ==
  /\ at[t] = "grant" => \/ job[t].op = "createUser" /\ put[t] # None
                        \/ job[t].op = "assignRoles"
  /\ job[t].op = "assignRoles" /\ at[t] \in {"grant", "commit"} => dropped[t] = had[t]
  /\ job[t].op = "assignRoles" /\ at[t] = "commit" => added[t] = Wanted(t)

(* The row a request has written is of its kind, and the one it is about.   *)
Written(t) ==
  put[t] # None =>
    /\ job[t] \in Jobs /\ job[t].op \in Writers
    /\ put[t].row \in KindRows(t)
    /\ job[t].name # None => put[t].name = job[t].name
    /\ job[t].op \notin Creates => put[t].row = job[t].row

Progress(t) == Begun(t) /\ Assigned(t) /\ Written(t)

(* A row that one request has written no other writes, and it is as the     *)
(* request found it.                                                        *)
Alone ==
  \A t, o \in Requests :
    t # o /\ put[o] # None =>
      /\ put[t] # None => put[t].row # put[o].row
      /\ put[o].row \notin removed[t]

AsFound(t) ==
  put[t] # None =>
    /\ job[t].op \in Creates => ~Exists(put[t].row)
    /\ job[t].name = None => put[t].name = name[put[t].row]
    /\ job[t].op = "removeUser" => ~put[t].active
    /\ job[t].op = "updateUser" /\ job[t].status = "inactive" => ~put[t].active
    /\ job[t].op = "updateUser" /\ job[t].status = None
         => put[t].active = (put[t].row \in active)

Inv == TypeOK /\ (\A t \in Requests : Progress(t) /\ AsFound(t)) /\ Alone

Place == InTransaction \cup Ended \cup {"idle", "begin", "find"}

LEMMA GotoType ==
  ASSUME TypeOK, NEW t \in Requests, NEW where \in Place, Goto(t, where)
  PROVE  /\ at' \in [Requests -> Place] /\ at'[t] = where
         /\ \A o \in Requests \ {t} : at'[o] = at[o]
BY DEF TypeOK, Goto, Place

(* A step of one request that changes no row committed: what is to be shown *)
(* is about this request only, and about the row it writes.                 *)
LEMMA StepOfOne ==
  ASSUME Inv, TypeOK', NEW t \in Requests, UNCHANGED << name, active >>,
         Progress(t)', AsFound(t)',
         \A o \in Requests \ {t} :
           /\ job'[o] = job[o] /\ at'[o] = at[o] /\ put'[o] = put[o]
           /\ dropped'[o] = dropped[o] /\ added'[o] = added[o] /\ had'[o] = had[o]
           /\ removed'[o] = removed[o],
         put'[t] # None /\ put'[t] # put[t] =>
           \A o \in Requests \ {t} : /\ put[o] = None \/ put[o].row # put'[t].row
                                     /\ put'[t].row \notin removed[o],
         removed'[t] # removed[t] =>
           \A o \in Requests \ {t} : put[o] = None \/ put[o].row \notin removed'[t]
  PROVE  Inv'
<1>1. ASSUME NEW o \in Requests \ {t} PROVE Progress(o)' /\ AsFound(o)'
  <2>1. /\ job'[o] = job[o] /\ at'[o] = at[o] /\ put'[o] = put[o]
        /\ dropped'[o] = dropped[o] /\ added'[o] = added[o] /\ had'[o] = had[o]
    OBVIOUS
  <2>2. Progress(o) /\ AsFound(o)
    BY DEF Inv
  <2>3. Progress(o)'
    BY <2>1, <2>2
       DEF Progress, Begun, Assigned, Written, KindRows, Wanted, Grantee, User
  <2>4. AsFound(o)'
    BY <2>1, <2>2 DEF AsFound, Exists
  <2> QED
    BY <2>3, <2>4
<1>2. Alone'
  BY DEF Inv, Alone
<1> QED
  BY <1>1, <1>2 DEF Inv

LEMMA AbortStep ==
  ASSUME Inv, NEW t \in Requests, Abort(t), UNCHANGED << committed, job >>,
         at[t] # "idle",
         faults' \in 0..MaxFaults
  PROVE  Inv'
<1>1. at' \in [Requests -> Place] /\ at'[t] = "failed"
      /\ \A o \in Requests \ {t} : at'[o] = at[o]
  BY GotoType DEF Abort, Inv, TypeOK, Place, Ended
<1>2. TypeOK'
  BY <1>1 DEF Inv, TypeOK, Abort, committed, Place
<1>3. put'[t] = None /\ removed'[t] = {} /\ \A o \in Requests \ {t} :
        /\ put'[o] = put[o] /\ dropped'[o] = dropped[o] /\ added'[o] = added[o]
        /\ removed'[o] = removed[o] /\ had'[o] = had[o]
  BY DEF Inv, TypeOK, Abort
<1>4. job'[t] \in Jobs
  BY DEF Inv, Progress, Begun
<1>5. Progress(t)' /\ AsFound(t)'
  BY <1>1, <1>3, <1>4 DEF Progress, Begun, Assigned, Written, AsFound
<1> QED
  BY <1>1, <1>2, <1>3, <1>5, StepOfOne DEF committed

LEMMA RequestStep ==
  ASSUME Inv, NEW t \in Requests, NEW j \in Jobs, Request(t, j)
  PROVE  Inv'
<1>1. at' \in [Requests -> Place] /\ at'[t] = "begin"
      /\ \A o \in Requests \ {t} : at'[o] = at[o]
  BY GotoType DEF Request, Inv, TypeOK, Place
<1>2. TypeOK'
  BY <1>1 DEF Inv, TypeOK, Request, committed, written, Place
<1>3. job'[t] = j /\ \A o \in Requests \ {t} : job'[o] = job[o]
  BY DEF Inv, TypeOK, Request
<1>4. put[t] = None /\ added[t] = {}
  BY DEF Request, Inv, Progress, Begun
<1>5. Progress(t)' /\ AsFound(t)'
  BY <1>1, <1>3, <1>4
     DEF Request, written, Progress, Begun, Assigned, Written, AsFound
<1> QED
  BY <1>1, <1>2, <1>3, <1>4, <1>5, StepOfOne DEF Request, committed, written

LEMMA BeginStep ==
  ASSUME Inv, NEW t \in Requests, Begin(t)
  PROVE  Inv'
<1> DEFINE where == CASE job[t].op \in Creates -> "check"
               [] job[t].op \in {"assignRoles", "removeRole"} -> "clear"
               [] job[t].op = "removeUser" -> "write"
               [] OTHER -> IF job[t].name \notin {None, Empty} THEN "check"
                           ELSE IF job[t].name = Empty \/ job[t].status # None
                             THEN "write" ELSE "nested"
<1>1. job[t] \in Jobs /\ job[t].op \in UserOps \cup RoleOps
  BY DEF Begin, Inv, Progress, Begun, UserOps, RoleOps, Creates
<1>2. /\ where \in {"check", "clear", "write", "nested"}
      /\ where = "check" => job[t].op \in Creates \cup Updates
      /\ where = "clear" => job[t].op \in {"assignRoles", "removeRole"}
      /\ where = "write" => job[t].op \in Updates \cup {"removeUser"}
      /\ where = "nested" => job[t].op \in Updates /\ job[t].name = None
  BY <1>1 DEF UserOps, RoleOps, Creates, Updates
<1>3. Goto(t, where) /\ at[t] = "begin"
      /\ UNCHANGED << committed, job, written, faults >>
  BY DEF Begin
<1> HIDE DEF where
<1>4. at' \in [Requests -> Place] /\ at'[t] = where
      /\ \A o \in Requests \ {t} : at'[o] = at[o]
  BY <1>2, <1>3, GotoType DEF Inv, TypeOK, Place, InTransaction
<1>5. TypeOK'
  BY <1>3, <1>4 DEF Inv, TypeOK, committed, written, Place
<1>6. put[t] = None /\ added[t] = {}
  BY <1>3 DEF Inv, Progress, Begun
<1>7. Progress(t)' /\ AsFound(t)'
  BY <1>1, <1>2, <1>3, <1>4, <1>6
     DEF written, Progress, Begun, Assigned, Written, AsFound, Writers
<1> QED
  BY <1>3, <1>4, <1>5, <1>6, <1>7, StepOfOne DEF committed, written

LEMMA CheckStep ==
  ASSUME Inv, NEW t \in Requests, CheckName(t)
  PROVE  Inv'
<1>1. at[t] = "check" /\ UNCHANGED << committed, job, faults >>
  BY DEF CheckName
<1>2. CASE Abort(t)
  BY <1>1, <1>2, AbortStep DEF Inv, TypeOK
<1>3. CASE Goto(t, "write") /\ UNCHANGED written
  <2>1. at' \in [Requests -> Place] /\ at'[t] = "write"
        /\ \A o \in Requests \ {t} : at'[o] = at[o]
    BY <1>3, GotoType DEF Inv, TypeOK, Place, InTransaction
  <2>2. TypeOK'
    BY <1>1, <1>3, <2>1 DEF Inv, TypeOK, committed, written, Place
  <2>3. /\ job[t] \in Jobs /\ job[t].op \in Creates \cup Updates
        /\ Progress(t) /\ AsFound(t)
    BY <1>1 DEF Inv, Progress, Begun
  <2>4. Progress(t)'
    BY <1>1, <1>3, <2>1, <2>3
       DEF Progress, Begun, Assigned, Written, Writers, KindRows, committed, written
  <2>5. AsFound(t)'
    BY <1>1, <1>3, <2>3 DEF AsFound, Exists, committed, written
  <2> QED
    BY <1>1, <1>3, <2>1, <2>2, <2>4, <2>5, StepOfOne DEF committed, written
<1> QED
  BY <1>2, <1>3 DEF CheckName

(* A write of a row that no other request has written.                      *)
LEMMA PutStep ==
  ASSUME Inv, NEW t \in Requests, NEW i \in KindRows(t), NEW n \in Names,
         at[t] = "write", ~Locked(t, i), Put(t, i, n),
         job[t].op \in Creates => ~Exists(i),
         job[t].op \notin Creates => i = job[t].row,
         job[t].name # None => n = job[t].name,
         job[t].name = None => n = name[i]
  PROVE  Inv'
<1> DEFINE row == [row |-> i, name |-> n, active |-> Status(t, i)]
<1>1. job[t] \in Jobs /\ job[t].op \in Writers
  BY DEF Inv, Progress, Begun
<1>2. i \in Rows /\ Status(t, i) \in BOOLEAN
  <2>1. i \in Rows
    BY DEF KindRows, Rows
  <2>2. CASE job[t].op = "removeUser"
    BY <2>1, <2>2 DEF Status
  <2>3. CASE job[t].op = "updateUser" /\ job[t].status = None
    <3>1. Status(t, i) = (i \in active)
      BY <2>3 DEF Status
    <3> QED
      BY <2>1, <3>1
  <2>4. CASE job[t].op # "removeUser" /\ ~(job[t].op = "updateUser" /\ job[t].status = None)
    <3>1. Status(t, i) = (job[t].status # "inactive")
      BY <2>4 DEF Status
    <3> QED
      BY <2>1, <3>1
  <2> QED
    BY <2>2, <2>3, <2>4
<1>3. row \in Puts /\ row # None
  BY <1>2 DEF Puts
<1>4. /\ put' = [put EXCEPT ![t] = row]
      /\ Goto(t, IF job[t].roles # {} THEN "grant" ELSE "commit")
      /\ UNCHANGED << committed, job, dropped, added, removed, had, faults >>
  BY DEF Put
<1>5. /\ row.row = i /\ row.name = n /\ row.active = Status(t, i)
  OBVIOUS
<1> HIDE DEF row
<1>6. /\ put' \in [Requests -> Puts \cup {None}] /\ put'[t] = row
      /\ \A o \in Requests \ {t} : put'[o] = put[o]
  BY <1>3, <1>4 DEF Inv, TypeOK
<1>7. /\ at' \in [Requests -> Place]
      /\ at'[t] = (IF job[t].roles # {} THEN "grant" ELSE "commit")
      /\ \A o \in Requests \ {t} : at'[o] = at[o]
  BY <1>4, GotoType DEF Inv, TypeOK, Place, InTransaction
<1>8. TypeOK'
  BY <1>4, <1>6, <1>7 DEF Inv, TypeOK, committed, Place
<1>9. job[t].op # "assignRoles" /\ (job[t].roles # {} => job[t].op = "createUser")
  BY <1>1 DEF Writers, Creates, Updates
<1>10. Progress(t)'
  <2>1. Begun(t)' /\ Assigned(t)'
    BY <1>1, <1>3, <1>4, <1>6, <1>7, <1>9 DEF Begun, Assigned
  <2>2. Written(t)'
    BY <1>1, <1>4, <1>5, <1>6 DEF Written, KindRows
  <2> QED
    BY <2>1, <2>2 DEF Progress
<1>11. AsFound(t)'
  <2>1. job[t].op = "removeUser" => ~Status(t, i)
    BY DEF Status
  <2>2. job[t].op = "updateUser" /\ job[t].status = "inactive" => ~Status(t, i)
    BY DEF Status
  <2>3. job[t].op = "updateUser" /\ job[t].status = None => Status(t, i) = (i \in active)
    BY DEF Status
  <2> QED
    BY <1>4, <1>5, <1>6, <2>1, <2>2, <2>3 DEF AsFound, Exists, committed
<1>12. \A o \in Requests \ {t} : (put[o] = None \/ put[o].row # i) /\ i \notin removed[o]
  BY DEF Locked, Others
<1> QED
  BY <1>4, <1>5, <1>6, <1>7, <1>8, <1>10, <1>11, <1>12, StepOfOne DEF committed

LEMMA WriteStep ==
  ASSUME Inv, NEW t \in Requests, Insert(t) \/ Update(t)
  PROVE  Inv'
<1>1. job[t] \in Jobs /\ job[t].op \in Writers /\ at[t] = "write"
  BY DEF Inv, Progress, Begun, Insert, Update
<1>2. job[t].name \in Names
  BY <1>1 DEF Names
<1>3. CASE Insert(t)
  <2>1. job[t].op \in Creates
    BY <1>3 DEF Insert
  <2>2. PICK i \in (IF job[t].op = "createUser" THEN Users ELSE Roles) :
          ~Exists(i) /\ ~Locked(t, i) /\ Put(t, i, job[t].name)
    BY <1>3 DEF Insert
  <2>3. i \in KindRows(t)
    BY <2>1, <2>2 DEF KindRows, Creates, UserOps
  <2> QED
    BY <1>1, <1>2, <2>1, <2>2, <2>3, PutStep
<1>4. CASE Update(t)
  <2> DEFINE i == job[t].row
             n == IF job[t].name = None THEN name[i] ELSE job[t].name
  <2>1. /\ job[t].op \in {"updateUser", "removeUser", "updateRole"} /\ ~Locked(t, i)
        /\ \/ Put(t, i, n)
           \/ Abort(t) /\ UNCHANGED << committed, job, faults >>
    BY <1>4 DEF Update
  <2>2. i \in KindRows(t) /\ job[t].op \notin Creates
    BY <1>1, <2>1 DEF KindRows, Creates, UserOps, RoleOps
  <2>3. n \in Names
    BY <1>2, <2>2 DEF Inv, TypeOK, KindRows, Rows
  <2>4. CASE Put(t, i, n)
    BY <1>1, <2>1, <2>2, <2>3, <2>4, PutStep
  <2>5. CASE Abort(t) /\ UNCHANGED << committed, job, faults >>
    BY <1>1, <2>5, AbortStep DEF Inv, TypeOK
  <2> QED
    BY <2>1, <2>4, <2>5
<1> QED
  BY <1>3, <1>4

LEMMA ClearStep ==
  ASSUME Inv, NEW t \in Requests, Clear(t)
  PROVE  Inv'
<1> DEFINE where == IF job[t].op = "removeRole" THEN "delete"
                    ELSE IF job[t].roles # {} THEN "grant" ELSE "commit"
<1>1. /\ at[t] = "clear" /\ had' = [had EXCEPT ![t] = Targets(t)]
      /\ dropped' = [dropped EXCEPT ![t] = Targets(t)] /\ Goto(t, where)
      /\ UNCHANGED << committed, job, put, added, removed, faults >>
  BY DEF Clear
<1>2. Targets(t) \subseteq Users \X Roles
  BY DEF Targets, Inv, TypeOK
<1>3. /\ had' \in [Requests -> SUBSET (Users \X Roles)]
      /\ dropped' \in [Requests -> SUBSET (Users \X Roles)]
      /\ had'[t] = Targets(t) /\ dropped'[t] = Targets(t)
      /\ \A o \in Requests \ {t} : had'[o] = had[o] /\ dropped'[o] = dropped[o]
  BY <1>1, <1>2 DEF Inv, TypeOK
<1>4. /\ at' \in [Requests -> Place] /\ at'[t] = where
      /\ \A o \in Requests \ {t} : at'[o] = at[o]
  BY <1>1, GotoType DEF Inv, TypeOK, Place, InTransaction
<1>5. TypeOK'
  BY <1>1, <1>3, <1>4 DEF Inv, TypeOK, committed, Place
<1>6. /\ job[t] \in Jobs /\ job[t].op \in {"assignRoles", "removeRole"}
      /\ added[t] = {} /\ put[t] = None
  BY <1>1 DEF Inv, Progress, Begun, Written, Writers, Creates, Updates
<1>7. job[t].roles = {} => Wanted(t) = {}
  BY DEF Wanted
<1>8. Wanted(t)' = Wanted(t)
  BY <1>1 DEF Wanted, Grantee, User
<1>9. Progress(t)'
  <2>1. Begun(t)'
    BY <1>1, <1>4, <1>6 DEF Begun
  <2>2. Assigned(t)'
    BY <1>1, <1>3, <1>4, <1>6, <1>7, <1>8 DEF Assigned
  <2>3. Written(t)'
    BY <1>1, <1>6 DEF Written
  <2> QED
    BY <2>1, <2>2, <2>3 DEF Progress
<1>10. AsFound(t)'
  BY <1>1, <1>6 DEF AsFound
<1> QED
  BY <1>1, <1>3, <1>4, <1>5, <1>9, <1>10, StepOfOne DEF committed

LEMMA GrantStep ==
  ASSUME Inv, NEW t \in Requests, Grant(t)
  PROVE  Inv'
<1>1. at[t] = "grant" /\ UNCHANGED << committed, job, faults >>
  BY DEF Grant
<1>2. CASE Abort(t)
  BY <1>1, <1>2, AbortStep DEF Inv, TypeOK
<1>3. CASE /\ added' = [added EXCEPT ![t] = Wanted(t)] /\ Goto(t, "commit")
           /\ UNCHANGED << put, dropped, removed, had >>
  <2>1. /\ at' \in [Requests -> Place] /\ at'[t] = "commit"
        /\ \A o \in Requests \ {t} : at'[o] = at[o]
    BY <1>3, GotoType DEF Inv, TypeOK, Place, InTransaction
  <2>2. Progress(t) /\ AsFound(t) /\ job[t] \in Jobs
    BY <1>1 DEF Inv, Progress, Begun
  <2>3. Wanted(t) \subseteq Users \X Roles
    <3>1. Grantee(t) \in Users
      BY <1>1, <2>2
         DEF Progress, Assigned, Written, Grantee, User, KindRows, UserOps, RoleOps, Creates
    <3> QED
      BY <2>2, <3>1 DEF Wanted
  <2>4. /\ added' \in [Requests -> SUBSET (Users \X Roles)] /\ added'[t] = Wanted(t)
        /\ \A o \in Requests \ {t} : added'[o] = added[o]
    BY <1>3, <2>3 DEF Inv, TypeOK
  <2>5. TypeOK'
    BY <1>1, <1>3, <2>1, <2>4 DEF Inv, TypeOK, committed, Place
  <2>6. Wanted(t)' = Wanted(t)
    BY <1>1, <1>3 DEF Wanted, Grantee, User
  <2>7. Progress(t)'
    <3>1. Begun(t)'
      BY <1>1, <2>1, <2>2 DEF Begun
    <3>2. Assigned(t)'
      BY <1>1, <1>3, <2>1, <2>2, <2>4, <2>6 DEF Progress, Assigned
    <3>3. Written(t)'
      BY <1>1, <1>3, <2>2 DEF Progress, Written, KindRows
    <3> QED
      BY <3>1, <3>2, <3>3 DEF Progress
  <2>8. AsFound(t)'
    BY <1>1, <1>3, <2>2 DEF AsFound, Exists, committed
  <2> QED
    BY <1>1, <1>3, <2>1, <2>4, <2>5, <2>7, <2>8, StepOfOne DEF committed
<1> QED
  BY <1>2, <1>3 DEF Grant

LEMMA DeleteStep ==
  ASSUME Inv, NEW t \in Requests, DeleteRole(t)
  PROVE  Inv'
<1>1. /\ at[t] = "delete" /\ UNCHANGED << committed, job, faults >>
      /\ \/ /\ removed' = [removed EXCEPT ![t] = {job[t].row}] /\ Goto(t, "commit")
            /\ UNCHANGED << put, dropped, added, had >>
         \/ Abort(t)
  BY DEF DeleteRole
<1>2. CASE Abort(t)
  BY <1>1, <1>2, AbortStep DEF Inv, TypeOK
<1>3. CASE /\ removed' = [removed EXCEPT ![t] = {job[t].row}] /\ Goto(t, "commit")
           /\ UNCHANGED << put, dropped, added, had >>
  <2>1. /\ at' \in [Requests -> Place] /\ at'[t] = "commit"
        /\ \A o \in Requests \ {t} : at'[o] = at[o]
    BY <1>3, GotoType DEF Inv, TypeOK, Place, InTransaction
  <2>2. job[t] \in Jobs /\ job[t].op = "removeRole" /\ put[t] = None
    BY <1>1 DEF Inv, Progress, Begun, Written, Writers, Creates, Updates
  <2>3. job[t].row \in Roles
    BY <2>2 DEF UserOps, Creates
  <2>4. TypeOK'
    BY <1>1, <1>3, <2>1, <2>3 DEF Inv, TypeOK, committed, Place
  <2>5. Progress(t)' /\ AsFound(t)'
    BY <1>1, <1>3, <2>1, <2>2 DEF Progress, Begun, Assigned, Written, AsFound
  <2>6. removed'[t] = {job[t].row} /\ \A o \in Requests \ {t} : removed'[o] = removed[o]
    BY <1>3 DEF Inv, TypeOK
  <2>7. \A o \in Requests \ {t} : put[o] = None \/ put[o].row # job[t].row
    BY DEF DeleteRole, Locked, Others
  <2> QED
    BY <1>1, <1>3, <2>1, <2>2, <2>4, <2>5, <2>6, <2>7, StepOfOne DEF committed
<1> QED
  BY <1>1, <1>2, <1>3

(* findById, and a wait that ends.                                          *)
LEMMA FindStep ==
  ASSUME Inv, NEW t \in Requests, FindById(t) \/ Found(t) \/ TimeOut(t)
  PROVE  Inv'
<1>1. /\ at[t] \in {"begin", "nested", "find"} /\ UNCHANGED << committed, job, written, faults >>
      /\ \E where \in {"find", "commit", "failed"} : Goto(t, where)
  BY DEF FindById, Found, TimeOut
<1>2. /\ at' \in [Requests -> Place] /\ at'[t] \in {"find", "commit", "failed"}
      /\ \A o \in Requests \ {t} : at'[o] = at[o]
  BY <1>1, GotoType DEF Inv, TypeOK, Place, InTransaction, Ended
<1>3. at'[t] \in {"find", "commit"} => at[t] \in {"nested", "find"}
  BY GotoType DEF FindById, Found, TimeOut, Inv, TypeOK, Place, InTransaction, Ended
<1>4. TypeOK'
  BY <1>1, <1>2 DEF Inv, TypeOK, committed, written, Place
<1>5. Progress(t) /\ AsFound(t)
  BY DEF Inv
<1>6. Progress(t)'
  <2>1. Begun(t)'
    BY <1>1, <1>2, <1>3, <1>5 DEF Progress, Begun
  <2>2. Assigned(t)'
    BY <1>1, <1>2, <1>3, <1>5 DEF Progress, Begun, Assigned, Updates
  <2>3. Written(t)'
    BY <1>1, <1>5 DEF Progress, Written, KindRows, written
  <2> QED
    BY <2>1, <2>2, <2>3 DEF Progress
<1>7. AsFound(t)'
  BY <1>1, <1>5 DEF AsFound, Exists, committed, written
<1> QED
  BY <1>1, <1>2, <1>4, <1>6, <1>7, StepOfOne DEF committed, written

LEMMA FailStep ==
  ASSUME Inv, NEW t \in Requests, Fail(t)
  PROVE  Inv'
<1>1. faults' \in 0..MaxFaults
  BY DEF Fail, Inv, TypeOK
<1>2. at[t] # "idle"
  BY DEF Fail, InTransaction
<1> QED
  BY <1>1, <1>2, AbortStep DEF Fail, Inv, TypeOK

(* What is committed touches only the row that was written, or a role that  *)
(* was removed.                                                             *)
LEMMA CommitStep ==
  ASSUME Inv, NEW t \in Requests, Commit(t)
  PROVE  Inv'
<1>1. /\ at' \in [Requests -> Place] /\ at'[t] = "done"
      /\ \A o \in Requests \ {t} : at'[o] = at[o]
  BY GotoType DEF Commit, Inv, TypeOK, Place, Ended
<1>2. /\ put'[t] = None /\ removed'[t] = {} /\ UNCHANGED << job, faults >>
      /\ \A o \in Requests \ {t} :
           /\ put'[o] = put[o] /\ dropped'[o] = dropped[o] /\ added'[o] = added[o]
           /\ removed'[o] = removed[o] /\ had'[o] = had[o]
  BY DEF Commit, Inv, TypeOK
<1>3. name' \in [Rows -> Names]
  <2>1. None \in Names /\ (put[t] # None => put[t].name \in Names)
    BY DEF Names, Inv, TypeOK, Puts
  <2> QED
    BY <2>1 DEF Commit, Inv, TypeOK
<1>4. TypeOK'
  <2>1. active' \subseteq Users /\ grants' \subseteq Users \X Roles
    BY DEF Commit, Inv, TypeOK
  <2>2. /\ put' \in [Requests -> Puts \cup {None}]
        /\ dropped' \in [Requests -> SUBSET (Users \X Roles)]
        /\ added' \in [Requests -> SUBSET (Users \X Roles)]
        /\ removed' \in [Requests -> SUBSET Roles]
        /\ had' \in [Requests -> SUBSET (Users \X Roles)]
    BY DEF Commit, Inv, TypeOK
  <2> QED
    BY <1>1, <1>2, <1>3, <2>1, <2>2 DEF Inv, TypeOK, Place
<1>5. ASSUME NEW o \in Requests PROVE Progress(o)' /\ AsFound(o)'
  <2>1. CASE o = t
    <3>1. job[t] \in Jobs
      BY DEF Commit, Inv, Progress, Begun
    <3> QED
      BY <1>1, <1>2, <2>1, <3>1 DEF Progress, Begun, Assigned, Written, AsFound
  <2>2. CASE o # t
    <3>1. Progress(o) /\ AsFound(o)
      BY DEF Inv
    <3>2. /\ job'[o] = job[o] /\ at'[o] = at[o] /\ put'[o] = put[o]
          /\ dropped'[o] = dropped[o] /\ added'[o] = added[o] /\ had'[o] = had[o]
      BY <1>1, <1>2, <2>2
    <3>3. Progress(o)'
      BY <3>1, <3>2
         DEF Progress, Begun, Assigned, Written, KindRows, Wanted, Grantee, User
    <3>4. ASSUME put[o] # None
          PROVE  /\ name'[put[o].row] = name[put[o].row]
                 /\ put[o].row \in Users =>
                      (put[o].row \in active' <=> put[o].row \in active)
      <4>1. /\ put[o].row \in Rows /\ (put[t] # None => put[t].row # put[o].row)
            /\ put[o].row \notin removed[t]
        BY <2>2, <3>4 DEF Inv, TypeOK, Puts, Alone
      <4>2. name'[put[o].row] = name[put[o].row]
        BY <4>1 DEF Commit
      <4>3. put[o].row \in Users => (put[o].row \in active' <=> put[o].row \in active)
        BY <4>1 DEF Commit
      <4> QED
        BY <4>2, <4>3
    <3>5. AsFound(o)'
      <4>1. put[o] # None /\ job[o].op = "updateUser" => put[o].row \in Users
        BY <3>1 DEF Progress, Written, KindRows, UserOps
      <4> QED
        BY <3>1, <3>2, <3>4, <4>1 DEF AsFound, Exists
    <3> QED
      BY <3>3, <3>5
  <2> QED
    BY <2>1, <2>2
<1>6. Alone'
  BY <1>2 DEF Inv, Alone
<1> QED
  BY <1>4, <1>5, <1>6 DEF Inv

LEMMA AlwaysInv == Init /\ [][Next]_vars => []Inv
<1>1. Init => Inv
  <2> SUFFICES ASSUME Init PROVE Inv
    OBVIOUS
  <2>1. TypeOK
    <3>1. name \in [Rows -> Names]
      BY DEF Init, Names
    <3> QED
      BY <3>1 DEF Init, TypeOK, Ended
  <2>2. \A t \in Requests : Progress(t) /\ AsFound(t)
    BY DEF Init, Progress, Begun, Assigned, Written, AsFound
  <2>3. Alone
    BY DEF Init, Alone
  <2> QED
    BY <2>1, <2>2, <2>3 DEF Inv
<1>2. Inv /\ UNCHANGED vars => Inv'
  <2> SUFFICES ASSUME Inv, UNCHANGED vars PROVE Inv'
    OBVIOUS
  <2>1. TypeOK' /\ Alone'
    BY DEF vars, committed, written, Inv, TypeOK, Alone
  <2>2. \A t \in Requests : Progress(t)' /\ AsFound(t)'
    BY DEF vars, committed, written, Inv, Progress, Begun, Assigned, Written, AsFound,
           KindRows, Wanted, Grantee, User, Exists
  <2> QED
    BY <2>1, <2>2 DEF Inv
<1>3. Inv /\ Next => Inv'
  BY RequestStep, BeginStep, CheckStep, WriteStep, ClearStep, GrantStep, DeleteStep,
     FindStep, FailStep, CommitStep DEF Next, Advance
<1> QED
  BY <1>1, <1>2, <1>3, PTL

(* Every variable keeps its type.                                           *)
THEOREM TypeCorrect == Spec => []TypeOK
<1>1. Inv => TypeOK
  BY DEF Inv, TypeOK
<1> QED
  BY <1>1, AlwaysInv, PTL DEF Spec

----------------------------------------------------------------------------

(* Only a commit changes what is committed.                                 *)
LEMMA OnlyCommits ==
  ASSUME Inv, [Next]_vars
  PROVE  UNCHANGED committed \/ \E t \in Requests : Commit(t)
BY DEF Next, Advance, Request, Begin, CheckName, Insert, Update, Put, Clear, Grant,
       DeleteRole, FindById, Found, TimeOut, Fail, Abort, vars

LEMMA CommitsCommit ==
  ASSUME Inv, [Next]_vars, NEW t \in Requests, Commits(t)
  PROVE  Commit(t)
<1>1. at' # at
  BY DEF Commits
<1>2. PICK o \in Requests : (\E j \in Jobs : Request(o, j)) \/ Advance(o) \/ Fail(o)
  BY <1>1 DEF Next, vars
<1>3. \E where \in Place : Goto(o, where)
  <2>1. CASE Begin(o)
    <3>1. job[o] \in Jobs
      BY <2>1 DEF Begin, Inv, Progress, Begun
    <3> QED
      BY <2>1, <3>1 DEF Begin, Place, InTransaction
  <2>2. CASE ~Begin(o)
    BY <1>2, <2>2
       DEF Request, Advance, CheckName, Insert, Update, Put, Clear, Grant, DeleteRole,
           FindById, Found, TimeOut, Fail, Abort, Commit, Place, InTransaction, Ended
  <2> QED
    BY <2>1, <2>2
<1>4. o = t
  BY <1>3, GotoType DEF Inv, TypeOK, Commits
<1>5. at[t] = "commit" /\ at'[t] # "failed"
  BY DEF Commits
<1>6. ~Abort(t)
  BY <1>5, GotoType DEF Abort, Inv, TypeOK, Place, Ended
<1> QED
  BY <1>2, <1>4, <1>5, <1>6
     DEF Request, Advance, Begin, CheckName, Insert, Update, Clear, Grant, DeleteRole,
         FindById, Found, TimeOut, Fail

(* users.service.ts:145-147, 189-191: of requests that run together under   *)
(* READ COMMITTED, none makes a deactivated user active again but one that  *)
(* asks for it.                                                             *)
THEOREM NobodyReactivatesByAccident == Spec => DeactivationSticks
<1> DEFINE Asked ==
      \A u \in Users : Exists(u) /\ u \notin active /\ u \in active' =>
        \E t \in Requests : Commits(t) /\ job[t].row = u /\ job[t].status = "active"
<1>1. Inv /\ [Next]_vars => Asked
  <2> SUFFICES ASSUME Inv, [Next]_vars, NEW u \in Users,
                      Exists(u), u \notin active, u \in active'
               PROVE  \E t \in Requests :
                        Commits(t) /\ job[t].row = u /\ job[t].status = "active"
    OBVIOUS
  <2>1. PICK t \in Requests : Commit(t)
    BY OnlyCommits DEF committed
  <2>2. put[t] # None /\ put[t].row = u /\ put[t].active
    BY <2>1 DEF Commit
  <2>3. /\ job[t] \in Jobs /\ job[t].op \in Writers /\ u \in KindRows(t)
        /\ job[t].op \notin Creates => job[t].row = u
    BY <2>2 DEF Inv, Progress, Written
  <2>4. job[t].op \in UserOps
    BY <2>3 DEF KindRows
  <2>5. AsFound(t)
    BY DEF Inv
  <2>6. job[t].op = "updateUser"
    BY <2>2, <2>3, <2>4, <2>5 DEF AsFound, Writers, Updates, UserOps, Creates
  <2>7. job[t].status \notin {"inactive", None}
    BY <2>2, <2>5, <2>6 DEF AsFound
  <2>8. Commits(t)
    BY <2>1, GotoType DEF Commit, Commits, Inv, TypeOK, Place, Ended
  <2> QED
    BY <2>3, <2>6, <2>7, <2>8 DEF Creates
<1> QED
  BY <1>1, AlwaysInv, PTL DEF Spec, DeactivationSticks

(* users.service.ts:205: whatever else is committed meanwhile, the roles    *)
(* assigned are there after, and those had when the old were deleted gone.  *)
THEOREM AssigningReplaces == Spec => RolesAreReplaced
<1> DEFINE Replaced ==
      \A t \in Requests : Commits(t) /\ job[t].op = "assignRoles" =>
        LET after == { g \in grants' : g[1] = User(t) }
        IN Wanted(t) \subseteq after /\ had[t] \cap after \subseteq Wanted(t)
<1>1. Inv /\ [Next]_vars => Replaced
  <2> SUFFICES ASSUME Inv, [Next]_vars, NEW t \in Requests, Commits(t),
                      job[t].op = "assignRoles"
               PROVE  /\ Wanted(t) \subseteq { g \in grants' : g[1] = User(t) }
                      /\ had[t] \cap { g \in grants' : g[1] = User(t) }
                           \subseteq Wanted(t)
    OBVIOUS
  <2>1. grants' = (grants \ dropped[t]) \cup added[t]
    BY CommitsCommit DEF Commit
  <2>2. dropped[t] = had[t] /\ added[t] = Wanted(t)
    BY DEF Commits, Inv, Progress, Assigned
  <2>3. \A g \in Wanted(t) : g[1] = User(t)
    BY DEF Wanted, Grantee
  <2> QED
    BY <2>1, <2>2, <2>3
<1> QED
  BY <1>1, AlwaysInv, PTL DEF Spec, RolesAreReplaced

----------------------------------------------------------------------------
(* The pool is never overdrawn: who waits for a connection holds none.      *)

InFlight == { t \in Requests : at[t] \in InTransaction }
Finding  == { t \in Requests : at[t] = "find" }

Pooled == Free >= 0

(* How a step moves the request that makes it.                              *)
Moved(t) ==
  \/ Free > 0 /\ at[t] = "begin" /\ at'[t] \in InTransaction
  \/ Free > 0 /\ at[t] = "nested" /\ at'[t] = "find"
  \/ at[t] \in InTransaction \cup {"find"} /\ at'[t] \in InTransaction \cup Ended
  \/ at[t] \in {"idle", "begin"} /\ at'[t] \in Ended \cup {"begin"}

Step(t) == (\E j \in Jobs : Request(t, j)) \/ Advance(t) \/ Fail(t)

LEMMA StepMoves ==
  ASSUME Inv, NEW t \in Requests, Step(t)
  PROVE  Moved(t) /\ \A o \in Requests \ {t} : at'[o] = at[o]
<1>1. ASSUME NEW j \in Jobs, Request(t, j)
      PROVE  Moved(t) /\ \A o \in Requests \ {t} : at'[o] = at[o]
  BY <1>1, GotoType DEF Request, Moved, Inv, TypeOK, Place
<1>2. CASE Begin(t)
  <2>1. PICK where \in {"check", "clear", "write", "nested"} : Goto(t, where)
    BY <1>2 DEF Begin
  <2>2. at'[t] = where /\ \A o \in Requests \ {t} : at'[o] = at[o]
    BY <2>1, GotoType DEF Inv, Place, InTransaction
  <2> QED
    BY <1>2, <2>2 DEF Begin, Moved, InTransaction
<1>3. CASE Abort(t) /\ at[t] \in InTransaction \cup {"find"}
  BY <1>3, GotoType DEF Abort, Moved, Inv, Place, Ended
<1>4. CASE /\ at[t] \in InTransaction \cup {"find"}
           /\ \E where \in {"write", "grant", "delete", "commit", "done", "failed"} :
                Goto(t, where)
  BY <1>4, GotoType DEF Moved, Inv, Place, InTransaction, Ended
<1>5. CASE FindById(t)
  BY <1>5, GotoType DEF FindById, Moved, Inv, Place
<1>6. CASE TimeOut(t)
  BY <1>6, GotoType DEF TimeOut, Moved, Inv, Place, InTransaction, Ended
<1>7. CASE CheckName(t)
  BY <1>3, <1>4, <1>7 DEF CheckName, InTransaction
<1>8. CASE Insert(t) \/ Update(t)
  BY <1>3, <1>4, <1>8 DEF Insert, Update, Put, InTransaction
<1>9. CASE Clear(t)
  BY <1>4, <1>9 DEF Clear, InTransaction
<1>10. CASE Grant(t) \/ DeleteRole(t)
  BY <1>3, <1>4, <1>10 DEF Grant, DeleteRole, InTransaction
<1>11. CASE Commit(t) \/ Found(t)
  BY <1>4, <1>11 DEF Commit, Found, InTransaction
<1>12. CASE Fail(t)
  BY <1>3, <1>12 DEF Fail
<1> QED
  BY <1>1, <1>2, <1>5, <1>6, <1>7, <1>8, <1>9, <1>10, <1>11, <1>12 DEF Step, Advance

LEMMA Counted ==
  /\ IsFiniteSet(InFlight) /\ Cardinality(InFlight) \in Nat
  /\ IsFiniteSet(Finding) /\ Cardinality(Finding) \in Nat
<1>1. InFlight \in SUBSET Requests /\ Finding \in SUBSET Requests
  BY DEF InFlight, Finding
<1> QED
  BY <1>1, FS_Subset, FS_CardinalityType

LEMMA FreeIs == Free = PoolSize - Cardinality(InFlight) - 2 * Cardinality(Finding)
BY DEF Free, InFlight, Finding

LEMMA PoolStep ==
  ASSUME Inv, Pooled, [Next]_vars
  PROVE  Pooled'
<1> DEFINE n == Cardinality(InFlight)
           m == Cardinality(Finding)
<1>1. n \in Nat /\ m \in Nat /\ PoolSize \in Nat /\ PoolSize - n - 2 * m >= 0
  BY Counted, FreeIs DEF Pooled
<1>2. Free = PoolSize - n - 2 * m
  BY FreeIs
<1>3. SUFFICES /\ Cardinality(InFlight') \in Nat /\ Cardinality(Finding') \in Nat
               /\ Cardinality(InFlight') + 2 * Cardinality(Finding') <= PoolSize
  <2>1. Free' = PoolSize - Cardinality(InFlight') - 2 * Cardinality(Finding')
    BY DEF Free, InFlight, Finding
  <2> QED
    BY <1>1, <1>3, <2>1 DEF Pooled
<1>4. CASE UNCHANGED vars
  BY <1>1, <1>4 DEF vars, InFlight, Finding
<1>5. ASSUME NEW t \in Requests, Step(t)
      PROVE  /\ Cardinality(InFlight') \in Nat /\ Cardinality(Finding') \in Nat
             /\ Cardinality(InFlight') + 2 * Cardinality(Finding') <= PoolSize
  <2>1. Moved(t) /\ \A o \in Requests \ {t} : at'[o] = at[o]
    BY <1>5, StepMoves
  <2>2. /\ Cardinality(InFlight \cup {t}) = IF t \in InFlight THEN n ELSE n + 1
        /\ Cardinality(Finding \cup {t}) = IF t \in Finding THEN m ELSE m + 1
    BY Counted, FS_AddElement
  <2>3. /\ t \in InFlight => n > 0
        /\ t \in Finding => m > 0
    BY <1>1, Counted, FS_EmptySet
  <2>4. /\ Cardinality(InFlight \ {t}) = IF t \in InFlight THEN n - 1 ELSE n
        /\ Cardinality(Finding \ {t}) = IF t \in Finding THEN m - 1 ELSE m
    BY Counted, FS_RemoveElement
  <2>5. CASE Free > 0 /\ at[t] = "begin" /\ at'[t] \in InTransaction
    <3>1. /\ InFlight' = InFlight \cup {t} /\ Finding' = Finding
          /\ t \notin InFlight
      BY <2>1, <2>5 DEF InFlight, Finding, InTransaction
    <3> QED
      BY <1>1, <1>2, <2>2, <2>5, <3>1
  <2>6. CASE Free > 0 /\ at[t] = "nested" /\ at'[t] = "find"
    <3>1. /\ InFlight' = InFlight \ {t} /\ Finding' = Finding \cup {t}
          /\ t \in InFlight /\ t \notin Finding
      BY <2>1, <2>6 DEF InFlight, Finding, InTransaction
    <3> QED
      BY <1>1, <1>2, <2>2, <2>4, <2>6, <2>3, <3>1
  <2>7. CASE at[t] \in InTransaction \cup {"find"} /\ at'[t] \in InTransaction \cup Ended
    <3>1. /\ InFlight' \in {InFlight \cup {t}, InFlight \ {t}}
          /\ Finding' = Finding \ {t}
          /\ t \in InFlight \/ t \in Finding
      BY <2>1, <2>7 DEF InFlight, Finding, InTransaction, Ended
    <3>2. t \in InFlight => t \notin Finding
      BY DEF InFlight, Finding, InTransaction
    <3>3. CASE InFlight' = InFlight \cup {t}
      BY <1>1, <2>2, <2>4, <2>3, <3>1, <3>2, <3>3
    <3>4. CASE InFlight' = InFlight \ {t}
      BY <1>1, <2>2, <2>4, <2>3, <3>1, <3>2, <3>4
    <3> QED
      BY <3>1, <3>3, <3>4
  <2>8. CASE at[t] \in {"idle", "begin"} /\ at'[t] \in Ended \cup {"begin"}
    <3>1. InFlight' = InFlight /\ Finding' = Finding
      BY <2>1, <2>8 DEF InFlight, Finding, InTransaction, Ended
    <3> QED
      BY <1>1, <3>1
  <2> QED
    BY <2>1, <2>5, <2>6, <2>7, <2>8 DEF Moved
<1> QED
  BY <1>4, <1>5 DEF Next, Step

----------------------------------------------------------------------------
(* Who may come to bear a name: the rows that do and those to be renamed,   *)
(* and, one new row each, the requests that create one.                     *)

Asking(op, n) ==
  { t \in Requests :
      at[t] \in {"write", "grant", "commit"} /\ job[t].op = op /\ job[t].name = n }

Bearers(K, op, n) ==
  { i \in K : name[i] = n } \cup { job[t].row : t \in Asking(op, n) }

Fits(K, creates, updates, n) ==
  /\ Bearers(K, updates, n) \subseteq K
  /\ Cardinality(Bearers(K, updates, n)) + Cardinality(Asking(creates, n)) <= PoolSize

IsKind(K, creates, updates) ==
  \/ K = Users /\ creates = "createUser" /\ updates = "updateUser"
  \/ K = Roles /\ creates = "createRole" /\ updates = "updateRole"

(* No user was to be given the name.                                        *)
Unasked(n) ==
  \A t \in Requests : job[t] # NoJob /\ job[t].op = "updateUser" => job[t].name # n

Bounded ==
  \A n \in Names \ {None, Empty} :
    /\ Fits(Roles, "createRole", "updateRole", n)
    /\ Unasked(n) => Fits(Users, "createUser", "updateUser", n)

LEMMA AskingCounted ==
  ASSUME NEW op, NEW n
  PROVE  /\ IsFiniteSet(Asking(op, n)) /\ Cardinality(Asking(op, n)) \in Nat
         /\ IsFiniteSet(Asking(op, n)') /\ Cardinality(Asking(op, n)') \in Nat
<1>1. Asking(op, n) \in SUBSET Requests /\ Asking(op, n)' \in SUBSET Requests
  BY DEF Asking
<1> QED
  BY <1>1, FS_Subset, FS_CardinalityType

LEMMA KindFinite ==
  ASSUME NEW K \in SUBSET Rows
  PROVE  IsFiniteSet(K) /\ Cardinality(K) \in Nat
BY FS_Subset, FS_CardinalityType

(* Nobody new asks for the name.                                            *)
LEMMA FitsShrinks ==
  ASSUME NEW K, NEW creates, NEW updates, NEW n, IsKind(K, creates, updates),
         Fits(K, creates, updates, n),
         Bearers(K, updates, n)' \subseteq Bearers(K, updates, n),
         Asking(creates, n)' \subseteq Asking(creates, n)
  PROVE  Fits(K, creates, updates, n)'
<1>1. K \in SUBSET Rows
  BY DEF IsKind, Rows
<1>2. Bearers(K, updates, n) \in SUBSET K /\ Bearers(K, updates, n)' \in SUBSET K
  BY DEF Fits
<1>3. IsFiniteSet(Bearers(K, updates, n)) /\ Cardinality(Bearers(K, updates, n)) \in Nat
      /\ Cardinality(Bearers(K, updates, n)') \in Nat
  BY <1>1, <1>2, KindFinite, FS_Subset, FS_CardinalityType
<1>4. /\ Cardinality(Bearers(K, updates, n)') <= Cardinality(Bearers(K, updates, n))
      /\ Cardinality(Asking(creates, n)') <= Cardinality(Asking(creates, n))
  BY <1>3, AskingCounted, FS_Subset
<1> DEFINE b  == Cardinality(Bearers(K, updates, n))
           bb == Cardinality(Bearers(K, updates, n)')
           a  == Cardinality(Asking(creates, n))
           aa == Cardinality(Asking(creates, n)')
<1>5. b \in Nat /\ bb \in Nat /\ a \in Nat /\ aa \in Nat /\ bb <= b /\ aa <= a
      /\ b + a <= PoolSize
  BY <1>3, <1>4, AskingCounted DEF Fits
<1> HIDE DEF b, bb, a, aa
<1>6. bb + aa <= PoolSize
  BY <1>5
<1> QED
  BY <1>2, <1>6 DEF Fits, bb, aa

(* Nobody has the name: those who ask for it all hold a connection.         *)
LEMMA FitsThePool ==
  ASSUME Inv', Pooled', NEW K, NEW creates, NEW updates, NEW n,
         IsKind(K, creates, updates), { i \in K : name'[i] = n } = {}
  PROVE  Fits(K, creates, updates, n)'
<1> DEFINE A == Asking(updates, n)'
           C == Asking(creates, n)'
           B == Bearers(K, updates, n)'
           row == [t \in A |-> job'[t].row]
<1>1. B = { job'[t].row : t \in A }
  BY DEF Bearers
<1>2. A \cap C = {} /\ A \cup C \subseteq InFlight'
  BY DEF Asking, InFlight, InTransaction, IsKind
<1>3. B \subseteq K
  <2> SUFFICES ASSUME NEW t \in A PROVE job'[t].row \in K
    BY <1>1
  <2>1. job'[t] \in Jobs /\ job'[t].op = updates
    BY DEF Asking, Inv, Progress, Begun
  <2> QED
    BY <2>1 DEF IsKind, Creates, UserOps, RoleOps
<1>4. row \in Surjection(A, B)
  BY <1>1 DEF Surjection
<1>5. /\ IsFiniteSet(A) /\ IsFiniteSet(C) /\ Cardinality(A) \in Nat /\ Cardinality(C) \in Nat
  BY AskingCounted
<1> HIDE DEF A, B, C, row
<1>6. IsFiniteSet(B) /\ Cardinality(B) <= Cardinality(A) /\ Cardinality(B) \in Nat
  BY <1>4, <1>5, FS_Surjection, FS_CardinalityType
<1>7. Cardinality(A \cup C) = Cardinality(A) + Cardinality(C)
  BY <1>2, <1>5, FS_Union, FS_EmptySet
<1>8. /\ IsFiniteSet(InFlight') /\ Cardinality(InFlight') \in Nat
      /\ Cardinality(Finding') \in Nat /\ Cardinality(InFlight') <= PoolSize
  <2>1. InFlight' \in SUBSET Requests /\ Finding' \in SUBSET Requests
    BY DEF InFlight, Finding
  <2>2. /\ IsFiniteSet(InFlight') /\ Cardinality(InFlight') \in Nat
        /\ Cardinality(Finding') \in Nat
    BY <2>1, FS_Subset, FS_CardinalityType
  <2>3. PoolSize - Cardinality(InFlight') - 2 * Cardinality(Finding') >= 0
    BY DEF Pooled, Free, InFlight, Finding
  <2> QED
    BY <2>2, <2>3
<1>9. Cardinality(A \cup C) <= Cardinality(InFlight')
  BY <1>2, <1>8, FS_Subset
<1>10. Cardinality(B) + Cardinality(C) <= PoolSize
  BY <1>5, <1>6, <1>7, <1>8, <1>9
<1> QED
  BY <1>3, <1>10 DEF Fits, B, C

(* A step that neither passes a check nor commits adds nobody.              *)
LEMMA NobodyAsks ==
  ASSUME Inv, NEW t \in Requests, Step(t), ~Commit(t),
         ~(at[t] = "check" /\ at'[t] = "write"),
         NEW n \in Names \ {None, Empty}, NEW op \in Creates \cup Updates
  PROVE  /\ name' = name
         /\ Asking(op, n)' \subseteq Asking(op, n)
         /\ \A o \in Asking(op, n)' : job'[o] = job[o]
<1>1. name' = name
  BY DEF Step, Advance, Request, Begin, CheckName, Insert, Update, Put, Clear, Grant,
         DeleteRole, FindById, Found, TimeOut, Fail, Abort, committed
<1>2. \A o \in Requests \ {t} : at'[o] = at[o] /\ job'[o] = job[o]
  <2>1. \A o \in Requests \ {t} : job'[o] = job[o]
    BY DEF Step, Advance, Request, Begin, CheckName, Insert, Update, Put, Clear, Grant,
           DeleteRole, FindById, Found, TimeOut, Fail, Abort, Inv, TypeOK
  <2> QED
    BY <2>1, StepMoves
<1>3. ASSUME t \in Asking(op, n)' PROVE t \in Asking(op, n) /\ job'[t] = job[t]
  <2>1. /\ at'[t] \in {"write", "grant", "commit"}
        /\ job'[t].op = op /\ job'[t].name = n
    BY <1>3 DEF Asking
  <2>2. ~Request(t, job'[t]) /\ \A j \in Jobs : ~Request(t, j)
    BY <2>1, GotoType DEF Request, Inv, Place
  <2>3. job' = job
    BY <2>2 DEF Step, Advance, Begin, CheckName, Insert, Update, Put, Clear, Grant,
           DeleteRole, FindById, Found, TimeOut, Fail, Abort
  <2>4. Progress(t)
    BY DEF Inv
  <2>5. op \notin {"removeUser", "removeRole", "assignRoles"}
    BY DEF Creates, Updates
  <2>6. ~Abort(t)
    BY <2>1, GotoType DEF Abort, Inv, Place, Ended
  <2>7. ~Begin(t)
    <3> SUFFICES ASSUME Begin(t) PROVE FALSE
      OBVIOUS
    <3>1. PICK where \in {"check", "clear", "write", "nested"} :
            /\ Goto(t, where)
            /\ where = "write" /\ job[t].op # "removeUser" => job[t].name \in {None, Empty}
      BY DEF Begin
    <3>2. at'[t] = where
      BY <3>1, GotoType DEF Inv, Place, InTransaction
    <3> QED
      BY <2>1, <2>3, <2>5, <3>1, <3>2
  <2>8. at[t] \in {"write", "grant", "commit"}
    <3>1. CASE CheckName(t)
      BY <2>1, <2>6, <3>1, GotoType DEF CheckName, Inv, Place, InTransaction
    <3>2. CASE Insert(t) \/ Update(t)
      BY <3>2 DEF Insert, Update
    <3>3. CASE Clear(t) \/ DeleteRole(t)
      BY <2>1, <2>3, <2>4, <2>5, <3>3 DEF Clear, DeleteRole, Progress, Begun
    <3>4. CASE Grant(t)
      BY <3>4 DEF Grant
    <3>5. CASE Found(t)
      BY <2>1, <2>3, <2>4, <3>5 DEF Found, Progress, Begun
    <3>6. CASE FindById(t) \/ TimeOut(t)
      BY <2>1, <3>6, GotoType DEF FindById, TimeOut, Inv, Place, Ended
    <3>7. CASE Fail(t)
      BY <2>6, <3>7 DEF Fail
    <3> QED
      BY <2>2, <2>7, <3>1, <3>2, <3>3, <3>4, <3>5, <3>6, <3>7 DEF Step, Advance
  <2> QED
    BY <2>1, <2>3, <2>8 DEF Asking
<1>4. ASSUME NEW o \in Asking(op, n)', o # t PROVE o \in Asking(op, n) /\ job'[o] = job[o]
  BY <1>2, <1>4 DEF Asking
<1> QED
  BY <1>1, <1>3, <1>4

(* A request has found that it may take the name.                           *)
LEMMA CheckFits ==
  ASSUME Inv, Inv', Pooled', NEW t \in Requests, CheckName(t), at'[t] = "write",
         NEW K, NEW creates, NEW updates, IsKind(K, creates, updates),
         NEW n \in Names \ {None, Empty}, K = Users => Unasked(n),
         Fits(K, creates, updates, n)
  PROVE  Fits(K, creates, updates, n)'
<1>1. /\ at[t] = "check" /\ ~Refused(t) /\ job' = job /\ name' = name
      /\ \A o \in Requests \ {t} : at'[o] = at[o]
  <2>1. ~Abort(t)
    BY GotoType DEF Abort, Inv, Place, Ended
  <2> QED
    BY <2>1, GotoType DEF CheckName, committed, Inv, Place, InTransaction
<1>2. job[t] \in Jobs
  BY <1>1 DEF Inv, Progress, Begun
<1>3. \A op : Asking(op, n)' \subseteq Asking(op, n) \cup {t}
  BY <1>1 DEF Asking
<1>4. CASE job[t].op = creates /\ job[t].name = n
  <2>1. Namesakes(t) = { i \in K : name[i] = n }
    BY <1>4 DEF Namesakes, IsKind, UserOps
  <2>2. Namesakes(t) = {}
    BY <1>1, <1>4 DEF Refused, IsKind
  <2> QED
    BY <1>1, <2>1, <2>2, FitsThePool
<1>5. CASE job[t].op = updates /\ job[t].name = n
  <2>1. K = Roles /\ updates = "updateRole" /\ creates = "createRole"
    <3>1. K = Users /\ updates = "updateUser" => FALSE
      BY <1>2, <1>5 DEF Unasked
    <3> QED
      BY <3>1 DEF IsKind
  <2>2. Namesakes(t) = { i \in K : name[i] = n }
    BY <1>5, <2>1 DEF Namesakes, UserOps
  <2>3. CASE Namesakes(t) = {}
    BY <1>1, <2>2, <2>3, FitsThePool
  <2>4. CASE job[t].row \in Namesakes(t)
    <3>1. Asking(creates, n)' \subseteq Asking(creates, n)
      BY <1>1, <1>3, <1>5, <2>1 DEF Asking
    <3>2. Bearers(K, updates, n)' \subseteq Bearers(K, updates, n)
      BY <1>1, <1>3, <2>2, <2>4 DEF Bearers
    <3> QED
      BY <3>1, <3>2, FitsShrinks
  <2> QED
    BY <1>1, <1>5, <2>1, <2>3, <2>4 DEF Refused
<1>6. CASE ~(job[t].op \in {creates, updates} /\ job[t].name = n)
  <2>1. /\ Asking(creates, n)' \subseteq Asking(creates, n)
        /\ Asking(updates, n)' \subseteq Asking(updates, n)
    BY <1>1, <1>3, <1>6 DEF Asking
  <2>2. Bearers(K, updates, n)' \subseteq Bearers(K, updates, n)
    BY <1>1, <2>1 DEF Bearers
  <2> QED
    BY <2>1, <2>2, FitsShrinks
<1> QED
  BY <1>4, <1>5, <1>6

(* A row with the name is committed: the request asked for it until now.    *)
LEMMA CommitFits ==
  ASSUME Inv, NEW t \in Requests, Commit(t),
         NEW K, NEW creates, NEW updates, IsKind(K, creates, updates),
         NEW n \in Names \ {None, Empty}, Fits(K, creates, updates, n)
  PROVE  Fits(K, creates, updates, n)'
<1>1. /\ at[t] = "commit" /\ at'[t] = "done" /\ job' = job
      /\ \A o \in Requests \ {t} : at'[o] = at[o]
  BY GotoType DEF Commit, Inv, Place, Ended
<1>2. \A op : Asking(op, n)' = Asking(op, n) \ {t}
  BY <1>1 DEF Asking
<1>3. K \in SUBSET Rows
  BY DEF IsKind, Rows
<1>4. \A i \in K : name'[i] = n =>
        name[i] = n \/ (put[t] # None /\ put[t].row = i /\ put[t].name = n)
  BY <1>3 DEF Commit
<1>5. CASE put[t] # None /\ put[t].row \in K /\ put[t].name = n
            /\ job[t].op = creates /\ job[t].name = n
  <2> DEFINE r == put[t].row
             B == Bearers(K, updates, n)
             C == Asking(creates, n)
             BB == Bearers(K, updates, n)'
  <2>1. BB \subseteq B \cup {r}
    BY <1>1, <1>2, <1>4 DEF Bearers
  <2>2. t \in C /\ Asking(creates, n)' = C \ {t}
    BY <1>1, <1>2, <1>5 DEF Asking
  <2>3. B \in SUBSET K /\ r \in K /\ Cardinality(B) + Cardinality(C) <= PoolSize
    BY <1>5 DEF Fits
  <2>4. IsFiniteSet(C) /\ Cardinality(C) \in Nat
    BY AskingCounted
  <2> HIDE DEF B, C, BB, r
  <2>5. IsFiniteSet(B) /\ Cardinality(B) \in Nat
    BY <1>3, <2>3, KindFinite, FS_Subset, FS_CardinalityType
  <2>6. /\ IsFiniteSet(B \cup {r}) /\ Cardinality(B \cup {r}) \in Nat
        /\ Cardinality(B \cup {r}) <= Cardinality(B) + 1
    <3>1. IsFiniteSet(B \cup {r}) /\ Cardinality(B \cup {r}) \in Nat
      BY <2>5, FS_AddElement, FS_CardinalityType
    <3>2. Cardinality(B \cup {r}) = IF r \in B THEN Cardinality(B) ELSE Cardinality(B) + 1
      BY <2>5, FS_AddElement
    <3>3. CASE r \in B
      BY <2>5, <3>1, <3>2, <3>3
    <3>4. CASE r \notin B
      BY <2>5, <3>1, <3>2, <3>4
    <3> QED
      BY <3>3, <3>4
  <2>7. Cardinality(BB) <= Cardinality(B \cup {r}) /\ Cardinality(BB) \in Nat
    BY <2>1, <2>6, FS_Subset, FS_CardinalityType
  <2>8. Cardinality(C \ {t}) = Cardinality(C) - 1
    BY <2>2, <2>4, FS_RemoveElement
  <2>9. Cardinality(BB) + Cardinality(C \ {t}) <= PoolSize
    BY <2>3, <2>4, <2>5, <2>6, <2>7, <2>8
  <2>10. BB \subseteq K
    BY <2>1, <2>3
  <2> QED
    BY <2>2, <2>9, <2>10 DEF Fits, BB
<1>6. CASE ~(put[t] # None /\ put[t].row \in K /\ put[t].name = n
              /\ job[t].op = creates /\ job[t].name = n)
  <2>1. ASSUME put[t] # None, put[t].row \in K, put[t].name = n
        PROVE  put[t].row \in Bearers(K, updates, n)
    <3>1. Progress(t) /\ AsFound(t)
      BY DEF Inv
    <3>2. /\ job[t] \in Jobs /\ job[t].op \in Writers /\ put[t].row \in KindRows(t)
          /\ job[t].op \notin Creates => put[t].row = job[t].row
          /\ job[t].name # None => job[t].name = n
      BY <2>1, <3>1 DEF Progress, Written
    <3>3. CASE job[t].name = None
      BY <2>1, <3>1, <3>3 DEF AsFound, Bearers
    <3>4. CASE job[t].name = n
      <4>1. job[t].op \in {creates, updates}
        BY <2>1, <3>2, <3>4
           DEF IsKind, KindRows, UserOps, Writers, Creates, Updates
      <4>2. job[t].op = updates /\ put[t].row = job[t].row
        BY <1>6, <2>1, <3>2, <3>4, <4>1 DEF IsKind, Creates
      <4>3. t \in Asking(updates, n)
        BY <1>1, <3>4, <4>2 DEF Asking
      <4> QED
        BY <4>2, <4>3 DEF Bearers
    <3> QED
      BY <3>2, <3>3, <3>4
  <2>2. Bearers(K, updates, n)' \subseteq Bearers(K, updates, n)
    BY <1>1, <1>2, <1>4, <2>1 DEF Bearers
  <2> QED
    BY <1>2, <2>2, FitsShrinks
<1> QED
  BY <1>5, <1>6

LEMMA StepFits ==
  ASSUME Inv, Inv', Pooled', [Next]_vars,
         NEW K, NEW creates, NEW updates, IsKind(K, creates, updates),
         NEW n \in Names \ {None, Empty}, K = Users => Unasked(n),
         Fits(K, creates, updates, n)
  PROVE  Fits(K, creates, updates, n)'
<1>1. CASE UNCHANGED vars
  BY <1>1, FitsShrinks DEF vars, committed, Bearers, Asking
<1>2. ASSUME NEW t \in Requests, Step(t) PROVE Fits(K, creates, updates, n)'
  <2>1. CASE Commit(t)
    BY <2>1, CommitFits
  <2>2. CASE at[t] = "check" /\ at'[t] = "write"
    <3>1. CheckName(t)
      <4>1. ~Abort(t)
        BY <2>2, GotoType DEF Abort, Inv, Place, Ended
      <4> QED
        BY <1>2, <2>2, <4>1
           DEF Step, Advance, Request, Begin, Insert, Update, Clear, Grant, DeleteRole,
               Commit, FindById, Found, TimeOut, Fail
    <3> QED
      BY <2>2, <3>1, CheckFits
  <2>3. CASE ~Commit(t) /\ ~(at[t] = "check" /\ at'[t] = "write")
    <3>1. creates \in Creates \cup Updates /\ updates \in Creates \cup Updates
      BY DEF IsKind, Creates, Updates
    <3>2. /\ name' = name
          /\ Asking(creates, n)' \subseteq Asking(creates, n)
          /\ Asking(updates, n)' \subseteq Asking(updates, n)
          /\ \A o \in Asking(updates, n)' : job'[o] = job[o]
      BY <1>2, <2>3, <3>1, NobodyAsks
    <3>3. Bearers(K, updates, n)' \subseteq Bearers(K, updates, n)
      BY <3>2 DEF Bearers
    <3> QED
      BY <3>2, <3>3, FitsShrinks
  <2> QED
    BY <2>1, <2>2, <2>3
<1> QED
  BY <1>1, <1>2 DEF Next, Step

LEMMA UnaskedBefore ==
  ASSUME Inv, [Next]_vars, NEW n, Unasked(n)'
  PROVE  Unasked(n)
<1> SUFFICES ASSUME NEW t \in Requests, job[t] # NoJob PROVE job'[t] = job[t]
  BY DEF Unasked
<1>1. at[t] # "idle"
  BY DEF Inv, Progress, Begun
<1>2. ASSUME NEW o \in Requests, NEW j \in Jobs, Request(o, j) PROVE job'[t] = job[t]
  BY <1>1, <1>2 DEF Request, Inv, TypeOK
<1> QED
  BY <1>2 DEF Next, Advance, Begin, CheckName, Insert, Update, Put, Clear, Grant,
     DeleteRole, Commit, FindById, Found, TimeOut, Fail, Abort, vars

LEMMA AlwaysBounded == Init /\ [][Next]_vars => [](Inv /\ Pooled /\ Bounded)
<1>1. Init => Pooled /\ Bounded
  <2> SUFFICES ASSUME Init PROVE Pooled /\ Bounded
    OBVIOUS
  <2>1. Pooled
    <3>1. InFlight = {} /\ Finding = {}
      BY DEF Init, InFlight, Finding, InTransaction
    <3> QED
      BY <3>1, FreeIs, FS_EmptySet DEF Pooled
  <2>2. ASSUME NEW K, NEW creates, NEW updates, IsKind(K, creates, updates),
               NEW n \in Names \ {None, Empty}
        PROVE  Fits(K, creates, updates, n)
    <3>1. \A op : Asking(op, n) = {}
      BY DEF Init, Asking
    <3>2. \A i, k \in K : Named[i] = n /\ Named[k] = n => i = k
      <4>1. /\ \A i, k \in Users : Named[i] = Named[k] /\ Named[i] # None => i = k
            /\ \A i, k \in Roles : Named[i] = Named[k] /\ Named[i] # None => i = k
        BY DEF Unique
      <4>2. K = Users \/ K = Roles
        BY <2>2 DEF IsKind
      <4> QED
        BY <4>1, <4>2
    <3>3. Bearers(K, updates, n) = { i \in K : Named[i] = n }
      BY <3>1 DEF Bearers, Init
    <3> DEFINE B == Bearers(K, updates, n)
    <3> HIDE DEF B
    <3>4. B = {} \/ \E i : B = {i}
      <4>1. \A i, k \in B : i = k
        BY <3>2, <3>3 DEF B
      <4>2. ASSUME B # {} PROVE \E i : B = {i}
        <5>1. PICK i : i \in B
          BY <4>2
        <5> QED
          BY <4>1, <5>1
      <4> QED
        BY <4>2
    <3>5. Cardinality(B) \in {0, 1}
      BY <3>4, FS_EmptySet, FS_Singleton
    <3>6. Cardinality(Asking(creates, n)) = 0
      BY <3>1, FS_EmptySet
    <3>7. Bearers(K, updates, n) \subseteq K
      BY <3>3
    <3> QED
      BY <3>5, <3>6, <3>7 DEF Fits, B
  <2> QED
    BY <2>1, <2>2 DEF Bounded, IsKind
<1>2. Inv /\ Inv' /\ Pooled /\ Bounded /\ [Next]_vars => Pooled' /\ Bounded'
  <2> SUFFICES ASSUME Inv, Inv', Pooled, Bounded, [Next]_vars PROVE Pooled' /\ Bounded'
    OBVIOUS
  <2>1. Pooled'
    BY PoolStep
  <2>2. ASSUME NEW n \in Names \ {None, Empty}
        PROVE  /\ Fits(Roles, "createRole", "updateRole", n)'
               /\ Unasked(n)' => Fits(Users, "createUser", "updateUser", n)'
    <3>1. /\ Fits(Roles, "createRole", "updateRole", n)
          /\ Unasked(n) => Fits(Users, "createUser", "updateUser", n)
      BY DEF Bounded
    <3>2. CASE Roles # Users
      <4>1. /\ IsKind(Roles, "createRole", "updateRole")
            /\ IsKind(Users, "createUser", "updateUser")
        BY DEF IsKind
      <4> QED
        BY <2>1, <3>1, <3>2, <4>1, StepFits, UnaskedBefore
    <3>3. CASE Roles = Users
      <4>1. Roles = {} /\ Users = {}
        BY <3>3
      <4>2. { i \in Roles : name'[i] = n } = {} /\ { i \in Users : name'[i] = n } = {}
        BY <4>1
      <4>3. /\ IsKind(Roles, "createRole", "updateRole")
            /\ IsKind(Users, "createUser", "updateUser")
        BY DEF IsKind
      <4> QED
        BY <2>1, <4>2, <4>3, FitsThePool
    <3> QED
      BY <3>2, <3>3
  <2> QED
    BY <2>1, <2>2 DEF Bounded
<1> QED
  BY <1>1, <1>2, AlwaysInv, PTL

(* users.service.ts:93, roles.service.ts:48, 87: for any requests, users,   *)
(* roles and jobs, whatever they commit or roll back in whatever order: a   *)
(* role's name, and an e-mail no update asked for, is never shared by more  *)
(* rows than the pool has connections.                                      *)
THEOREM FewShareAName == Spec => []NamesakesAreBounded
<1>1. Inv /\ Bounded => NamesakesAreBounded
  <2> SUFFICES ASSUME Inv, Bounded, NEW n \in Names \ {None, Empty}
               PROVE  /\ Cardinality({ r \in Roles : name[r] = n }) <= PoolSize
                      /\ Unasked(n) => Cardinality({ u \in Users : name[u] = n }) <= PoolSize
    BY DEF NamesakesAreBounded, Unasked
  <2>1. ASSUME NEW K \in SUBSET Rows, NEW creates, NEW updates, Fits(K, creates, updates, n)
        PROVE  Cardinality({ i \in K : name[i] = n }) <= PoolSize
    <3> DEFINE B == Bearers(K, updates, n)
               N == { i \in K : name[i] = n }
               C == Asking(creates, n)
    <3>1. N \subseteq B /\ B \in SUBSET K /\ Cardinality(B) + Cardinality(C) <= PoolSize
      BY <2>1 DEF Bearers, Fits
    <3>2. Cardinality(C) \in Nat
      BY AskingCounted
    <3> HIDE DEF B, C, N
    <3>3. IsFiniteSet(B) /\ Cardinality(B) \in Nat
      BY <3>1, KindFinite, FS_Subset, FS_CardinalityType
    <3>4. Cardinality(N) <= Cardinality(B) /\ Cardinality(N) \in Nat
      BY <3>1, <3>3, FS_Subset, FS_CardinalityType
    <3>5. Cardinality(N) <= PoolSize
      BY <3>1, <3>2, <3>3, <3>4
    <3> QED
      BY <3>5 DEF N
  <2> QED
    BY <2>1 DEF Bounded, Rows
<1> QED
  BY <1>1, AlwaysBounded, PTL DEF Spec
=============================================================================
