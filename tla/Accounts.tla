------------------------------ MODULE Accounts ------------------------------
(***************************************************************************)
(* The users and roles of one tenant, which administrators create, update  *)
(* and remove in transactions at PostgreSQL's default level, READ          *)
(* COMMITTED: a statement sees what was committed when it began, waits for *)
(* the rows another transaction has changed, and what a transaction writes *)
(* is its own until it commits.                                            *)
(*                                                                         *)
(* Users and roles are rows with a name, the e-mail of a user; their ids   *)
(* are numbers because one check compares them.  A request holds a         *)
(* connection of the pool while its transaction lasts, and one kind of     *)
(* request asks for a second.                                              *)
(***************************************************************************)
EXTENDS Integers, FiniteSets

CONSTANTS
  Requests,   \* calls of UsersService and RolesService
  Users,      \* ids of users, used or not
  Roles,      \* ids of roles, used or not
  Jobs,       \* what a request may ask for: [op, row, name, status, roles]
  NoJob,      \* the job of a request that was not made yet
  None,       \* no row, no such field in a patch, no name: no row
  Empty,      \* the name "", which UpdateRoleDto alone lets through
  Named,      \* the rows there are at first, with their names
  Granted,    \* which users have which roles at first
  PoolSize,   \* connections of the pool
  MaxFaults   \* bound: statements that throw, processes that die

Rows  == Users \cup Roles
Names == { j.name : j \in Jobs } \cup { Named[i] : i \in Rows } \cup {None}
Puts  == [row : Rows, name : Names, active : BOOLEAN]

UserOps == { "createUser", "updateUser", "removeUser", "assignRoles" }
RoleOps == { "createRole", "updateRole", "removeRole" }
Creates == { "createUser", "createRole" }

Unique(S) == \A i, k \in S : Named[i] = Named[k] /\ Named[i] # None => i = k

ASSUME AccountRowsAssumption ==
  /\ Users \subseteq Nat /\ Roles \subseteq Nat /\ Users \cap Roles = {}
  /\ IsFiniteSet(Rows) /\ IsFiniteSet(Requests)
  /\ None \notin Rows \cup Puts \cup { "active", "inactive", Empty }
  /\ Named \in [Rows -> Names] /\ Unique(Users) /\ Unique(Roles)
  /\ Granted \subseteq Users \X Roles
ASSUME AccountJobsAssumption ==
  /\ NoJob \notin Jobs
  /\ \A j \in Jobs :
       /\ \/ j.op \in Creates /\ j.row = None
          \/ j.op \in UserOps \ Creates /\ j.row \in Users
          \/ j.op \in RoleOps \ Creates /\ j.row \in Roles
       /\ j.roles \subseteq Roles
       /\ j.roles # {} => j.op \in {"createUser", "assignRoles"}
       /\ j.status \in {"active", "inactive", None}
       /\ j.op \in Creates => j.name # None
       /\ j.op \in {"assignRoles", "removeUser", "removeRole"} => j.name = None
       /\ j.name = Empty => j.op = "updateRole"
ASSUME AccountBoundsAssumption == PoolSize \in Nat \ {0} /\ MaxFaults \in Nat

VARIABLES
  name,     \* per row, users.email or roles.name; None: there is no row
  active,   \* users whose status is active
  grants,   \* user_roles
  job,      \* what each request asks for
  at,       \* the statement it is about to make, or how it ended
  put,      \* the row it has written: [row, name, active], or None
  dropped,  \* the grants it has deleted
  added,    \* the grants it has inserted
  removed,  \* the roles it has deleted
  had,      \* the grants its DELETE was to find (history)
  faults

committed == << name, active, grants >>
written   == << put, dropped, added, removed, had >>
vars == << committed, job, at, written, faults >>

----------------------------------------------------------------------------

InTransaction == { "check", "write", "clear", "grant", "delete", "commit", "nested" }

Ended == { "done", "failed" }

(* Connections nobody holds: a request that finds by id holds two.          *)
Free ==
  PoolSize - Cardinality({ t \in Requests : at[t] \in InTransaction })
           - 2 * Cardinality({ t \in Requests : at[t] = "find" })

Others(t) == Requests \ {t}

Exists(i) == name[i] # None

Goto(t, where) == at' = [at EXCEPT ![t] = where]

User(t) == job[t].row

(* The user whose roles a request changes: the one it is about, or the one  *)
(* it has created.                                                          *)
Grantee(t) == IF job[t].op = "createUser" THEN put[t].row ELSE User(t)

Wanted(t) == { << Grantee(t), r >> : r \in job[t].roles }

Init ==
  /\ name    = Named
  /\ active  = { u \in Users : Named[u] # None }
  /\ grants  = Granted
  /\ job     = [t \in Requests |-> NoJob]
  /\ at      = [t \in Requests |-> "idle"]
  /\ put     = [t \in Requests |-> None]
  /\ dropped = [t \in Requests |-> {}]
  /\ added   = [t \in Requests |-> {}]
  /\ removed = [t \in Requests |-> {}]
  /\ had     = [t \in Requests |-> {}]
  /\ faults  = 0

(* A request comes in and waits for a connection.                           *)
Request(t, j) ==
  /\ at[t] = "idle"
  /\ job' = [job EXCEPT ![t] = j]
  /\ Goto(t, "begin")
  /\ UNCHANGED << committed, written, faults >>

(* withRls: BEGIN and SET LOCAL; then each service's first statement.  An   *)
(* update checks a name it is given unless it is empty; a patch with        *)
(* nothing in it makes it read the row instead.                             *)
Begin(t) ==
  /\ at[t] = "begin" /\ Free > 0
  /\ Goto(t, CASE job[t].op \in Creates -> "check"
               [] job[t].op \in {"assignRoles", "removeRole"} -> "clear"
               [] job[t].op = "removeUser" -> "write"
               [] OTHER -> IF job[t].name \notin {None, Empty} THEN "check"
                           ELSE IF job[t].name = Empty \/ job[t].status # None
                             THEN "write" ELSE "nested")
  /\ UNCHANGED << committed, job, written, faults >>

(* A request fails: what it has written is rolled back.                     *)
Abort(t) ==
  /\ Goto(t, "failed")
  /\ put'     = [put EXCEPT ![t] = None]
  /\ dropped' = [dropped EXCEPT ![t] = {}]
  /\ added'   = [added EXCEPT ![t] = {}]
  /\ removed' = [removed EXCEPT ![t] = {}]
  /\ had'     = [had EXCEPT ![t] = {}]

(* The rows of the request's kind that have the name it wants.              *)
Namesakes(t) ==
  { i \in (IF job[t].op \in UserOps THEN Users ELSE Roles) : name[i] = job[t].name }

(* Mutant: only create refuses.                                             *)
RefusedCreatesOnly(t) == job[t].row = None /\ Namesakes(t) # {}

(* The answers of the check that refuse a request.  Creating refuses any    *)
(* namesake; updating a user only looks at users with smaller ids; updating *)
(* a role looks at one namesake, and at no second if that is the role.      *)
Refused(t) ==
  CASE job[t].op = "updateUser" -> \E i \in Namesakes(t) : i < job[t].row
    [] job[t].op = "updateRole" -> job[t].row \notin Namesakes(t) /\ Namesakes(t) # {}
    [] OTHER -> Namesakes(t) # {}

(* Updating a role that has its name already and shares it: the one row     *)
(* read may be the other one.                                               *)
MayBeRefused(t) ==
  job[t].op = "updateRole" /\ job[t].row \in Namesakes(t) /\ Namesakes(t) # {job[t].row}

CheckName(t) ==
  /\ at[t] = "check"
  /\ \/ ~Refused(t) /\ Goto(t, "write") /\ UNCHANGED written
     \/ (Refused(t) \/ MayBeRefused(t)) /\ Abort(t)
  /\ UNCHANGED << committed, job, faults >>

(* Another transaction has written row i, or is about to remove it.         *)
Locked(t, i) ==
  \E o \in Others(t) : (put[o] # None /\ put[o].row = i) \/ i \in removed[o]

(* Mutant: an update without a status makes the user active.                *)
StatusDefault(t, i) == job[t].op # "removeUser" /\ job[t].status # "inactive"

(* The status of user i after the request.                                  *)
Status(t, i) ==
  CASE job[t].op = "removeUser" -> FALSE
    [] job[t].op = "updateUser" /\ job[t].status = None -> i \in active
    [] OTHER -> job[t].status # "inactive"

Put(t, i, n) ==
  /\ put' = [put EXCEPT ![t] = [row |-> i, name |-> n, active |-> Status(t, i)]]
  /\ Goto(t, IF job[t].roles # {} THEN "grant" ELSE "commit")
  /\ UNCHANGED << committed, job, dropped, added, removed, had, faults >>

(* create: the INSERT, of a row with a new id.                              *)
Insert(t) ==
  /\ at[t] = "write" /\ job[t].op \in Creates
  /\ \E i \in (IF job[t].op = "createUser" THEN Users ELSE Roles) :
       ~Exists(i) /\ ~Locked(t, i) /\ Put(t, i, job[t].name)

(* update, and remove of a user, which only sets the status: the UPDATE     *)
(* waits for the row, and what the patch leaves out stays.                  *)
Update(t) ==
  /\ at[t] = "write" /\ job[t].op \in {"updateUser", "removeUser", "updateRole"}
  /\ LET i == job[t].row
     IN /\ ~Locked(t, i)
        /\ IF Exists(i)
             THEN Put(t, i, IF job[t].name = None THEN name[i] ELSE job[t].name)
             ELSE Abort(t) /\ UNCHANGED << committed, job, faults >>

(* The grants a request is to delete: all there are of its user, or role.   *)
Targets(t) ==
  { g \in grants : g[IF job[t].op = "assignRoles" THEN 1 ELSE 2] = job[t].row }

(* Mutant: nothing to assign, nothing to delete.                            *)
ClearIfAny(t) ==
  /\ at[t] = "clear"
  /\ \A o \in Others(t) : dropped[o] \cap Targets(t) = {}
  /\ had' = [had EXCEPT ![t] = Targets(t)]
  /\ dropped' = [dropped EXCEPT ![t] = IF job[t].roles = {} THEN {} ELSE Targets(t)]
  /\ Goto(t, IF job[t].op = "removeRole" THEN "delete"
             ELSE IF job[t].roles # {} THEN "grant" ELSE "commit")
  /\ UNCHANGED << committed, job, put, added, removed, faults >>

(* assignRoles and remove of a role: the DELETE waits for grants that       *)
(* another transaction is deleting, and does not see those it is inserting. *)
Clear(t) ==
  /\ at[t] = "clear"
  /\ \A o \in Others(t) : dropped[o] \cap Targets(t) = {}
  /\ had' = [had EXCEPT ![t] = Targets(t)]
  /\ dropped' = [dropped EXCEPT ![t] = Targets(t)]
  /\ Goto(t, IF job[t].op = "removeRole" THEN "delete"
             ELSE IF job[t].roles # {} THEN "grant" ELSE "commit")
  /\ UNCHANGED << committed, job, put, added, removed, faults >>

(* The INSERT of the grants waits for whoever inserts or deletes one of     *)
(* them or deletes one of the roles; it fails on a grant that is there, and *)
(* on a user or a role that is not.                                         *)
Grant(t) ==
  /\ at[t] = "grant"
  /\ \A o \in Others(t) : /\ (added[o] \cup dropped[o]) \cap Wanted(t) = {}
                          /\ removed[o] \cap job[t].roles = {}
  /\ IF /\ Wanted(t) \cap (grants \ dropped[t]) = {}
        /\ \A r \in job[t].roles : Exists(r)
        /\ put[t] # None \/ Exists(Grantee(t))
       THEN /\ added' = [added EXCEPT ![t] = Wanted(t)]
            /\ Goto(t, "commit")
            /\ UNCHANGED << put, dropped, removed, had >>
       ELSE Abort(t)
  /\ UNCHANGED << committed, job, faults >>

(* remove of a role: the DELETE waits for the role's row and for grants of  *)
(* it under way, and fails on grants committed since its own DELETE.        *)
DeleteRole(t) ==
  /\ at[t] = "delete"
  /\ LET r == job[t].row
     IN /\ ~Locked(t, r)
        /\ \A o \in Others(t) : \A g \in added[o] : g[2] # r
        /\ IF Exists(r) /\ Targets(t) \subseteq dropped[t]
             THEN /\ removed' = [removed EXCEPT ![t] = {r}]
                  /\ Goto(t, "commit")
                  /\ UNCHANGED << put, dropped, added, had >>
             ELSE Abort(t)
  /\ UNCHANGED << committed, job, faults >>

Commit(t) ==
  /\ at[t] = "commit"
  /\ name' = [i \in Rows |-> IF put[t] # None /\ put[t].row = i THEN put[t].name
                             ELSE IF i \in removed[t] THEN None ELSE name[i]]
  /\ active' = { u \in Users : IF put[t] # None /\ put[t].row = u
                                 THEN put[t].active ELSE u \in active }
  /\ grants' = (grants \ dropped[t]) \cup added[t]
  /\ Goto(t, "done")
  /\ put' = [put EXCEPT ![t] = None]
  /\ dropped' = [dropped EXCEPT ![t] = {}]
  /\ added' = [added EXCEPT ![t] = {}]
  /\ removed' = [removed EXCEPT ![t] = {}]
  /\ had'     = [had EXCEPT ![t] = {}]
  /\ UNCHANGED << job, faults >>

(* update with an empty patch: findById is a transaction of its own, on a   *)
(* connection of its own, inside the one that called it.                    *)
FindById(t) ==
  /\ at[t] = "nested" /\ Free > 0
  /\ Goto(t, "find")
  /\ UNCHANGED << committed, job, written, faults >>

Found(t) ==
  /\ at[t] = "find"
  /\ Goto(t, IF Exists(job[t].row) THEN "commit" ELSE "failed")
  /\ UNCHANGED << committed, job, written, faults >>

(* Mutant: a request waits for a connection as long as it takes.            *)
TimeOutNever(t) == FALSE /\ UNCHANGED vars

(* connectionTimeoutMillis: a request that gets no connection throws.       *)
TimeOut(t) ==
  /\ at[t] \in {"begin", "nested"} /\ Free = 0
  /\ Goto(t, "failed")
  /\ UNCHANGED << committed, job, written, faults >>

(* A statement throws or the process dies.                                  *)
Fail(t) ==
  /\ at[t] \in InTransaction \cup {"find"} /\ faults < MaxFaults
  /\ faults' = faults + 1
  /\ Abort(t)
  /\ UNCHANGED << committed, job >>

Advance(t) ==
  \/ Begin(t) \/ CheckName(t) \/ Insert(t) \/ Update(t) \/ Clear(t) \/ Grant(t)
  \/ DeleteRole(t) \/ Commit(t) \/ FindById(t) \/ Found(t) \/ TimeOut(t)

Next ==
  \E t \in Requests : (\E j \in Jobs : Request(t, j)) \/ Advance(t) \/ Fail(t)

(* Statements return, locks are granted when their holder ends, and a       *)
(* request waits for a connection no longer than the timeout.               *)
Spec == Init /\ [][Next]_vars /\ \A t \in Requests : WF_vars(Advance(t))

----------------------------------------------------------------------------

TypeOK ==
  /\ name \in [Rows -> Names] /\ active \subseteq Users
  /\ grants \subseteq Users \X Roles
  /\ job \in [Requests -> Jobs \cup {NoJob}]
  /\ at \in [Requests -> InTransaction \cup Ended \cup {"idle", "begin", "find"}]
  /\ put \in [Requests -> Puts \cup {None}]
  /\ dropped \in [Requests -> SUBSET (Users \X Roles)]
  /\ added \in [Requests -> SUBSET (Users \X Roles)]
  /\ removed \in [Requests -> SUBSET Roles]
  /\ had \in [Requests -> SUBSET (Users \X Roles)]
  /\ faults \in 0..MaxFaults

(* Nothing in the database keeps names apart, and requests that have passed *)
(* the check side by side all write (users.service.ts:93, 161,              *)
(* roles.service.ts:48, 87).  Still no more roles come to share a name than *)
(* the pool has connections, nor users an e-mail that no update asked for:  *)
(* whoever checks later is refused, in whatever order the others commit,    *)
(* roll back, rename or remove.  The name "" is not checked.                *)
NamesakesAreBounded ==
  \A n \in Names \ {None, Empty} :
    /\ Cardinality({ r \in Roles : name[r] = n }) <= PoolSize
    /\ (\A t \in Requests :
          job[t] # NoJob /\ job[t].op = "updateUser" => job[t].name # n)
         => Cardinality({ u \in Users : name[u] = n }) <= PoolSize

Commits(t) == at[t] = "commit" /\ at'[t] = "done"

(* A user who is assigned roles has these afterwards, and of the roles had  *)
(* when the old ones were deleted no other: only what another request       *)
(* committed in between can come on top (users.service.ts:205).             *)
RolesAreReplaced ==
  [][\A t \in Requests : Commits(t) /\ job[t].op = "assignRoles" =>
       LET after == { g \in grants' : g[1] = User(t) }
       IN Wanted(t) \subseteq after /\ had[t] \cap after \subseteq Wanted(t)]_vars

(* A user who was deactivated becomes active again only by a request that   *)
(* asks for it, never by one that changes something else                    *)
(* (users.service.ts:145-147, 189-191).                                     *)
DeactivationSticks ==
  [][\A u \in Users : Exists(u) /\ u \notin active /\ u \in active' =>
       \E t \in Requests : Commits(t) /\ job[t].row = u /\ job[t].status = "active"]_vars

(* Every request ends, even when each connection is held by a request that  *)
(* waits for its second one: the timeout ends the wait (client.ts:17,       *)
(* users.service.ts:150).                                                   *)
EveryRequestEnds ==
  \A t \in Requests : at[t] = "begin" ~> at[t] \in Ended
=============================================================================
