----------------------------- MODULE MCAccounts -----------------------------
(* Small instances of Accounts for TLC.                                     *)
EXTENDS Accounts, TLC

CONSTANTS ann, bob, eve, clerk, boss

Job(o, i, n, s, rs) == [op |-> o, row |-> i, name |-> n, status |-> s, roles |-> rs]

Create(n, rs)      == Job("createUser", None, n, None, rs)
Edit(u, n, s)      == Job("updateUser", u, n, s, {})
Deactivate(u)      == Job("removeUser", u, None, None, {})
Assign(u, rs)      == Job("assignRoles", u, None, None, rs)
NewRole(n)         == Job("createRole", None, n, None, {})
Rename(r, n)       == Job("updateRole", r, n, None, {})
DropRole(r)        == Job("removeRole", r, None, None, {})

(* Users 1 and 2 and roles 11 and 12 are there; 3, 4, 13 and 14 are ids to  *)
(* come.  Role 12 was renamed to "" before.                                  *)
MCNamed == [i \in Users \cup Roles |->
              CASE i = 1 -> ann [] i = 2 -> bob [] i = 11 -> clerk
                [] i = 12 -> Empty [] OTHER -> None]

Kinds ==
  << Create(eve, {11}), Edit(1, eve, None), Edit(2, ann, None), Edit(1, None, None),
     Edit(1, None, "active"), Deactivate(1), Assign(1, {}), Assign(1, {11}),
     Assign(1, {12}), NewRole(boss), Rename(11, boss), Rename(11, Empty),
     Rename(12, boss), DropRole(11) >>

MCJobs == { Kinds[k] : k \in DOMAIN Kinds }

Rank == [j \in MCJobs |-> CHOOSE k \in DOMAIN Kinds : Kinds[k] = j]

(* Requests differ in nothing but their jobs: each choice of jobs is looked *)
(* at once, with the requests in the order of their jobs.                   *)
InOrder ==
  \A t, o \in Requests :
    t < o /\ NoJob \notin {job[t], job[o]} => Rank[job[t]] <= Rank[job[o]]
=============================================================================
