----------------------------- MODULE AuthTokens -----------------------------
(***************************************************************************)
(* The tokens of one user: login and refresh sign a pair of an access and  *)
(* a refresh token, Redis keeps a record of each refresh token that may    *)
(* still be used and of each access token that may not, and the guard      *)
(* stands before every other request.                                      *)
(*                                                                         *)
(* A pair is named after the request that signs it.  Every await is a step *)
(* of its own.  Time passes in ticks of a second; a token is good while    *)
(* the time is before its expiry, and Redis drops a record when its time   *)
(* to live is over.  The two tokens of a pair are signed alike and the     *)
(* guard does not look at the kind, so either may be presented to it.      *)
(* An access token in the place of a refresh token is left out: no record  *)
(* has its id, so refresh refuses it and a logout's DEL finds nothing.     *)
(***************************************************************************)
EXTENDS Integers

CONSTANTS
  Requests,    \* requests of the user's clients
  First,       \* the pair the user has at first
  NoPair,      \* no token was presented
  AccessTTL,   \* life of an access token, in ticks
  RefreshTTL,  \* life of a refresh token and of its record
  MaxTime,     \* bound: the last tick
  MaxFlips,    \* bound: changes of the user's status
  MaxFaults    \* bound: requests that throw or whose process dies

Pairs  == Requests \cup {First}
Kinds  == { "access", "refresh" }
Tokens == Pairs \X Kinds

ASSUME PairsAssumption == First \notin Requests /\ NoPair \notin Pairs \cup Tokens
ASSUME TTLAssumption ==
  AccessTTL \in Nat \ {0} /\ RefreshTTL \in Nat \ {0} /\ MaxTime \in Nat
ASSUME AuthBoundsAssumption == MaxFlips \in Nat /\ MaxFaults \in Nat

VARIABLES
  now,      \* the time
  active,   \* users.status is active
  signedAt, \* when each pair was signed, -1 if it was not
  stored,   \* until when Redis has the record of each refresh token, or 0
  banned,   \* until when Redis has each token on the blacklist, or 0
  op,       \* what each request asks for
  bearer,   \* the token it shows the guard
  token,    \* the pair whose refresh token it carries
  at,       \* the await it is about to make, or how it ended
  found,    \* the status read by a login or a refresh was active
  left,     \* the time to live a logout has computed
  line,     \* the pair of the login that each pair goes back to
  trusted,  \* last time the user, or a request that saw them so, was active
  met,      \* lines in which two refreshes held one token at the same time
  flips,    \* changes of status so far
  faults    \* requests that threw or died so far

clock   == << now, trusted >>
user    == << active, flips >>
redis   == << stored, banned >>
asked   == << op, bearer, token >>
history == << signedAt, line, met >>
vars == << clock, user, redis, asked, history, at, found, left, faults >>

----------------------------------------------------------------------------

Ended == { "admitted", "done", "refused", "failed" }

(* A refresh that found its token stored and may still sign a pair.         *)
Issuing == { "user", "grants", "revoke", "sign", "store" }

Awaiting == Issuing \cup { "verify", "blacklist", "get", "measure", "ban", "drop" }

Goto(p, where) == at' = [at EXCEPT ![p] = where]

(* A client has the tokens of the pairs it was answered with.               *)
Known == { q \in Pairs : signedAt[q] >= 0 /\ (q # First => at[q] = "done") }

Stored(q) == stored[q] > 0
Banned(t) == banned[t] > 0

(* exp of a token, and jwt.verify.                                          *)
Life(kind) == IF kind = "access" THEN AccessTTL ELSE RefreshTTL
Expiry(t)  == signedAt[t[1]] + Life(t[2])
Good(t)    == now < Expiry(t)
RefreshGood(q) == Good(<< q, "refresh" >>)

----------------------------------------------------------------------------

Init ==
  /\ now = 0 /\ trusted = 0
  /\ active = TRUE /\ flips = 0
  /\ signedAt = [q \in Pairs |-> IF q = First THEN 0 ELSE -1]
  /\ line     = [q \in Pairs |-> q]
  /\ stored   = [q \in Pairs |-> IF q = First THEN RefreshTTL ELSE 0]
  /\ banned   = [t \in Tokens |-> 0]
  /\ met      = {}
  /\ op       = [p \in Requests |-> "none"]
  /\ bearer   = [p \in Requests |-> NoPair]
  /\ token    = [p \in Requests |-> NoPair]
  /\ at       = [p \in Requests |-> "idle"]
  /\ found    = [p \in Requests |-> FALSE]
  /\ left     = [p \in Requests |-> 0]
  /\ faults   = 0

(* A request comes in: what it asks for, and the tokens it carries.         *)
Ask(p, o, b, t, where) ==
  /\ at[p] = "idle"
  /\ op'     = [op EXCEPT ![p] = o]
  /\ bearer' = [bearer EXCEPT ![p] = b]
  /\ token'  = [token EXCEPT ![p] = t]
  /\ Goto(p, where)
  /\ UNCHANGED << clock, user, redis, history, found, left, faults >>

Login(p)   == Ask(p, "login", NoPair, NoPair, "user")
Refresh(p) == \E t \in Known : Ask(p, "refresh", NoPair, t, "verify")
Logout(p)  == \E b \in Known \X Kinds, t \in Known \cup {NoPair} :
                Ask(p, "logout", b, t, "verify")
Other(p)   == \E b \in Known \X Kinds : Ask(p, "other", b, NoPair, "verify")

(* The guard and refresh first verify the token presented, of either kind.  *)
Verify(p) ==
  /\ at[p] = "verify"
  /\ Goto(p, IF op[p] = "refresh"
               THEN IF RefreshGood(token[p]) THEN "get" ELSE "refused"
               ELSE IF Good(bearer[p]) THEN "blacklist" ELSE "refused")
  /\ UNCHANGED << clock, user, redis, asked, history, found, left, faults >>

(* JwtAuthGuard: a token that is not on the blacklist lets the request      *)
(* through to its handler.                                                  *)
Blacklist(p) ==
  /\ at[p] = "blacklist"
  /\ Goto(p, IF Banned(bearer[p]) THEN "refused"
             ELSE IF op[p] = "logout" THEN "measure" ELSE "admitted")
  /\ UNCHANGED << clock, user, redis, asked, history, found, left, faults >>

(* Another refresh has found the token on record and not deleted it yet.    *)
Meets(p) ==
  \E q \in Requests \ {p} : /\ op[q] = "refresh" /\ token[q] = token[p]
                            /\ at[q] \in {"user", "grants", "revoke"}

(* Mutant: the answer of GET is not looked at.                              *)
GetUnchecked(p) ==
  /\ at[p] = "get"
  /\ met' = IF Stored(token[p]) /\ Meets(p) THEN met \cup {line[token[p]]} ELSE met
  /\ Goto(p, "user")
  /\ UNCHANGED << clock, user, redis, asked, signedAt, line, found, left, faults >>

(* refresh: a token without a record was revoked.                           *)
Get(p) ==
  /\ at[p] = "get"
  /\ met' = IF Stored(token[p]) /\ Meets(p) THEN met \cup {line[token[p]]} ELSE met
  /\ Goto(p, IF Stored(token[p]) THEN "user" ELSE "refused")
  /\ UNCHANGED << clock, user, redis, asked, signedAt, line, found, left, faults >>

(* Mutant: the old token is revoked as soon as it is known to be stored.    *)
ReadUserAfterRevoking(p) ==
  /\ at[p] = "user"
  /\ stored' = IF op[p] = "refresh" THEN [stored EXCEPT ![token[p]] = 0]
                                    ELSE stored
  /\ found' = [found EXCEPT ![p] = active]
  /\ Goto(p, IF active THEN "grants" ELSE "refused")
  /\ UNCHANGED << clock, user, banned, asked, history, left, faults >>

(* Mutant: refresh takes the user for active, having a token of theirs.     *)
ReadUserUnchecked(p) ==
  /\ at[p] = "user"
  /\ found' = [found EXCEPT ![p] = active]
  /\ Goto(p, IF active \/ op[p] = "refresh" THEN "grants" ELSE "refused")
  /\ UNCHANGED << clock, user, redis, asked, history, left, faults >>

(* Both read the user, login compares the password; only an active user     *)
(* goes on.  A wrong password is refused like an inactive user.             *)
ReadUser(p) ==
  /\ at[p] = "user"
  /\ found' = [found EXCEPT ![p] = active]
  /\ \/ Goto(p, IF active THEN "grants" ELSE "refused")
     \/ op[p] = "login" /\ Goto(p, "refused")
  /\ UNCHANGED << clock, user, redis, asked, history, left, faults >>

(* Mutant: the old token is revoked last, when the new one is stored.       *)
ReadGrantsThenSign(p) ==
  /\ at[p] = "grants"
  /\ Goto(p, "sign")
  /\ UNCHANGED << clock, user, redis, asked, history, found, left, faults >>

(* The role and the account application, one query each.                    *)
ReadGrants(p) ==
  /\ at[p] = "grants"
  /\ Goto(p, IF op[p] = "refresh" THEN "revoke" ELSE "sign")
  /\ UNCHANGED << clock, user, redis, asked, history, found, left, faults >>

(* refresh: DEL of the old record, whether or not it is still there.        *)
Revoke(p) ==
  /\ at[p] = "revoke"
  /\ stored' = [stored EXCEPT ![token[p]] = 0]
  /\ Goto(p, "sign")
  /\ UNCHANGED << clock, user, banned, asked, history, found, left, faults >>

(* signTokenPair, once the keys are there.                                  *)
Sign(p) ==
  /\ at[p] = "sign"
  /\ signedAt' = [signedAt EXCEPT ![p] = now]
  /\ line' = [line EXCEPT ![p] = IF op[p] = "refresh" THEN line[token[p]] ELSE p]
  /\ Goto(p, "store")
  /\ UNCHANGED << clock, user, redis, asked, met, found, left, faults >>

(* SETEX of the new record, and the answer.                                 *)
Store(p) ==
  /\ at[p] = "store"
  /\ stored' = [stored EXCEPT ![p] = now + RefreshTTL]
  /\ Goto(p, "done")
  /\ UNCHANGED << clock, user, banned, asked, history, found, left, faults >>

(* Mutant: a second is taken off for the time the call takes.               *)
MeasureShort(p) ==
  /\ at[p] = "measure"
  /\ LET remaining == Expiry(bearer[p]) - now - 1
     IN IF remaining > 0
          THEN left' = [left EXCEPT ![p] = remaining] /\ Goto(p, "ban")
          ELSE UNCHANGED left /\ Goto(p, "drop")
  /\ UNCHANGED << clock, user, redis, asked, history, found, faults >>

(* logout: how long the token it came with has to live.                     *)
Measure(p) ==
  /\ at[p] = "measure"
  /\ LET remaining == Expiry(bearer[p]) - now
     IN IF remaining > 0
          THEN left' = [left EXCEPT ![p] = remaining] /\ Goto(p, "ban")
          ELSE UNCHANGED left /\ Goto(p, "drop")
  /\ UNCHANGED << clock, user, redis, asked, history, found, faults >>

(* logout: SETEX on the blacklist, counted from when Redis does it.         *)
Ban(p) ==
  /\ at[p] = "ban"
  /\ banned' = [banned EXCEPT ![bearer[p]] = now + left[p]]
  /\ left' = [left EXCEPT ![p] = 0]
  /\ Goto(p, "drop")
  /\ UNCHANGED << clock, user, stored, asked, history, found, faults >>

(* logout: the refresh token's record, if one was given that still          *)
(* verifies.  What DEL throws is swallowed.                                 *)
Drop(p) ==
  /\ at[p] = "drop"
  /\ \/ /\ stored' = IF token[p] # NoPair /\ RefreshGood(token[p])
                       THEN [stored EXCEPT ![token[p]] = 0] ELSE stored
        /\ UNCHANGED faults
     \/ /\ token[p] # NoPair /\ faults < MaxFaults
        /\ faults' = faults + 1
        /\ UNCHANGED stored
  /\ Goto(p, "done")
  /\ UNCHANGED << clock, user, banned, asked, history, found, left >>

(* A call throws or the process dies.  The client gets no answer, although  *)
(* the new record may be in Redis.                                          *)
Fail(p) ==
  /\ at[p] \in Awaiting /\ faults < MaxFaults
  /\ faults' = faults + 1
  /\ \/ UNCHANGED stored
     \/ at[p] = "store" /\ stored' = [stored EXCEPT ![p] = now + RefreshTTL]
  /\ Goto(p, "failed")
  /\ UNCHANGED << clock, user, banned, asked, history, found, left >>

(* An administrator changes the user's status.                              *)
SetStatus ==
  /\ flips < MaxFlips
  /\ flips' = flips + 1
  /\ active' = ~active
  /\ trusted' = now
  /\ UNCHANGED << now, redis, asked, history, at, found, left, faults >>

(* The user is active, or a login or a refresh under way has read them so.  *)
(* It is only there for the history in trusted.                             *)
Trusting == active \/ \E p \in Requests : found[p] /\ at[p] \in Issuing

(* What Redis keeps of its records when the next second begins.             *)
Kept(records) ==
  [k \in DOMAIN records |-> IF records[k] > now + 1 THEN records[k] ELSE 0]

Tick ==
  /\ now < MaxTime
  /\ now' = now + 1
  /\ trusted' = IF Trusting THEN now + 1 ELSE trusted
  /\ stored' = Kept(stored) /\ banned' = Kept(banned)
  /\ UNCHANGED << user, asked, history, at, found, left, faults >>

Step(p) ==
  \/ Login(p) \/ Refresh(p) \/ Logout(p) \/ Other(p)
  \/ Verify(p) \/ Blacklist(p) \/ Get(p) \/ ReadUser(p) \/ ReadGrants(p)
  \/ Revoke(p) \/ Sign(p) \/ Store(p)
  \/ Measure(p) \/ Ban(p) \/ Drop(p) \/ Fail(p)

Next == (\E p \in Requests : Step(p)) \/ SetStatus \/ Tick

Spec == Init /\ [][Next]_vars

----------------------------------------------------------------------------

TypeOK ==
  /\ now \in Nat /\ trusted \in Nat
  /\ active \in BOOLEAN /\ flips \in 0..MaxFlips
  /\ signedAt \in [Pairs -> Int] /\ line \in [Pairs -> Pairs]
  /\ met \subseteq Pairs
  /\ stored \in [Pairs -> Nat] /\ banned \in [Tokens -> Nat]
  /\ op \in [Requests -> {"none", "login", "refresh", "logout", "other"}]
  /\ bearer \in [Requests -> Tokens \cup {NoPair}]
  /\ token \in [Requests -> Pairs \cup {NoPair}]
  /\ at \in [Requests -> Awaiting \cup Ended \cup {"idle"}]
  /\ found \in [Requests -> BOOLEAN] /\ left \in [Requests -> Nat]
  /\ faults \in 0..MaxFaults

(* A logout is past the blacklisting of the token it came with.             *)
LoggedOut(t) ==
  \E p \in Requests : op[p] = "logout" /\ bearer[p] = t /\ at[p] \in {"drop", "done"}

(* A token a logout came with passes the guard afterwards only when the     *)
(* lookup of the blacklist comes after the token has expired: the entry,    *)
(* whose time to live is computed before Redis sets it, never ends before   *)
(* the token (auth.service.ts:151, jwt-auth.guard.ts:42).  It says nothing  *)
(* of the pair's other token, which a logout puts on no blacklist.          *)
LoggedOutStaysOut ==
  [][\A p \in Requests :
       at[p] = "blacklist" /\ at'[p] # "blacklist" /\ LoggedOut(bearer[p])
         => at'[p] \in {"refused", "failed"} \/ ~Good(bearer[p])]_vars

(* When a refresh has signed a pair, the token it was given has no record   *)
(* left, whoever else is using that token and wherever the refresh dies     *)
(* (auth.service.ts:124): a token and its successor can never both be used  *)
(* for a refresh.                                                           *)
RotationRevokes ==
  \A p \in Requests :
    op[p] = "refresh" /\ signedAt[p] >= 0 => ~Stored(token[p])

(* The pairs of a line that can be used for a refresh, or are going to be:  *)
(* those on record, and those of refreshes past their GET whose old token   *)
(* is not on record any more, whether they or a logout have deleted it.     *)
Heirs(l) ==
  { q \in Pairs : line[q] = l /\ Stored(q) } \cup
  { p \in Requests : /\ op[p] = "refresh" /\ at[p] \in Issuing
                     /\ line[token[p]] = l /\ ~Stored(token[p]) }

(* A login gives its user one chain of pairs: of a line in which no two     *)
(* refreshes ever held the same token at once (auth.service.ts:89, 125) at  *)
(* most one pair can be used, or is going to be, through every order of     *)
(* refreshes, logouts, expiries and failures.  So a logout that deletes the *)
(* one on record ends such a line, unless a refresh is past its GET: that   *)
(* one stores its new pair after the logout, and the line goes on in it.    *)
OneHeir == \A l \in Pairs \ met : \A x, y \in Heirs(l) : x = y

(* A line has a pair on record, or a request under way may still store one; *)
(* a refresh past its GET may, whatever has become of its token since.      *)
Alive(l) ==
  \/ \E q \in Pairs : line[q] = l /\ Stored(q)
  \/ \E p \in Requests : at[p] \in Issuing /\ op[p] = "refresh"
                         /\ line[token[p]] = l
  \/ \E p \in Requests : at[p] \in Issuing /\ op[p] = "login" /\ p = l

(* A line ends only by a logout, by the clock, by a failure in the middle   *)
(* of a refresh (which has by then given up the old token and not stored    *)
(* the new one, auth.service.ts:125-137), by a refused login, or by a       *)
(* refusal of the last refresh when its token's record is gone already;     *)
(* never because a refresh with a token on record was refused, and never    *)
(* because two of them met.                                                 *)
LinesEndForCause ==
  [][\A l \in Pairs : Alive(l) /\ ~Alive(l)' =>
       \/ now' > now
       \/ faults' > faults
       \/ \E p \in Requests : op[p] = "logout" /\ at[p] = "drop" /\ at'[p] = "done"
       \/ l \in Requests /\ op[l] = "login" /\ at'[l] = "refused"
       \/ \E p \in Requests : /\ op[p] = "refresh" /\ at[p] = "user"
                              /\ ~Stored(token[p])]_vars

(* Deactivating a user blacklists nothing, and the guard reads no user: it  *)
(* goes on verifying what they have.  Once the user is inactive, and the    *)
(* requests that still read them active have ended, that lasts for the life *)
(* of the token shown, 15 minutes for an access token and seven days for a  *)
(* refresh token in its place (jwt.ts:6, 36, jwt-auth.guard.ts:40); nothing *)
(* renews either (auth.service.ts:33, 103).                                 *)
DeactivatedOutInTime ==
  [][\A p \in Requests :
       at[p] = "verify" /\ at'[p] = "blacklist"
         => now < trusted + Life(bearer[p][2])]_vars
=============================================================================
