------------------------- MODULE AuthTokens_proofs --------------------------
(***************************************************************************)
(* Theorems about AuthTokens, for any set of requests, any lives of the    *)
(* two tokens, and any number of ticks, changes of status and faults.      *)
(***************************************************************************)
EXTENDS AuthTokens, TLAPS

(* Where a request can be, given what it asks for.                          *)
Places ==
  \A p \in Requests :
    /\ at[p] = "idle" => signedAt[p] = -1
    /\ at[p] = "verify" => op[p] \in {"refresh", "logout", "other"}
    /\ at[p] \in {"get", "revoke"} => op[p] = "refresh"
    /\ at[p] \in {"user", "grants", "sign", "store"} => op[p] \in {"login", "refresh"}
    /\ at[p] = "blacklist" => op[p] \in {"logout", "other"}
    /\ at[p] \in {"measure", "ban", "drop"} => op[p] = "logout"
    /\ op[p] = "refresh" => token[p] \in Pairs
    /\ op[p] \in {"logout", "other"} => bearer[p] \in Tokens

LEMMA ExpiryType ==
  ASSUME TypeOK, NEW t \in Tokens
  PROVE  Expiry(t) \in Int /\ t[1] \in Pairs
<1>1. t[1] \in Pairs
  BY DEF Tokens
<1>2. Life(t[2]) \in Nat
  BY TTLAssumption DEF Life
<1> QED
  BY <1>1, <1>2 DEF TypeOK, Expiry

LEMMA TypeStep == TypeOK /\ Places /\ [Next]_vars => TypeOK' /\ Places'
<1> SUFFICES ASSUME TypeOK, Places, [Next]_vars PROVE TypeOK' /\ Places'
  OBVIOUS
<1> USE PairsAssumption, TTLAssumption, AuthBoundsAssumption DEF Pairs
<1> DEFINE Everywhere == Awaiting \cup Ended \cup {"idle"}
<1>1. ASSUME NEW p \in Requests, NEW where \in Everywhere, Goto(p, where)
      PROVE  at' \in [Requests -> Everywhere]
  BY <1>1 DEF TypeOK, Goto
<1>2. ASSUME NEW p \in Requests,
             NEW o \in {"login", "refresh", "logout", "other"},
             NEW b \in Tokens \cup {NoPair}, NEW t \in Pairs \cup {NoPair},
             NEW where \in {"user", "verify"},
             where = "user" <=> o = "login",
             o = "refresh" => t \in Pairs,
             o \in {"logout", "other"} => b \in Tokens,
             Ask(p, o, b, t, where)
      PROVE  TypeOK' /\ Places'
  <2>1. at' \in [Requests -> Everywhere]
    BY <1>1, <1>2 DEF Ask, Awaiting, Issuing
  <2>2. TypeOK'
    BY <1>2, <2>1 DEF TypeOK, Ask, clock, user, redis, history
  <2>3. Places'
    BY <1>2 DEF TypeOK, Places, Ask, Goto, history
  <2> QED
    BY <2>2, <2>3
<1>3. ASSUME NEW p \in Requests, Login(p) \/ Refresh(p) \/ Logout(p) \/ Other(p)
      PROVE  TypeOK' /\ Places'
  <2>1. Known \X Kinds \subseteq Tokens /\ Known \subseteq Pairs
    BY DEF Known, Tokens
  <2> QED
    BY <1>2, <1>3, <2>1 DEF Login, Refresh, Logout, Other
<1>4. ASSUME NEW p \in Requests, Verify(p) PROVE TypeOK' /\ Places'
  <2>1. at' \in [Requests -> Everywhere]
    BY <1>1, <1>4 DEF Verify, Awaiting, Issuing, Ended
  <2>2. TypeOK'
    BY <1>4, <2>1 DEF TypeOK, Verify, clock, user, redis, asked, history
  <2>3. Places'
    BY <1>4 DEF TypeOK, Places, Verify, Goto, asked, history
  <2> QED
    BY <2>2, <2>3
<1>5. ASSUME NEW p \in Requests, Blacklist(p) PROVE TypeOK' /\ Places'
  <2>1. at' \in [Requests -> Everywhere]
    BY <1>1, <1>5 DEF Blacklist, Awaiting, Issuing, Ended
  <2>2. TypeOK'
    BY <1>5, <2>1 DEF TypeOK, Blacklist, clock, user, redis, asked, history
  <2>3. Places'
    BY <1>5 DEF TypeOK, Places, Blacklist, Goto, asked, history
  <2> QED
    BY <2>2, <2>3
<1>6. ASSUME NEW p \in Requests, Get(p) PROVE TypeOK' /\ Places'
  <2>1. at' \in [Requests -> Everywhere]
    BY <1>1, <1>6 DEF Get, Awaiting, Issuing, Ended
  <2>2. met' \subseteq Pairs
    <3>1. Stored(token[p]) /\ Meets(p) => line[token[p]] \in Pairs
      BY <1>6 DEF TypeOK, Places, Get
    <3> QED
      BY <1>6, <3>1 DEF TypeOK, Get
  <2>3. TypeOK'
    BY <1>6, <2>1, <2>2 DEF TypeOK, Get, clock, user, redis, asked
  <2>4. Places'
    BY <1>6 DEF TypeOK, Places, Get, Goto, asked
  <2> QED
    BY <2>3, <2>4
<1>7. ASSUME NEW p \in Requests, ReadUser(p) PROVE TypeOK' /\ Places'
  <2>1. at' \in [Requests -> Everywhere]
    BY <1>1, <1>7 DEF ReadUser, Awaiting, Issuing, Ended
  <2>2. TypeOK'
    BY <1>7, <2>1 DEF TypeOK, ReadUser, clock, user, redis, asked, history
  <2>3. Places'
    BY <1>7 DEF TypeOK, Places, ReadUser, Goto, asked, history
  <2> QED
    BY <2>2, <2>3
<1>8. ASSUME NEW p \in Requests, ReadGrants(p) PROVE TypeOK' /\ Places'
  <2>1. at' \in [Requests -> Everywhere]
    BY <1>1, <1>8 DEF ReadGrants, Awaiting, Issuing, Ended
  <2>2. TypeOK'
    BY <1>8, <2>1 DEF TypeOK, ReadGrants, clock, user, redis, asked, history
  <2>3. Places'
    BY <1>8 DEF TypeOK, Places, ReadGrants, Goto, asked, history
  <2> QED
    BY <2>2, <2>3
<1>9. ASSUME NEW p \in Requests, Revoke(p) PROVE TypeOK' /\ Places'
  <2>1. at' \in [Requests -> Everywhere]
    BY <1>1, <1>9 DEF Revoke, Awaiting, Issuing, Ended
  <2>2. TypeOK'
    BY <1>9, <2>1 DEF TypeOK, Revoke, clock, user, asked, history
  <2>3. Places'
    BY <1>9 DEF TypeOK, Places, Revoke, Goto, asked, history
  <2> QED
    BY <2>2, <2>3
<1>10. ASSUME NEW p \in Requests, Sign(p) PROVE TypeOK' /\ Places'
  <2>1. at' \in [Requests -> Everywhere]
    BY <1>1, <1>10 DEF Sign, Awaiting, Issuing, Ended
  <2>2. (IF op[p] = "refresh" THEN line[token[p]] ELSE p) \in Pairs
    BY DEF TypeOK, Places
  <2>3. TypeOK'
    BY <1>10, <2>1, <2>2 DEF TypeOK, Sign, clock, user, redis, asked
  <2>4. Places'
    BY <1>10 DEF TypeOK, Places, Sign, Goto, asked
  <2> QED
    BY <2>3, <2>4
<1>11. ASSUME NEW p \in Requests, Store(p) PROVE TypeOK' /\ Places'
  <2>1. at' \in [Requests -> Everywhere]
    BY <1>1, <1>11 DEF Store, Awaiting, Issuing, Ended
  <2>2. TypeOK'
    BY <1>11, <2>1 DEF TypeOK, Store, clock, user, asked, history
  <2>3. Places'
    BY <1>11 DEF TypeOK, Places, Store, Goto, asked, history
  <2> QED
    BY <2>2, <2>3
<1>12. ASSUME NEW p \in Requests, Measure(p) PROVE TypeOK' /\ Places'
  <2>1. at' \in [Requests -> Everywhere]
    BY <1>1, <1>12 DEF Measure, Awaiting, Issuing, Ended
  <2>2. Expiry(bearer[p]) - now \in Int
    <3>1. bearer[p] \in Tokens
      BY <1>12 DEF Places, Measure
    <3> QED
      BY <3>1, ExpiryType DEF TypeOK
  <2>3. left' \in [Requests -> Nat]
    <3> DEFINE remaining == Expiry(bearer[p]) - now
    <3>1. left' = left \/ (remaining > 0 /\ left' = [left EXCEPT ![p] = remaining])
      BY <1>12 DEF Measure
    <3>2. remaining > 0 => remaining \in Nat
      BY <2>2
    <3> HIDE DEF remaining
    <3> QED
      BY <3>1, <3>2 DEF TypeOK
  <2>4. TypeOK'
    BY <1>12, <2>1, <2>3 DEF TypeOK, Measure, clock, user, redis, asked, history
  <2>5. Places'
    BY <1>12 DEF TypeOK, Places, Measure, Goto, asked, history
  <2> QED
    BY <2>4, <2>5
<1>13. ASSUME NEW p \in Requests, Ban(p) PROVE TypeOK' /\ Places'
  <2>1. at' \in [Requests -> Everywhere]
    BY <1>1, <1>13 DEF Ban, Awaiting, Issuing, Ended
  <2>2. banned' \in [Tokens -> Nat] /\ left' \in [Requests -> Nat]
    <3>1. now + left[p] \in Nat
      BY DEF TypeOK
    <3>2. banned' = [banned EXCEPT ![bearer[p]] = now + left[p]]
      BY <1>13 DEF Ban
    <3>3. left' = [left EXCEPT ![p] = 0]
      BY <1>13 DEF Ban
    <3>4. banned' \in [Tokens -> Nat]
      BY <3>1, <3>2 DEF TypeOK
    <3> QED
      BY <3>3, <3>4 DEF TypeOK
  <2>3. TypeOK'
    BY <1>13, <2>1, <2>2 DEF TypeOK, Ban, clock, user, asked, history
  <2>4. Places'
    BY <1>13 DEF TypeOK, Places, Ban, Goto, asked, history
  <2> QED
    BY <2>3, <2>4
<1>14. ASSUME NEW p \in Requests, Drop(p) PROVE TypeOK' /\ Places'
  <2>1. at' \in [Requests -> Everywhere]
    BY <1>1, <1>14 DEF Drop, Awaiting, Issuing, Ended
  <2>2. TypeOK'
    BY <1>14, <2>1 DEF TypeOK, Drop, clock, user, asked, history
  <2>3. Places'
    BY <1>14 DEF TypeOK, Places, Drop, Goto, asked, history
  <2> QED
    BY <2>2, <2>3
<1>15. ASSUME NEW p \in Requests, Fail(p) PROVE TypeOK' /\ Places'
  <2>1. at' \in [Requests -> Everywhere]
    BY <1>1, <1>15 DEF Fail, Awaiting, Issuing, Ended
  <2>2. TypeOK'
    BY <1>15, <2>1 DEF TypeOK, Fail, clock, user, asked, history
  <2>3. Places'
    BY <1>15 DEF TypeOK, Places, Fail, Goto, asked, history
  <2> QED
    BY <2>2, <2>3
<1>16. CASE SetStatus
  BY <1>16 DEF TypeOK, Places, SetStatus, redis, asked, history
<1>17. CASE Tick
  BY <1>17 DEF TypeOK, Places, Tick, Kept, user, asked, history
<1>18. CASE UNCHANGED vars
  BY <1>18 DEF TypeOK, Places, vars, clock, user, redis, asked, history
<1> QED
  BY <1>3, <1>4, <1>5, <1>6, <1>7, <1>8, <1>9, <1>10, <1>11, <1>12, <1>13, <1>14,
     <1>15, <1>16, <1>17, <1>18 DEF Next, Step

(* Every variable keeps its type, and every request is where what it asks   *)
(* for can bring it.                                                        *)
THEOREM TypeCorrect == Spec => [](TypeOK /\ Places)
<1>1. Init => TypeOK /\ Places
  BY PairsAssumption, TTLAssumption, AuthBoundsAssumption DEF Init, TypeOK, Places, Pairs
<1> QED
  BY <1>1, TypeStep, PTL DEF Spec

----------------------------------------------------------------------------

(* The pairs clients know stay known, and stay signed when they were.       *)
LEMMA KnownStays ==
  TypeOK /\ Places /\ [Next]_vars
    => \A q \in Known : q \in Known' /\ signedAt'[q] = signedAt[q]
<1> SUFFICES ASSUME TypeOK, Places, [Next]_vars, NEW q \in Pairs,
                    signedAt[q] >= 0, q # First => at[q] = "done"
             PROVE  /\ signedAt'[q] = signedAt[q]
                    /\ q # First => at'[q] = "done"
  BY DEF Known
<1> USE PairsAssumption DEF Pairs
<1>1. ASSUME NEW p \in Requests, Step(p)
      PROVE  /\ signedAt'[q] = signedAt[q]
             /\ q # First => at'[q] = "done"
  <2>1. at[p] # "done" /\ \E where : Goto(p, where)
    BY <1>1 DEF Step, Login, Refresh, Logout, Other, Ask, Verify, Blacklist, Get,
                ReadUser, ReadGrants, Revoke, Sign, Store, Measure, Ban, Drop, Fail,
                Awaiting, Issuing
  <2>2. q # First => at'[q] = "done"
    BY <2>1 DEF TypeOK, Goto
  <2>3. signedAt' = signedAt \/ Sign(p)
    BY <1>1 DEF Step, Login, Refresh, Logout, Other, Ask, Verify, Blacklist, Get,
                ReadUser, ReadGrants, Revoke, Store, Measure, Ban, Drop, Fail, history
  <2>4. q # p
    BY <2>1
  <2> QED
    BY <2>2, <2>3, <2>4 DEF TypeOK, Sign
<1>2. CASE SetStatus
  BY <1>2 DEF SetStatus, history
<1>3. CASE Tick
  BY <1>3 DEF Tick, history
<1>4. CASE UNCHANGED vars
  BY <1>4 DEF vars, history
<1> QED
  BY <1>1, <1>2, <1>3, <1>4 DEF Next

(* A token of a pair clients know stays one, and expires when it did.       *)
LEMMA KnownTokens ==
  ASSUME TypeOK, Places, [Next]_vars, NEW t \in Known \X Kinds
  PROVE  /\ t \in Tokens /\ t \in Known' \X Kinds
         /\ Expiry(t) \in Int /\ Expiry(t)' = Expiry(t)
<1>1. t \in Tokens
  BY DEF Tokens, Known
<1>2. t[1] \in Known /\ t = << t[1], t[2] >> /\ t[2] \in Kinds
  OBVIOUS
<1>3. t[1] \in Known' /\ signedAt'[t[1]] = signedAt[t[1]]
  BY <1>2, KnownStays
<1>4. Expiry(t)' = Expiry(t)
  BY <1>3 DEF Expiry
<1> QED
  BY <1>1, <1>2, <1>3, <1>4, ExpiryType

(* The tokens a request carries are of pairs some client was answered with. *)
Presented ==
  \A p \in Requests :
    /\ op[p] = "refresh" => token[p] \in Known
    /\ op[p] \in {"logout", "other"} => bearer[p] \in Known \X Kinds

LEMMA PresentedStep ==
  TypeOK /\ Places /\ Presented /\ [Next]_vars => Presented'
<1> SUFFICES ASSUME TypeOK, Places, Presented, [Next]_vars, NEW p \in Requests
             PROVE  /\ op'[p] = "refresh" => token'[p] \in Known'
                    /\ op'[p] \in {"logout", "other"} => bearer'[p] \in Known' \X Kinds
  BY DEF Presented
<1>1. \/ op'[p] = op[p] /\ token'[p] = token[p] /\ bearer'[p] = bearer[p]
      \/ Login(p) \/ Refresh(p) \/ Logout(p) \/ Other(p)
  BY DEF TypeOK, Next, Step, Login, Refresh, Logout, Other, Ask, Verify, Blacklist, Get,
         ReadUser, ReadGrants, Revoke, Sign, Store, Measure, Ban, Drop, Fail,
         SetStatus, Tick, vars, asked
<1>2. \A q \in Known : q \in Known'
  BY KnownStays
<1>3. CASE op'[p] = op[p] /\ token'[p] = token[p] /\ bearer'[p] = bearer[p]
  <2>1. Known \X Kinds \subseteq Known' \X Kinds
    BY <1>2
  <2> QED
    BY <1>2, <1>3, <2>1 DEF Presented
<1>4. CASE Login(p) \/ Refresh(p) \/ Logout(p) \/ Other(p)
  BY <1>2, <1>4 DEF TypeOK, Login, Refresh, Logout, Other, Ask
<1> QED
  BY <1>1, <1>3, <1>4

(* Types, places and presented tokens, for the theorems below.              *)
Basis == TypeOK /\ Places /\ Presented

LEMMA AlwaysBasis == Spec => []Basis
<1>1. Init => Presented
  BY DEF Init, Presented
<1>2. Basis /\ [Next]_vars => Basis'
  BY TypeStep, PresentedStep DEF Basis
<1>3. Init => Basis
  BY <1>1, PairsAssumption, TTLAssumption, AuthBoundsAssumption
  DEF Basis, Init, TypeOK, Places, Pairs
<1> QED
  BY <1>2, <1>3, PTL DEF Spec

----------------------------------------------------------------------------

(* RotationRevokes says nothing of the moment between the DEL of the old    *)
(* record and the signing of the new pair.                                  *)
Rotating(p) == op[p] = "refresh" /\ (at[p] \in {"sign", "store"} \/ signedAt[p] >= 0)

Rotated == \A p \in Requests : Rotating(p) => ~Stored(token[p])

(* What stores a record is a request that was not answered yet, and no      *)
(* client has its token.                                                    *)
LEMMA RotatedStep == Basis /\ Rotated /\ [Next]_vars => Rotated'
<1> SUFFICES ASSUME Basis, Rotated, [Next]_vars, NEW p \in Requests, Rotating(p)'
             PROVE  ~(stored'[token'[p]] > 0)
  BY DEF Rotated, Stored
<1> USE PairsAssumption DEF Pairs
<1>1. at[p] # "idle" /\ op[p] = "refresh" /\ token'[p] = token[p]
  <2>1. op'[p] = "refresh" /\ (at'[p] \in {"sign", "store"} \/ signedAt'[p] >= 0)
    BY DEF Rotating
  <2>2. ~(Login(p) \/ Refresh(p) \/ Logout(p) \/ Other(p))
    BY <2>1 DEF Basis, TypeOK, Places, Login, Refresh, Logout, Other, Ask, Goto, history
  <2>3. op'[p] = op[p] /\ token'[p] = token[p]
    BY <2>2 DEF Basis, TypeOK, Next, Step, Login, Refresh, Logout, Other, Ask, Verify,
                Blacklist, Get, ReadUser, ReadGrants, Revoke, Sign, Store, Measure, Ban,
                Drop, Fail, SetStatus, Tick, vars, asked
  <2>4. at[p] = "idle" => at'[p] = "idle" /\ signedAt'[p] = signedAt[p]
    BY <2>2 DEF Basis, TypeOK, Next, Step, Login, Refresh, Logout, Other, Ask, Verify,
                Blacklist, Get, ReadUser, ReadGrants, Revoke, Sign, Store, Measure, Ban,
                Drop, Fail, SetStatus, Tick, vars, history, Goto, Awaiting, Issuing
  <2> QED
    BY <2>1, <2>3, <2>4 DEF Basis, Places
<1>2. token[p] \in Known
  BY <1>1 DEF Basis, Presented
<1>3. stored'[token[p]] > 0 => stored[token[p]] > 0
  <2>1. ASSUME NEW q \in Requests, Step(q) PROVE stored'[token[p]] > 0 => stored[token[p]] > 0
    <3>1. at[q] = "store" => q # token[p]
      BY <1>2 DEF Known
    <3>2. \/ stored' = stored
          \/ \E t \in Pairs : stored' = [stored EXCEPT ![t] = 0]
          \/ at[q] = "store" /\ stored' = [stored EXCEPT ![q] = now + RefreshTTL]
      <4>1. op[q] = "refresh" => token[q] \in Pairs
        BY DEF Basis, Places
      <4>2. at[q] = "revoke" => op[q] = "refresh"
        BY DEF Basis, Places
      <4>3. token[q] # NoPair => token[q] \in Pairs
        BY DEF Basis, TypeOK
      <4> QED
        BY <2>1, <4>1, <4>2, <4>3 DEF Step, Login, Refresh, Logout, Other, Ask, Verify,
           Blacklist, Get, ReadUser, ReadGrants, Revoke, Sign, Store, Measure, Ban,
           Drop, Fail, redis
    <3> QED
      BY <1>2, <3>1, <3>2 DEF Basis, TypeOK, Known
  <2>2. CASE SetStatus
    BY <2>2 DEF SetStatus, redis
  <2>3. CASE Tick
    BY <1>2, <2>3 DEF Basis, TypeOK, Tick, Kept, Known
  <2>4. CASE UNCHANGED vars
    BY <2>4 DEF vars, redis
  <2> QED
    BY <2>1, <2>2, <2>3, <2>4 DEF Next
<1>4. CASE Rotating(p)
  BY <1>1, <1>3, <1>4 DEF Rotated, Stored, Basis, TypeOK
<1>5. CASE ~Rotating(p)
  <2>1. at[p] \notin {"sign", "store"} /\ ~(signedAt[p] >= 0)
    BY <1>1, <1>5 DEF Rotating
  <2>2. at'[p] \in {"sign", "store"} \/ signedAt'[p] >= 0
    BY DEF Rotating
  <2>3. ASSUME NEW q \in Requests, Step(q) PROVE q = p /\ Revoke(p)
    <3>1. \E where : Goto(q, where)
      BY <2>3 DEF Step, Login, Refresh, Logout, Other, Ask, Verify, Blacklist, Get,
                  ReadUser, ReadGrants, Revoke, Sign, Store, Measure, Ban, Drop, Fail
    <3>2. signedAt' = signedAt \/ (at[q] = "sign" /\ signedAt' = [signedAt EXCEPT ![q] = now])
      BY <2>3 DEF Step, Login, Refresh, Logout, Other, Ask, Verify, Blacklist, Get,
                  ReadUser, ReadGrants, Revoke, Sign, Store, Measure, Ban, Drop, Fail,
                  history
    <3>3. signedAt'[p] = signedAt[p]
      BY <2>1, <3>2 DEF Basis, TypeOK
    <3>4. q = p
      BY <2>1, <2>2, <3>1, <3>3 DEF Basis, TypeOK, Goto
    <3>5. at'[p] \in {"sign", "store"}
      BY <2>1, <2>2, <3>3
    <3>6. Revoke(p) \/ Sign(p) \/ ReadGrants(p)
      BY <2>3, <3>4, <3>5 DEF Basis, TypeOK, Step, Login, Refresh, Logout, Other, Ask,
         Verify, Blacklist, Get, ReadUser, Store, Measure, Ban, Drop, Fail, Goto
    <3> QED
      BY <1>1, <2>1, <3>4, <3>5, <3>6 DEF Basis, TypeOK, Sign, ReadGrants, Goto
  <2>4. ~SetStatus /\ ~Tick /\ ~(UNCHANGED vars)
    BY <2>1, <2>2 DEF SetStatus, Tick, vars, history
  <2>5. Revoke(p)
    BY <2>3, <2>4 DEF Next
  <2> QED
    BY <1>1, <1>2, <2>5 DEF Revoke, Basis, TypeOK, Known
<1> QED
  BY <1>4, <1>5

(* auth.service.ts:124: a refresh token and the one it was traded for are   *)
(* never both on record, however many requests use the old one.             *)
THEOREM RotationAlwaysRevokes == Spec => []RotationRevokes
<1>1. Init => Rotated
  BY DEF Init, Rotated, Rotating
<1>2. Rotated => RotationRevokes
  BY DEF Rotated, Rotating, RotationRevokes
<1> QED
  BY <1>1, <1>2, AlwaysBasis, RotatedStep, PTL DEF Spec

----------------------------------------------------------------------------

(* What a logout owes the token it was given.  Redis may set the entry long *)
(* after its time to live was computed, and several logouts of one token    *)
(* overwrite each other's entry.                                            *)
Out(t) == banned[t] >= Expiry(t) \/ now >= Expiry(t)

Covers(p, t) ==
  op[p] = "logout" /\ bearer[p] = t =>
    /\ at[p] = "ban" => now + left[p] >= Expiry(t)
    /\ at[p] \in {"drop", "done"} => Out(t)

Covered == \A p \in Requests, t \in Known \X Kinds : Covers(p, t)

LEMMA StepFacts ==
  ASSUME Basis, NEW r \in Requests, Step(r)
  PROVE  /\ now' = now /\ \E where : Goto(r, where)
         /\ \A p \in Requests \ {r} : op'[p] = op[p] /\ bearer'[p] = bearer[p]
                                      /\ left'[p] = left[p] /\ at'[p] = at[p]
         /\ banned' = banned \/ Ban(r)
<1>1. now' = now /\ \E where : Goto(r, where)
  BY DEF Step, Login, Refresh, Logout, Other, Ask, Verify, Blacklist, Get, ReadUser,
         ReadGrants, Revoke, Sign, Store, Measure, Ban, Drop, Fail, clock
<1>2. \A p \in Requests \ {r} : at'[p] = at[p]
  BY <1>1 DEF Basis, TypeOK, Goto
<1>3. \A p \in Requests \ {r} : op'[p] = op[p] /\ bearer'[p] = bearer[p]
  BY DEF Basis, TypeOK, Step, Login, Refresh, Logout, Other, Ask, Verify, Blacklist,
         Get, ReadUser, ReadGrants, Revoke, Sign, Store, Measure, Ban, Drop, Fail, asked
<1>4. left' = left \/ \E n : left' = [left EXCEPT ![r] = n]
  BY DEF Step, Login, Refresh, Logout, Other, Ask, Verify, Blacklist, Get, ReadUser,
         ReadGrants, Revoke, Sign, Store, Measure, Ban, Drop, Fail
<1>5. \A p \in Requests \ {r} : left'[p] = left[p]
  BY <1>4 DEF Basis, TypeOK
<1>6. banned' = banned \/ Ban(r)
  BY DEF Step, Login, Refresh, Logout, Other, Ask, Verify, Blacklist, Get, ReadUser,
         ReadGrants, Revoke, Sign, Store, Measure, Drop, Fail, redis
<1> QED
  BY <1>1, <1>2, <1>3, <1>5, <1>6

(* A token that is out stays out: an entry is only ever replaced by another *)
(* logout's, and lapses only at the token's expiry.                         *)
LEMMA OutStays ==
  ASSUME Basis, Covered, [Next]_vars, NEW t \in Known \X Kinds, Out(t)
  PROVE  Out(t)'
<1>1. t \in Tokens /\ Expiry(t) \in Int /\ Expiry(t)' = Expiry(t)
  BY KnownTokens DEF Basis
<1>2. banned[t] \in Nat /\ now \in Nat
  BY <1>1 DEF Basis, TypeOK
<1>3. PICK e \in Int : e = Expiry(t) /\ e = Expiry(t)'
  BY <1>1
<1>4. banned[t] >= e \/ now >= e
  BY <1>3 DEF Out
<1>5. SUFFICES banned'[t] >= e \/ now' >= e
  BY <1>3 DEF Out
<1>6. ASSUME NEW r \in Requests, Step(r) PROVE banned'[t] >= e \/ now' >= e
  <2>1. CASE banned' = banned
    BY <1>4, <1>6, <2>1, StepFacts
  <2>2. CASE Ban(r)
    <3>1. bearer[r] = t => now + left[r] >= e
      BY <1>3, <2>2 DEF Basis, Places, Covered, Covers, Ban
    <3>2. banned'[t] = IF bearer[r] = t THEN now + left[r] ELSE banned[t]
      BY <1>1, <2>2 DEF Basis, TypeOK, Ban
    <3> QED
      BY <1>2, <1>4, <1>6, <3>1, <3>2, StepFacts
  <2> QED
    BY <1>6, <2>1, <2>2, StepFacts
<1>7. CASE SetStatus
  BY <1>4, <1>7 DEF SetStatus, redis
<1>8. CASE Tick
  <2>1. now' = now + 1
        /\ banned'[t] = IF banned[t] > now + 1 THEN banned[t] ELSE 0
    BY <1>1, <1>8 DEF Tick, Kept, Basis, TypeOK
  <2> QED
    BY <1>2, <1>4, <2>1
<1>9. CASE UNCHANGED vars
  BY <1>4, <1>9 DEF vars, clock, redis
<1> QED
  BY <1>6, <1>7, <1>8, <1>9 DEF Next

LEMMA CoveredStep == Basis /\ Covered /\ [Next]_vars => Covered'
<1> SUFFICES ASSUME Basis, Covered, [Next]_vars,
                    NEW p \in Requests, NEW t \in (Known \X Kinds)',
                    op'[p] = "logout", bearer'[p] = t, at'[p] \in {"ban", "drop", "done"}
             PROVE  /\ at'[p] = "ban" => now' + left'[p] >= Expiry(t)'
                    /\ at'[p] \in {"drop", "done"} => Out(t)'
  BY DEF Covered, Covers
<1>1. ASSUME NEW r \in Requests, Step(r), r = p
      PROVE  op[p] = "logout" /\ bearer[p] = t /\ (Measure(p) \/ Ban(p) \/ Drop(p))
  <2>1. ~(Login(p) \/ Refresh(p) \/ Logout(p) \/ Other(p))
    BY DEF Basis, TypeOK, Login, Refresh, Logout, Other, Ask, Goto
  <2>2. op[p] = "logout" /\ bearer[p] = t
    BY <1>1, <2>1 DEF Step, Verify, Blacklist, Get, ReadUser, ReadGrants, Revoke, Sign,
       Store, Measure, Ban, Drop, Fail, asked
  <2>3. ~Store(p)
    BY <2>2 DEF Basis, Places, Store
  <2> QED
    BY <1>1, <2>1, <2>2, <2>3 DEF Basis, TypeOK, Step, Verify, Blacklist, Get, ReadUser,
       ReadGrants, Revoke, Sign, Fail, Goto
<1>2. op[p] = "logout" /\ bearer[p] = t
  <2>1. ASSUME NEW r \in Requests, Step(r) PROVE op[p] = "logout" /\ bearer[p] = t
    BY <1>1, <2>1, StepFacts
  <2> QED
    BY <2>1 DEF Next, SetStatus, Tick, vars, asked
<1>3. t \in Known \X Kinds /\ t \in Tokens
  BY <1>2, KnownTokens DEF Basis, Presented
<1>4. PICK e \in Int : e = Expiry(t) /\ e = Expiry(t)'
  BY <1>3, KnownTokens DEF Basis
<1>5. now \in Nat /\ left[p] \in Nat
  BY DEF Basis, TypeOK
<1>6. Covers(p, t)
  BY <1>3 DEF Covered
<1>7. CASE at'[p] = at[p] /\ left'[p] = left[p] /\ (now' = now \/ now' = now + 1)
  <2>1. at[p] = "ban" => now + left[p] >= e
    BY <1>2, <1>4, <1>6 DEF Covers
  <2>2. at'[p] = "ban" => now' + left'[p] >= Expiry(t)'
    BY <1>4, <1>5, <1>7, <2>1
  <2>3. at'[p] \in {"drop", "done"} => Out(t)'
    BY <1>2, <1>3, <1>6, <1>7, OutStays DEF Covers
  <2> QED
    BY <2>2, <2>3
<1>8. CASE Measure(p)
  <2>1. /\ now' = now
        /\ IF e - now > 0 THEN left'[p] = e - now /\ at'[p] = "ban"
                          ELSE at'[p] = "drop"
    BY <1>2, <1>4, <1>5, <1>8 DEF Basis, TypeOK, Measure, Goto, clock
  <2>2. at'[p] = "drop" => now' >= e
    BY <1>5, <2>1
  <2>3. at'[p] = "ban" => now' + left'[p] >= e
    BY <1>5, <2>1
  <2>4. at'[p] # "done"
    BY <2>1
  <2> QED
    BY <1>4, <2>2, <2>3, <2>4 DEF Out
<1>9. CASE Ban(p)
  <2>1. now' = now /\ at'[p] = "drop" /\ banned'[t] = now + left[p] /\ at[p] = "ban"
    BY <1>2, <1>3, <1>9 DEF Basis, TypeOK, Ban, Goto, clock
  <2>2. now + left[p] >= e
    BY <1>2, <1>4, <1>6, <2>1 DEF Covers
  <2> QED
    BY <1>4, <2>1, <2>2 DEF Out
<1>10. CASE Drop(p)
  <2>1. at[p] = "drop" /\ at'[p] = "done"
    BY <1>10 DEF Basis, TypeOK, Drop, Goto
  <2> QED
    BY <1>2, <1>3, <1>6, <2>1, OutStays DEF Covers
<1>11. ASSUME NEW r \in Requests, Step(r)
       PROVE  \/ at'[p] = at[p] /\ left'[p] = left[p] /\ now' = now
              \/ Measure(p) \/ Ban(p) \/ Drop(p)
  BY <1>1, <1>11, StepFacts
<1>12. CASE SetStatus \/ Tick \/ UNCHANGED vars
  <2>1. at'[p] = at[p] /\ left'[p] = left[p] /\ (now' = now \/ now' = now + 1)
    BY <1>12 DEF SetStatus, Tick, vars, clock
  <2> QED
    BY <1>7, <2>1
<1> QED
  BY <1>7, <1>8, <1>9, <1>10, <1>11, <1>12 DEF Next

(* Tokens of a pair clients know were signed, and expire after the start.   *)
LEMMA BannedPastSigning ==
  ASSUME TypeOK, NEW t \in Known \X Kinds, banned[t] >= Expiry(t)
  PROVE  banned[t] > 0
<1>1. t \in Tokens /\ signedAt[t[1]] \in Nat
  BY DEF Tokens, Known, TypeOK
<1>2. Life(t[2]) \in Nat /\ Life(t[2]) > 0
  BY TTLAssumption DEF Life
<1>3. banned[t] \in Nat
  BY <1>1 DEF TypeOK
<1> QED
  BY <1>1, <1>2, <1>3 DEF Expiry

(* jwt-auth.guard.ts:42: a token that was logged out is refused for as long *)
(* as it verifies, for any delay between the steps of the logout.           *)
THEOREM LogoutIsKept == Spec => LoggedOutStaysOut
<1>1. Init => Covered
  BY DEF Init, Covered, Covers
<1>2. Basis /\ Covered /\ [Next]_vars
        => [\A p \in Requests :
              at[p] = "blacklist" /\ at'[p] # "blacklist" /\ LoggedOut(bearer[p])
                => at'[p] \in {"refused", "failed"} \/ ~Good(bearer[p])]_vars
  <2> SUFFICES ASSUME Basis, Covered, Next, NEW p \in Requests,
                      at[p] = "blacklist", at'[p] # "blacklist", LoggedOut(bearer[p])
               PROVE  at'[p] \in {"refused", "failed"} \/ ~Good(bearer[p])
    BY DEF vars
  <2>1. bearer[p] \in Known \X Kinds /\ bearer[p] \in Tokens
    BY KnownTokens DEF Basis, Places, Presented
  <2>2. Out(bearer[p])
    BY <2>1 DEF LoggedOut, Covered, Covers
  <2>3. CASE now >= Expiry(bearer[p])
    <3>1. now \in Nat /\ Expiry(bearer[p]) \in Int
      BY <2>1, ExpiryType DEF Basis, TypeOK
    <3> QED
      BY <2>3, <3>1 DEF Good
  <2>4. CASE banned[bearer[p]] >= Expiry(bearer[p])
    <3>1. Banned(bearer[p])
      BY <2>1, <2>4, BannedPastSigning DEF Basis, Banned
    <3>2. Blacklist(p) \/ Fail(p)
      <4>1. ASSUME NEW r \in Requests, Step(r) PROVE r = p
        BY <4>1, StepFacts
      <4> QED
        BY <4>1 DEF Next, Step, Login, Refresh, Logout, Other, Ask, Verify, Get, ReadUser,
           ReadGrants, Revoke, Sign, Store, Measure, Ban, Drop, SetStatus, Tick
    <3> QED
      BY <3>1, <3>2 DEF Basis, TypeOK, Blacklist, Fail, Goto
  <2> QED
    BY <2>2, <2>3, <2>4 DEF Out
<1>3. Spec => []Covered
  BY <1>1, AlwaysBasis, CoveredStep, PTL DEF Spec
<1> QED
  BY <1>2, <1>3, AlwaysBasis, PTL DEF Spec, LoggedOutStaysOut

----------------------------------------------------------------------------

(* Whoever is about to sign has seen the user active, and that counts as    *)
(* now until they have signed: no pair was signed after the user was last   *)
(* seen active.                                                             *)
Fresh ==
  /\ trusted <= now /\ (Trusting => trusted = now)
  /\ \A q \in Pairs : signedAt[q] <= trusted
  /\ \A p \in Requests :
       /\ at[p] \in {"idle", "verify", "get", "user"} => ~found[p]
       /\ at[p] \in {"grants", "revoke", "sign", "store"} => found[p]

LEMMA FreshStep == Basis /\ Fresh /\ [Next]_vars => Fresh'
<1> SUFFICES ASSUME Basis, Fresh, [Next]_vars PROVE Fresh'
  OBVIOUS
<1>1. now \in Nat /\ trusted \in Nat /\ signedAt \in [Pairs -> Int]
  BY DEF Basis, TypeOK
<1>2. ASSUME NEW r \in Requests, Step(r) PROVE Fresh'
  <2>1. now' = now /\ trusted' = trusted /\ active' = active
    BY <1>2 DEF Step, Login, Refresh, Logout, Other, Ask, Verify, Blacklist, Get,
       ReadUser, ReadGrants, Revoke, Sign, Store, Measure, Ban, Drop, Fail, clock, user
  <2>2. PICK where : Goto(r, where)
    BY <1>2, StepFacts
  <2>3. \A p \in Requests : at'[p] = IF p = r THEN where ELSE at[p]
    BY <2>2 DEF Basis, TypeOK, Goto
  <2>4. found' = found \/ (ReadUser(r) /\ found' = [found EXCEPT ![r] = active])
    BY <1>2 DEF Step, Login, Refresh, Logout, Other, Ask, Verify, Blacklist, Get,
       ReadUser, ReadGrants, Revoke, Sign, Store, Measure, Ban, Drop, Fail
  <2>5. \A p \in Requests \ {r} : found'[p] = found[p]
    BY <2>4 DEF Basis, TypeOK
  <2>6. CASE ReadUser(r)
    <3>1. at[r] = "user" /\ where \in {"grants", "refused"} /\ (where = "grants" => active)
          /\ found'[r] = active
      BY <2>3, <2>6 DEF Basis, TypeOK, ReadUser, Goto
    <3>2. \A p \in Requests :
            /\ at'[p] \in {"idle", "verify", "get", "user"} => ~found'[p]
            /\ at'[p] \in {"grants", "revoke", "sign", "store"} => found'[p]
      BY <2>3, <2>5, <3>1 DEF Fresh
    <3>3. Trusting' => Trusting
      BY <2>1, <2>3, <2>5, <3>1 DEF Trusting, Issuing
    <3>4. signedAt' = signedAt
      BY <2>6 DEF ReadUser, history
    <3> QED
      BY <2>1, <3>2, <3>3, <3>4 DEF Fresh
  <2>7. CASE ~ReadUser(r)
    <3>1. found' = found
      BY <2>4, <2>7
    <3>2. at[r] \in {"idle", "verify", "get"}
            \/ where \notin {"idle", "verify", "get", "user"}
      BY <1>2, <2>3, <2>7 DEF Basis, TypeOK, Step, Login, Refresh, Logout, Other, Ask,
         Verify, Blacklist, Get, ReadGrants, Revoke, Sign, Store, Measure, Ban, Drop,
         Fail, Goto
    <3>3. where \in {"grants", "revoke", "sign", "store"}
            => at[r] \in {"grants", "revoke", "sign", "store"}
      BY <1>2, <2>3, <2>7 DEF Basis, TypeOK, Step, Login, Refresh, Logout, Other, Ask,
         Verify, Blacklist, Get, ReadGrants, Revoke, Sign, Store, Measure, Ban, Drop,
         Fail, Goto
    <3>4. \A p \in Requests :
            /\ at'[p] \in {"idle", "verify", "get", "user"} => ~found'[p]
            /\ at'[p] \in {"grants", "revoke", "sign", "store"} => found'[p]
      BY <2>3, <3>1, <3>2, <3>3 DEF Fresh
    <3>5. Trusting' => Trusting
      BY <2>1, <2>3, <3>1, <3>3, <3>4 DEF Fresh, Trusting, Issuing
    <3>6. \A q \in Pairs : signedAt'[q] <= trusted
      <4>1. CASE Sign(r)
        <5>1. trusted = now
          BY <4>1 DEF Fresh, Trusting, Issuing, Sign
        <5>2. signedAt' = [signedAt EXCEPT ![r] = now]
          BY <4>1 DEF Sign
        <5> QED
          BY <1>1, <5>1, <5>2 DEF Fresh
      <4>2. CASE ~Sign(r)
        <5>1. signedAt' = signedAt
          BY <1>2, <4>2 DEF Step, Login, Refresh, Logout, Other, Ask, Verify, Blacklist,
             Get, ReadUser, ReadGrants, Revoke, Store, Measure, Ban, Drop, Fail, history
        <5> QED
          BY <5>1 DEF Fresh
      <4> QED
        BY <4>1, <4>2
    <3> QED
      BY <2>1, <3>4, <3>5, <3>6 DEF Fresh
  <2> QED
    BY <2>6, <2>7
<1>3. CASE SetStatus
  <2>1. \A q \in Pairs : signedAt[q] <= now
    BY <1>1 DEF Fresh
  <2> QED
    BY <1>1, <1>3, <2>1 DEF Fresh, SetStatus, history
<1>4. CASE Tick
  <2>1. Trusting' <=> Trusting
    BY <1>4 DEF Tick, Trusting, user
  <2>2. now' = now + 1 /\ trusted' = (IF Trusting THEN now + 1 ELSE trusted)
    BY <1>4 DEF Tick
  <2>3. trusted' <= now' /\ trusted <= trusted' /\ trusted' \in Nat
    BY <1>1, <2>2 DEF Fresh
  <2>4. \A q \in Pairs : signedAt[q] <= trusted'
    BY <1>1, <2>3 DEF Fresh
  <2> QED
    BY <1>4, <2>1, <2>2, <2>3, <2>4 DEF Fresh, Tick, history
<1>5. CASE UNCHANGED vars
  BY <1>5 DEF Fresh, Trusting, vars, clock, user, history
<1> QED
  BY <1>2, <1>3, <1>4, <1>5 DEF Next

(* auth.service.ts:103: from the last moment a user was active, or was seen *)
(* so by a request still under way, no token of theirs verifies for longer  *)
(* than its kind lives.                                                     *)
THEOREM DeactivationTakesEffect == Spec => DeactivatedOutInTime
<1>1. Init => Fresh
  <2> SUFFICES ASSUME Init PROVE Fresh
    OBVIOUS
  <2>1. now = 0 /\ trusted = 0 /\ \A q \in Pairs : signedAt[q] <= trusted
    BY DEF Init
  <2>2. \A p \in Requests : at[p] = "idle" /\ ~found[p]
    BY DEF Init
  <2> QED
    BY <2>1, <2>2 DEF Fresh
<1>2. Basis /\ Fresh /\ [Next]_vars
        => [\A p \in Requests :
              at[p] = "verify" /\ at'[p] = "blacklist"
                => now < trusted + Life(bearer[p][2])]_vars
  <2> SUFFICES ASSUME Basis, Fresh, Next, NEW p \in Requests,
                      at[p] = "verify", at'[p] = "blacklist"
               PROVE  now < trusted + Life(bearer[p][2])
    BY DEF vars
  <2>1. Verify(p)
    <3>1. ASSUME NEW r \in Requests, Step(r) PROVE r = p
      BY <3>1, StepFacts
    <3>2. \E r \in Requests : Step(r)
      BY DEF Next, SetStatus, Tick
    <3>3. Verify(p) \/ Fail(p)
      BY <3>1, <3>2 DEF Step, Login, Refresh, Logout, Other, Ask, Blacklist, Get, ReadUser,
         ReadGrants, Revoke, Sign, Store, Measure, Ban, Drop
    <3> QED
      BY <3>3 DEF Basis, TypeOK, Fail, Goto
  <2>2. op[p] # "refresh" /\ Good(bearer[p])
    BY <2>1 DEF Basis, TypeOK, Verify, Goto
  <2>3. bearer[p] \in Tokens
    BY <2>2 DEF Basis, Places
  <2>4. bearer[p][1] \in Pairs /\ signedAt[bearer[p][1]] <= trusted
    BY <2>3, ExpiryType DEF Basis, Fresh
  <2>5. Life(bearer[p][2]) \in Nat
    BY TTLAssumption DEF Life
  <2> QED
    BY <2>2, <2>4, <2>5 DEF Basis, TypeOK, Good, Expiry
<1>3. Spec => []Fresh
  BY <1>1, AlwaysBasis, FreshStep, PTL DEF Spec
<1> QED
  BY <1>2, <1>3, AlwaysBasis, PTL DEF Spec, DeactivatedOutInTime

----------------------------------------------------------------------------

(* The line of a pair that is signed and not stored yet.                    *)
Lineage ==
  \A p \in Requests :
    at[p] = "store" => line[p] = IF op[p] = "refresh" THEN line[token[p]] ELSE p

LEMMA LineFacts ==
  ASSUME Basis, [Next]_vars
  PROVE  /\ \A q \in Pairs : line'[q] = line[q] \/ (q \in Requests /\ Sign(q))
         /\ \A q \in Known : line'[q] = line[q]
         /\ \A p \in Requests :
              at[p] # "idle" => op'[p] = op[p] /\ token'[p] = token[p]
<1>1. \A q \in Pairs : line'[q] = line[q] \/ (q \in Requests /\ Sign(q))
  <2>1. ASSUME NEW r \in Requests, Step(r)
        PROVE  line' = line \/ (Sign(r) /\ \E l : line' = [line EXCEPT ![r] = l])
    BY <2>1 DEF Step, Login, Refresh, Logout, Other, Ask, Verify, Blacklist, Get,
       ReadUser, ReadGrants, Revoke, Sign, Store, Measure, Ban, Drop, Fail, history
  <2>2. line' = line \/ \E r \in Requests : Step(r)
    BY DEF Next, SetStatus, Tick, vars, history
  <2> QED
    BY <2>1, <2>2 DEF Basis, TypeOK
<1>2. \A q \in Known : q \in Requests => ~Sign(q)
  BY PairsAssumption DEF Known, Sign
<1>3. \A p \in Requests : at[p] # "idle" => op'[p] = op[p] /\ token'[p] = token[p]
  BY DEF Basis, TypeOK, Next, Step, Login, Refresh, Logout, Other, Ask, Verify, Blacklist,
     Get, ReadUser, ReadGrants, Revoke, Sign, Store, Measure, Ban, Drop, Fail, SetStatus,
     Tick, vars, asked
<1> QED
  BY <1>1, <1>2, <1>3 DEF Known

LEMMA LineageStep == Basis /\ Lineage /\ [Next]_vars => Lineage'
<1> SUFFICES ASSUME Basis, Lineage, [Next]_vars, NEW p \in Requests, at'[p] = "store"
             PROVE  line'[p] = IF op'[p] = "refresh" THEN line'[token'[p]] ELSE p
  BY DEF Lineage
<1> USE PairsAssumption DEF Pairs
<1>1. at[p] = "store" \/ Sign(p)
  <2>1. ASSUME NEW r \in Requests, Step(r) PROVE at[p] = "store" \/ Sign(p)
    <3>1. r # p => at[p] = "store"
      BY <2>1, StepFacts
    <3> QED
      BY <2>1, <3>1 DEF Basis, TypeOK, Step, Login, Refresh, Logout, Other, Ask, Verify,
         Blacklist, Get, ReadUser, ReadGrants, Revoke, Store, Measure, Ban, Drop, Fail, Goto
  <2> QED
    BY <2>1 DEF Next, SetStatus, Tick, vars
<1>2. at[p] # "idle" /\ op'[p] = op[p] /\ token'[p] = token[p]
  BY <1>1, LineFacts DEF Sign
<1>3. op[p] = "refresh" => line'[token[p]] = line[token[p]]
  BY LineFacts DEF Basis, Presented
<1>4. CASE at[p] = "store"
  <2>1. line'[p] = line[p]
    BY <1>4, LineFacts DEF Sign
  <2> QED
    BY <1>2, <1>3, <1>4, <2>1 DEF Lineage
<1>5. CASE Sign(p)
  <2>1. line'[p] = IF op[p] = "refresh" THEN line[token[p]] ELSE p
    BY <1>5 DEF Basis, TypeOK, Sign
  <2> QED
    BY <1>2, <1>3, <2>1
<1> QED
  BY <1>1, <1>4, <1>5

-----------------------------------------------------------------------------

(* A pair that is on record is that of a request that has ended.            *)
EndedOnRecord == \A p \in Requests : Stored(p) => at[p] \in {"done", "failed"}

LEMMA StoredBefore ==
  ASSUME Basis, [Next]_vars, NEW p \in Pairs, stored'[p] > 0
  PROVE  \/ stored[p] > 0
         \/ p \in Requests /\ at[p] = "store" /\ at'[p] \in {"done", "failed"}
<1> USE PairsAssumption DEF Pairs
<1>1. ASSUME NEW r \in Requests, Step(r)
      PROVE  \/ stored[p] > 0
             \/ p \in Requests /\ at[p] = "store" /\ at'[p] \in {"done", "failed"}
  <2>1. op[r] = "refresh" => token[r] \in Pairs
    BY DEF Basis, Places
  <2>2. \/ stored' = stored
        \/ \E t \in Pairs : stored' = [stored EXCEPT ![t] = 0]
        \/ /\ at[r] = "store" /\ stored' = [stored EXCEPT ![r] = now + RefreshTTL]
           /\ Goto(r, "done") \/ Goto(r, "failed")
    <3>1. at[r] = "revoke" => op[r] = "refresh"
      BY DEF Basis, Places
    <3>2. token[r] # NoPair => token[r] \in Pairs
      BY DEF Basis, TypeOK
    <3> QED
      BY <1>1, <2>1, <3>1, <3>2 DEF Step, Login, Refresh, Logout, Other, Ask, Verify,
         Blacklist, Get, ReadUser, ReadGrants, Revoke, Sign, Store, Measure, Ban, Drop,
         Fail, redis
  <2> QED
    BY <2>2 DEF Basis, TypeOK, Goto
<1>2. CASE Tick
  BY <1>2 DEF Basis, TypeOK, Tick, Kept
<1>3. CASE SetStatus \/ UNCHANGED vars
  BY <1>3 DEF SetStatus, vars, redis
<1> QED
  BY <1>1, <1>2, <1>3 DEF Next

(* A request that has ended stays where it is.                              *)
LEMMA EndedStays ==
  ASSUME Basis, [Next]_vars, NEW p \in Requests, at[p] \in {"done", "failed"}
  PROVE  at'[p] = at[p]
<1>1. ASSUME NEW r \in Requests, Step(r) PROVE at'[p] = at[p]
  <2>1. CASE r = p
    BY <1>1, <2>1 DEF Step, Login, Refresh, Logout, Other, Ask, Verify, Blacklist, Get,
       ReadUser, ReadGrants, Revoke, Sign, Store, Measure, Ban, Drop, Fail, Awaiting, Issuing
  <2>2. CASE r # p
    BY <1>1, <2>2, StepFacts
  <2> QED
    BY <2>1, <2>2
<1> QED
  BY <1>1 DEF Next, SetStatus, Tick, vars

LEMMA EndedOnRecordStep == Basis /\ EndedOnRecord /\ [Next]_vars => EndedOnRecord'
BY StoredBefore, EndedStays DEF EndedOnRecord, Stored, Pairs

(* How a request stops being one that may still sign a pair.                *)
LEMMA IssuingEnds ==
  ASSUME Basis, [Next]_vars, NEW p \in Requests, at[p] \in Issuing, at'[p] \notin Issuing
  PROVE  \/ at[p] = "user" /\ at'[p] = "refused" /\ stored' = stored
         \/ Store(p)
         \/ faults' > faults
<1>1. ASSUME NEW r \in Requests, Step(r)
      PROVE  \/ at[p] = "user" /\ at'[p] = "refused" /\ stored' = stored
             \/ Store(p)
             \/ faults' > faults
  <2>1. r = p
    BY <1>1, StepFacts
  <2>2. Fail(p) => faults' > faults
    BY DEF Fail, Basis, TypeOK
  <2> QED
    BY <1>1, <2>1, <2>2 DEF Basis, TypeOK, Step, Login, Refresh, Logout, Other, Ask, Verify,
       Blacklist, Get, ReadUser, ReadGrants, Revoke, Sign, Measure, Ban, Drop, Goto,
       Issuing, redis
<1> QED
  BY <1>1 DEF Next, SetStatus, Tick, vars

(* How a record goes.                                                       *)
LEMMA RecordGoes ==
  ASSUME Basis, [Next]_vars, NEW q \in Pairs, stored[q] > 0, ~(stored'[q] > 0)
  PROVE  \/ now' > now
         \/ \E p \in Requests : op[p] = "logout" /\ at[p] = "drop" /\ at'[p] = "done"
         \/ \E p \in Requests : Revoke(p) /\ token[p] = q
<1>1. ASSUME NEW r \in Requests, Step(r)
      PROVE  \/ op[r] = "logout" /\ at[r] = "drop" /\ at'[r] = "done"
             \/ Revoke(r) /\ token[r] = q
  <2>1. \/ stored' = stored \/ Revoke(r) \/ Drop(r)
        \/ stored' = [stored EXCEPT ![r] = now + RefreshTTL]
    BY <1>1 DEF Step, Login, Refresh, Logout, Other, Ask, Verify, Blacklist, Get, ReadUser,
       ReadGrants, Sign, Store, Measure, Ban, Fail, redis
  <2>2. CASE Drop(r)
    BY <2>2 DEF Basis, TypeOK, Places, Drop, Goto
  <2>3. CASE Revoke(r)
    BY <2>3 DEF Basis, TypeOK, Revoke
  <2>4. CASE stored' = [stored EXCEPT ![r] = now + RefreshTTL]
    BY <2>4, TTLAssumption DEF Basis, TypeOK
  <2> QED
    BY <2>1, <2>2, <2>3, <2>4
<1>2. CASE Tick
  BY <1>2 DEF Basis, TypeOK, Tick
<1>3. CASE SetStatus \/ UNCHANGED vars
  BY <1>3 DEF SetStatus, vars, redis
<1> QED
  BY <1>1, <1>2, <1>3 DEF Next

LEMMA CauseStep ==
  ASSUME Basis, Lineage, EndedOnRecord, [Next]_vars, NEW l \in Pairs, Alive(l),
         ~(now' > now), ~(faults' > faults),
         ~\E p \in Requests : op[p] = "logout" /\ at[p] = "drop" /\ at'[p] = "done",
         ~(l \in Requests /\ op[l] = "login" /\ at'[l] = "refused"),
         ~\E p \in Requests : op[p] = "refresh" /\ at[p] = "user" /\ ~Stored(token[p])
  PROVE  Alive(l)'
<1> USE PairsAssumption DEF Pairs
<1>1. ASSUME NEW p \in Requests, Store(p), line[p] = l PROVE Alive(l)'
  <2>1. stored'[p] > 0
    BY <1>1, TTLAssumption DEF Store, Basis, TypeOK
  <2>2. line'[p] = l
    BY <1>1 DEF Store, history
  <2> QED
    BY <2>1, <2>2 DEF Alive, Stored
<1>2. ASSUME NEW q \in Pairs, line[q] = l, Stored(q) PROVE Alive(l)'
  <2>1. line'[q] = l
    BY <1>2, LineFacts DEF EndedOnRecord, Sign
  <2>2. CASE stored'[q] > 0
    BY <2>1, <2>2 DEF Alive, Stored
  <2>3. CASE ~(stored'[q] > 0)
    <3>1. PICK p \in Requests : Revoke(p) /\ token[p] = q
      BY <1>2, <2>3, RecordGoes DEF Stored
    <3>2. op[p] = "refresh" /\ op'[p] = op[p] /\ token'[p] = q
      BY <3>1, LineFacts DEF Revoke, Basis, Places
    <3>3. at'[p] \in Issuing
      BY <3>1 DEF Revoke, Goto, Issuing, Basis, TypeOK
    <3> QED
      BY <2>1, <3>2, <3>3 DEF Alive
  <2> QED
    BY <2>2, <2>3
<1>3. ASSUME NEW p \in Requests, at[p] \in Issuing, op[p] = "refresh", line[token[p]] = l
      PROVE  Alive(l)'
  <2>1. op'[p] = "refresh" /\ token'[p] = token[p]
    BY <1>3, LineFacts DEF Issuing
  <2>2. token[p] \in Pairs /\ line'[token[p]] = l
    BY <1>3, LineFacts DEF Basis, Presented, Known
  <2>3. CASE at'[p] \in Issuing
    BY <2>1, <2>2, <2>3 DEF Alive
  <2>4. CASE Store(p)
    BY <1>1, <1>3, <2>4 DEF Lineage, Store
  <2>5. CASE at[p] = "user" /\ stored' = stored
    <3>1. Stored(token[p])
      BY <1>3, <2>5
    <3> QED
      BY <2>2, <2>5, <3>1 DEF Alive, Stored
  <2> QED
    BY <1>3, <2>3, <2>4, <2>5, IssuingEnds
<1>4. ASSUME l \in Requests, at[l] \in Issuing, op[l] = "login" PROVE Alive(l)'
  <2>1. op'[l] = "login"
    BY <1>4, LineFacts DEF Issuing
  <2>2. CASE at'[l] \in Issuing
    BY <1>4, <2>1, <2>2 DEF Alive
  <2>3. CASE Store(l)
    BY <1>1, <1>4, <2>3 DEF Lineage, Store
  <2> QED
    BY <1>4, <2>2, <2>3, IssuingEnds
<1> QED
  BY <1>2, <1>3, <1>4 DEF Alive

(* auth.service.ts:124-137: for any requests that meet in any order, a line *)
(* of tokens ends by a logout, the clock, a failure or a refusal for which  *)
(* there is a reason; two refreshes that meet do not end it.                *)
THEOREM LineEndsHaveACause == Spec => LinesEndForCause
<1>1. Init => Lineage /\ EndedOnRecord
  BY PairsAssumption DEF Init, Lineage, EndedOnRecord, Stored, Pairs
<1>2. Basis /\ Lineage /\ EndedOnRecord /\ [Next]_vars
        => [\A l \in Pairs : Alive(l) /\ ~Alive(l)' =>
              \/ now' > now
              \/ faults' > faults
              \/ \E p \in Requests : op[p] = "logout" /\ at[p] = "drop" /\ at'[p] = "done"
              \/ l \in Requests /\ op[l] = "login" /\ at'[l] = "refused"
              \/ \E p \in Requests : /\ op[p] = "refresh" /\ at[p] = "user"
                                     /\ ~Stored(token[p])]_vars
  BY CauseStep
<1>3. Spec => [](Lineage /\ EndedOnRecord)
  BY <1>1, AlwaysBasis, LineageStep, EndedOnRecordStep, PTL DEF Spec
<1> QED
  BY <1>2, <1>3, AlwaysBasis, PTL DEF Spec, LinesEndForCause

-----------------------------------------------------------------------------

(* Every line goes back to a pair that clients know, but a pair of its own. *)
Rooted == \A q \in Pairs : line[q] # q => line[q] \in Known

LEMMA RootedStep == Basis /\ Rooted /\ [Next]_vars => Rooted'
<1> SUFFICES ASSUME Basis, Rooted, [Next]_vars, NEW q \in Pairs, line'[q] # q
             PROVE  line'[q] \in Known'
  BY DEF Rooted
<1>1. \A k \in Known : k \in Known'
  BY KnownStays DEF Basis
<1>2. CASE line'[q] = line[q]
  BY <1>1, <1>2 DEF Rooted
<1>3. CASE q \in Requests /\ Sign(q)
  <2>1. line'[q] = IF op[q] = "refresh" THEN line[token[q]] ELSE q
    BY <1>3 DEF Basis, TypeOK, Sign
  <2>2. op[q] = "refresh" /\ line'[q] = line[token[q]] /\ token[q] \in Known
    BY <1>3, <2>1 DEF Basis, Presented
  <2>3. line[token[q]] \in Known
    BY <2>2 DEF Rooted, Known
  <2> QED
    BY <1>1, <2>2, <2>3
<1> QED
  BY <1>2, <1>3, LineFacts

(* A refresh of a line that is past its GET, and a pair of it on record.    *)
Using(p, l)    == op[p] = "refresh" /\ at[p] \in Issuing /\ line[token[p]] = l
OnRecord(q, l) == line[q] = l /\ Stored(q)

(* What OneHeir follows from: a refresh past its GET may have its token     *)
(* still on record, and then it is the only one of its line that is.        *)
Single ==
  \A l \in Pairs \ met :
    /\ \A p, r \in Requests : Using(p, l) /\ Using(r, l) => p = r
    /\ \A q, t \in Pairs : OnRecord(q, l) /\ OnRecord(t, l) => q = t
    /\ \A p \in Requests, q \in Pairs : Using(p, l) /\ OnRecord(q, l) => token[p] = q

LEMMA UsingBefore ==
  ASSUME Basis, [Next]_vars, NEW p \in Requests, NEW l \in Pairs, Using(p, l)'
  PROVE  /\ token'[p] = token[p]
         /\ \/ Using(p, l)
            \/ /\ Get(p) /\ op[p] = "refresh" /\ Stored(token[p])
               /\ line[token[p]] = l
<1>1. op'[p] = "refresh" /\ at'[p] \in Issuing /\ line'[token'[p]] = l
  BY DEF Using
<1>2. at[p] \notin Issuing => Get(p) \/ Login(p)
  <2>1. ASSUME NEW r \in Requests, Step(r), at[p] \notin Issuing PROVE Get(p) \/ Login(p)
    <3>1. r = p
      BY <1>1, <2>1, StepFacts
    <3> QED
      BY <1>1, <2>1, <3>1 DEF Basis, TypeOK, Step, Login, Refresh, Logout, Other, Ask,
         Verify, Blacklist, Get, ReadUser, ReadGrants, Revoke, Sign, Store, Measure, Ban,
         Drop, Fail, Goto, Issuing
  <2> QED
    BY <1>1, <2>1 DEF Next, SetStatus, Tick, vars
<1>3. ~Login(p)
  BY <1>1 DEF Basis, TypeOK, Login, Ask
<1>4. at[p] # "idle"
  BY <1>2, <1>3 DEF Get, Issuing
<1>5. op[p] = "refresh" /\ token'[p] = token[p]
  BY <1>1, <1>4, LineFacts
<1>6. line[token[p]] = l
  BY <1>1, <1>5, LineFacts DEF Basis, Presented
<1>7. Get(p) => Stored(token[p])
  BY <1>1 DEF Basis, TypeOK, Get, Goto, Issuing
<1> QED
  BY <1>2, <1>3, <1>5, <1>6, <1>7 DEF Using

LEMMA OnRecordBefore ==
  ASSUME Basis, EndedOnRecord, [Next]_vars, NEW q \in Pairs, NEW l \in Pairs,
         OnRecord(q, l)'
  PROVE  \/ OnRecord(q, l)
         \/ /\ q \in Requests /\ at[q] = "store" /\ line[q] = l
            /\ at'[q] \in {"done", "failed"}
<1>1. line'[q] = l /\ stored'[q] > 0
  BY DEF OnRecord, Stored
<1>2. stored[q] > 0 \/ (q \in Requests /\ at[q] = "store" /\ at'[q] \in {"done", "failed"})
  BY <1>1, StoredBefore
<1>3. ~(q \in Requests /\ Sign(q))
  BY <1>2 DEF EndedOnRecord, Stored, Sign
<1>4. line[q] = l
  BY <1>1, <1>3, LineFacts
<1> QED
  BY <1>2, <1>4 DEF OnRecord, Stored

(* Nobody else is in a line that a request is about to store a pair of.     *)
LEMMA StoringAlone ==
  ASSUME Basis, Lineage, Rotated, Rooted, Single,
         NEW l \in Pairs, l \notin met, NEW p \in Requests, at[p] = "store", line[p] = l
  PROVE  /\ \A q \in Pairs : ~OnRecord(q, l) \/ q = p
         /\ \A r \in Requests : Using(r, l) => r = p
<1>1. p \in Pairs /\ p \notin Known
  BY PairsAssumption DEF Known, Pairs
<1>2. CASE op[p] = "refresh"
  <2>1. Using(p, l)
    BY <1>2 DEF Lineage, Using, Issuing
  <2>2. ~Stored(token[p])
    BY <1>2 DEF Rotated, Rotating
  <2>3. ASSUME NEW q \in Pairs, OnRecord(q, l) PROVE FALSE
    BY <2>1, <2>2, <2>3 DEF Single, OnRecord
  <2> QED
    BY <2>1, <2>3 DEF Single
<1>3. CASE op[p] # "refresh"
  <2>1. l = p
    BY <1>3 DEF Lineage
  <2>2. \A q \in Pairs : line[q] = l => q = p
    BY <1>1, <2>1 DEF Rooted
  <2>3. ASSUME NEW r \in Requests, Using(r, l) PROVE FALSE
    <3>1. token[r] \in Known /\ line[token[r]] = l
      BY <2>3 DEF Using, Basis, Presented
    <3> QED
      BY <1>1, <2>2, <3>1 DEF Known
  <2> QED
    BY <2>2, <2>3 DEF OnRecord
<1> QED
  BY <1>2, <1>3

LEMMA SingleStep ==
  ASSUME Basis, Lineage, EndedOnRecord, Rotated, Rooted, Single, [Next]_vars
  PROVE  Single'
<1> SUFFICES ASSUME NEW l \in Pairs, l \notin met'
             PROVE  /\ \A p, r \in Requests : Using(p, l)' /\ Using(r, l)' => p = r
                    /\ \A q, t \in Pairs : OnRecord(q, l)' /\ OnRecord(t, l)' => q = t
                    /\ \A p \in Requests, q \in Pairs :
                         Using(p, l)' /\ OnRecord(q, l)' => token'[p] = q
  BY DEF Single
<1>1. l \notin met
  BY DEF Next, Step, Login, Refresh, Logout, Other, Ask, Verify, Blacklist, Get, ReadUser,
     ReadGrants, Revoke, Sign, Store, Measure, Ban, Drop, Fail, SetStatus, Tick, vars,
     history
<1>2. ASSUME NEW p \in Requests, Get(p), NEW r \in Requests, r # p
      PROVE  at'[p] # at[p] /\ at'[r] = at[r]
  BY <1>2 DEF Basis, TypeOK, Get, Goto
<1>3. ASSUME NEW p \in Requests, Get(p), op[p] = "refresh", Stored(token[p]),
             line[token[p]] = l, NEW r \in Requests, Using(r, l)
      PROVE  FALSE
  <2>1. token[p] \in Pairs /\ OnRecord(token[p], l)
    BY <1>3 DEF Basis, Places, OnRecord
  <2>2. token[r] = token[p]
    BY <1>1, <1>3, <2>1 DEF Single
  <2>3. at[r] \in {"user", "grants", "revoke"}
    BY <1>3, <2>2 DEF Rotated, Rotating, Using, Issuing
  <2>4. Meets(p)
    <3>1. r # p
      BY <1>3, <2>3 DEF Get
    <3> QED
      BY <1>3, <2>2, <2>3, <3>1 DEF Meets, Using
  <2> QED
    BY <1>3, <2>4 DEF Get
<1>4. ASSUME NEW p \in Requests, NEW r \in Requests, Using(p, l)', Using(r, l)'
      PROVE  p = r
  <2>1. CASE Using(p, l) /\ Using(r, l)
    BY <1>1, <2>1 DEF Single
  <2>2. CASE Get(p) /\ Get(r)
    BY <1>2, <2>2
  <2> QED
    BY <1>3, <1>4, <2>1, <2>2, UsingBefore
<1>5. ASSUME NEW q \in Pairs, NEW t \in Pairs, OnRecord(q, l)', OnRecord(t, l)'
      PROVE  q = t
  <2>1. CASE OnRecord(q, l) /\ OnRecord(t, l)
    BY <1>1, <2>1 DEF Single
  <2>2. ASSUME NEW p \in Requests, at[p] = "store", line[p] = l,
               at'[p] \in {"done", "failed"}, NEW k \in Pairs, OnRecord(k, l)'
        PROVE  k = p
    <3>1. CASE OnRecord(k, l)
      BY <1>1, <2>2, <3>1, StoringAlone
    <3>2. CASE k \in Requests /\ at[k] = "store" /\ at'[k] \in {"done", "failed"}
      <4>1. at'[p] # at[p] /\ at'[k] # at[k]
        BY <2>2, <3>2
      <4>2. ASSUME NEW r \in Requests, Step(r) PROVE k = p
        BY <4>1, <4>2, <3>2, StepFacts
      <4> QED
        BY <4>1, <4>2 DEF Next, SetStatus, Tick, vars
    <3> QED
      BY <2>2, <3>1, <3>2, OnRecordBefore
  <2> QED
    BY <1>5, <2>1, <2>2, OnRecordBefore
<1>6. ASSUME NEW p \in Requests, NEW q \in Pairs, Using(p, l)', OnRecord(q, l)'
      PROVE  token'[p] = q
  <2>1. token'[p] = token[p]
    BY <1>6, UsingBefore
  <2>2. CASE OnRecord(q, l)
    <3>1. CASE Using(p, l)
      BY <1>1, <2>1, <2>2, <3>1 DEF Single
    <3>2. CASE Get(p) /\ op[p] = "refresh" /\ Stored(token[p]) /\ line[token[p]] = l
      <4>1. token[p] \in Pairs /\ OnRecord(token[p], l)
        BY <3>2 DEF Basis, Places, OnRecord
      <4> QED
        BY <1>1, <2>1, <2>2, <4>1 DEF Single
    <3> QED
      BY <1>6, <3>1, <3>2, UsingBefore
  <2>3. CASE /\ q \in Requests /\ at[q] = "store" /\ line[q] = l
             /\ at'[q] \in {"done", "failed"}
    <3>1. at'[q] # at[q] /\ at'[q] \notin Issuing
      BY <2>3 DEF Issuing
    <3>2. p # q
      BY <1>6, <3>1 DEF Using
    <3>3. ~Get(p)
      BY <1>2, <2>3, <3>1, <3>2
    <3>4. Using(p, l)
      BY <1>6, <3>3, UsingBefore
    <3> QED
      BY <1>1, <2>3, <3>2, <3>4, StoringAlone
  <2> QED
    BY <1>6, <2>2, <2>3, OnRecordBefore
<1> QED
  BY <1>4, <1>5, <1>6

(* auth.service.ts:89, 125: in every order of refreshes, logouts, expiries  *)
(* and failures, at most one pair of a line can be used, or is going to be, *)
(* unless two refreshes of the line held the same token at once.            *)
THEOREM OneHeirEach == Spec => []OneHeir
<1>1. Init => Lineage /\ EndedOnRecord /\ Rotated /\ Rooted /\ Single
  <2> SUFFICES ASSUME Init PROVE Lineage /\ EndedOnRecord /\ Rotated /\ Rooted /\ Single
    OBVIOUS
  <2>1. /\ \A p \in Requests : at[p] = "idle" /\ op[p] = "none"
        /\ \A q \in Pairs : line[q] = q
    BY DEF Init
  <2>2. \A p \in Requests : ~Stored(p)
    <3> SUFFICES ASSUME NEW p \in Requests PROVE ~Stored(p)
      OBVIOUS
    <3>1. p \in Pairs /\ p # First
      BY PairsAssumption DEF Pairs
    <3>2. stored[p] = 0
      BY <3>1 DEF Init
    <3> QED
      BY <3>2 DEF Stored
  <2>3. Lineage /\ EndedOnRecord /\ Rotated /\ Rooted
    BY <2>1, <2>2 DEF Lineage, EndedOnRecord, Rotated, Rotating, Rooted
  <2>4. Single
    BY <2>1 DEF Single, Using, OnRecord
  <2> QED
    BY <2>3, <2>4
<1>2. Single /\ TypeOK /\ Places => OneHeir
  <2> SUFFICES ASSUME Single, TypeOK, Places, NEW l \in Pairs \ met,
                      NEW x \in Heirs(l), NEW y \in Heirs(l)
               PROVE  x = y
    BY DEF OneHeir
  <2>1. ASSUME NEW h \in Heirs(l)
        PROVE  \/ h \in Pairs /\ OnRecord(h, l)
               \/ h \in Requests /\ Using(h, l) /\ ~Stored(token[h])
    BY <2>1 DEF Heirs, OnRecord, Using
  <2>2. ASSUME NEW q \in Pairs, OnRecord(q, l), NEW p \in Requests, Using(p, l),
               ~Stored(token[p])
        PROVE  FALSE
    BY <2>2 DEF Single, OnRecord
  <2> QED
    BY <2>1, <2>2 DEF Single
<1>3. Basis => TypeOK /\ Places
  BY DEF Basis
<1> QED
  BY <1>1, <1>2, <1>3, AlwaysBasis, LineageStep, EndedOnRecordStep, RotatedStep, RootedStep,
     SingleStep, PTL DEF Spec
=============================================================================
