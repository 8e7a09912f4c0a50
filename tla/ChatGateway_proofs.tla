------------------------- MODULE ChatGateway_proofs -------------------------
(***************************************************************************)
(* Theorems about ChatGateway, for any pages, sockets and replicas and any *)
(* number of questions and crashes.                                        *)
(***************************************************************************)
EXTENDS ChatGateway, FiniteSetTheorems, TLAPS

Event == {"response", "error", "notification"}

(* Sending to a set of sockets only ever adds an event to a queue.          *)
LEMMA SentType ==
  ASSUME NEW e \in Event, NEW to, NEW sofar \in [Sockets -> Seq(Event)]
  PROVE  Sent(e, to, sofar) \in [Sockets -> Seq(Event)]
<1>1. \A s \in Sockets : sofar[s] \in Seq(Event) /\ Append(sofar[s], e) \in Seq(Event)
  OBVIOUS
<1> QED
  BY <1>1 DEF Sent

LEMMA CloseType ==
  ASSUME TypeOK, NEW gone, Close(gone)
  PROVE  /\ link' \in [Sockets -> {"unused", "connecting", "open", "closed"}]
         /\ events' \in [Sockets -> Seq(Event)]
BY DEF Close, TypeOK, Event

LEMMA ForsakeType ==
  ASSUME TypeOK, NEW gone, Forsake(gone) PROVE inVain' \in [Pages -> BOOLEAN]
<1>1. \A p \in Pages : (inVain[p] \/ (loading[p] /\ latest[p] \in gone)) \in BOOLEAN
  OBVIOUS
<1> QED
  BY <1>1, Zenon DEF Forsake

LEMMA TypeStep == TypeOK /\ [Next]_vars => TypeOK'
<1> SUFFICES ASSUME TypeOK, [Next]_vars PROVE TypeOK'
  OBVIOUS
<1> USE ChatAssumption
<1>1. ASSUME NEW p \in Pages, OpenPage(p) PROVE TypeOK'
  BY <1>1 DEF TypeOK, OpenPage, Connect, gateway, bounds
<1>2. ASSUME NEW p \in Pages, RerunEffect(p) PROVE TypeOK'
  <2>1. inVain' \in [Pages -> BOOLEAN]
    BY <1>2, ForsakeType DEF RerunEffect
  <2>2. latest[p] \in Sockets
    BY <1>2 DEF TypeOK, RerunEffect, Mounted
  <2>3. PICK s \in Sockets :
          /\ Connect(p, s)
          /\ owner' = [owner EXCEPT ![s] = p]
          /\ link' = [link EXCEPT ![s] = "connecting", ![latest[p]] = "closed"]
    BY <1>2 DEF RerunEffect
  <2>4. events' \in [Sockets -> Seq(Event)]
    BY <1>2, <2>2 DEF RerunEffect, TypeOK, Event
  <2>5. failing' \subseteq Sockets
    BY <1>2, <2>2 DEF RerunEffect, TypeOK
  <2> QED
    BY <1>2, <2>1, <2>2, <2>3, <2>4, <2>5
       DEF TypeOK, Event, RerunEffect, Connect, gateway, bounds
<1>3. ASSUME NEW p \in Pages, LeavePage(p) PROVE TypeOK'
  <2>1. /\ link' \in [Sockets -> {"unused", "connecting", "open", "closed"}]
        /\ events' \in [Sockets -> Seq(Event)]
    BY <1>3, CloseType DEF LeavePage
  <2> QED
    BY <1>3, <2>1 DEF TypeOK, Event, LeavePage, gateway, bounds
<1>4. ASSUME NEW p \in Pages, HandleSend(p) PROVE TypeOK'
  <2>1. asked' \in [Sockets -> Nat]
    <3>1. CASE UNCHANGED asked
      BY <3>1 DEF TypeOK
    <3>2. CASE ~UNCHANGED asked
      <4>1. /\ current[p] \in Sockets
            /\ asked' = [asked EXCEPT ![current[p]] = @ + 1]
        BY <1>4, <3>2 DEF TypeOK, HandleSend
      <4>2. asked[current[p]] + 1 \in Nat
        BY <4>1 DEF TypeOK
      <4> QED
        BY <4>1, <4>2 DEF TypeOK
    <3> QED
      BY <3>1, <3>2
  <2>2. inVain' \in [Pages -> BOOLEAN] /\ loading' \in [Pages -> BOOLEAN]
    BY <1>4 DEF TypeOK, HandleSend
  <2>3. questions' \in 0..MaxQuestions
    BY <1>4 DEF TypeOK, HandleSend
  <2> QED
    BY <1>4, <2>1, <2>2, <2>3 DEF TypeOK, HandleSend, browser, gateway
<1>5. ASSUME NEW s \in Sockets, OnMessage(s) PROVE TypeOK'
  <2>1. events' \in [Sockets -> Seq(Event)]
    <3>1. Tail(events[s]) \in Seq(Event)
      BY <1>5 DEF OnMessage, TypeOK, Event
    <3> QED
      BY <1>5, <3>1 DEF OnMessage, TypeOK, Event
  <2>2. loading' \in [Pages -> BOOLEAN] /\ inVain' \in [Pages -> BOOLEAN]
    BY <1>5 DEF OnMessage, TypeOK
  <2> QED
    BY <1>5, <2>1, <2>2 DEF TypeOK, Event, OnMessage, browser, gateway, bounds
<1>6. ASSUME NEW s \in Sockets, Break(s) \/ Unverified(s) PROVE TypeOK'
  <2>1. Close({s}) /\ Forsake({s})
    BY <1>6 DEF Break, Unverified
  <2>2. /\ link' \in [Sockets -> {"unused", "connecting", "open", "closed"}]
        /\ events' \in [Sockets -> Seq(Event)] /\ inVain' \in [Pages -> BOOLEAN]
    BY <2>1, CloseType, ForsakeType
  <2> QED
    BY <1>6, <2>2 DEF TypeOK, Event, Break, Unverified, gateway, bounds
<1>7. ASSUME NEW s \in Sockets, OnError(s) PROVE TypeOK'
  BY <1>7 DEF TypeOK, OnError, gateway, bounds
<1>8. ASSUME NEW s \in Sockets, HandleConnection(s) PROVE TypeOK'
  BY <1>8 DEF TypeOK, HandleConnection, pages, bounds
<1>9. ASSUME NEW s \in Sockets, Verified(s) PROVE TypeOK'
  BY <1>9 DEF TypeOK, Verified, pages, browser, bounds
<1>10. ASSUME NEW s \in Sockets, HandleDisconnect(s) PROVE TypeOK'
  BY <1>10 DEF TypeOK, HandleDisconnect, pages, browser, bounds
<1>11. ASSUME NEW s \in Sockets, HandleChat(s) PROVE TypeOK'
  <2>1. events' \in [Sockets -> Seq(Event)]
    BY <1>11, SentType DEF HandleChat, TypeOK, Event
  <2>2. asked[s] - 1 \in Nat /\ running[s] + 1 \in Nat
    BY <1>11 DEF HandleChat, TypeOK
  <2>3. asked' \in [Sockets -> Nat]
    BY <1>11, <2>2 DEF HandleChat, TypeOK
  <2>4. running' \in [Sockets -> Nat]
    BY <1>11, <2>2 DEF HandleChat, TypeOK
  <2> QED
    BY <1>11, <2>1, <2>3, <2>4 DEF TypeOK, Event, HandleChat, pages, browser, gateway, bounds
<1>12. ASSUME NEW s \in Sockets, RunEnds(s) PROVE TypeOK'
  <2>1. events' \in [Sockets -> Seq(Event)]
    <3>1. /\ Sent("response", {s}, events) \in [Sockets -> Seq(Event)]
          /\ Sent("error", {s}, events) \in [Sockets -> Seq(Event)]
      BY SentType DEF TypeOK, Event
    <3>2. Sent("notification", Neighbours(s), Sent("response", {s}, events))
            \in [Sockets -> Seq(Event)]
      BY <3>1, SentType DEF Event
    <3> QED
      BY <1>12, <3>1, <3>2 DEF RunEnds
  <2>2. running' \in [Sockets -> Nat]
    BY <1>12 DEF RunEnds, TypeOK
  <2> QED
    BY <1>12, <2>1, <2>2 DEF TypeOK, Event, RunEnds, pages, browser, gateway, bounds
<1>13. ASSUME NEW r \in Replicas, Crash(r) PROVE TypeOK'
  <2> DEFINE mine == { s \in Sockets : host[s] = r }
             cut  == { s \in mine : Live(s) }
  <2>1. Close(cut) /\ Forsake(cut)
    BY <1>13 DEF Crash
  <2>2. /\ link' \in [Sockets -> {"unused", "connecting", "open", "closed"}]
        /\ events' \in [Sockets -> Seq(Event)] /\ inVain' \in [Pages -> BOOLEAN]
    BY <2>1, CloseType, ForsakeType
  <2>3. asked' \in [Sockets -> Nat] /\ running' \in [Sockets -> Nat]
    BY <1>13 DEF Crash, TypeOK
  <2> QED
    BY <1>13, <2>2, <2>3 DEF TypeOK, Event, Crash
<1>14. CASE UNCHANGED vars
  BY <1>14 DEF TypeOK, vars, pages, browser, gateway, bounds
<1> QED
  BY <1>1, <1>2, <1>3, <1>4, <1>5, <1>6, <1>7, <1>8, <1>9, <1>10, <1>11, <1>12,
     <1>13, <1>14 DEF Next

(* Every variable keeps its type; in particular no count of messages or     *)
(* runs goes below zero.                                                    *)
THEOREM TypeCorrect == Spec => []TypeOK
<1>1. Init => TypeOK
  BY ChatAssumption DEF Init, TypeOK
<1> QED
  BY <1>1, TypeStep, PTL DEF Spec

----------------------------------------------------------------------------

(* The registry: a socket is late only after it has gone.                   *)
Registry ==
  /\ RegistryIsExact
  /\ late \subseteq down

LEMMA RegistryStep == Registry /\ [Next]_vars => Registry'
<1> SUFFICES ASSUME Registry, [Next]_vars PROVE Registry'
  OBVIOUS
<1> USE DEF Registry, RegistryIsExact
<1>1. ASSUME NEW p \in Pages,
             OpenPage(p) \/ RerunEffect(p) \/ LeavePage(p) \/ HandleSend(p)
      PROVE  Registry'
  BY <1>1 DEF OpenPage, RerunEffect, LeavePage, HandleSend, gateway
<1>2. ASSUME NEW s \in Sockets,
             \/ OnMessage(s) \/ Break(s) \/ OnError(s)
             \/ HandleConnection(s) \/ HandleChat(s) \/ RunEnds(s) \/ Unverified(s)
      PROVE  Registry'
  BY <1>2 DEF OnMessage, Break, OnError, HandleConnection, HandleChat, RunEnds,
              Unverified, gateway
<1>3. ASSUME NEW s \in Sockets, Verified(s) PROVE Registry'
  BY <1>3 DEF Verified
<1>4. ASSUME NEW s \in Sockets, HandleDisconnect(s) PROVE Registry'
  BY <1>4 DEF HandleDisconnect
<1>5. ASSUME NEW r \in Replicas, Crash(r) PROVE Registry'
  <2> DEFINE mine == { s \in Sockets : host[s] = r }
             used == { s \in mine : link[s] # "unused" }
  <2>1. /\ ready' = ready \ mine /\ clients' = clients \ mine /\ late' = late \ mine
        /\ down' = down \cup used /\ used \subseteq mine
    BY <1>5 DEF Crash
  <2> HIDE DEF mine, used
  <2> QED
    BY <2>1
<1>6. CASE UNCHANGED vars
  BY <1>6 DEF vars, gateway
<1> QED
  BY <1>1, <1>2, <1>3, <1>4, <1>5, <1>6 DEF Next

(* chat.gateway.ts:66, 76: whatever closes, breaks or crashes while tokens  *)
(* are being verified, the registry holds the live sockets and, besides,    *)
(* exactly those verified too late.                                         *)
THEOREM RegistryAlwaysExact == Spec => []RegistryIsExact
<1>1. Init => Registry
  BY DEF Init, Registry, RegistryIsExact
<1>2. Registry => RegistryIsExact
  BY DEF Registry
<1> QED
  BY <1>1, <1>2, RegistryStep, PTL DEF Spec

----------------------------------------------------------------------------

(* What the error events are about: a socket whose error has come or is to  *)
(* come is closed for good, and each page has lost hold of its socket only  *)
(* by that socket's own error or by that of another one it has had.         *)
ErrorsAreOfClosed == \A s \in failing \cup failed : link[s] = "closed"

Hold(p) ==
  Mounted(p) /\ current[p] # latest[p] =>
    \/ link[latest[p]] = "closed"
    \/ \E s \in failed : s # latest[p] /\ owner[s] = p

Holds == \A p \in Pages : Hold(p)

Inv == ErrorsAreOfClosed /\ Holds

(* Steps that leave the pages' references and the owners alone, and by      *)
(* which no socket that was closed comes back.                              *)
LEMMA HoldsQuietly ==
  ASSUME TypeOK, Inv, UNCHANGED << latest, current, owner, failed >>,
         link' \in [Sockets -> {"unused", "connecting", "open", "closed"}],
         \A s \in Sockets : link[s] = "closed" => link'[s] = "closed",
         failing' \subseteq Sockets,
         \A s \in failing' \ failing : link'[s] = "closed"
  PROVE  Inv'
BY ChatAssumption DEF Inv, TypeOK, ErrorsAreOfClosed, Holds, Hold, Mounted

LEMMA InvStep == TypeOK /\ Inv /\ [Next]_vars => Inv'
<1> SUFFICES ASSUME TypeOK, Inv, [Next]_vars PROVE Inv'
  OBVIOUS
<1> USE ChatAssumption
<1>1. ASSUME NEW p \in Pages, OpenPage(p) PROVE Inv'
  <2>1. PICK s \in Sockets : /\ link[s] = "unused"
                             /\ latest' = [latest EXCEPT ![p] = s]
                             /\ current' = [current EXCEPT ![p] = s]
                             /\ owner' = [owner EXCEPT ![s] = p]
                             /\ link' = [link EXCEPT ![s] = "connecting"]
    BY <1>1 DEF OpenPage, Connect
  <2>2. UNCHANGED << failing, failed >>
    BY <1>1 DEF OpenPage
  <2>3. ErrorsAreOfClosed'
    BY <2>1, <2>2 DEF Inv, TypeOK, ErrorsAreOfClosed
  <2>4. ASSUME NEW q \in Pages PROVE Hold(q)'
    BY <2>1, <2>2 DEF Inv, TypeOK, ErrorsAreOfClosed, Holds, Hold, Mounted
  <2> QED
    BY <2>3, <2>4 DEF Inv, Holds
<1>2. ASSUME NEW p \in Pages, RerunEffect(p) PROVE Inv'
  <2>1. PICK s \in Sockets :
          /\ link[s] = "unused"
          /\ latest' = [latest EXCEPT ![p] = s]
          /\ current' = [current EXCEPT ![p] = s]
          /\ owner' = [owner EXCEPT ![s] = p]
          /\ link' = [link EXCEPT ![s] = "connecting", ![latest[p]] = "closed"]
    BY <1>2 DEF RerunEffect, Connect
  <2>2. /\ failing' \subseteq failing \cup {latest[p]} /\ failed' = failed
        /\ latest[p] \in Sockets
    BY <1>2 DEF RerunEffect, Mounted, Inv, TypeOK
  <2>3. ErrorsAreOfClosed'
    BY <2>1, <2>2 DEF Inv, TypeOK, ErrorsAreOfClosed
  <2>4. ASSUME NEW q \in Pages PROVE Hold(q)'
    <3>1. CASE q = p
      BY <2>1, <3>1 DEF TypeOK, Hold
    <3>2. CASE q # p
      <4>1. latest'[q] = latest[q] /\ current'[q] = current[q]
        BY <2>1, <3>2 DEF TypeOK
      <4>2. \A t \in failed : t \in Sockets /\ owner'[t] = owner[t]
        BY <2>1 DEF TypeOK, Inv, ErrorsAreOfClosed
      <4>3. Mounted(q) => latest[q] \in Sockets
        BY DEF TypeOK, Mounted
      <4>4. \A t \in Sockets : link[t] = "closed" => link'[t] = "closed"
        BY <2>1, <2>2 DEF TypeOK
      <4> QED
        BY <2>2, <4>1, <4>2, <4>3, <4>4 DEF Inv, Holds, Hold, Mounted
    <3> QED
      BY <3>1, <3>2
  <2> QED
    BY <2>3, <2>4 DEF Inv, Holds
<1>3. ASSUME NEW p \in Pages, LeavePage(p) PROVE Inv'
  <2>1. /\ link' = [s \in Sockets |-> IF s \in {latest[p]} THEN "closed" ELSE link[s]]
        /\ owner' = [s \in Sockets |-> IF owner[s] = p THEN NoPage ELSE owner[s]]
        /\ latest' = [latest EXCEPT ![p] = NoSocket]
        /\ current' = [current EXCEPT ![p] = NoSocket]
        /\ UNCHANGED << failing, failed >>
    BY <1>3 DEF LeavePage, Close
  <2>2. ErrorsAreOfClosed'
    BY <2>1 DEF Inv, TypeOK, ErrorsAreOfClosed
  <2>3. ASSUME NEW q \in Pages PROVE Hold(q)'
    BY <2>1 DEF Inv, TypeOK, ErrorsAreOfClosed, Holds, Hold, Mounted
  <2> QED
    BY <2>2, <2>3 DEF Inv, Holds
<1>4. ASSUME NEW p \in Pages, HandleSend(p) PROVE Inv'
  BY <1>4, HoldsQuietly DEF HandleSend, browser, Inv, TypeOK
<1>5. ASSUME NEW s \in Sockets, OnMessage(s) \/ HandleChat(s) \/ RunEnds(s)
                                  \/ Verified(s) \/ HandleDisconnect(s)
      PROVE  Inv'
  <2>1. UNCHANGED << latest, current, browser >>
    BY <1>5 DEF OnMessage, HandleChat, RunEnds, Verified, HandleDisconnect, pages
  <2> QED
    BY <2>1, HoldsQuietly DEF browser, Inv, TypeOK
<1>6. ASSUME NEW s \in Sockets, Break(s) \/ Unverified(s) PROVE Inv'
  <2>1. link' = [t \in Sockets |-> IF t \in {s} THEN "closed" ELSE link[t]]
    BY <1>6 DEF Break, Unverified, Close
  <2>2. /\ UNCHANGED << latest, current, owner, failed >>
        /\ failing' \subseteq failing \cup {s}
    BY <1>6 DEF Break, Unverified
  <2> QED
    BY <2>1, <2>2, HoldsQuietly DEF Inv, TypeOK
<1>7. ASSUME NEW s \in Sockets, OnError(s) PROVE Inv'
  <2>1. /\ s \in failing /\ failing' = failing \ {s} /\ failed' = failed \cup {s}
        /\ UNCHANGED << latest, owner, link >>
        /\ current' = IF owner[s] = NoPage THEN current
                      ELSE [current EXCEPT ![owner[s]] = NoSocket]
    BY <1>7 DEF OnError
  <2>2. ErrorsAreOfClosed'
    BY <2>1 DEF Inv, TypeOK, ErrorsAreOfClosed
  <2>3. ASSUME NEW q \in Pages PROVE Hold(q)'
    <3>1. CASE owner[s] = q
      <4>1. CASE s = latest[q]
        BY <2>1, <4>1 DEF Inv, ErrorsAreOfClosed, Hold
      <4>2. CASE s # latest[q]
        BY <2>1, <3>1, <4>2 DEF Hold
      <4> QED
        BY <4>1, <4>2
    <3>2. CASE owner[s] # q
      <4>1. current'[q] = current[q]
        BY <2>1, <3>2 DEF Inv, TypeOK
      <4> QED
        BY <2>1, <4>1 DEF Inv, Holds, Hold, Mounted
    <3> QED
      BY <3>1, <3>2
  <2> QED
    BY <2>2, <2>3 DEF Inv, Holds
<1>8. ASSUME NEW s \in Sockets, HandleConnection(s) PROVE Inv'
  <2>1. link[s] = "connecting" /\ link' = [link EXCEPT ![s] = "open"]
        /\ UNCHANGED << pages, owner, failing, failed >>
    BY <1>8 DEF HandleConnection
  <2> QED
    BY <2>1, HoldsQuietly DEF pages, Inv, TypeOK
<1>9. ASSUME NEW r \in Replicas, Crash(r) PROVE Inv'
  <2> DEFINE cut == { s \in { t \in Sockets : host[t] = r } : Live(s) }
  <2>1. /\ link' = [s \in Sockets |-> IF s \in cut THEN "closed" ELSE link[s]]
        /\ failing' = failing \cup cut /\ cut \subseteq Sockets
        /\ UNCHANGED << latest, current, owner, failed >>
    BY <1>9 DEF Crash, Close
  <2> HIDE DEF cut
  <2> QED
    BY <2>1, HoldsQuietly DEF Inv, TypeOK
<1>10. CASE UNCHANGED vars
  BY <1>10, HoldsQuietly DEF vars, pages, browser, Inv, TypeOK
<1> QED
  BY <1>1, <1>2, <1>3, <1>4, <1>5, <1>6, <1>7, <1>8, <1>9, <1>10 DEF Next

(* useWebSocket.ts:34-36: a page with an open socket has lost hold of it    *)
(* only by the error of a socket it had before.                             *)
THEOREM MuteOnlyByAnOldError == Spec => []MuteByAnOldError
<1>1. Init => Inv
  BY ChatAssumption DEF Init, Inv, ErrorsAreOfClosed, Holds, Hold, Mounted
<1>2. Inv => MuteByAnOldError
  BY DEF Inv, Holds, Hold, MuteByAnOldError, Open
<1> QED
  BY <1>1, <1>2, TypeCorrect, InvStep, PTL DEF Spec

----------------------------------------------------------------------------

(* How many answers a queue holds, and what sending and receiving do to it. *)
Count(queue) == Cardinality(Answers(queue))

LEMMA CountType ==
  ASSUME NEW q \in Seq(Event) PROVE IsFiniteSet(Answers(q)) /\ Count(q) \in Nat
<1>1. Answers(q) \subseteq 1..Len(q)
  BY DEF Answers
<1>2. IsFiniteSet(1..Len(q))
  BY FS_Interval
<1> QED
  BY <1>1, <1>2, FS_Subset, FS_CardinalityType DEF Count

LEMMA CountEmpty == Count(<< >>) = 0
<1>1. Answers(<< >>) = {}
  BY DEF Answers
<1> QED
  BY <1>1, FS_EmptySet DEF Count

LEMMA CountAppend ==
  ASSUME NEW q \in Seq(Event), NEW e \in Event
  PROVE  Count(Append(q, e)) = Count(q) + IF e \in {"response", "error"} THEN 1 ELSE 0
<1> DEFINE n == Len(q) + 1
<1>1. n \notin Answers(q)
  BY DEF Answers
<1>2. CASE e \in {"response", "error"}
  <2>1. Answers(Append(q, e)) = Answers(q) \cup {n}
    BY <1>2 DEF Answers
  <2> QED
    BY <1>1, <1>2, <2>1, CountType, FS_AddElement DEF Count
<1>3. CASE e \notin {"response", "error"}
  <2>1. Answers(Append(q, e)) = Answers(q)
    BY <1>3 DEF Answers
  <2> QED
    BY <1>3, <2>1, CountType DEF Count
<1> QED
  BY <1>2, <1>3

LEMMA CountTail ==
  ASSUME NEW q \in Seq(Event), q # << >>
  PROVE  Count(q) = Count(Tail(q)) + IF Head(q) \in {"response", "error"} THEN 1 ELSE 0
<1> DEFINE rest == Answers(q) \ {1}
           shift == [n \in Answers(Tail(q)) |-> n + 1]
<1>1. Tail(q) \in Seq(Event) /\ Len(Tail(q)) = Len(q) - 1
      /\ \A n \in 1..Len(q) - 1 : Tail(q)[n] = q[n + 1]
  OBVIOUS
<1>2. shift \in Bijection(Answers(Tail(q)), rest)
  <2>1. \A n \in Answers(Tail(q)) : n + 1 \in rest
    BY <1>1 DEF Answers
  <2>2. \A m \in rest : m - 1 \in Answers(Tail(q)) /\ m = (m - 1) + 1
    BY <1>1 DEF Answers
  <2>3. \A n, m \in Answers(Tail(q)) : n + 1 = m + 1 => n = m
    BY <1>1 DEF Answers
  <2> DEFINE from == Answers(Tail(q))
  <2>4. /\ shift \in [from -> rest]
        /\ \A n \in from : shift[n] = n + 1
    BY <2>1
  <2>5. \A m \in rest : \E n \in from : n + 1 = m
    BY <2>2
  <2> HIDE DEF shift, from, rest
  <2>6. shift \in Injection(from, rest)
    BY <2>3, <2>4 DEF Injection, IsInjective, from
  <2>7. shift \in Surjection(from, rest)
    BY <2>4, <2>5 DEF Surjection
  <2> QED
    BY <2>6, <2>7 DEF Bijection, from
<1>3. IsFiniteSet(rest) /\ Cardinality(rest) = Count(Tail(q))
  BY <1>1, <1>2, CountType, FS_Bijection DEF Count, ExistsBijection
<1>4. 1 \in Answers(q) <=> Head(q) \in {"response", "error"}
  BY DEF Answers
<1>5. CASE 1 \in Answers(q)
  BY <1>3, <1>4, <1>5, CountType, FS_RemoveElement DEF Count
<1>6. CASE 1 \notin Answers(q)
  <2>1. rest = Answers(q)
    BY <1>6
  <2> HIDE DEF rest
  <2>2. Count(q) = Count(Tail(q))
    BY <1>3, <2>1 DEF Count
  <2>3. Count(Tail(q)) \in Nat
    BY <1>1, CountType
  <2> QED
    BY <1>4, <1>6, <2>2, <2>3
<1> QED
  BY <1>5, <1>6

(* Only an open socket gets an answer that is sent to it.                   *)
LEMMA CountSent ==
  ASSUME NEW e \in Event, NEW to, NEW sofar \in [Sockets -> Seq(Event)], NEW s \in Sockets
  PROVE  Count(Sent(e, to, sofar)[s]) =
           Count(sofar[s])
             + IF s \in to /\ Open(s) /\ e \in {"response", "error"} THEN 1 ELSE 0
BY CountAppend, CountType DEF Sent

LEMMA NoticeSent ==
  ASSUME NEW to, NEW sofar \in [Sockets -> Seq(Event)], NEW s \in Sockets
  PROVE  Count(Sent("notification", to, sofar)[s]) = Count(sofar[s])
<1>1. "notification" \in Event /\ "notification" \notin {"response", "error"}
  BY DEF Event
<1>2. Count(Sent("notification", to, sofar)[s]) = Count(sofar[s]) + 0
  BY <1>1, CountSent
<1>3. Count(sofar[s]) \in Nat
  BY CountType
<1> QED
  BY <1>2, <1>3

----------------------------------------------------------------------------

(* Whose a socket is: a page's latest socket is its own, every socket that  *)
(* lives is the latest of its page, and a page holds that one or none.      *)
Owned ==
  /\ \A p \in Pages : Mounted(p) => owner[latest[p]] = p /\ link[latest[p]] # "unused"
  /\ \A s \in Sockets : Live(s) => owner[s] # NoPage /\ latest[owner[s]] = s
  /\ \A p \in Pages : current[p] \in {NoSocket, latest[p]}

(* What the steps that leave pages alone do to sockets.                     *)
Aging ==
  \A s \in Sockets :
    /\ link[s] = "closed" => link'[s] = "closed"
    /\ link'[s] \in {"unused", "connecting"} => link'[s] = link[s]
    /\ link'[s] = "open" => Live(s)

LEMMA OwnedQuietly ==
  ASSUME TypeOK, Owned, UNCHANGED << latest, current, owner >>, Aging PROVE Owned'
BY DEF Owned, TypeOK, Mounted, Live, Aging

LEMMA AgingSteps ==
  ASSUME TypeOK,
         \/ UNCHANGED link
         \/ \E gone : Close(gone)
         \/ \E s \in Sockets : link[s] = "connecting" /\ link' = [link EXCEPT ![s] = "open"]
  PROVE  Aging
BY DEF TypeOK, Aging, Live, Close

LEMMA OwnedStep == TypeOK /\ Owned /\ [Next]_vars => Owned'
<1> SUFFICES ASSUME TypeOK, Owned, [Next]_vars PROVE Owned'
  OBVIOUS
<1> USE ChatAssumption
<1>1. ASSUME NEW p \in Pages, OpenPage(p) PROVE Owned'
  BY <1>1 DEF OpenPage, Connect, Owned, Mounted, Live, TypeOK
<1>2. ASSUME NEW p \in Pages, RerunEffect(p) PROVE Owned'
  BY <1>2 DEF RerunEffect, Connect, Owned, Mounted, Live, TypeOK
<1>3. ASSUME NEW p \in Pages, LeavePage(p) PROVE Owned'
  BY <1>3 DEF LeavePage, Close, Owned, Mounted, Live, TypeOK
<1>4. ASSUME NEW s \in Sockets, OnError(s) PROVE Owned'
  BY <1>4 DEF OnError, Owned, Mounted, Live, TypeOK
<1>5. ASSUME NEW s \in Sockets, HandleConnection(s) PROVE Owned'
  BY <1>5, OwnedQuietly, AgingSteps DEF HandleConnection, pages
<1>6. ASSUME NEW s \in Sockets, Break(s) \/ Unverified(s) PROVE Owned'
  BY <1>6, OwnedQuietly, AgingSteps DEF Break, Unverified
<1>7. ASSUME NEW r \in Replicas, Crash(r) PROVE Owned'
  BY <1>7, OwnedQuietly, AgingSteps DEF Crash
<1>8. ASSUME NEW p \in Pages, HandleSend(p) PROVE Owned'
  BY <1>8, OwnedQuietly, AgingSteps DEF HandleSend, browser
<1>9. ASSUME NEW s \in Sockets, OnMessage(s) \/ HandleChat(s) \/ RunEnds(s)
                                  \/ Verified(s) \/ HandleDisconnect(s)
      PROVE  Owned'
  BY <1>9, OwnedQuietly, AgingSteps
     DEF OnMessage, HandleChat, RunEnds, Verified, HandleDisconnect, pages, browser
<1>10. CASE UNCHANGED vars
  BY <1>10, OwnedQuietly, AgingSteps DEF vars, pages, browser
<1> QED
  BY <1>1, <1>2, <1>3, <1>4, <1>5, <1>6, <1>7, <1>8, <1>9, <1>10 DEF Next

----------------------------------------------------------------------------

(* WaitsForAnAnswer is not inductive.  Besides it takes: nothing is under   *)
(* way on a socket that never opened; a question goes in vain only while    *)
(* its page waits, and has if its socket closed; and a socket that is open  *)
(* to a page that waits in vain has nothing under way that would end that.  *)
Fresh == \A s \in Sockets : link[s] \in {"unused", "connecting"} => Outstanding(s) = 0

Waiting ==
  \A p \in Pages :
    /\ inVain[p] => loading[p]
    /\ loading[p] => Mounted(p)
    /\ loading[p] /\ link[latest[p]] = "closed" => inVain[p]
    /\ inVain[p] /\ link[latest[p]] # "closed" => Outstanding(latest[p]) = 0

Asking == Fresh /\ Waiting /\ OneQuestionPerSocket /\ WaitsForAnAnswer

Counted == \A s \in Sockets : Outstanding(s) \in Nat

LEMMA CountedType == TypeOK => Counted
BY CountType DEF TypeOK, Counted, Outstanding, Count, Event

LEMMA CountedTypeNext == TypeOK' => Counted'
BY CountedType, PTL

(* Steps by which nothing is asked or answered: a socket keeps what is      *)
(* under way unless it is closed by now, and a page's question goes in vain *)
(* when its socket closes.                                                  *)
LEMMA AskingQuietly ==
  ASSUME TypeOK, TypeOK', Asking, Aging, UNCHANGED << latest, loading >>,
         \A s \in Sockets :
           \/ Outstanding(s)' = Outstanding(s)
           \/ link'[s] = "closed" /\ Outstanding(s)' <= Outstanding(s),
         \A p \in Pages :
           inVain'[p] <=> inVain[p] \/ (loading[p] /\ link'[latest[p]] = "closed")
  PROVE  Asking'
<1>1. Counted /\ Counted'
  BY CountedType, CountedTypeNext
<1>2. \A p \in Pages : latest[p] \in Sockets <=> Mounted(p)
  BY ChatAssumption DEF TypeOK, Mounted
<1>3. \A p \in Pages : Mounted(p)' <=> Mounted(p)
  BY DEF Mounted
<1>4. Fresh'
  BY <1>1 DEF Asking, Fresh, Aging
<1>5. OneQuestionPerSocket'
  BY <1>1 DEF Asking, OneQuestionPerSocket, Counted
<1>6. ASSUME NEW p \in Pages
      PROVE  /\ inVain'[p] => loading'[p]
             /\ loading'[p] => Mounted(p)'
             /\ loading'[p] /\ link'[latest'[p]] = "closed" => inVain'[p]
             /\ inVain'[p] /\ link'[latest'[p]] # "closed" => Outstanding(latest[p])' = 0
  BY <1>1, <1>2, <1>3 DEF Asking, Waiting, Aging
<1>7. ASSUME NEW p \in Pages, Mounted(p)', ~inVain'[p]
      PROVE  Outstanding(latest[p])' = IF loading'[p] THEN 1 ELSE 0
  <2>1. /\ latest[p] \in Sockets /\ ~inVain[p]
        /\ Outstanding(latest[p]) = IF loading[p] THEN 1 ELSE 0
    BY <1>2, <1>3, <1>7 DEF Asking, WaitsForAnAnswer
  <2>2. loading[p] => link'[latest[p]] # "closed"
    BY <1>7
  <2> QED
    BY <1>1, <2>1, <2>2 DEF Counted
<1>8. Waiting'
  BY <1>6 DEF Waiting
<1>9. WaitsForAnAnswer'
  BY <1>7 DEF WaitsForAnAnswer
<1> QED
  BY <1>4, <1>5, <1>8, <1>9 DEF Asking

LEMMA OutstandingParts ==
  \A s \in Sockets :
    /\ Outstanding(s) = asked[s] + running[s] + Count(events[s])
    /\ Outstanding(s)' = asked'[s] + running'[s] + Count(events'[s])
BY DEF Outstanding, Count

(* What is under way when sockets close, and their gateway may have died.   *)
LEMMA OutstandingClosed ==
  ASSUME TypeOK, NEW gone, Close(gone), NEW s \in Sockets,
         \/ asked'[s] = asked[s] /\ running'[s] = running[s]
         \/ asked'[s] = 0 /\ running'[s] = 0 /\ link'[s] \in {"closed", "unused"},
         link[s] = "unused" => Outstanding(s) = 0, Counted
  PROVE  \/ Outstanding(s)' = Outstanding(s)
         \/ link'[s] = "closed" /\ Outstanding(s)' <= Outstanding(s)
<1>1. events[s] \in Seq(Event) /\ asked[s] \in Nat /\ running[s] \in Nat
  BY DEF TypeOK, Event
<1>2. Count(events[s]) \in Nat
  BY <1>1, CountType
<1>3. CASE s \in gone
  <2>1. link'[s] = "closed" /\ events'[s] = << >>
    BY <1>3 DEF Close
  <2>2. Count(events'[s]) = 0
    BY <2>1, CountEmpty
  <2> QED
    BY <1>1, <1>2, <2>1, <2>2, OutstandingParts
<1>4. CASE s \notin gone
  <2>1. link'[s] = link[s] /\ events'[s] = events[s]
    BY <1>4 DEF Close
  <2>2. /\ Outstanding(s) = asked[s] + running[s] + Count(events[s])
        /\ Outstanding(s)' = asked'[s] + running'[s] + Count(events[s])
    BY <2>1, OutstandingParts
  <2>3. CASE asked'[s] = asked[s] /\ running'[s] = running[s]
    BY <2>2, <2>3
  <2>4. CASE asked'[s] = 0 /\ running'[s] = 0 /\ link[s] \in {"closed", "unused"}
    BY <1>1, <1>2, <2>1, <2>2, <2>4
  <2> QED
    BY <2>1, <2>3, <2>4
<1> QED
  BY <1>3, <1>4

(* Steps between the handlers of the pages keep what is under way: a        *)
(* message becomes a run or an error, a run an answer; only a socket that   *)
(* has closed loses any of it.                                              *)
LEMMA OutstandingKept ==
  ASSUME TypeOK, TypeOK', Fresh, NEW s \in Sockets,
         \/ OnError(s) \/ Verified(s) \/ HandleDisconnect(s) \/ HandleChat(s) \/ RunEnds(s)
  PROVE  /\ UNCHANGED << latest, loading, inVain, link >>
         /\ \A t \in Sockets : \/ Outstanding(t)' = Outstanding(t)
                               \/ link[t] = "closed" /\ Outstanding(t)' <= Outstanding(t)
<1>0. /\ Counted /\ Counted'
      /\ \A t \in Sockets : /\ asked[t] \in Nat /\ running[t] \in Nat
                            /\ events[t] \in Seq(Event) /\ Count(events[t]) \in Nat
  BY CountedType, CountedTypeNext, CountType DEF TypeOK, Event
<1>a. UNCHANGED << latest, loading, inVain, link >>
  BY DEF OnError, Verified, HandleDisconnect, HandleChat, RunEnds, pages, browser
<1> SUFFICES ASSUME NEW t \in Sockets
             PROVE  \/ Outstanding(t)' = Outstanding(t)
                    \/ link[t] = "closed" /\ Outstanding(t)' <= Outstanding(t)
  BY <1>a
<1>1. CASE OnError(s) \/ Verified(s)
  BY <1>1 DEF OnError, Verified, Outstanding, pages, browser
<1>2. CASE HandleDisconnect(s)
  <2>1. /\ UNCHANGED << running, events >> /\ link[s] = "closed"
        /\ asked'[t] = IF t = s THEN 0 ELSE asked[t]
    BY <1>2 DEF HandleDisconnect, pages, browser, TypeOK
  <2> QED
    BY <1>0, <2>1, OutstandingParts
<1>3. ASSUME Outstanding(s) > 0, ~Open(s) PROVE link[s] = "closed"
  <2>1. Outstanding(s) # 0
    BY <1>3
  <2>2. link[s] \notin {"unused", "connecting"}
    BY <2>1 DEF Fresh
  <2> QED
    BY <1>3, <2>2 DEF Open, TypeOK
<1>4. CASE HandleChat(s)
  <2>1. asked[s] > 0 /\ asked'[t] = IF t = s THEN asked[t] - 1 ELSE asked[t]
    BY <1>4 DEF HandleChat, pages, browser, TypeOK
  <2>2. CASE s \in ready
    <3>1. /\ UNCHANGED events
          /\ running'[t] = IF t = s THEN running[t] + 1 ELSE running[t]
      BY <1>4, <2>2 DEF HandleChat, TypeOK
    <3> QED
      BY <1>0, <2>1, <3>1, OutstandingParts
  <2>3. CASE s \notin ready
    <3>1. UNCHANGED running /\ events' = Sent("error", {s}, events)
      BY <1>4, <2>3 DEF HandleChat
    <3>2. Count(events'[t]) = Count(events[t]) + IF t = s /\ Open(s) THEN 1 ELSE 0
      <4>1. events \in [Sockets -> Seq(Event)] /\ "error" \in Event
        BY DEF TypeOK, Event
      <4>2. Count(Sent("error", {s}, events)[t]) = Count(events[t])
              + IF t \in {s} /\ Open(t) /\ "error" \in {"response", "error"} THEN 1 ELSE 0
        BY <4>1, CountSent
      <4> QED
        BY <3>1, <4>2
    <3>3. Outstanding(s) > 0
      BY <1>0, <2>1, OutstandingParts
    <3>4. \/ Outstanding(t)' = Outstanding(t)
          \/ t = s /\ ~Open(s) /\ Outstanding(t)' <= Outstanding(t)
      <4>1. /\ Outstanding(t) = asked[t] + running[t] + Count(events[t])
            /\ Outstanding(t)' = asked'[t] + running[t] + Count(events'[t])
        BY <3>1, OutstandingParts
      <4> QED
        BY <1>0, <2>1, <3>2, <4>1
    <3> QED
      BY <1>3, <3>3, <3>4
  <2> QED
    BY <2>2, <2>3
<1>5. CASE RunEnds(s)
  <2>1. /\ UNCHANGED asked /\ running[s] > 0
        /\ running'[t] = IF t = s THEN running[t] - 1 ELSE running[t]
    BY <1>5 DEF RunEnds, pages, browser, TypeOK
  <2>2. Count(events'[t]) = Count(events[t]) + IF t = s /\ Open(s) THEN 1 ELSE 0
    <3>1. events \in [Sockets -> Seq(Event)]
      BY DEF TypeOK, Event
    <3>2. Sent("response", {s}, events) \in [Sockets -> Seq(Event)]
      BY <3>1, SentType DEF Event
    <3>3. ASSUME NEW e \in {"response", "error"}
          PROVE  Count(Sent(e, {s}, events)[t])
                   = Count(events[t]) + IF t = s /\ Open(s) THEN 1 ELSE 0
      <4>1. e \in Event
        BY DEF Event
      <4>2. Count(Sent(e, {s}, events)[t]) = Count(events[t])
              + IF t \in {s} /\ Open(t) /\ e \in {"response", "error"} THEN 1 ELSE 0
        BY <3>1, <4>1, CountSent
      <4> QED
        BY <4>2
    <3>4. Count(Sent("notification", Neighbours(s), Sent("response", {s}, events))[t])
            = Count(Sent("response", {s}, events)[t])
      BY <3>2, NoticeSent
    <3>5. Count(Sent("response", {s}, events)[t]) \in Nat
      BY <3>2, CountType
    <3> QED
      BY <1>5, <3>3, <3>4, <3>5 DEF RunEnds
  <2>3. Outstanding(s) > 0
    BY <1>0, <2>1, OutstandingParts
  <2>4. \/ Outstanding(t)' = Outstanding(t)
        \/ t = s /\ ~Open(s) /\ Outstanding(t)' <= Outstanding(t)
    <3>1. /\ Outstanding(t) = asked[t] + running[t] + Count(events[t])
          /\ Outstanding(t)' = asked[t] + running'[t] + Count(events'[t])
      BY <2>1, OutstandingParts
    <3> QED
      BY <1>0, <2>1, <2>2, <3>1
  <2> QED
    BY <1>3, <2>3, <2>4
<1> QED
  BY <1>1, <1>2, <1>4, <1>5

(* Only an answer that arrives takes away from what is under way.           *)
LEMMA AnswerTaken ==
  ASSUME TypeOK, NEW s \in Sockets, OnMessage(s), NEW t \in Sockets
  PROVE  Outstanding(t)' = IF t = s /\ EndsWaiting(Head(events[s]))
                             THEN Outstanding(t) - 1 ELSE Outstanding(t)
<1> DEFINE ends == EndsWaiting(Head(events[s]))
<1>0. /\ asked[t] \in Nat /\ running[t] \in Nat
      /\ events[s] \in Seq(Event) /\ Count(events[t]) \in Nat
  BY CountType DEF TypeOK, Event
<1>1. /\ events[s] # << >> /\ events' = [events EXCEPT ![s] = Tail(@)]
      /\ UNCHANGED << asked, running >>
  BY DEF OnMessage
<1>2. Count(events[s]) = Count(Tail(events[s])) + IF ends THEN 1 ELSE 0
  BY <1>0, <1>1, CountTail DEF EndsWaiting
<1>3. Tail(events[s]) \in Seq(Event)
  BY <1>0, <1>1
<1>4. Count(Tail(events[s])) \in Nat
  BY <1>3, CountType
<1>5. events'[t] = IF t = s THEN Tail(events[s]) ELSE events[t]
  BY <1>1 DEF TypeOK
<1>6. /\ Outstanding(t) = asked[t] + running[t] + Count(events[t])
      /\ Outstanding(t)' = asked[t] + running[t] + Count(events'[t])
  BY <1>1, OutstandingParts
<1> HIDE DEF ends
<1>7. Outstanding(t)' = IF t = s /\ ends THEN Outstanding(t) - 1 ELSE Outstanding(t)
  <2>1. CASE t = s
    BY <1>0, <1>2, <1>4, <1>5, <1>6, <2>1
  <2>2. CASE t # s
    BY <1>5, <1>6, <2>2
  <2> QED
    BY <2>1, <2>2
<1> QED
  BY <1>7 DEF ends

(* However sockets close without their pages, some of them close at both    *)
(* ends at once and nothing else happens to what is under way.              *)
LEMMA CutsOff ==
  ASSUME TypeOK,
         \/ \E s \in Sockets : Break(s) \/ Unverified(s)
         \/ \E r \in Replicas : Crash(r)
  PROVE  /\ UNCHANGED << latest, loading >>
         /\ \E gone \in SUBSET Sockets : Close(gone) /\ Forsake(gone)
         /\ \A s \in Sockets :
              \/ asked'[s] = asked[s] /\ running'[s] = running[s]
              \/ asked'[s] = 0 /\ running'[s] = 0 /\ link'[s] \in {"closed", "unused"}
<1>1. CASE \E s \in Sockets : Break(s) \/ Unverified(s)
  BY <1>1 DEF Break, Unverified
<1>2. ASSUME NEW r \in Replicas, Crash(r)
      PROVE  /\ UNCHANGED << latest, loading >>
             /\ \E gone \in SUBSET Sockets : Close(gone) /\ Forsake(gone)
             /\ \A s \in Sockets :
                  \/ asked'[s] = asked[s] /\ running'[s] = running[s]
                  \/ asked'[s] = 0 /\ running'[s] = 0 /\ link'[s] \in {"closed", "unused"}
  <2> DEFINE mine == { s \in Sockets : host[s] = r }
             cut  == { s \in mine : Live(s) }
  <2>1. /\ Close(cut) /\ Forsake(cut) /\ UNCHANGED << latest, loading >>
        /\ asked' = [s \in Sockets |-> IF s \in mine THEN 0 ELSE asked[s]]
        /\ running' = [s \in Sockets |-> IF s \in mine THEN 0 ELSE running[s]]
    BY <1>2 DEF Crash
  <2>2. ASSUME NEW s \in mine PROVE link'[s] \in {"closed", "unused"}
    BY <2>1 DEF Close, Live, TypeOK
  <2>3. cut \in SUBSET Sockets
    OBVIOUS
  <2> HIDE DEF cut
  <2> QED
    BY <2>1, <2>2, <2>3
<1> QED
  BY <1>1, <1>2

LEMMA AskingStep == TypeOK /\ TypeOK' /\ Owned /\ Asking /\ [Next]_vars => Asking'
<1> SUFFICES ASSUME TypeOK, TypeOK', Owned, Asking, [Next]_vars PROVE Asking'
  OBVIOUS
<1> USE ChatAssumption
<1>0. /\ Counted /\ Counted'
      /\ \A s \in Sockets : /\ asked[s] \in Nat /\ running[s] \in Nat
                            /\ events[s] \in Seq(Event) /\ Count(events[s]) \in Nat
      /\ \A p \in Pages : latest[p] \in Sockets <=> Mounted(p)
  BY CountedType, CountedTypeNext, CountType DEF TypeOK, Event, Mounted
<1>1. ASSUME NEW p \in Pages, OpenPage(p) PROVE Asking'
  <2>1. PICK s \in Sockets : /\ link[s] = "unused"
                             /\ latest' = [latest EXCEPT ![p] = s]
                             /\ link' = [link EXCEPT ![s] = "connecting"]
    BY <1>1 DEF OpenPage, Connect
  <2>2. /\ ~Mounted(p) /\ UNCHANGED << loading, inVain, asked, running, events >>
    BY <1>1 DEF OpenPage
  <2>3. \A t \in Sockets : Outstanding(t)' = Outstanding(t)
    BY <2>2 DEF Outstanding
  <2>4. Outstanding(s) = 0 /\ ~loading[p] /\ ~inVain[p]
    BY <2>1, <2>2 DEF Asking, Fresh, Waiting
  <2>5. \A t \in Sockets : link'[t] = IF t = s THEN "connecting" ELSE link[t]
    BY <2>1 DEF TypeOK
  <2>6. Fresh' /\ OneQuestionPerSocket'
    BY <2>3, <2>4, <2>5 DEF Asking, Fresh, OneQuestionPerSocket
  <2>7. ASSUME NEW q \in Pages
        PROVE  /\ latest'[q] = IF q = p THEN s ELSE latest[q]
               /\ Mounted(q)' <=> q = p \/ Mounted(q)
               /\ Mounted(q) /\ q # p => latest[q] # s
    BY <2>1 DEF TypeOK, Mounted, Owned
  <2>8. Waiting'
    BY <1>0, <2>2, <2>3, <2>4, <2>5, <2>7 DEF Asking, Waiting
  <2>9. WaitsForAnAnswer'
    BY <1>0, <2>2, <2>3, <2>4, <2>7 DEF Asking, WaitsForAnAnswer
  <2> QED
    BY <2>6, <2>8, <2>9 DEF Asking
<1>2. ASSUME NEW p \in Pages, RerunEffect(p) PROVE Asking'
  <2> DEFINE old == latest[p]
  <2>1. PICK s \in Sockets :
          /\ link[s] = "unused"
          /\ latest' = [latest EXCEPT ![p] = s]
          /\ link' = [link EXCEPT ![s] = "connecting", ![old] = "closed"]
    BY <1>2 DEF RerunEffect, Connect
  <2>2. /\ old \in Sockets /\ old # s /\ Mounted(p)
        /\ events' = [events EXCEPT ![old] = << >>]
        /\ UNCHANGED << loading, asked, running >>
        /\ Forsake({old})
    BY <1>0, <1>2, <2>1 DEF RerunEffect, Owned
  <2>3. \A t \in Sockets :
          /\ t # old => Outstanding(t)' = Outstanding(t)
          /\ Outstanding(t)' <= Outstanding(t)
    <3>1. Count(events'[old]) = 0
      BY <2>2, CountEmpty DEF TypeOK
    <3>2. \A t \in Sockets : t # old => events'[t] = events[t]
      BY <2>2 DEF TypeOK
    <3> HIDE DEF old
    <3> QED
      BY <1>0, <2>2, <3>1, <3>2, OutstandingParts
  <2>4. Outstanding(s) = 0
    BY <2>1 DEF Asking, Fresh
  <2>5. \A t \in Sockets : link'[t] = IF t = s THEN "connecting"
                                    ELSE IF t = old THEN "closed" ELSE link[t]
    BY <2>1, <2>2 DEF TypeOK
  <2>6. Fresh' /\ OneQuestionPerSocket'
    BY <1>0, <2>2, <2>3, <2>4, <2>5 DEF Asking, Fresh, OneQuestionPerSocket, Counted
  <2>7. ASSUME NEW q \in Pages
        PROVE  /\ latest'[q] = IF q = p THEN s ELSE latest[q]
               /\ Mounted(q)' <=> Mounted(q)
               /\ Mounted(q) /\ q # p => latest[q] # s /\ latest[q] # old
               /\ inVain'[q] <=> inVain[q] \/ (q = p /\ loading[q])
    <3>1. inVain'[q] = (inVain[q] \/ (loading[q] /\ latest[q] \in {old}))
      BY <2>2 DEF Forsake
    <3>2. Mounted(q) /\ q # p => latest[q] # s /\ latest[q] # old
      BY <2>1, <2>2 DEF Owned
    <3>3. loading[q] => Mounted(q)
      BY DEF Asking, Waiting
    <3>4. inVain'[q] <=> inVain[q] \/ (q = p /\ loading[q])
      BY <3>1, <3>2, <3>3
    <3> QED
      BY <2>1, <2>2, <3>2, <3>4 DEF TypeOK, Mounted
  <2> HIDE DEF old
  <2>8. Waiting'
    BY <1>0, <2>2, <2>3, <2>4, <2>5, <2>7 DEF Asking, Waiting
  <2>9. WaitsForAnAnswer'
    BY <1>0, <2>2, <2>3, <2>4, <2>7 DEF Asking, WaitsForAnAnswer, Waiting
  <2> QED
    BY <2>6, <2>8, <2>9 DEF Asking
<1>3. ASSUME NEW p \in Pages, LeavePage(p) PROVE Asking'
  <2> DEFINE old == latest[p]
  <2>1. /\ old \in Sockets /\ Mounted(p) /\ Close({old})
        /\ latest' = [latest EXCEPT ![p] = NoSocket]
        /\ loading' = [loading EXCEPT ![p] = FALSE]
        /\ inVain' = [inVain EXCEPT ![p] = FALSE]
        /\ UNCHANGED << asked, running >>
    BY <1>0, <1>3 DEF LeavePage
  <2>2. \A t \in Sockets : link'[t] = IF t = old THEN "closed" ELSE link[t]
    BY <2>1 DEF Close
  <2>3. ASSUME NEW t \in Sockets
        PROVE  /\ t # old => Outstanding(t)' = Outstanding(t)
               /\ Outstanding(t)' <= Outstanding(t)
    <3>1. Count(events'[t]) = IF t = old THEN 0 ELSE Count(events[t])
      BY <2>1, CountEmpty DEF Close
    <3>2. /\ Outstanding(t) = asked[t] + running[t] + Count(events[t])
          /\ Outstanding(t)' = asked[t] + running[t] + Count(events'[t])
      BY <2>1, OutstandingParts
    <3> HIDE DEF old
    <3> QED
      BY <1>0, <3>1, <3>2
  <2>4. Fresh' /\ OneQuestionPerSocket'
    BY <1>0, <2>2, <2>3 DEF Asking, Fresh, OneQuestionPerSocket, Counted
  <2>5. ASSUME NEW q \in Pages
        PROVE  /\ Mounted(q)' <=> q # p /\ Mounted(q)
               /\ q # p => /\ latest'[q] = latest[q] /\ loading'[q] = loading[q]
                           /\ inVain'[q] = inVain[q]
               /\ q # p /\ Mounted(q) => latest[q] # old
               /\ q = p => ~loading'[q] /\ ~inVain'[q]
    <3>1. /\ latest'[q] = IF q = p THEN NoSocket ELSE latest[q]
          /\ loading'[q] = IF q = p THEN FALSE ELSE loading[q]
          /\ inVain'[q] = IF q = p THEN FALSE ELSE inVain[q]
      BY <2>1 DEF TypeOK
    <3>2. Mounted(q) => owner[latest[q]] = q
      BY DEF Owned
    <3>3. owner[old] = p
      BY <2>1 DEF Owned
    <3> QED
      BY <3>1, <3>2, <3>3 DEF Mounted
  <2> HIDE DEF old
  <2>6. Waiting'
    BY <1>0, <2>2, <2>3, <2>5 DEF Asking, Waiting
  <2>7. WaitsForAnAnswer'
    BY <1>0, <2>3, <2>5 DEF Asking, WaitsForAnAnswer
  <2> QED
    BY <2>4, <2>6, <2>7 DEF Asking
<1>4. ASSUME NEW p \in Pages, HandleSend(p) PROVE Asking'
  <2>1. /\ Mounted(p) /\ ~loading[p] /\ ~inVain[p]
        /\ loading' = [loading EXCEPT ![p] = TRUE]
        /\ UNCHANGED << latest, link, running, events >>
        /\ Outstanding(latest[p]) = 0 /\ latest[p] \in Sockets
    BY <1>0, <1>4 DEF HandleSend, browser, Asking, Waiting, WaitsForAnAnswer
  <2>2. \A q \in Pages : /\ Mounted(q)' <=> Mounted(q)
                         /\ Mounted(q) /\ q # p => latest[q] # latest[p]
                         /\ loading'[q] <=> q = p \/ loading[q]
    BY <2>1 DEF Mounted, Owned, TypeOK
  <2>3. CASE current[p] # NoSocket /\ Open(current[p])
    <3>1. /\ current[p] = latest[p] /\ UNCHANGED inVain
          /\ asked' = [asked EXCEPT ![latest[p]] = @ + 1] /\ Open(latest[p])
      BY <1>4, <2>3 DEF HandleSend, Owned
    <3>2. \A t \in Sockets :
            Outstanding(t)' = IF t = latest[p] THEN 1 ELSE Outstanding(t)
      <4>1. \A t \in Sockets : asked'[t] = IF t = latest[p] THEN asked[t] + 1 ELSE asked[t]
        BY <3>1 DEF TypeOK
      <4> QED
        BY <1>0, <2>1, <4>1, OutstandingParts
    <3>3. Fresh' /\ OneQuestionPerSocket'
      BY <2>1, <3>1, <3>2 DEF Asking, Fresh, OneQuestionPerSocket, Open
    <3>4. Waiting'
      BY <1>0, <2>1, <2>2, <3>1, <3>2 DEF Asking, Waiting, Open
    <3>5. WaitsForAnAnswer'
      BY <1>0, <2>1, <2>2, <3>1, <3>2 DEF Asking, WaitsForAnAnswer
    <3> QED
      BY <3>3, <3>4, <3>5 DEF Asking
  <2>4. CASE ~(current[p] # NoSocket /\ Open(current[p]))
    <3>1. UNCHANGED asked /\ inVain' = [inVain EXCEPT ![p] = TRUE]
      BY <1>4, <2>4 DEF HandleSend
    <3>2. \A t \in Sockets : Outstanding(t)' = Outstanding(t)
      BY <2>1, <3>1 DEF Outstanding
    <3>3. \A q \in Pages : inVain'[q] <=> q = p \/ inVain[q]
      BY <3>1 DEF TypeOK
    <3>4. Fresh' /\ OneQuestionPerSocket'
      BY <2>1, <3>2 DEF Asking, Fresh, OneQuestionPerSocket
    <3>5. Waiting'
      BY <1>0, <2>1, <2>2, <3>2, <3>3 DEF Asking, Waiting
    <3>6. WaitsForAnAnswer'
      BY <1>0, <2>1, <2>2, <3>2, <3>3 DEF Asking, WaitsForAnAnswer
    <3> QED
      BY <3>4, <3>5, <3>6 DEF Asking
  <2> QED
    BY <2>3, <2>4
<1>5. ASSUME NEW s \in Sockets, OnMessage(s) PROVE Asking'
  <2> DEFINE p == owner[s]
             ends == EndsWaiting(Head(events[s]))
  <2>1. /\ Open(s) /\ events[s] # << >> /\ events' = [events EXCEPT ![s] = Tail(@)]
        /\ UNCHANGED << latest, link, asked, running >>
    BY <1>5 DEF OnMessage, browser
  <2>2. p \in Pages /\ latest[p] = s /\ Mounted(p)
    BY <2>1 DEF Owned, Open, Live, TypeOK, Mounted
  <2>3. \A t \in Sockets :
          Outstanding(t)' = IF t = s /\ ends THEN Outstanding(t) - 1 ELSE Outstanding(t)
    BY <1>5, AnswerTaken
  <2>4. \A q \in Pages : /\ Mounted(q)' <=> Mounted(q)
                         /\ Mounted(q) /\ q # p => latest[q] # s
    BY <2>1 DEF Mounted, Owned
  <2>5. CASE ends
    <3>1. \A q \in Pages : /\ loading'[q] <=> q # p /\ loading[q]
                           /\ inVain'[q] <=> q # p /\ inVain[q]
      BY <1>5, <2>2, <2>5 DEF OnMessage, TypeOK
    <3>2. Outstanding(s) = 1 /\ Outstanding(s)' = 0
      BY <1>0, <2>3, <2>5 DEF Asking, OneQuestionPerSocket, Counted
    <3> HIDE DEF p, ends
    <3>3. \A t \in Sockets : Outstanding(t)' <= Outstanding(t)
                            /\ (t # s => Outstanding(t)' = Outstanding(t))
      BY <1>0, <2>3, <3>2 DEF Counted
    <3>4. Fresh' /\ OneQuestionPerSocket'
      BY <1>0, <2>1, <3>3 DEF Asking, Fresh, OneQuestionPerSocket, Counted
    <3>5. Waiting'
      BY <1>0, <2>1, <2>2, <2>4, <3>1, <3>3 DEF Asking, Waiting
    <3>6. WaitsForAnAnswer'
      BY <1>0, <2>1, <2>2, <2>4, <3>1, <3>2, <3>3 DEF Asking, WaitsForAnAnswer
    <3> QED
      BY <3>4, <3>5, <3>6 DEF Asking
  <2>6. CASE ~ends
    <3>1. UNCHANGED << loading, inVain >>
      BY <1>5, <2>6 DEF OnMessage
    <3>2. \A q \in Pages :
            inVain'[q] <=> inVain[q] \/ (loading[q] /\ link'[latest[q]] = "closed")
      BY <2>1, <3>1 DEF Asking, Waiting
    <3> QED
      BY <2>1, <2>3, <2>6, <3>1, <3>2, AskingQuietly, AgingSteps
  <2> QED
    BY <2>5, <2>6
<1>6. ASSUME NEW gone, Close(gone), Forsake(gone), UNCHANGED << latest, loading >>,
             gone \subseteq Sockets,
             \A s \in Sockets :
               \/ asked'[s] = asked[s] /\ running'[s] = running[s]
               \/ asked'[s] = 0 /\ running'[s] = 0 /\ link'[s] \in {"closed", "unused"}
      PROVE  Asking'
  <2>1. \A s \in Sockets : \/ Outstanding(s)' = Outstanding(s)
                           \/ link'[s] = "closed" /\ Outstanding(s)' <= Outstanding(s)
    BY <1>0, <1>6, OutstandingClosed DEF Asking, Fresh
  <2>2. ASSUME NEW p \in Pages
        PROVE  inVain'[p] <=> inVain[p] \/ (loading[p] /\ link'[latest[p]] = "closed")
    <3>1. inVain'[p] = (inVain[p] \/ (loading[p] /\ latest[p] \in gone))
      BY <1>6 DEF Forsake
    <3>2. CASE loading[p]
      <4>1. latest[p] \in Sockets
        BY <1>0, <3>2 DEF Asking, Waiting
      <4>2. link'[latest[p]] = IF latest[p] \in gone THEN "closed" ELSE link[latest[p]]
        BY <1>6, <4>1 DEF Close
      <4> QED
        BY <3>1, <3>2, <4>2 DEF Asking, Waiting
    <3>3. CASE ~loading[p]
      BY <3>1, <3>3
    <3> QED
      BY <3>2, <3>3
  <2> QED
    BY <1>6, <2>1, <2>2, AskingQuietly, AgingSteps
<1>7. ASSUME \/ \E s \in Sockets : Break(s) \/ Unverified(s)
             \/ \E r \in Replicas : Crash(r)
      PROVE  Asking'
  BY <1>6, <1>7, CutsOff
<1>8. ASSUME UNCHANGED << latest, loading, inVain, link >>,
             \A s \in Sockets :
               \/ Outstanding(s)' = Outstanding(s)
               \/ link[s] = "closed" /\ Outstanding(s)' <= Outstanding(s)
      PROVE  Asking'
  <2>1. \A q \in Pages :
          inVain'[q] <=> inVain[q] \/ (loading[q] /\ link'[latest[q]] = "closed")
    BY <1>8 DEF Asking, Waiting
  <2> QED
    BY <1>8, <2>1, AskingQuietly, AgingSteps
<1>9. ASSUME NEW s \in Sockets,
             OnError(s) \/ Verified(s) \/ HandleDisconnect(s) \/ HandleChat(s) \/ RunEnds(s)
      PROVE  Asking'
  BY <1>8, <1>9, OutstandingKept DEF Asking
<1>10. ASSUME NEW s \in Sockets, HandleConnection(s) PROVE Asking'
  <2>1. /\ UNCHANGED << latest, loading, inVain >> /\ link[s] = "connecting"
        /\ link' = [link EXCEPT ![s] = "open"]
        /\ \A t \in Sockets : Outstanding(t)' = Outstanding(t)
    BY <1>10 DEF HandleConnection, Outstanding, pages
  <2>2. ASSUME NEW q \in Pages
        PROVE  inVain'[q] <=> inVain[q] \/ (loading[q] /\ link'[latest[q]] = "closed")
    BY <1>0, <2>1 DEF Asking, Waiting, TypeOK
  <2> QED
    BY <2>1, <2>2, AskingQuietly, AgingSteps
<1>11. CASE UNCHANGED vars
  BY <1>8, <1>11 DEF vars, pages, browser, Outstanding
<1> QED
  BY <1>1, <1>2, <1>3, <1>4, <1>5, <1>7, <1>9, <1>10, <1>11 DEF Next

LEMMA AskingHolds == Spec => [](Owned /\ Asking)
<1>1. Init => Owned /\ Asking
  <2> SUFFICES ASSUME Init PROVE Owned /\ Asking
    OBVIOUS
  <2> USE ChatAssumption
  <2>1. \A s \in Sockets : Outstanding(s) = 0
    BY CountEmpty, OutstandingParts DEF Init
  <2>2. Owned
    BY DEF Init, Owned, Mounted, Live
  <2> QED
    BY <2>1, <2>2 DEF Init, Asking, Fresh, Waiting, OneQuestionPerSocket,
                      WaitsForAnAnswer, Mounted
<1> QED
  BY <1>1, TypeCorrect, OwnedStep, AskingStep, PTL DEF Spec

(* chat.gateway.ts:82: the gateway starts a run for every message, and yet  *)
(* no socket ever has two under way.                                        *)
THEOREM OneQuestionEach == Spec => []OneQuestionPerSocket
<1>1. Owned /\ Asking => OneQuestionPerSocket
  BY DEF Asking
<1> QED
  BY <1>1, AskingHolds, PTL

(* page.tsx:50, 71, 82: a page waits for as long as its question is under   *)
(* way, or has nothing left to wait for.                                    *)
THEOREM WaitingIsForAnAnswer == Spec => []WaitsForAnAnswer
<1>1. Owned /\ Asking => WaitsForAnAnswer
  BY DEF Asking
<1> QED
  BY <1>1, AskingHolds, PTL

----------------------------------------------------------------------------

(* Refinement of Conversation.  What a page promises is a matter of its     *)
(* latest socket: a step that changes neither which that is, nor whether it *)
(* is open, nor what is under way on it while it is, is a stutter.          *)
LEMMA SamePages ==
  ASSUME \A p \in Pages : /\ Mounted(p)' <=> Mounted(p)
                          /\ Online(p)' <=> Online(p)
                          /\ loading'[p] <=> loading[p]
                          /\ Pending(p)' <=> Pending(p)
  PROVE  UNCHANGED Talk!talkVars
BY DEF Talk!talkVars

LEMMA OpenSockets ==
  ASSUME TypeOK, Owned
  PROVE  /\ \A p \in Pages : Mounted(p) => latest[p] \in Sockets
         /\ \A p, q \in Pages : Mounted(p) /\ latest[p] = latest[q] => p = q
BY ChatAssumption DEF TypeOK, Owned, Mounted

LEMMA EnterStep ==
  ASSUME TypeOK, Owned, Asking, NEW p \in Pages, OpenPage(p)
  PROVE  Talk!Enter(p)
<1> USE ChatAssumption
<1>1. PICK s \in Sockets : /\ link[s] = "unused"
                           /\ latest' = [latest EXCEPT ![p] = s]
                           /\ link' = [link EXCEPT ![s] = "connecting"]
  BY DEF OpenPage, Connect
<1>2. ~Mounted(p) /\ UNCHANGED << loading, asked, running, events >>
  BY DEF OpenPage
<1>3. ASSUME NEW q \in Pages
      PROVE  /\ Mounted(q)' <=> q = p \/ Mounted(q)
             /\ Online(q)' <=> Online(q)
             /\ Pending(q)' <=> Pending(q)
  <2>1. CASE q = p
    BY <1>1, <1>2, <2>1 DEF TypeOK, Mounted, Online, Pending, Open
  <2>2. CASE q # p
    <3>1. latest'[q] = latest[q]
      BY <1>1, <2>2 DEF TypeOK
    <3>2. Mounted(q) => link'[latest[q]] = link[latest[q]]
      BY <1>1 DEF TypeOK, Owned, Mounted
    <3>3. Outstanding(latest[q])' = Outstanding(latest[q])
      BY <1>2, <3>1 DEF Outstanding
    <3> QED
      BY <2>2, <3>1, <3>2, <3>3 DEF Mounted, Online, Pending, Open
  <2> QED
    BY <2>1, <2>2
<1> QED
  BY <1>2, <1>3 DEF Talk!Enter

LEMMA AskStep ==
  ASSUME TypeOK, Owned, Asking, NEW p \in Pages, HandleSend(p)
  PROVE  Talk!Ask(p)
<1>1. /\ Mounted(p) /\ ~loading[p] /\ loading' = [loading EXCEPT ![p] = TRUE]
      /\ UNCHANGED << latest, link, running, events >>
  BY DEF HandleSend, browser
<1>2. \A q \in Pages : /\ Mounted(q)' <=> Mounted(q)
                       /\ Online(q)' <=> Online(q)
                       /\ loading'[q] <=> q = p \/ loading[q]
  BY <1>1 DEF TypeOK, Mounted, Online, Open
<1>3. CASE current[p] # NoSocket /\ Open(current[p])
  <2>1. current[p] = latest[p] /\ Online(p) /\ latest[p] \in Sockets
    BY <1>1, <1>3, OpenSockets DEF Owned, Online
  <2>2. asked' = [asked EXCEPT ![latest[p]] = @ + 1]
    BY <1>3, <2>1 DEF HandleSend
  <2>3. ASSUME NEW q \in Pages PROVE Pending(q)' <=> q = p \/ Pending(q)
    <3>1. Mounted(q) => latest[q] \in Sockets
      BY OpenSockets
    <3>2. CASE q = p
      <4>1. /\ asked'[latest[p]] = asked[latest[p]] + 1 /\ asked[latest[p]] \in Nat
            /\ running[latest[p]] \in Nat /\ events[latest[p]] \in Seq(Event)
        BY <2>1, <2>2 DEF TypeOK, Event
      <4>2. Outstanding(latest[p])'
              = asked'[latest[p]] + running'[latest[p]] + Count(events'[latest[p]])
        BY <2>1, <1>1, OutstandingParts
      <4>3. Outstanding(latest[p])' > 0
        BY <1>1, <4>1, <4>2, CountType
      <4> QED
        BY <1>1, <1>2, <2>1, <3>2, <4>3 DEF Pending
    <3>3. CASE q # p /\ Mounted(q)
      <4>1. asked'[latest[q]] = asked[latest[q]]
        BY <1>1, <2>1, <2>2, <3>1, <3>3, OpenSockets DEF TypeOK
      <4>2. Outstanding(latest[q])' = Outstanding(latest[q])
        BY <1>1, <4>1 DEF Outstanding
      <4> QED
        BY <1>2, <3>3, <4>2 DEF Pending
    <3>4. CASE q # p /\ ~Mounted(q)
      BY <1>2, <3>4 DEF Pending, Online
    <3> QED
      BY <3>2, <3>3, <3>4
  <2> QED
    BY <1>1, <1>2, <2>1, <2>3 DEF Talk!Ask
<1>4. CASE ~(current[p] # NoSocket /\ Open(current[p]))
  <2>1. UNCHANGED asked
    BY <1>4 DEF HandleSend
  <2>2. \A q \in Pages : Pending(q)' <=> Pending(q)
    BY <1>1, <1>2, <2>1 DEF Pending, Outstanding
  <2> QED
    BY <1>1, <1>2, <2>2 DEF Talk!Ask
<1> QED
  BY <1>3, <1>4

LEMMA GoOnlineStep ==
  ASSUME TypeOK, Owned, Asking, NEW s \in Sockets, HandleConnection(s)
  PROVE  \E p \in Pages : Talk!GoOnline(p)
<1>1. /\ link[s] = "connecting" /\ link' = [link EXCEPT ![s] = "open"]
      /\ UNCHANGED << latest, loading, asked, running, events >>
  BY DEF HandleConnection, pages
<1>2. PICK p \in Pages : latest[p] = s /\ Mounted(p) /\ Outstanding(s) = 0
  BY <1>1, ChatAssumption DEF Owned, Live, TypeOK, Mounted, Asking, Fresh
<1>3. \A t \in Sockets : Outstanding(t)' = Outstanding(t)
  BY <1>1 DEF Outstanding
<1>4. ~Online(p)
  BY <1>1, <1>2 DEF Online, Open
<1>5. ASSUME NEW q \in Pages
      PROVE  /\ Mounted(q)' <=> Mounted(q)
             /\ Online(q)' <=> q = p \/ Online(q)
             /\ Pending(q)' <=> Pending(q)
  <2>1. Mounted(q)' <=> Mounted(q)
    BY <1>1 DEF Mounted
  <2>2. Mounted(q) => latest[q] \in Sockets /\ (latest[q] = s => q = p)
    BY <1>2, OpenSockets
  <2>3. Online(q)' <=> q = p \/ Online(q)
    BY <1>1, <1>2, <2>1, <2>2 DEF Online, Open, TypeOK
  <2>4. Pending(q)' <=> Pending(q)
    BY <1>1, <1>2, <1>3, <1>4, <2>2, <2>3 DEF Pending, Online
  <2> QED
    BY <2>1, <2>3, <2>4
<1>6. Talk!GoOnline(p)
  BY <1>1, <1>2, <1>4, <1>5 DEF Talk!GoOnline
<1> QED
  BY <1>6

(* The two ways a page of its own accord gives its socket up.               *)
LEMMA OthersStay ==
  ASSUME TypeOK, Owned, NEW p \in Pages, RerunEffect(p) \/ LeavePage(p),
         NEW q \in Pages, q # p
  PROVE  /\ Mounted(q)' <=> Mounted(q)
         /\ Online(q)' <=> Online(q)
         /\ loading'[q] = loading[q]
         /\ Pending(q)' <=> Pending(q)
<1> USE ChatAssumption
<1>1. Mounted(p) /\ latest[p] \in Sockets
  BY OpenSockets DEF RerunEffect, LeavePage
<1>2. Mounted(q) => latest[q] \in Sockets /\ latest[q] # latest[p] /\ link[latest[q]] # "unused"
  BY OpenSockets DEF Owned
<1>3. latest'[q] = latest[q] /\ loading'[q] = loading[q] /\ UNCHANGED << asked, running >>
  BY DEF RerunEffect, LeavePage, Connect, TypeOK
<1>4. ASSUME NEW t \in Sockets, t # latest[p], link[t] # "unused"
      PROVE  link'[t] = link[t] /\ events'[t] = events[t]
  BY <1>1, <1>4 DEF RerunEffect, LeavePage, Connect, Close, TypeOK
<1>5. Mounted(q) => Outstanding(latest[q])' = Outstanding(latest[q])
  BY <1>2, <1>3, <1>4 DEF Outstanding
<1> QED
  BY <1>2, <1>3, <1>4, <1>5 DEF Mounted, Online, Pending, Open

LEMMA RerunStep ==
  ASSUME TypeOK, Owned, NEW p \in Pages, RerunEffect(p)
  PROVE  Talk!GoOffline({p})
<1>1. PICK s \in Sockets : /\ link[s] = "unused"
                           /\ latest' = [latest EXCEPT ![p] = s]
                           /\ link' = [link EXCEPT ![s] = "connecting", ![latest[p]] = "closed"]
  BY DEF RerunEffect, Connect
<1>2. Mounted(p) /\ latest[p] \in Sockets /\ UNCHANGED loading
  BY OpenSockets DEF RerunEffect
<1>3. Mounted(p)' /\ ~Online(p)' /\ ~Pending(p)'
  BY <1>1, <1>2, ChatAssumption DEF TypeOK, Mounted, Online, Pending, Open
<1>4. \A q \in Pages : /\ Mounted(q)' <=> Mounted(q)
                       /\ Online(q)' <=> q # p /\ Online(q)
                       /\ Pending(q)' <=> q # p /\ Pending(q)
  BY <1>2, <1>3, OthersStay
<1> QED
  BY <1>2, <1>4 DEF Talk!GoOffline

LEMMA LeaveStep ==
  ASSUME TypeOK, Owned, NEW p \in Pages, LeavePage(p)
  PROVE  Talk!Leave(p)
<1>1. Mounted(p) /\ latest' = [latest EXCEPT ![p] = NoSocket]
      /\ loading' = [loading EXCEPT ![p] = FALSE]
  BY DEF LeavePage
<1>2. ~Mounted(p)' /\ ~Online(p)' /\ ~Pending(p)' /\ ~loading'[p]
  BY <1>1 DEF TypeOK, Mounted, Online, Pending
<1>3. \A q \in Pages : /\ Mounted(q)' <=> q # p /\ Mounted(q)
                       /\ Online(q)' <=> q # p /\ Online(q)
                       /\ loading'[q] <=> q # p /\ loading[q]
                       /\ Pending(q)' <=> q # p /\ Pending(q)
  BY <1>2, OthersStay
<1> QED
  BY <1>1, <1>3 DEF Talk!Leave

(* An answer takes the one question of its page; another message nothing.   *)
LEMMA MessageStep ==
  ASSUME TypeOK, TypeOK', Owned, Asking, NEW s \in Sockets, OnMessage(s)
  PROVE  (\E p \in Pages : Talk!Answer(p)) \/ UNCHANGED Talk!talkVars
<1> DEFINE ends == EndsWaiting(Head(events[s]))
<1>1. Open(s) /\ UNCHANGED << latest, link >>
  BY DEF OnMessage, browser
<1>2. PICK p \in Pages : owner[s] = p /\ latest[p] = s /\ Mounted(p)
  BY <1>1, ChatAssumption DEF Owned, Open, Live, TypeOK, Mounted
<1>3. \A t \in Sockets :
        Outstanding(t)' = IF t = s /\ ends THEN Outstanding(t) - 1 ELSE Outstanding(t)
  BY AnswerTaken
<1>4. \A q \in Pages : /\ Mounted(q)' <=> Mounted(q)
                       /\ Online(q)' <=> Online(q)
                       /\ Mounted(q) => latest[q] \in Sockets /\ (latest[q] = s => q = p)
  BY <1>1, <1>2, OpenSockets DEF Mounted, Online, Open
<1>5. CASE ends
  <2>1. Outstanding(s) = 1 /\ Outstanding(s)' = 0
    <3>1. Outstanding(s) \in Nat /\ Outstanding(s)' \in Nat
      BY CountedType, CountedTypeNext DEF Counted
    <3>2. Outstanding(s) <= 1 /\ Outstanding(s)' = Outstanding(s) - 1
      BY <1>3, <1>5 DEF Asking, OneQuestionPerSocket
    <3> QED
      BY <3>1, <3>2
  <2>2. \A q \in Pages : loading'[q] <=> q # p /\ loading[q]
    BY <1>2, <1>5, ChatAssumption DEF OnMessage, TypeOK
  <2> HIDE DEF ends
  <2>3. Pending(p)
    BY <1>1, <1>2, <2>1 DEF Pending, Online
  <2>4. ASSUME NEW q \in Pages PROVE Pending(q)' <=> q # p /\ Pending(q)
    <3>1. CASE q = p
      BY <1>1, <1>2, <2>1, <3>1 DEF Pending
    <3>2. CASE q # p /\ Mounted(q)
      <4>1. Outstanding(latest[q])' = Outstanding(latest[q])
        BY <1>1, <1>3, <1>4, <3>2
      <4> QED
        BY <1>1, <1>4, <3>2, <4>1 DEF Pending
    <3>3. CASE ~Mounted(q)
      BY <1>4, <3>3 DEF Pending, Online
    <3> QED
      BY <3>1, <3>2, <3>3
  <2>5. Talk!Answer(p)
    BY <1>2, <1>4, <2>2, <2>3, <2>4 DEF Talk!Answer
  <2> QED
    BY <2>5
<1>6. CASE ~ends
  <2>1. UNCHANGED loading
    BY <1>6 DEF OnMessage
  <2>2. \A q \in Pages : Mounted(q) => Outstanding(latest[q])' = Outstanding(latest[q])
    BY <1>1, <1>3, <1>4, <1>6
  <2>3. \A q \in Pages : Pending(q)' <=> Pending(q)
    BY <1>1, <1>4, <2>2 DEF Pending, Online
  <2> QED
    BY <1>4, <2>1, <2>3, SamePages
<1> QED
  BY <1>5, <1>6

(* Whatever closes sockets takes their pages offline, and only that.        *)
LEMMA OfflineStep ==
  ASSUME TypeOK, Owned, Asking,
         \/ \E s \in Sockets : Break(s) \/ Unverified(s)
         \/ \E r \in Replicas : Crash(r)
  PROVE  \E P \in SUBSET Pages : Talk!GoOffline(P)
<1>1. PICK gone \in SUBSET Sockets : Close(gone)
  BY CutsOff
<1>2. UNCHANGED << latest, loading >>
  BY CutsOff
<1> DEFINE P == { p \in Pages : latest[p] \in gone }
<1>3. \A t \in Sockets : link'[t] = IF t \in gone THEN "closed" ELSE link[t]
  BY <1>1 DEF Close
<1>4. ASSUME NEW t \in Sockets, link'[t] = "open" PROVE Outstanding(t)' = Outstanding(t)
  <2>1. Counted
    BY CountedType
  <2>2. link[t] = "unused" => Outstanding(t) = 0
    BY DEF Asking, Fresh
  <2>3. \/ asked'[t] = asked[t] /\ running'[t] = running[t]
        \/ asked'[t] = 0 /\ running'[t] = 0 /\ link'[t] \in {"closed", "unused"}
    BY CutsOff
  <2>4. \/ Outstanding(t)' = Outstanding(t)
        \/ link'[t] = "closed" /\ Outstanding(t)' <= Outstanding(t)
    BY <1>1, <2>1, <2>2, <2>3, OutstandingClosed
  <2> QED
    BY <1>4, <2>4
<1>5. ASSUME NEW p \in Pages
      PROVE  /\ Mounted(p)' <=> Mounted(p)
             /\ Online(p)' <=> p \notin P /\ Online(p)
             /\ Pending(p)' <=> p \notin P /\ Pending(p)
  <2>1. Mounted(p)' <=> Mounted(p)
    BY <1>2 DEF Mounted
  <2>2. Mounted(p) => latest[p] \in Sockets
    BY OpenSockets
  <2>3. Online(p)' <=> p \notin P /\ Online(p)
    BY <1>2, <1>3, <2>1, <2>2 DEF Online, Open
  <2>4. Online(p)' => Outstanding(latest[p])' = Outstanding(latest[p])
    BY <1>2, <1>4, <2>1, <2>2 DEF Online, Open
  <2> QED
    BY <1>2, <2>1, <2>3, <2>4 DEF Pending
<1> HIDE DEF P
<1>6. Talk!GoOffline(P)
  BY <1>2, <1>5 DEF Talk!GoOffline
<1>7. P \in SUBSET Pages
  BY DEF P
<1> QED
  BY <1>6, <1>7

(* What goes on between question and answer does not concern a page.        *)
LEMMA GatewayStep ==
  ASSUME TypeOK, TypeOK', Owned, Asking,
         \/ \E s \in Sockets : \/ OnError(s) \/ Verified(s) \/ HandleDisconnect(s)
                             \/ HandleChat(s) \/ RunEnds(s)
         \/ UNCHANGED vars
  PROVE  UNCHANGED Talk!talkVars
<1>1. /\ UNCHANGED << latest, loading, link >>
      /\ \A t \in Sockets : Open(t) => Outstanding(t)' = Outstanding(t)
  <2>1. CASE UNCHANGED vars
    BY <2>1 DEF vars, pages, browser, Outstanding
  <2>2. CASE ~UNCHANGED vars
    BY <2>2, OutstandingKept DEF Asking, Open
  <2> QED
    BY <2>1, <2>2
<1>2. \A p \in Pages : /\ Mounted(p)' <=> Mounted(p)
                       /\ Online(p)' <=> Online(p)
                       /\ Mounted(p) => latest[p] \in Sockets
  BY <1>1, OpenSockets DEF Mounted, Online, Open
<1>3. \A p \in Pages : Pending(p)' <=> Pending(p)
  BY <1>1, <1>2 DEF Pending, Online
<1> QED
  BY <1>1, <1>2, <1>3, SamePages

LEMMA TalkStep ==
  TypeOK /\ TypeOK' /\ Owned /\ Asking /\ [Next]_vars => [Talk!TalkNext]_(Talk!talkVars)
<1> SUFFICES ASSUME TypeOK, TypeOK', Owned, Asking, [Next]_vars
             PROVE  [Talk!TalkNext]_(Talk!talkVars)
  OBVIOUS
<1>1. ASSUME NEW p \in Pages,
             OpenPage(p) \/ RerunEffect(p) \/ LeavePage(p) \/ HandleSend(p)
      PROVE  Talk!TalkNext
  BY <1>1, EnterStep, RerunStep, LeaveStep, AskStep DEF Talk!TalkNext
<1>2. ASSUME NEW s \in Sockets, OnMessage(s) PROVE [Talk!TalkNext]_(Talk!talkVars)
  <2>1. (\E p \in Pages : Talk!Answer(p)) => Talk!TalkNext
    BY DEF Talk!TalkNext
  <2> QED
    BY <1>2, <2>1, MessageStep
<1>3. ASSUME NEW s \in Sockets, HandleConnection(s) PROVE Talk!TalkNext
  BY <1>3, GoOnlineStep DEF Talk!TalkNext
<1>4. CASE \/ \E s \in Sockets : Break(s) \/ Unverified(s)
           \/ \E r \in Replicas : Crash(r)
  BY <1>4, OfflineStep DEF Talk!TalkNext
<1>5. CASE \/ \E s \in Sockets : \/ OnError(s) \/ Verified(s) \/ HandleDisconnect(s)
                               \/ HandleChat(s) \/ RunEnds(s)
           \/ UNCHANGED vars
  BY <1>5, GatewayStep
<1> QED
  BY <1>1, <1>2, <1>3, <1>4, <1>5 DEF Next

(* The chat is an implementation of Conversation: an answer ends only the   *)
(* waiting for its own question, whatever the gateway runs for a socket and *)
(* in which order, and a question in a socket is lost only with it          *)
(* (page.tsx:50, 71, chat.gateway.ts:82).                                   *)
THEOREM ChatImplementsConversation == Spec => ImplementsConversation
<1>1. Init => Talk!TalkInit
  <2> SUFFICES ASSUME Init PROVE Talk!TalkInit
    OBVIOUS
  <2>1. \A p \in Pages : ~Mounted(p) /\ ~loading[p]
    BY DEF Init, Mounted
  <2> QED
    BY <2>1 DEF Talk!TalkInit, Online, Pending
<1> QED
  BY <1>1, TypeCorrect, AskingHolds, TalkStep, PTL
     DEF Spec, ImplementsConversation, Talk!TalkSpec
=============================================================================
