----------------------- MODULE ConnectorEvents_proofs -----------------------
(***************************************************************************)
(* Theorems about ConnectorEvents, for any events, any finite number of    *)
(* overlapping passes, and any bounds.                                     *)
(***************************************************************************)
EXTENDS ConnectorEvents, FiniteSetTheorems, TLAPS

(* A row that is not dead may still be retried, and so may every row a pass *)
(* has read: the dead letter branch is taken at MAX_RETRIES exactly.        *)
Retryable ==
  /\ \A e \in Events : status[e] # "dlq" => count[e] < MAX_RETRIES
  /\ \A w \in Workers : \A i \in batch[w] : i.count < MAX_RETRIES

(* An event that was not delivered has no row, and no pass has read one.    *)
Delivered ==
  /\ \A e \in Events : hook[e] = "idle" => status[e] = "none" /\ count[e] = 0
  /\ \A w \in Workers : \A i \in batch[w] : hook[i.event] # "idle"
  /\ \A w \in Workers : item[w] # NoItem => hook[item[w].event] # "idle"

TypeInv == TypeOK /\ Retryable /\ Delivered

(* What TypeInv says of the passes.                                         *)
PassInv ==
  /\ at \in [Workers -> Awaits \cup {"idle"}]
  /\ item \in [Workers -> Items \cup {NoItem}]
  /\ batch \in [Workers -> SUBSET Items]
  /\ \A w \in Workers :
       /\ at[w] \notin {"idle", "exists"} => item[w] \in Items
       /\ at[w] = "dlq" => NextCount(w) = MAX_RETRIES
       /\ at[w] = "count" => NextCount(w) < MAX_RETRIES
       /\ item[w] # NoItem => hook[item[w].event] # "idle"
       /\ \A i \in batch[w] : i.count < MAX_RETRIES /\ hook[i.event] # "idle"

(* What it says of everything else.                                         *)
RowInv ==
  /\ connector \in {"none", "stored", "active", "forgotten"}
  /\ hook \in [Events -> {"idle", "publish", "done", "failed"}]
  /\ status \in [Events -> {"none", "pending", "dlq"}]
  /\ count \in [Events -> 0..MAX_RETRIES]
  /\ old \subseteq Events
  /\ guard \in [Events -> SUBSET Workers]
  /\ messages \in [Events -> Nat]
  /\ alerts \in [Events -> Nat]
  /\ faults \in 0..MaxFaults
  /\ \A e \in Events :
       /\ status[e] # "dlq" => count[e] < MAX_RETRIES
       /\ hook[e] = "idle" => status[e] = "none" /\ count[e] = 0

LEMMA TypeInvSplit == TypeInv <=> PassInv /\ RowInv
BY DEF TypeInv, TypeOK, Retryable, Delivered, PassInv, RowInv

LEMMA TypeInvSplitPrimed == TypeInv' <=> PassInv' /\ RowInv'
BY DEF TypeInv, TypeOK, Retryable, Delivered, PassInv, RowInv

(* Two ways a pass goes on.                                                 *)
LEMMA MoveOnKeeps ==
  ASSUME PassInv, NEW w \in Workers, NEW rest \in SUBSET Items, MoveOn(w, rest),
         UNCHANGED hook,
         \A i \in rest : i.count < MAX_RETRIES /\ hook[i.event] # "idle"
  PROVE  PassInv'
<1>1. /\ at' \in [Workers -> Awaits \cup {"idle"}]
      /\ item' \in [Workers -> Items \cup {NoItem}]
      /\ batch' \in [Workers -> SUBSET Items]
  BY DEF PassInv, MoveOn, Awaits
<1>2. ASSUME NEW v \in Workers, v # w
      PROVE  at'[v] = at[v] /\ item'[v] = item[v] /\ batch'[v] = batch[v]
  BY <1>2 DEF PassInv, MoveOn
<1>3. at'[w] \in {"idle", "exists"} /\ item'[w] = NoItem /\ batch'[w] = rest
  BY DEF PassInv, MoveOn
<1> QED
  BY <1>1, <1>2, <1>3 DEF PassInv, NextCount

LEMMA GotoKeeps ==
  ASSUME PassInv, NEW w \in Workers, NEW where \in {"setex", "publish", "alert"},
         Goto(w, where), at[w] \notin {"idle", "exists"}, UNCHANGED hook
  PROVE  PassInv'
BY DEF PassInv, Goto, Awaits, NextCount

LEMMA SameItems ==
  ASSUME PassInv, NEW w \in Workers, at[w] \notin {"idle", "exists"}
  PROVE  /\ item[w] \in Items /\ Event(w) \in Events
         /\ item[w].count \in 0..MAX_RETRIES
         /\ hook[Event(w)] # "idle"
<1>1. item[w] \in Items
  BY DEF PassInv
<1>2. item[w] # NoItem
  BY <1>1, NoItemAssumption, RetriesAssumption DEF Items
<1> QED
  BY <1>1, <1>2 DEF PassInv, Event, Items

(* The items of a pass that starts: rows that are pending and may be        *)
(* retried.                                                                 *)
LEMMA StuckItems ==
  ASSUME RowInv, NEW S \in SUBSET StuckEvents
  PROVE  LET read == { [event |-> e, count |-> count[e]] : e \in S }
         IN /\ read \in SUBSET Items
            /\ \A i \in read : i.count < MAX_RETRIES /\ hook[i.event] # "idle"
BY DEF RowInv, StuckEvents, Items

LEMMA TypeStep == TypeInv /\ [Next]_vars => TypeInv'
<1> SUFFICES ASSUME PassInv, RowInv, [Next]_vars PROVE PassInv' /\ RowInv'
  BY TypeInvSplit, TypeInvSplitPrimed
<1> USE RetriesAssumption, EventFaultsAssumption
<1>1. CASE CreateConnector \/ ActivateConnector \/ FailActivate
  BY <1>1 DEF PassInv, RowInv, CreateConnector, ActivateConnector,
              FailActivate, rows, pass, NextCount
<1>2. ASSUME NEW e \in Events,
             HandleWebhook(e) \/ PublishReceived(e) \/ FailWebhook(e) \/ Time(e)
      PROVE  PassInv' /\ RowInv'
  <2>1. PassInv'
    <3>1. UNCHANGED pass
      BY <1>2 DEF HandleWebhook, PublishReceived, FailWebhook, Time, Age, ExpireGuard
    <3>2. \A d \in Events : hook'[d] = "idle" => hook[d] = "idle"
      BY <1>2 DEF RowInv, HandleWebhook, PublishReceived, FailWebhook, Time,
                  Age, ExpireGuard
    <3>3. \A i \in Items : i.event \in Events
      BY DEF Items
    <3> QED
      BY <3>1, <3>2, <3>3 DEF PassInv, pass, NextCount
  <2>2. CASE HandleWebhook(e)
    BY <2>1, <2>2 DEF RowInv, HandleWebhook
  <2>3. CASE PublishReceived(e)
    BY <2>1, <2>3 DEF RowInv, PublishReceived, rows
  <2>4. CASE FailWebhook(e)
    BY <2>1, <2>4 DEF RowInv, FailWebhook, rows
  <2>5. CASE Time(e)
    BY <2>1, <2>5 DEF RowInv, Time, Age, ExpireGuard, rows
  <2> QED
    BY <1>2, <2>2, <2>3, <2>4, <2>5
<1>3. ASSUME NEW w \in Workers, ProcessMember(w) PROVE PassInv' /\ RowInv'
  <2>1. PICK S \in SUBSET StuckEvents :
          MoveOn(w, { [event |-> e, count |-> count[e]] : e \in S })
    BY <1>3 DEF ProcessMember
  <2>2. PassInv'
    BY <1>3, <2>1, StuckItems, MoveOnKeeps DEF ProcessMember
  <2> QED
    BY <1>3, <2>2 DEF RowInv, ProcessMember, rows
<1>4. ASSUME NEW w \in Workers, CheckGuard(w) PROVE PassInv' /\ RowInv'
  <2>1. RowInv'
    BY <1>4 DEF RowInv, CheckGuard, rows
  <2>2. PICK i \in batch[w] :
          IF Guarded(i.event)
            THEN MoveOn(w, batch[w] \ {i})
            ELSE /\ batch' = [batch EXCEPT ![w] = @ \ {i}]
                 /\ item' = [item EXCEPT ![w] = i]
                 /\ at' = [at EXCEPT ![w] =
                             IF i.count + 1 >= MAX_RETRIES THEN "dlq" ELSE "count"]
    BY <1>4 DEF CheckGuard
  <2>3. /\ UNCHANGED hook /\ i \in Items /\ i.count \in Nat
        /\ i.count < MAX_RETRIES /\ hook[i.event] # "idle"
    BY <1>4 DEF PassInv, CheckGuard, Items
  <2>4. CASE Guarded(i.event)
    <3>1. MoveOn(w, batch[w] \ {i})
      BY <2>2, <2>4
    <3>2. batch[w] \ {i} \in SUBSET Items
      BY DEF PassInv
    <3>3. \A j \in batch[w] \ {i} : j.count < MAX_RETRIES /\ hook[j.event] # "idle"
      BY DEF PassInv
    <3> QED
      BY <2>1, <2>3, <3>1, <3>2, <3>3, MoveOnKeeps
  <2>5. CASE ~Guarded(i.event)
    <3>1. /\ batch' = [batch EXCEPT ![w] = @ \ {i}]
          /\ item' = [item EXCEPT ![w] = i]
          /\ at' = [at EXCEPT ![w] =
                      IF i.count + 1 >= MAX_RETRIES THEN "dlq" ELSE "count"]
      BY <2>2, <2>5
    <3>2. /\ at' \in [Workers -> Awaits \cup {"idle"}]
          /\ item' \in [Workers -> Items \cup {NoItem}]
          /\ batch' \in [Workers -> SUBSET Items]
      BY <2>3, <3>1 DEF PassInv, Awaits
    <3>3. ASSUME NEW v \in Workers, v # w
          PROVE  at'[v] = at[v] /\ item'[v] = item[v] /\ batch'[v] = batch[v]
      BY <3>1, <3>3 DEF PassInv
    <3>4. /\ item'[w] = i /\ batch'[w] = batch[w] \ {i}
          /\ at'[w] = "dlq" => i.count + 1 = MAX_RETRIES
          /\ at'[w] = "count" => i.count + 1 < MAX_RETRIES
      BY <2>3, <3>1 DEF PassInv
    <3> QED
      BY <2>1, <2>3, <3>2, <3>3, <3>4 DEF PassInv, NextCount
  <2> QED
    BY <2>4, <2>5
<1>5. ASSUME NEW w \in Workers, Retry(w) \/ MoveToDlq(w) PROVE PassInv' /\ RowInv'
  <2>1. /\ at[w] \notin {"idle", "exists"} /\ UNCHANGED hook
        /\ batch[w] \in SUBSET Items
        /\ \A i \in batch[w] : i.count < MAX_RETRIES /\ hook[i.event] # "idle"
    BY <1>5 DEF PassInv, Retry, MoveToDlq, CountRetry, SetGuard, PublishRetry,
                DeadLetter, PublishAlert, rows
  <2>2. PassInv'
    BY <1>5, <2>1, MoveOnKeeps, GotoKeeps
    DEF Retry, MoveToDlq, CountRetry, SetGuard, PublishRetry, DeadLetter, PublishAlert
  <2>3. /\ item[w] \in Items /\ Event(w) \in Events
        /\ item[w].count \in 0..MAX_RETRIES /\ hook[Event(w)] # "idle"
    BY <2>1, SameItems
  <2>4. CASE CountRetry(w)
    <3>1. NextCount(w) \in 0..MAX_RETRIES /\ NextCount(w) < MAX_RETRIES
      BY <2>3, <2>4 DEF CountRetry, PassInv, NextCount
    <3> QED
      BY <2>2, <2>3, <2>4, <3>1 DEF RowInv, CountRetry
  <2>5. CASE SetGuard(w)
    BY <2>2, <2>3, <2>5 DEF RowInv, SetGuard, rows
  <2>6. CASE PublishRetry(w)
    BY <2>2, <2>3, <2>6 DEF RowInv, PublishRetry, rows
  <2>7. CASE DeadLetter(w)
    <3>1. NextCount(w) \in 0..MAX_RETRIES
      BY <2>3, <2>7 DEF DeadLetter, PassInv, NextCount
    <3> QED
      BY <2>2, <2>3, <2>7, <3>1 DEF RowInv, DeadLetter
  <2>8. CASE PublishAlert(w)
    BY <2>2, <2>3, <2>8 DEF RowInv, PublishAlert, rows
  <2> QED
    BY <1>5, <2>4, <2>5, <2>6, <2>7, <2>8 DEF Retry, MoveToDlq
<1>6. ASSUME NEW w \in Workers, FailPass(w) PROVE PassInv' /\ RowInv'
  <2>1. PassInv'
    BY <1>6, MoveOnKeeps DEF FailPass
  <2> QED
    BY <1>6, <2>1 DEF RowInv, FailPass, rows
<1>7. ASSUME NEW w \in Workers, ResendPublish(w) PROVE PassInv' /\ RowInv'
  <2>1. PassInv'
    BY <1>7 DEF PassInv, ResendPublish, pass, NextCount
  <2>2. Event(w) \in Events
    BY <1>7, SameItems DEF ResendPublish
  <2> QED
    BY <1>7, <2>1, <2>2 DEF RowInv, ResendPublish, rows
<1>8. CASE UNCHANGED vars
  BY <1>8 DEF PassInv, RowInv, vars, NextCount
<1> QED
  BY <1>1, <1>2, <1>3, <1>4, <1>5, <1>6, <1>7, <1>8 DEF Next, RetryOrDlq

LEMMA TypeInit == Init => TypeInv
BY RetriesAssumption, EventFaultsAssumption, NoItemAssumption
DEF Init, TypeInv, TypeOK, Retryable, Delivered, Awaits

(* Every variable keeps its type, and a row dies at MAX_RETRIES exactly.    *)
THEOREM TypeCorrect == Spec => [](TypeOK /\ Retryable /\ Delivered)
<1> QED
  BY TypeInit, TypeStep, PTL DEF Spec, TypeInv

----------------------------------------------------------------------------

(* The steps that change the guards or put a worker before SETEX.           *)
LEMMA GuardStep == TypeInv /\ GuardHoldsBack /\ [Next]_vars => GuardHoldsBack'
<1> SUFFICES ASSUME PassInv, RowInv, GuardHoldsBack, [Next]_vars
             PROVE  GuardHoldsBack'
  BY TypeInvSplit
<1>1. CASE UNCHANGED << guard, pass >>
  BY <1>1 DEF GuardHoldsBack, pass, Event
<1>2. ASSUME NEW e \in Events, ExpireGuard(e) PROVE GuardHoldsBack'
  <2>1. \A d \in Events : guard'[d] \subseteq guard[d]
    BY <1>2 DEF RowInv, ExpireGuard
  <2>2. \A w \in Workers : at[w] \in {"count", "setex"} => Event(w) \in Events
    BY SameItems
  <2> QED
    BY <1>2, <2>1, <2>2 DEF GuardHoldsBack, ExpireGuard, pass, Event
<1>3. ASSUME NEW w \in Workers, NEW rest, MoveOn(w, rest), UNCHANGED guard
      PROVE  GuardHoldsBack'
  BY <1>3 DEF GuardHoldsBack, MoveOn, PassInv, Event
<1>4. ASSUME NEW w \in Workers, CheckGuard(w) PROVE GuardHoldsBack'
  <2>1. UNCHANGED guard
    BY <1>4 DEF CheckGuard
  <2>2. PICK i \in batch[w] :
          IF Guarded(i.event)
            THEN MoveOn(w, batch[w] \ {i})
            ELSE /\ item' = [item EXCEPT ![w] = i]
                 /\ at' = [at EXCEPT ![w] =
                             IF i.count + 1 >= MAX_RETRIES THEN "dlq" ELSE "count"]
    BY <1>4 DEF CheckGuard
  <2>3. CASE Guarded(i.event)
    BY <1>3, <2>1, <2>2, <2>3
  <2>4. CASE ~Guarded(i.event)
    <3>1. ASSUME NEW v \in Workers, v # w
          PROVE  at'[v] = at[v] /\ item'[v] = item[v]
      BY <2>2, <2>4, <3>1 DEF PassInv
    <3>2. item'[w] = i /\ guard'[i.event] = {}
      BY <2>1, <2>2, <2>4 DEF PassInv, Guarded
    <3> QED
      BY <2>1, <3>1, <3>2 DEF GuardHoldsBack, Event
  <2> QED
    BY <2>3, <2>4
<1>5. ASSUME NEW w \in Workers, CountRetry(w) \/ DeadLetter(w) PROVE GuardHoldsBack'
  BY <1>5 DEF GuardHoldsBack, CountRetry, DeadLetter, Goto, PassInv, Event
<1>6. ASSUME NEW w \in Workers, SetGuard(w) PROVE GuardHoldsBack'
  <2>1. Event(w) \in Events
    BY <1>6, SameItems DEF SetGuard
  <2>2. ASSUME NEW v \in Workers, at'[v] \in {"count", "setex"}
        PROVE  v # w /\ at[v] = at'[v] /\ item'[v] = item[v]
    BY <1>6, <2>2 DEF SetGuard, Goto, PassInv
  <2>3. \A d \in Events : guard'[d] \subseteq guard[d] \cup {w}
    BY <1>6, <2>1 DEF SetGuard, RowInv
  <2>4. \A v \in Workers : at[v] \in {"count", "setex"} => Event(v) \in Events
    BY SameItems
  <2> QED
    BY <2>2, <2>3, <2>4 DEF GuardHoldsBack, Event
<1>7. ASSUME NEW w \in Workers,
             ProcessMember(w) \/ PublishRetry(w) \/ PublishAlert(w) \/ FailPass(w)
      PROVE  GuardHoldsBack'
  BY <1>3, <1>7 DEF ProcessMember, PublishRetry, PublishAlert, FailPass
<1>8. \/ UNCHANGED << guard, pass >>
      \/ \E e \in Events : ExpireGuard(e)
      \/ \E w \in Workers :
           \/ CheckGuard(w) \/ CountRetry(w) \/ DeadLetter(w) \/ SetGuard(w)
           \/ ProcessMember(w) \/ PublishRetry(w) \/ PublishAlert(w) \/ FailPass(w)
  BY DEF Next, RetryOrDlq, Retry, MoveToDlq, Time, CreateConnector,
         ActivateConnector, FailActivate, HandleWebhook, PublishReceived,
         FailWebhook, Age, ResendPublish, vars, pass
<1> QED
  BY <1>1, <1>2, <1>4, <1>5, <1>6, <1>7, <1>8

(* connector-dlq.service.ts:67: while the guard a worker set lasts, that    *)
(* worker does not come to retry the event again, whatever the other        *)
(* passes do.                                                               *)
THEOREM GuardAlwaysHoldsBack == Spec => []GuardHoldsBack
<1>1. Init => GuardHoldsBack
  BY DEF Init, GuardHoldsBack
<1> QED
  BY <1>1, TypeInit, TypeStep, GuardStep, PTL DEF Spec

----------------------------------------------------------------------------

(* What a step can do to what the row and the passes know of the count.     *)
LEMMA FloorStep ==
  ASSUME TypeInv, [Next]_vars, NEW e \in Events, NEW k \in 0..MAX_RETRIES, AtLeast(e, k)
  PROVE  AtLeast(e, k)'
<1> PassInv /\ RowInv
  BY TypeInvSplit
<1> USE RetriesAssumption
<1>1. \A w \in Workers :
        /\ \A i \in batch[w] : i \in Items /\ (i.event = e => i.count >= k)
        /\ item[w] # NoItem /\ item[w].event = e => item[w].count >= k
  BY DEF AtLeast, InHand, PassInv
<1>2. count[e] >= k /\ count[e] \in Nat
  BY DEF AtLeast, RowInv
<1>3. ASSUME count'[e] >= k,
             \A w \in Workers :
               /\ \A i \in batch'[w] : i.event = e => i.count >= k
               /\ item'[w] # NoItem /\ item'[w].event = e => item'[w].count >= k
      PROVE  AtLeast(e, k)'
  BY <1>3 DEF AtLeast, InHand
<1>4. CASE UNCHANGED << count, item, batch >>
  BY <1>1, <1>2, <1>3, <1>4
<1>5. ASSUME NEW d \in Events, HandleWebhook(d) PROVE AtLeast(e, k)'
  BY <1>1, <1>2, <1>3, <1>5 DEF HandleWebhook, pass
<1>6. ASSUME NEW w \in Workers, NEW rest, MoveOn(w, rest), UNCHANGED count,
             \A i \in rest : i.event = e => i.count >= k
      PROVE  AtLeast(e, k)'
  <2>1. ASSUME NEW v \in Workers
        PROVE  /\ \A i \in batch'[v] : i.event = e => i.count >= k
               /\ item'[v] # NoItem /\ item'[v].event = e => item'[v].count >= k
    BY <1>1, <1>6 DEF MoveOn, PassInv
  <2> QED
    BY <1>2, <1>3, <1>6, <2>1
<1>7. ASSUME NEW w \in Workers, ProcessMember(w) PROVE AtLeast(e, k)'
  <2>1. PICK S \in SUBSET StuckEvents :
          MoveOn(w, { [event |-> d, count |-> count[d]] : d \in S })
    BY <1>7 DEF ProcessMember
  <2> QED
    BY <1>2, <1>6, <1>7, <2>1 DEF ProcessMember, rows
<1>8. ASSUME NEW w \in Workers, CheckGuard(w) PROVE AtLeast(e, k)'
  <2>1. UNCHANGED count
    BY <1>8 DEF CheckGuard, rows
  <2>2. PICK i \in batch[w] :
          \/ MoveOn(w, batch[w] \ {i})
          \/ /\ batch' = [batch EXCEPT ![w] = @ \ {i}]
             /\ item' = [item EXCEPT ![w] = i]
    BY <1>8 DEF CheckGuard
  <2>3. CASE MoveOn(w, batch[w] \ {i})
    BY <1>1, <1>6, <2>1, <2>3
  <2>4. CASE /\ batch' = [batch EXCEPT ![w] = @ \ {i}]
             /\ item' = [item EXCEPT ![w] = i]
    <3>1. ASSUME NEW v \in Workers
          PROVE  /\ \A j \in batch'[v] : j.event = e => j.count >= k
                 /\ item'[v] # NoItem /\ item'[v].event = e => item'[v].count >= k
      BY <1>1, <2>4 DEF PassInv
    <3> QED
      BY <1>2, <1>3, <2>1, <3>1
  <2> QED
    BY <2>2, <2>3, <2>4
<1>9. ASSUME NEW w \in Workers, CountRetry(w) \/ DeadLetter(w) PROVE AtLeast(e, k)'
  <2>1. /\ item[w] \in Items /\ Event(w) \in Events /\ item[w].count \in 0..MAX_RETRIES
        /\ item[w] # NoItem
    <3>1. at[w] \notin {"idle", "exists"}
      BY <1>9 DEF CountRetry, DeadLetter
    <3> QED
      BY <3>1, SameItems, NoItemAssumption DEF Items
  <2>2. count' = [count EXCEPT ![Event(w)] = item[w].count + 1] /\ UNCHANGED << item, batch >>
    BY <1>9 DEF CountRetry, DeadLetter, Goto, NextCount
  <2>3. count'[e] >= k
    BY <1>1, <1>2, <2>1, <2>2 DEF RowInv, Event
  <2> QED
    BY <1>1, <1>3, <2>2, <2>3
<1>10. ASSUME NEW w \in Workers, PublishRetry(w) \/ PublishAlert(w) \/ FailPass(w)
       PROVE  AtLeast(e, k)'
  BY <1>1, <1>6, <1>10 DEF PublishRetry, PublishAlert, FailPass, rows
<1>11. \/ UNCHANGED << count, item, batch >>
       \/ \E w \in Workers :
            \/ ProcessMember(w) \/ CheckGuard(w) \/ CountRetry(w) \/ DeadLetter(w)
            \/ PublishRetry(w) \/ PublishAlert(w) \/ FailPass(w)
  BY DEF Next, RetryOrDlq, Retry, MoveToDlq, Time, CreateConnector,
         ActivateConnector, FailActivate, HandleWebhook, PublishReceived,
         FailWebhook, Age, ExpireGuard, SetGuard, Goto, ResendPublish, vars, pass, rows
<1> QED
  BY <1>4, <1>7, <1>8, <1>9, <1>10, <1>11

(* connector-dlq.service.ts:71: the count a slow pass writes is never below *)
(* what the row and every pass had reached, so retries do not start over.   *)
THEOREM CountHasAFloor == Spec => RetriesNeverStartOver
<1>1. TypeInv /\ [Next]_vars =>
        [\A e \in Events, k \in 0..MAX_RETRIES : AtLeast(e, k) => AtLeast(e, k)']_vars
  BY FloorStep
<1> QED
  BY <1>1, TypeInit, TypeStep, PTL DEF Spec, RetriesNeverStartOver

----------------------------------------------------------------------------

(* Faults are only ever counted up, and so are alerts.                      *)
LEMMA FaultsGrow ==
  ASSUME TypeInv, [Next]_vars
  PROVE  /\ faults \in Nat /\ faults' \in Nat
         /\ faults' = faults \/ faults' = faults + 1
         /\ \A e \in Events : alerts[e] \in Nat /\ alerts'[e] \in Nat /\ alerts'[e] >= alerts[e]
<1> PassInv /\ RowInv
  BY TypeInvSplit
<1>1. faults \in Nat /\ \A e \in Events : alerts[e] \in Nat
  BY EventFaultsAssumption DEF RowInv
<1>2. faults' = faults \/ faults' = faults + 1
  BY DEF Next, RetryOrDlq, Retry, MoveToDlq, Time, CreateConnector,
         ActivateConnector, FailActivate, HandleWebhook, PublishReceived,
         FailWebhook, Age, ExpireGuard, ProcessMember, CheckGuard, CountRetry,
         SetGuard, PublishRetry, DeadLetter, PublishAlert, FailPass,
         ResendPublish, vars
<1>3. UNCHANGED alerts \/ \E w \in Workers : PublishAlert(w)
  BY DEF Next, RetryOrDlq, Retry, MoveToDlq, Time, CreateConnector,
         ActivateConnector, FailActivate, HandleWebhook, PublishReceived,
         FailWebhook, Age, ExpireGuard, ProcessMember, CheckGuard, CountRetry,
         SetGuard, PublishRetry, DeadLetter, FailPass, ResendPublish, vars
<1>4. ASSUME NEW w \in Workers, PublishAlert(w), NEW e \in Events
      PROVE  alerts'[e] \in Nat /\ alerts'[e] >= alerts[e]
  BY <1>1, <1>4 DEF PublishAlert, RowInv
<1> QED
  BY <1>1, <1>2, <1>3, <1>4

LEMMA AlertStep == TypeInv /\ DeadLetterAlerted /\ [Next]_vars => DeadLetterAlerted'
<1> SUFFICES ASSUME TypeInv, PassInv, RowInv, DeadLetterAlerted, [Next]_vars,
                    NEW e \in Events, status'[e] = "dlq"
             PROVE  \/ alerts'[e] > 0
                    \/ \E w \in Workers : at'[w] = "alert" /\ item'[w].event = e
                    \/ faults' > 0
  BY TypeInvSplit DEF DeadLetterAlerted, Event
<1>1. /\ faults \in Nat /\ faults' \in Nat
      /\ faults' = faults \/ faults' = faults + 1
      /\ alerts[e] \in Nat /\ alerts'[e] \in Nat /\ alerts'[e] >= alerts[e]
  BY FaultsGrow
<1>2. CASE status[e] # "dlq"
  <2>1. PICK w \in Workers : DeadLetter(w) /\ Event(w) = e
    <3>1. PICK w \in Workers : DeadLetter(w)
      BY <1>2 DEF RowInv, Next, RetryOrDlq, Retry, MoveToDlq, Time, CreateConnector,
         ActivateConnector, FailActivate, HandleWebhook, PublishReceived,
         FailWebhook, Age, ExpireGuard, ProcessMember, CheckGuard, CountRetry,
         SetGuard, PublishRetry, PublishAlert, FailPass, ResendPublish, vars, rows
    <3>2. Event(w) = e
      BY <1>2, <3>1 DEF DeadLetter, RowInv
    <3> QED
      BY <3>1, <3>2
  <2> QED
    BY <2>1 DEF DeadLetter, Goto, PassInv, Event
<1>3. CASE alerts[e] > 0 \/ faults > 0
  BY <1>1, <1>3
<1>4. CASE status[e] = "dlq" /\ \E w \in Workers : at[w] = "alert" /\ Event(w) = e
  <2>1. PICK w \in Workers : at[w] = "alert" /\ Event(w) = e
    BY <1>4
  <2>2. CASE at'[w] = "alert" /\ item'[w] = item[w]
    BY <2>1, <2>2 DEF Event
  <2>3. CASE PublishAlert(w)
    BY <1>1, <2>1, <2>3 DEF PublishAlert, RowInv
  <2>4. CASE FailPass(w)
    BY <1>1, <2>4 DEF FailPass
  <2>5. ASSUME NEW v \in Workers, NEW rest, MoveOn(v, rest), v # w
        PROVE  at'[w] = "alert" /\ item'[w] = item[w]
    BY <2>1, <2>5 DEF MoveOn, PassInv
  <2>6. ASSUME NEW v \in Workers, NEW where, Goto(v, where), v # w
        PROVE  at'[w] = "alert" /\ item'[w] = item[w]
    BY <2>1, <2>6 DEF Goto, PassInv
  <2>7. ASSUME NEW v \in Workers, CheckGuard(v)
        PROVE  at'[w] = "alert" /\ item'[w] = item[w]
    <3>1. v # w
      BY <2>1, <2>7 DEF CheckGuard
    <3>2. PICK i \in batch[v] :
            \/ MoveOn(v, batch[v] \ {i})
            \/ /\ item' = [item EXCEPT ![v] = i]
               /\ \E to : at' = [at EXCEPT ![v] = to]
      BY <2>7 DEF CheckGuard
    <3> QED
      BY <2>1, <2>5, <3>1, <3>2 DEF PassInv
  <2>8. ASSUME NEW v \in Workers,
               ProcessMember(v) \/ PublishRetry(v) \/ PublishAlert(v) \/ FailPass(v)
        PROVE  \/ at'[w] = "alert" /\ item'[w] = item[w]
               \/ PublishAlert(w) \/ FailPass(w)
    BY <2>1, <2>5, <2>8 DEF ProcessMember, PublishRetry, PublishAlert, FailPass
  <2>9. ASSUME NEW v \in Workers, CountRetry(v) \/ SetGuard(v) \/ DeadLetter(v)
        PROVE  at'[w] = "alert" /\ item'[w] = item[w]
    BY <2>1, <2>6, <2>9 DEF CountRetry, SetGuard, DeadLetter
  <2>10. \/ UNCHANGED pass
         \/ \E v \in Workers :
              \/ CheckGuard(v) \/ CountRetry(v) \/ DeadLetter(v) \/ SetGuard(v)
              \/ ProcessMember(v) \/ PublishRetry(v) \/ PublishAlert(v) \/ FailPass(v)
    BY DEF Next, RetryOrDlq, Retry, MoveToDlq, Time, CreateConnector,
           ActivateConnector, FailActivate, HandleWebhook, PublishReceived,
           FailWebhook, Age, ExpireGuard, ResendPublish, vars, pass
  <2> QED
    BY <2>1, <2>2, <2>3, <2>4, <2>7, <2>8, <2>9, <2>10 DEF pass
<1> QED
  BY <1>2, <1>3, <1>4 DEF DeadLetterAlerted

(* connector-dlq.service.ts:81: a dead row has its alert raised, or about   *)
(* to be, unless a fault came between the two.                              *)
THEOREM DeathIsAlerted == Spec => []DeadLetterAlerted
<1>1. Init => DeadLetterAlerted
  BY DEF Init, DeadLetterAlerted
<1> QED
  BY <1>1, TypeInit, TypeStep, AlertStep, PTL DEF Spec

----------------------------------------------------------------------------

LEMMA OwingFinite == \A e : IsFiniteSet(Owing(e)) /\ Cardinality(Owing(e)) \in Nat
BY WorkersAssumption, FS_Subset, FS_CardinalityType DEF Owing

LEMMA OwingFinitePrimed ==
  \A e : IsFiniteSet(Owing(e)') /\ Cardinality(Owing(e)') \in Nat
BY WorkersAssumption, FS_Subset, FS_CardinalityType DEF Owing

(* A set that loses one element at most is smaller by one at most.          *)
LEMMA LoseOne ==
  ASSUME NEW S, NEW T, IsFiniteSet(S), IsFiniteSet(T), NEW w, S \ {w} \subseteq T
  PROVE  /\ Cardinality(S) <= Cardinality(T) + 1
         /\ w \notin S => Cardinality(S) <= Cardinality(T)
         /\ w \in T \ S => Cardinality(S) + 1 <= Cardinality(T)
<1>1. /\ IsFiniteSet(S \ {w})
      /\ Cardinality(S \ {w}) = IF w \in S THEN Cardinality(S) - 1 ELSE Cardinality(S)
  BY FS_RemoveElement
<1>2. Cardinality(S \ {w}) <= Cardinality(T)
  BY <1>1, FS_Subset
<1>3. Cardinality(S) \in Nat /\ Cardinality(T) \in Nat
  BY FS_CardinalityType
<1>4. ASSUME w \in T \ S PROVE Cardinality(S) + 1 <= Cardinality(T)
  <2>1. S \cup {w} \subseteq T
    BY <1>4
  <2>2. IsFiniteSet(S \cup {w}) /\ Cardinality(S \cup {w}) = Cardinality(S) + 1
    BY <1>4, FS_AddElement
  <2>3. Cardinality(S \cup {w}) <= Cardinality(T)
    BY <2>1, FS_Subset
  <2> QED
    BY <2>2, <2>3
<1> QED
  BY <1>1, <1>2, <1>3, <1>4

LEMMA EarnedType == TypeInv => \A e \in Events : Earned(e) \in Nat
BY TypeInvSplit, OwingFinite, EventFaultsAssumption DEF RowInv, Earned

(* A step of one worker.                                                    *)
LEMMA OwingStep ==
  ASSUME NEW e, NEW w \in Workers,
         \A v \in Workers \ {w} : at'[v] = at[v] /\ item'[v] = item[v]
  PROVE  /\ Cardinality(Owing(e)) <= Cardinality(Owing(e)') + 1
         /\ w \notin Owing(e) => Cardinality(Owing(e)) <= Cardinality(Owing(e)')
         /\ w \in Owing(e)' \ Owing(e) =>
              Cardinality(Owing(e)) + 1 <= Cardinality(Owing(e)')
<1>1. Owing(e) \ {w} \subseteq Owing(e)'
  BY DEF Owing, Event
<1> QED
  BY <1>1, OwingFinite, OwingFinitePrimed, LoseOne

LEMMA OthersStay ==
  ASSUME TypeInv, NEW w \in Workers,
         \/ \E rest : MoveOn(w, rest)
         \/ \E where : Goto(w, where)
         \/ CheckGuard(w)
  PROVE  \A v \in Workers \ {w} : at'[v] = at[v] /\ item'[v] = item[v]
BY TypeInvSplit DEF PassInv, MoveOn, Goto, CheckGuard

(* A step takes nothing away from what an event has earned: a publication   *)
(* that is owed is made, or is lost to a fault.                             *)
LEMMA EarnedGrows ==
  ASSUME TypeInv, [Next]_vars, NEW e \in Events
  PROVE  Earned(e)' >= Earned(e)
<1> DEFINE S == Cardinality(Owing(e))
           T == Cardinality(Owing(e)')
           hooked == IF hook[e] = "publish" THEN 1 ELSE 0
           hooked1 == IF hook'[e] = "publish" THEN 1 ELSE 0
<1> PassInv /\ RowInv
  BY TypeInvSplit
<1>1. /\ Earned(e) = messages[e] + S + hooked + faults
      /\ Earned(e)' = messages'[e] + T + hooked1 + faults'
  BY DEF Earned
<1>2. S \in Nat /\ T \in Nat /\ messages[e] \in Nat /\ faults \in Nat
  BY OwingFinite, OwingFinitePrimed, EventFaultsAssumption DEF RowInv
<1>3. ASSUME UNCHANGED pass PROVE S = T
  BY <1>3 DEF Owing, Event, pass
<1> HIDE DEF S, T
<1>4. CASE \/ CreateConnector \/ ActivateConnector \/ FailActivate
           \/ \E d \in Events : Time(d)
           \/ UNCHANGED vars
  <2>1. /\ UNCHANGED << pass, messages, hook >>
        /\ faults' = faults \/ faults' = faults + 1
    BY <1>4 DEF CreateConnector, ActivateConnector, FailActivate, Time, Age,
                ExpireGuard, vars, pass
  <2> QED
    BY <1>1, <1>2, <1>3, <2>1
<1>5. ASSUME NEW d \in Events, HandleWebhook(d) \/ PublishReceived(d) \/ FailWebhook(d)
      PROVE  Earned(e)' >= Earned(e)
  <2>1. UNCHANGED pass
    BY <1>5 DEF HandleWebhook, PublishReceived, FailWebhook
  <2>2. messages'[e] + hooked1 + faults' >= messages[e] + hooked + faults
    BY <1>2, <1>5 DEF RowInv, HandleWebhook, PublishReceived, FailWebhook
  <2>3. messages'[e] \in Nat /\ faults' \in Nat
    BY <1>2, <1>5 DEF RowInv, HandleWebhook, PublishReceived, FailWebhook
  <2> QED
    BY <1>1, <1>2, <1>3, <2>1, <2>2, <2>3
<1>6. ASSUME NEW w \in Workers,
             \/ ProcessMember(w) \/ CheckGuard(w) \/ CountRetry(w) \/ SetGuard(w)
             \/ DeadLetter(w) \/ PublishAlert(w)
      PROVE  Earned(e)' >= Earned(e)
  <2>1. UNCHANGED << messages, hook, faults >>
    BY <1>6 DEF ProcessMember, CheckGuard, CountRetry, SetGuard, DeadLetter, PublishAlert
  <2>2. \A v \in Workers \ {w} : at'[v] = at[v] /\ item'[v] = item[v]
    BY <1>6, OthersStay
    DEF ProcessMember, CountRetry, SetGuard, DeadLetter, PublishAlert
  <2>3. CASE SetGuard(w)
    <3>1. Owing(e)' = Owing(e)
      BY <2>3 DEF Owing, Event, SetGuard, Goto, PassInv
    <3> QED
      BY <1>1, <1>2, <2>1, <3>1 DEF S, T
  <2>4. CASE ~SetGuard(w)
    <3>1. w \notin Owing(e)
      BY <1>6, <2>4 DEF Owing, ProcessMember, CheckGuard, CountRetry, DeadLetter,
                        PublishAlert
    <3>2. S <= T
      BY <2>2, <3>1, OwingStep DEF S, T
    <3> QED
      BY <1>1, <1>2, <2>1, <3>2
  <2> QED
    BY <2>3, <2>4
<1>7. ASSUME NEW w \in Workers, PublishRetry(w) PROVE Earned(e)' >= Earned(e)
  <2>1. UNCHANGED << hook, faults >> /\ Event(w) \in Events
    BY <1>7, SameItems DEF PublishRetry
  <2>2. \A v \in Workers \ {w} : at'[v] = at[v] /\ item'[v] = item[v]
    BY <1>7, OthersStay DEF PublishRetry
  <2>3. CASE Event(w) = e
    <3>1. messages'[e] = messages[e] + 1
      BY <1>7, <2>3 DEF PublishRetry, RowInv
    <3>2. S <= T + 1
      BY <2>2, OwingStep DEF S, T
    <3> QED
      BY <1>1, <1>2, <2>1, <3>1, <3>2
  <2>4. CASE Event(w) # e
    <3>1. messages'[e] = messages[e]
      BY <1>7, <2>1, <2>4 DEF PublishRetry, RowInv
    <3>2. S <= T
      BY <2>2, <2>4, OwingStep DEF S, T, Owing
    <3> QED
      BY <1>1, <1>2, <2>1, <3>1, <3>2
  <2> QED
    BY <2>3, <2>4
<1>8. ASSUME NEW w \in Workers, FailPass(w) PROVE Earned(e)' >= Earned(e)
  <2>1. UNCHANGED << messages, hook >> /\ faults' = faults + 1
    BY <1>8 DEF FailPass
  <2>2. \A v \in Workers \ {w} : at'[v] = at[v] /\ item'[v] = item[v]
    BY <1>8, OthersStay DEF FailPass
  <2>3. S <= T + 1
    BY <2>2, OwingStep DEF S, T
  <2> QED
    BY <1>1, <1>2, <2>1, <2>3
<1>9. ASSUME NEW w \in Workers, ResendPublish(w) PROVE Earned(e)' >= Earned(e)
  <2>1. UNCHANGED << hook, pass >> /\ faults' = faults + 1
    BY <1>9 DEF ResendPublish
  <2>2. messages'[e] \in Nat /\ messages'[e] >= messages[e]
    BY <1>2, <1>9 DEF ResendPublish, RowInv
  <2> QED
    BY <1>1, <1>2, <1>3, <2>1, <2>2
<1> QED
  BY <1>4, <1>5, <1>6, <1>7, <1>8, <1>9 DEF Next, RetryOrDlq, Retry, MoveToDlq

(* Whoever counts a retry owes its publication.                             *)
LEMMA CountingOwes ==
  ASSUME TypeInv, NEW w \in Workers, CountRetry(w), NEW e \in Events, Event(w) = e
  PROVE  Earned(e)' >= Earned(e) + 1
<1> PassInv /\ RowInv
  BY TypeInvSplit
<1>1. UNCHANGED << messages, hook, faults, item >> /\ at[w] = "count"
  BY DEF CountRetry, Goto
<1>2. w \in Owing(e)' \ Owing(e)
  BY <1>1 DEF Owing, Event, CountRetry, Goto, PassInv
<1>3. \A v \in Workers \ {w} : at'[v] = at[v] /\ item'[v] = item[v]
  BY OthersStay DEF CountRetry
<1>4. Cardinality(Owing(e)) + 1 <= Cardinality(Owing(e)')
  BY <1>2, <1>3, OwingStep
<1>5. /\ Cardinality(Owing(e)) \in Nat /\ Cardinality(Owing(e)') \in Nat
      /\ messages[e] \in Nat /\ faults \in Nat
  BY OwingFinite, OwingFinitePrimed, EventFaultsAssumption DEF RowInv
<1> QED
  BY <1>1, <1>4, <1>5 DEF Earned

(* A delivery owes the first publication.                                   *)
LEMMA DeliveryOwes ==
  ASSUME TypeInv, NEW e \in Events, HandleWebhook(e)
  PROVE  Earned(e)' >= 1
<1>1. hook'[e] = "publish" /\ messages'[e] \in Nat /\ faults' \in Nat
  BY TypeInvSplit, EventFaultsAssumption DEF RowInv, HandleWebhook
<1>2. Cardinality(Owing(e)') \in Nat
  BY OwingFinitePrimed
<1> QED
  BY <1>1, <1>2 DEF Earned

(* CountIsEarned is not inductive: a pass writes a count it has read long   *)
(* before, so what it has read must have been earned as well.               *)
ReadIsEarned ==
  \A e \in Events, w \in Workers :
    /\ \A i \in batch[w] : i.event = e => i.count + 1 <= Earned(e)
    /\ item[w] # NoItem /\ item[w].event = e => item[w].count + 1 <= Earned(e)

LEMMA RowEarnedStep ==
  TypeInv /\ CountIsEarned /\ ReadIsEarned /\ [Next]_vars => CountIsEarned'
<1> SUFFICES ASSUME TypeInv, PassInv, RowInv, CountIsEarned, ReadIsEarned, [Next]_vars,
                    NEW e \in Events
             PROVE  Accounted(e)' <= Earned(e)'
  BY TypeInvSplit DEF CountIsEarned
<1>1. /\ Earned(e) \in Nat /\ Earned(e)' \in Nat /\ Earned(e)' >= Earned(e)
      /\ count[e] \in Nat /\ Accounted(e) <= Earned(e)
  <2>1. Earned(e)' \in Nat
    BY TypeStep, TypeInvSplitPrimed, OwingFinitePrimed, EventFaultsAssumption
    DEF RowInv, Earned
  <2> QED
    BY <2>1, EarnedType, EarnedGrows, RetriesAssumption DEF CountIsEarned, RowInv
<1>2. Accounted(e) \in Nat
  BY <1>1, RetriesAssumption DEF Accounted, RowInv
<1>3. CASE status'[e] = status[e] /\ count'[e] = count[e]
  <2>1. Accounted(e)' = Accounted(e)
    BY <1>3 DEF Accounted
  <2> QED
    BY <1>1, <1>2, <2>1
<1>4. CASE HandleWebhook(e)
  <2>1. Accounted(e)' = 1
    BY <1>4 DEF Accounted, HandleWebhook, RowInv
  <2> QED
    BY <1>4, <2>1, DeliveryOwes
<1>5. ASSUME NEW w \in Workers, CountRetry(w), Event(w) = e
      PROVE  Accounted(e)' <= Earned(e)'
  <2>1. /\ item[w].count \in Nat /\ item[w].count + 1 <= Earned(e)
    <3>1. at[w] \notin {"idle", "exists"}
      BY <1>5 DEF CountRetry
    <3>2. item[w] \in Items /\ item[w] # NoItem
      BY <3>1, NoItemAssumption DEF PassInv, Items
    <3> QED
      BY <1>5, <3>2 DEF ReadIsEarned, Event, Items
  <2>2. count'[e] = item[w].count + 1 /\ status'[e] = status[e]
    BY <1>5 DEF CountRetry, NextCount, RowInv
  <2>3. Earned(e)' >= Earned(e) + 1
    BY <1>5, CountingOwes
  <2>4. CASE status[e] = "pending"
    <3>1. Accounted(e)' = item[w].count + 2
      BY <2>1, <2>2, <2>4 DEF Accounted
    <3> QED
      BY <1>1, <2>1, <2>3, <3>1
  <2>5. CASE status[e] # "pending"
    <3>1. Accounted(e)' = Accounted(e)
      BY <2>2, <2>5 DEF Accounted, RowInv
    <3> QED
      BY <1>1, <1>2, <3>1
  <2> QED
    BY <2>4, <2>5
<1>6. ASSUME NEW w \in Workers, DeadLetter(w), Event(w) = e
      PROVE  Accounted(e)' <= Earned(e)'
  <2>1. item[w].count \in Nat /\ item[w].count + 1 <= Earned(e) /\ NextCount(w) = MAX_RETRIES
    <3>1. at[w] = "dlq"
      BY <1>6 DEF DeadLetter
    <3>2. item[w] \in Items /\ item[w] # NoItem
      BY <3>1, NoItemAssumption DEF PassInv, Items
    <3> QED
      BY <1>6, <3>1, <3>2 DEF ReadIsEarned, Event, Items, PassInv
  <2>2. Accounted(e)' = MAX_RETRIES
    BY <1>6 DEF Accounted, DeadLetter, RowInv
  <2> QED
    BY <1>1, <2>1, <2>2, RetriesAssumption DEF NextCount
<1>7. \/ status'[e] = status[e] /\ count'[e] = count[e]
      \/ HandleWebhook(e)
      \/ \E w \in Workers : (CountRetry(w) \/ DeadLetter(w)) /\ Event(w) = e
  <2>1. CASE UNCHANGED << status, count >>
    BY <2>1
  <2>2. ASSUME NEW d \in Events, HandleWebhook(d), d # e
        PROVE  status'[e] = status[e] /\ count'[e] = count[e]
    BY <2>2 DEF HandleWebhook, RowInv
  <2>3. ASSUME NEW w \in Workers, CountRetry(w) \/ DeadLetter(w), Event(w) # e
        PROVE  status'[e] = status[e] /\ count'[e] = count[e]
    BY <2>3 DEF CountRetry, DeadLetter, RowInv
  <2>4. \/ UNCHANGED << status, count >>
        \/ \E d \in Events : HandleWebhook(d)
        \/ \E w \in Workers : CountRetry(w) \/ DeadLetter(w)
    BY DEF Next, RetryOrDlq, Retry, MoveToDlq, Time, CreateConnector,
           ActivateConnector, FailActivate, PublishReceived, FailWebhook, Age,
           ExpireGuard, ProcessMember, CheckGuard, SetGuard, PublishRetry,
           PublishAlert, FailPass, ResendPublish, vars, rows
  <2> QED
    BY <2>1, <2>2, <2>3, <2>4
<1> QED
  BY <1>3, <1>4, <1>5, <1>6, <1>7

(* A pass reads what rows account for, and then only forgets.               *)
LEMMA ReadEarnedStep ==
  TypeInv /\ CountIsEarned /\ ReadIsEarned /\ [Next]_vars => ReadIsEarned'
<1> SUFFICES ASSUME TypeInv, PassInv, RowInv, CountIsEarned, ReadIsEarned, [Next]_vars
             PROVE  ReadIsEarned'
  BY TypeInvSplit
<1>1. ASSUME NEW e \in Events
      PROVE  Earned(e) \in Nat /\ Earned(e)' \in Nat /\ Earned(e)' >= Earned(e)
  <2>1. Earned(e)' \in Nat
    BY TypeStep, TypeInvSplitPrimed, OwingFinitePrimed, EventFaultsAssumption
    DEF RowInv, Earned
  <2> QED
    BY <2>1, EarnedType, EarnedGrows
<1> DEFINE Backed(i) ==
             i \in Items /\ \A e \in Events : i.event = e => i.count + 1 <= Earned(e)
           Backed1(i) ==
             i \in Items /\ \A e \in Events : i.event = e => i.count + 1 <= Earned(e)'
<1>2. ASSUME NEW i, Backed(i) PROVE Backed1(i)
  BY <1>1, <1>2 DEF Items
<1>3. \A w \in Workers :
        (\A i \in batch[w] : Backed(i)) /\ (item[w] # NoItem => Backed(item[w]))
  BY DEF ReadIsEarned, PassInv
<1> HIDE DEF Backed, Backed1
<1>4. ASSUME \A w \in Workers :
               (\A i \in batch'[w] : Backed1(i)) /\ (item'[w] # NoItem => Backed1(item'[w]))
      PROVE  ReadIsEarned'
  <2>1. ASSUME NEW e \in Events, NEW w \in Workers, NEW i \in batch'[w], i.event = e
        PROVE  i.count + 1 <= Earned(e)'
    BY <1>4, <2>1 DEF Backed1
  <2>2. ASSUME NEW e \in Events, NEW w \in Workers, item'[w] # NoItem, item'[w].event = e
        PROVE  item'[w].count + 1 <= Earned(e)'
    BY <1>4, <2>2 DEF Backed1
  <2> QED
    BY <2>1, <2>2 DEF ReadIsEarned
<1>5. CASE UNCHANGED << item, batch >>
  BY <1>2, <1>3, <1>4, <1>5
<1>6. ASSUME NEW w \in Workers, NEW rest, MoveOn(w, rest), \A i \in rest : Backed1(i)
      PROVE  ReadIsEarned'
  BY <1>2, <1>3, <1>4, <1>6 DEF MoveOn, PassInv
<1>7. ASSUME NEW w \in Workers, ProcessMember(w) PROVE ReadIsEarned'
  <2>1. PICK S \in SUBSET StuckEvents :
          MoveOn(w, { [event |-> e, count |-> count[e]] : e \in S })
    BY <1>7 DEF ProcessMember
  <2>2. ASSUME NEW e \in S PROVE Backed([event |-> e, count |-> count[e]])
    <3>1. e \in Events /\ status[e] = "pending" /\ count[e] \in 0..MAX_RETRIES
      BY DEF StuckEvents, RowInv
    <3>2. count[e] + 1 <= Earned(e)
      BY <3>1 DEF CountIsEarned, Accounted
    <3> QED
      BY <3>1, <3>2 DEF Backed, Items
  <2> QED
    BY <1>2, <1>6, <2>1, <2>2
<1>8. ASSUME NEW w \in Workers, CheckGuard(w) PROVE ReadIsEarned'
  <2>1. PICK i \in batch[w] :
          \/ MoveOn(w, batch[w] \ {i})
          \/ /\ batch' = [batch EXCEPT ![w] = @ \ {i}]
             /\ item' = [item EXCEPT ![w] = i]
    BY <1>8 DEF CheckGuard
  <2>2. CASE MoveOn(w, batch[w] \ {i})
    BY <1>2, <1>3, <1>6, <2>2
  <2>3. CASE /\ batch' = [batch EXCEPT ![w] = @ \ {i}]
             /\ item' = [item EXCEPT ![w] = i]
    BY <1>2, <1>3, <1>4, <2>3 DEF PassInv
  <2> QED
    BY <2>1, <2>2, <2>3
<1>9. ASSUME NEW w \in Workers, PublishRetry(w) \/ PublishAlert(w) \/ FailPass(w)
      PROVE  ReadIsEarned'
  BY <1>2, <1>3, <1>6, <1>9 DEF PublishRetry, PublishAlert, FailPass
<1>10. \/ UNCHANGED << item, batch >>
       \/ \E w \in Workers :
            \/ ProcessMember(w) \/ CheckGuard(w)
            \/ PublishRetry(w) \/ PublishAlert(w) \/ FailPass(w)
  BY DEF Next, RetryOrDlq, Retry, MoveToDlq, Time, CreateConnector,
         ActivateConnector, FailActivate, HandleWebhook, PublishReceived,
         FailWebhook, Age, ExpireGuard, CountRetry, DeadLetter, SetGuard, Goto,
         ResendPublish, vars, pass
<1> QED
  BY <1>5, <1>7, <1>8, <1>9, <1>10

(* However many passes overlap, no event gets nearer to the dead letter     *)
(* queue than it was published (MAX_RETRIES of connector-dlq.service.ts).   *)
THEOREM CountIsAlwaysEarned == Spec => []CountIsEarned
<1>1. Init => CountIsEarned /\ ReadIsEarned
  <2> SUFFICES ASSUME Init PROVE CountIsEarned /\ ReadIsEarned
    OBVIOUS
  <2>1. ReadIsEarned
    BY DEF Init, ReadIsEarned
  <2>2. ASSUME NEW e \in Events PROVE Accounted(e) <= Earned(e)
    <3>1. Earned(e) \in Nat
      BY TypeInit, EarnedType
    <3>2. Accounted(e) = 0
      BY DEF Init, Accounted
    <3> QED
      BY <3>1, <3>2
  <2> QED
    BY <2>1, <2>2 DEF CountIsEarned
<1>2. TypeInv /\ CountIsEarned /\ ReadIsEarned /\ [Next]_vars
        => TypeInv' /\ CountIsEarned' /\ ReadIsEarned'
  BY TypeStep, RowEarnedStep, ReadEarnedStep
<1> QED
  BY <1>1, <1>2, TypeInit, PTL DEF Spec
============================================================================
