-------------------------- MODULE ConnectorEvents ---------------------------
(***************************************************************************)
(* The events of one connector: the webhook stores each as a row and       *)
(* publishes it to the tenant's stream; the dead letter worker looks for   *)
(* rows that stay pending, publishes them again behind a guard key, and    *)
(* after MAX_RETRIES looks moves them to the dead letter queue and raises  *)
(* an alert.                                                               *)
(*                                                                         *)
(* The timer of the worker starts a pass every minute, in every replica,   *)
(* whether or not the last pass has ended, so passes overlap: a worker is  *)
(* a place a pass can run in.  A pass works on the rows as its query read  *)
(* them, one after the other, and every await is a step of its own.        *)
(***************************************************************************)
EXTENDS Integers, FiniteSets

CONSTANTS
  Events,      \* deliveries of the webhook, each a row of connector_events
  Workers,     \* passes that may run at one time
  MAX_RETRIES,
  Limit,       \* how many rows a pass reads at most
  NoItem,      \* the row a pass works on when it works on none
  MaxFaults    \* bound: awaits that throw, processes that die, XADDs resent

ASSUME WorkersAssumption == IsFiniteSet(Workers)
ASSUME RetriesAssumption == MAX_RETRIES \in Nat \ {0}
ASSUME LimitAssumption == Limit \in Nat \ {0}
ASSUME NoItemAssumption == NoItem \notin [event : Events, count : Nat]
ASSUME EventFaultsAssumption == MaxFaults \in Nat

VARIABLES
  connector,  \* "none", "stored" as a row, "active" in the set, "forgotten"
  hook,       \* where the webhook request of an event is
  status,     \* connector_events.status, "none" before there is a row
  count,      \* connector_events.retry_count
  old,        \* events received more than five minutes ago
  guard,      \* per event, the workers that have set its guard key since it
              \* last expired: the key is there if there is one
  messages,   \* per event, the entries about it in the stream
  alerts,     \* per event, the connector.dlq.alert entries in the stream
  at,         \* the await each worker is about to make
  item,       \* the row it works on, as it was read
  batch,      \* the rows it has read and is yet to work on
  faults      \* faults so far

rows == << status, count >>
pass == << at, item, batch >>
vars == << connector, hook, status, count, old, guard, messages, alerts,
           at, item, batch, faults >>

----------------------------------------------------------------------------

Items == [event : Events, count : 0..MAX_RETRIES]

(* A pass calls EXISTS, then two or three awaits on the row it works on.    *)
Awaits == { "exists", "count", "setex", "publish", "dlq", "alert" }

Event(w) == item[w].event

NextCount(w) == item[w].count + 1

Guarded(e) == guard[e] # {}

(* What the query of processMember selects from.                            *)
StuckEvents == { e \in old : status[e] = "pending" }

----------------------------------------------------------------------------

Init ==
  /\ connector = "none"
  /\ hook      = [e \in Events |-> "idle"]
  /\ status    = [e \in Events |-> "none"]
  /\ count     = [e \in Events |-> 0]
  /\ old       = {}
  /\ guard     = [e \in Events |-> {}]
  /\ messages  = [e \in Events |-> 0]
  /\ alerts    = [e \in Events |-> 0]
  /\ at        = [w \in Workers |-> "idle"]
  /\ item      = [w \in Workers |-> NoItem]
  /\ batch     = [w \in Workers |-> {}]
  /\ faults    = 0

(* ConnectorsService.create: the row, then SADD.                            *)
CreateConnector ==
  /\ connector = "none"
  /\ connector' = "stored"
  /\ UNCHANGED << hook, rows, old, guard, messages, alerts, pass, faults >>

ActivateConnector ==
  /\ connector = "stored"
  /\ connector' = "active"
  /\ UNCHANGED << hook, rows, old, guard, messages, alerts, pass, faults >>

(* The webhook stores the event, which needs the connector's row.           *)
HandleWebhook(e) ==
  /\ hook[e] = "idle" /\ connector # "none"
  /\ hook' = [hook EXCEPT ![e] = "publish"]
  /\ status' = [status EXCEPT ![e] = "pending"]
  /\ UNCHANGED << connector, count, old, guard, messages, alerts, pass, faults >>

(* The webhook publishes it.                                                *)
PublishReceived(e) ==
  /\ hook[e] = "publish"
  /\ hook' = [hook EXCEPT ![e] = "done"]
  /\ messages' = [messages EXCEPT ![e] = @ + 1]
  /\ UNCHANGED << connector, rows, old, guard, alerts, pass, faults >>

(* Five minutes pass since an event was received.                           *)
Age(e) ==
  /\ status[e] # "none" /\ e \notin old
  /\ old' = old \cup {e}
  /\ UNCHANGED << connector, hook, rows, guard, messages, alerts, pass, faults >>

----------------------------------------------------------------------------

(* The pass moves on: to the next row it has read, or to its end.           *)
MoveOn(w, rest) ==
  /\ at' = [at EXCEPT ![w] = IF rest = {} THEN "idle" ELSE "exists"]
  /\ item' = [item EXCEPT ![w] = NoItem]
  /\ batch' = [batch EXCEPT ![w] = rest]

Goto(w, where) ==
  /\ at' = [at EXCEPT ![w] = where]
  /\ UNCHANGED << item, batch >>

(* The timer fires, and the pass reads up to Limit of the stuck rows, in no *)
(* order.  A pass that finds none ends at once.                             *)
ProcessMember(w) ==
  /\ at[w] = "idle" /\ connector = "active" /\ StuckEvents # {}
  /\ \E S \in SUBSET StuckEvents :
       /\ S # {} /\ Cardinality(S) <= Limit
       /\ S # StuckEvents => Cardinality(S) = Limit
       /\ MoveOn(w, { [event |-> e, count |-> count[e]] : e \in S })
  /\ UNCHANGED << connector, hook, rows, old, guard, messages, alerts, faults >>

(* Mutant: the guard is not looked at.                                      *)
CheckNoGuard(w) ==
  /\ at[w] = "exists"
  /\ \E i \in batch[w] :
       /\ batch' = [batch EXCEPT ![w] = @ \ {i}]
       /\ item' = [item EXCEPT ![w] = i]
       /\ at' = [at EXCEPT ![w] =
                   IF i.count + 1 >= MAX_RETRIES THEN "dlq" ELSE "count"]
  /\ UNCHANGED << connector, hook, rows, old, guard, messages, alerts, faults >>

(* retryOrDlq: EXISTS of the guard key; a guarded row is passed over.       *)
CheckGuard(w) ==
  /\ at[w] = "exists"
  /\ \E i \in batch[w] :
       IF Guarded(i.event)
         THEN MoveOn(w, batch[w] \ {i})
         ELSE /\ batch' = [batch EXCEPT ![w] = @ \ {i}]
              /\ item' = [item EXCEPT ![w] = i]
              /\ at' = [at EXCEPT ![w] =
                          IF i.count + 1 >= MAX_RETRIES THEN "dlq" ELSE "count"]
  /\ UNCHANGED << connector, hook, rows, old, guard, messages, alerts, faults >>

(* The row's new count, from the count that was read: an unconditional      *)
(* write, which may take the count back and may come after the row died.    *)
CountRetry(w) ==
  /\ at[w] = "count"
  /\ count' = [count EXCEPT ![Event(w)] = NextCount(w)]
  /\ Goto(w, "setex")
  /\ UNCHANGED << connector, hook, status, old, guard, messages, alerts, faults >>

SetGuard(w) ==
  /\ at[w] = "setex"
  /\ guard' = [guard EXCEPT ![Event(w)] = @ \cup {w}]
  /\ Goto(w, "publish")
  /\ UNCHANGED << connector, hook, rows, old, messages, alerts, faults >>

(* Mutant: the publication is not awaited and its failure goes unseen.      *)
PublishRetryUnawaited(w) ==
  /\ at[w] = "publish"
  /\ \/ messages' = [messages EXCEPT ![Event(w)] = @ + 1]
     \/ UNCHANGED messages
  /\ MoveOn(w, batch[w])
  /\ UNCHANGED << connector, hook, rows, old, guard, alerts, faults >>

PublishRetry(w) ==
  /\ at[w] = "publish"
  /\ messages' = [messages EXCEPT ![Event(w)] = @ + 1]
  /\ MoveOn(w, batch[w])
  /\ UNCHANGED << connector, hook, rows, old, guard, alerts, faults >>

(* Mutant: a dead row's count starts again from zero.                       *)
DeadLetterResetting(w) ==
  /\ at[w] = "dlq"
  /\ status' = [status EXCEPT ![Event(w)] = "dlq"]
  /\ count' = [count EXCEPT ![Event(w)] = 0]
  /\ Goto(w, "alert")
  /\ UNCHANGED << connector, hook, old, guard, messages, alerts, faults >>

DeadLetter(w) ==
  /\ at[w] = "dlq"
  /\ status' = [status EXCEPT ![Event(w)] = "dlq"]
  /\ count' = [count EXCEPT ![Event(w)] = NextCount(w)]
  /\ Goto(w, "alert")
  /\ UNCHANGED << connector, hook, old, guard, messages, alerts, faults >>

(* Mutant: the alert is not awaited and its failure goes unseen.            *)
PublishAlertUnawaited(w) ==
  /\ at[w] = "alert"
  /\ \/ alerts' = [alerts EXCEPT ![Event(w)] = @ + 1]
     \/ UNCHANGED alerts
  /\ MoveOn(w, batch[w])
  /\ UNCHANGED << connector, hook, rows, old, guard, messages, faults >>

PublishAlert(w) ==
  /\ at[w] = "alert"
  /\ alerts' = [alerts EXCEPT ![Event(w)] = @ + 1]
  /\ MoveOn(w, batch[w])
  /\ UNCHANGED << connector, hook, rows, old, guard, messages, faults >>

----------------------------------------------------------------------------

(* Mutant: the key is set without a TTL.                                    *)
ExpireGuardNever(e) == FALSE

(* Five minutes pass since the guard key was last set.                      *)
ExpireGuard(e) ==
  /\ Guarded(e)
  /\ guard' = [guard EXCEPT ![e] = {}]
  /\ UNCHANGED << connector, hook, rows, old, messages, alerts, pass, faults >>

(* An await of a pass throws without effect, or its process dies: the rows  *)
(* it has not come to are left to a later pass.                             *)
FailPass(w) ==
  /\ at[w] # "idle"
  /\ faults < MaxFaults
  /\ faults' = faults + 1
  /\ MoveOn(w, {})
  /\ UNCHANGED << connector, hook, rows, old, guard, messages, alerts >>

(* XADD takes effect, its reply is lost, and the client sends it again.     *)
ResendPublish(w) ==
  /\ at[w] = "publish"
  /\ faults < MaxFaults
  /\ faults' = faults + 1
  /\ messages' = [messages EXCEPT ![Event(w)] = @ + 1]
  /\ UNCHANGED << connector, hook, rows, old, guard, alerts, pass >>

(* The webhook's publication throws, and the sender gets an error.          *)
FailWebhook(e) ==
  /\ hook[e] = "publish"
  /\ faults < MaxFaults
  /\ faults' = faults + 1
  /\ hook' = [hook EXCEPT ![e] = "failed"]
  /\ UNCHANGED << connector, rows, old, guard, messages, alerts, pass >>

(* SADD throws: the row is there and the connector is not in the set.       *)
FailActivate ==
  /\ connector = "stored"
  /\ faults < MaxFaults
  /\ faults' = faults + 1
  /\ connector' = "forgotten"
  /\ UNCHANGED << hook, rows, old, guard, messages, alerts, pass >>

Retry(w) == CountRetry(w) \/ SetGuard(w) \/ PublishRetry(w)

MoveToDlq(w) == DeadLetter(w) \/ PublishAlert(w)

RetryOrDlq(w) == CheckGuard(w) \/ Retry(w) \/ MoveToDlq(w)

Time(e) == Age(e) \/ ExpireGuard(e)

Next ==
  \/ CreateConnector
  \/ ActivateConnector
  \/ FailActivate
  \/ \E e \in Events :
       \/ HandleWebhook(e)
       \/ PublishReceived(e)
       \/ FailWebhook(e)
       \/ Time(e)
  \/ \E w \in Workers :
       \/ ProcessMember(w)
       \/ RetryOrDlq(w)
       \/ FailPass(w)
       \/ ResendPublish(w)

Spec == Init /\ [][Next]_vars

(* Time passes, the timers fire, and an await that was made returns.        *)
FairSpec ==
  /\ Spec
  /\ \A e \in Events : WF_vars(Time(e))
  /\ \A w \in Workers : WF_vars(ProcessMember(w)) /\ WF_vars(RetryOrDlq(w))

----------------------------------------------------------------------------

TypeOK ==
  /\ connector \in {"none", "stored", "active", "forgotten"}
  /\ hook \in [Events -> {"idle", "publish", "done", "failed"}]
  /\ status \in [Events -> {"none", "pending", "dlq"}]
  /\ count \in [Events -> 0..MAX_RETRIES]
  /\ old \subseteq Events
  /\ guard \in [Events -> SUBSET Workers]
  /\ messages \in [Events -> Nat]
  /\ alerts \in [Events -> Nat]
  /\ at \in [Workers -> Awaits \cup {"idle"}]
  /\ item \in [Workers -> Items \cup {NoItem}]
  /\ batch \in [Workers -> SUBSET Items]
  /\ faults \in 0..MaxFaults
  /\ \A w \in Workers :
       /\ at[w] \notin {"idle", "exists"} => item[w] \in Items
       /\ at[w] = "dlq" => NextCount(w) = MAX_RETRIES
       /\ at[w] = "count" => NextCount(w) < MAX_RETRIES

(* Passes that have counted a retry of the event and not published it.      *)
Owing(e) == { w \in Workers : at[w] \in {"setex", "publish"} /\ Event(w) = e }

(* The publications the event's row accounts for, the webhook's included.   *)
Accounted(e) ==
  CASE status[e] = "none"    -> 0
    [] status[e] = "pending" -> count[e] + 1
    [] status[e] = "dlq"     -> MAX_RETRIES

(* Those that were made, are about to be made, or were lost to a fault.     *)
Earned(e) ==
  messages[e] + Cardinality(Owing(e)) + (IF hook[e] = "publish" THEN 1 ELSE 0) + faults

(* No event gets nearer to the dead letter queue than it was published,     *)
(* however passes overlap and overwrite its count.                          *)
CountIsEarned == \A e \in Events : Accounted(e) <= Earned(e)

(* No event is dead-lettered silently: somebody has raised its alert or is  *)
(* about to, unless a fault came between.                                   *)
DeadLetterAlerted ==
  \A e \in Events :
    status[e] = "dlq" =>
      \/ alerts[e] > 0
      \/ \E w \in Workers : at[w] = "alert" /\ Event(w) = e
      \/ faults > 0

(* The guard works against the worker that set it: for as long as it lasts  *)
(* that worker does not come to retry the event again (others may, which    *)
(* had looked before it was set).                                           *)
GuardHoldsBack ==
  \A w \in Workers : at[w] \in {"count", "setex"} => w \notin guard[Event(w)]

(* The rows of the event a pass has in hand, as it read them.               *)
InHand(w, e) ==
  { i \in batch[w] \cup (IF item[w] = NoItem THEN {} ELSE {item[w]}) : i.event = e }

AtLeast(e, k) ==
  count[e] >= k /\ \A w \in Workers : \A i \in InHand(w, e) : i.count >= k

(* A slow pass may take the count back, but never to below what the row and *)
(* all passes had reached together: retries do not start over.              *)
RetriesNeverStartOver ==
  [][\A e \in Events, k \in 0..MAX_RETRIES : AtLeast(e, k) => AtLeast(e, k)']_vars

(* Every event of an active connector ends in the dead letter queue: passes *)
(* that take its count back delay it and cannot keep it out.  (Nothing in   *)
(* the repository ever marks an event processed.)                           *)
EventsDrain ==
  \A e \in Events :
    connector = "active" /\ status[e] = "pending" ~> status[e] = "dlq"
============================================================================
