--------------------------- MODULE JiraConnector ----------------------------
(***************************************************************************)
(* One Jira connector and the issues of its Jira instance: writes under an *)
(* idempotency key, searches that follow the cursor from page to page, the *)
(* polls that publish the first page to the tenant's event stream, and the *)
(* consumers of that stream.                                               *)
(*                                                                         *)
(* Issues are kept in the order of a poll's search, the most recently      *)
(* updated first; an issue that a write creates is named after the write.  *)
(* Writes, polls and consumers run in any replica, so every await of every *)
(* one of them is a step of its own.                                       *)
(***************************************************************************)
EXTENDS Integers, FiniteSets, Sequences, SequencesExt

CONSTANTS
  Writes,      \* calls of JiraConnector.write
  Jobs,        \* what a write may ask for: [key, action, issue]
  NoJob,       \* the job of a write that was not called yet
  NoResult,    \* no record under a key, no answer yet
  Issues,      \* the issues there are at first
  Searches,    \* callers that read all pages of a search
  Polls,       \* polls of the connector
  Consumers,   \* consumers of the tenant's stream, all of one group
  PageSize,    \* maxResults of a search and of a poll
  Count,       \* how many entries a consumer reads at most
  NoGroup,     \* the consumer group does not exist
  MaxEdits,    \* bound: changes made by the users of Jira
  MaxFaults    \* bound: calls that throw, processes that die, XADDs resent

Keys    == { j.key : j \in Jobs }
Results == [action : {"create", "update"}, issue : Issues \cup Writes]

ASSUME JiraCallersAssumption ==
  /\ Writes \cap Searches = {} /\ Writes \cap Polls = {} /\ Writes \cap Consumers = {}
  /\ Searches \cap Polls = {} /\ Searches \cap Consumers = {}
  /\ Polls \cap Consumers = {}

(* An update and a transition are one: both change an issue there is.       *)
ASSUME JiraJobsAssumption ==
  /\ \A j \in Jobs : /\ j.action \in {"create", "update", "unsupported"}
                     /\ j.issue \in Issues
  /\ NoJob \notin Jobs /\ NoResult \notin Results
ASSUME JiraIssuesAssumption == Issues \cap Writes = {} /\ IsFiniteSet(Issues)
ASSUME JiraBoundsAssumption ==
  /\ PageSize \in Nat \ {0} /\ Count \in Nat \ {0}
  /\ NoGroup \notin Nat /\ MaxEdits \in Nat /\ MaxFaults \in Nat

VARIABLES
  order,    \* the issues in Jira, most recently updated first
  record,   \* the result kept in Redis under each idempotency key
  expired,  \* keys whose record reached the end of its 24 hours
  job,      \* what each write is for
  at,       \* the await each write, search, poll and consumer is about to make
  did,      \* the writes whose call took effect in Jira
  answer,   \* what each write returned
  beside,   \* the writes of its key that were between their own check and
            \* their record when a write found none (history)
  cursor,   \* startAt of a search's next page
  owed,     \* issues a search must still return: there since it began, and
            \* never moved towards the front
  page,     \* the issues a poll has read
  stream,   \* the polls whose entries are in the stream, in its order
  group,    \* how many entries the group has handed out
  got,      \* the entries handed to each consumer
  hand,     \* those of them it is still to handle
  acked,    \* the entries acknowledged
  edits, faults

jira   == << order, did, owed >>
writes == << record, expired, job, answer, beside >>
reads  == << cursor, page >>
events == << stream, group, got, hand, acked >>
vars == << jira, writes, at, reads, events, edits, faults >>

----------------------------------------------------------------------------

Goto(p, where) == at' = [at EXCEPT ![p] = where]

Fault == faults < MaxFaults /\ faults' = faults + 1

Present(issues) == { issues[n] : n \in DOMAIN issues }

(* The issues of old that are nearer the front in new, or gone.             *)
Advanced(old, new) ==
  { i \in Present(old) :
      \A n \in DOMAIN new : new[n] = i => \E m \in DOMAIN old : old[m] = i /\ n < m }

(* Jira's list becomes new.                                                 *)
Reorder(new) ==
  /\ order' = new
  /\ owed' = [s \in Searches |-> owed[s] \ Advanced(order, new)]

(* The list when its n-th issue is deleted, or updated.                     *)
Without(n) == RemoveAt(order, n)
ToFront(n) == << order[n] >> \o Without(n)

(* What a search for the page from startAt answers.                         *)
PageFrom(startAt) ==
  SubSeq(order, startAt + 1, IF startAt + PageSize < Len(order)
                               THEN startAt + PageSize ELSE Len(order))

Callers == Writes \cup Searches \cup Polls \cup Consumers

Init ==
  /\ order  = SetToSeq(Issues)
  /\ record = [k \in Keys |-> NoResult] /\ expired = {}
  /\ job    = [w \in Writes |-> NoJob]
  /\ at     = [p \in Callers |-> "idle"]
  /\ did    = {}
  /\ answer = [w \in Writes |-> NoResult]
  /\ beside = [w \in Writes |-> {}]
  /\ cursor = [s \in Searches |-> 0]
  /\ owed   = [s \in Searches |-> {}]
  /\ page   = [p \in Polls |-> {}]
  /\ stream = << >> /\ group = NoGroup
  /\ got    = [c \in Consumers |-> {}] /\ hand = [c \in Consumers |-> {}]
  /\ acked  = {}
  /\ edits  = 0 /\ faults = 0

----------------------------------------------------------------------------

Key(w) == job[w].key

(* What the call of a write makes of Jira, and returns.                     *)
Outcome(w) ==
  [action |-> job[w].action,
   issue  |-> IF job[w].action = "create" THEN w ELSE job[w].issue]

Write(w, j) ==
  /\ at[w] = "idle"
  /\ job' = [job EXCEPT ![w] = j]
  /\ Goto(w, "check")
  /\ UNCHANGED << jira, record, expired, answer, beside, reads, events, edits, faults >>

(* checkIdempotency: a record is the answer, whatever the write asks for.   *)
(* An operation that is not supported throws before any call.               *)
CheckIdempotency(w) ==
  /\ at[w] = "check"
  /\ answer' = [answer EXCEPT ![w] = record[Key(w)]]
  /\ beside' = [beside EXCEPT ![w] =
                  { v \in Writes : at[v] \in {"call", "set"} /\ Key(v) = Key(w) }]
  /\ Goto(w, IF record[Key(w)] # NoResult THEN "answered"
             ELSE IF job[w].action = "unsupported" THEN "failed" ELSE "call")
  /\ UNCHANGED << jira, record, expired, job, reads, events, edits, faults >>

(* Jira does what a write asks for.                                         *)
Effect(w) ==
  /\ did' = did \cup {w}
  /\ IF job[w].action = "create"
       THEN Reorder(<< w >> \o order)
       ELSE \E n \in DOMAIN order : order[n] = job[w].issue /\ Reorder(ToFront(n))

(* Mutant: the record is made before the call.                              *)
CallRecorded(w) ==
  /\ at[w] = "call"
  /\ record' = [record EXCEPT ![Key(w)] = Outcome(w)]
  /\ \/ Effect(w) /\ Goto(w, "set") /\ UNCHANGED faults
     \/ Goto(w, "failed") /\ UNCHANGED << jira, faults >>
  /\ UNCHANGED << expired, job, answer, beside, reads, events, edits >>

(* The request to Jira: done and answered; refused (an issue that is gone,  *)
(* a bad token, a rate limit); or done, and the answer is lost.             *)
Call(w) ==
  /\ at[w] = "call"
  /\ \/ Effect(w) /\ Goto(w, "set") /\ UNCHANGED faults
     \/ Goto(w, "failed") /\ UNCHANGED << jira, faults >>
     \/ Effect(w) /\ Goto(w, "failed") /\ Fault
  /\ UNCHANGED << writes, reads, events, edits >>

(* Mutant: the record is left to itself, and may come to nothing.           *)
SetUnawaited(w) ==
  /\ at[w] = "set"
  /\ record' = [record EXCEPT ![Key(w)] = Outcome(w)] \/ UNCHANGED record
  /\ answer' = [answer EXCEPT ![w] = Outcome(w)]
  /\ Goto(w, "answered")
  /\ UNCHANGED << jira, expired, job, beside, reads, events, edits, faults >>

(* setIdempotency overwrites what is there, and the write returns.          *)
SetIdempotency(w) ==
  /\ at[w] = "set"
  /\ record' = [record EXCEPT ![Key(w)] = Outcome(w)]
  /\ answer' = [answer EXCEPT ![w] = Outcome(w)]
  /\ Goto(w, "answered")
  /\ UNCHANGED << jira, expired, job, beside, reads, events, edits, faults >>

Expire(k) ==
  /\ record[k] # NoResult
  /\ record' = [record EXCEPT ![k] = NoResult]
  /\ expired' = expired \cup {k}
  /\ UNCHANGED << jira, job, answer, beside, at, reads, events, edits, faults >>

----------------------------------------------------------------------------

(* A search begins.                                                         *)
Search(s) ==
  /\ at[s] = "idle"
  /\ owed' = [owed EXCEPT ![s] = Present(order)]
  /\ Goto(s, "page")
  /\ UNCHANGED << order, did, writes, reads, events, edits, faults >>

(* Mutant: the cursor counts pages of the size asked for, one further on.   *)
SearchIssuesFar(s) ==
  /\ at[s] = "page"
  /\ LET issues    == PageFrom(cursor[s])
         nextStart == cursor[s] + Len(issues) + 1
     IN /\ owed' = [owed EXCEPT ![s] = @ \ Present(issues)]
        /\ cursor' = [cursor EXCEPT ![s] = nextStart]
        /\ Goto(s, IF nextStart < Len(order) THEN "page" ELSE "done")
  /\ UNCHANGED << order, did, writes, page, events, edits, faults >>

(* searchIssues: one page; there are more while the total says so.          *)
SearchIssues(s) ==
  /\ at[s] = "page"
  /\ LET issues    == PageFrom(cursor[s])
         nextStart == cursor[s] + Len(issues)
     IN /\ owed' = [owed EXCEPT ![s] = @ \ Present(issues)]
        /\ cursor' = [cursor EXCEPT ![s] = nextStart]
        /\ Goto(s, IF nextStart < Len(order) THEN "page" ELSE "done")
  /\ UNCHANGED << order, did, writes, page, events, edits, faults >>

(* The users of Jira update an issue, or delete one.                        *)
EditInJira ==
  /\ edits < MaxEdits
  /\ edits' = edits + 1
  /\ \E n \in DOMAIN order : Reorder(ToFront(n)) \/ Reorder(Without(n))
  /\ UNCHANGED << did, writes, at, reads, events, faults >>

(* poll, pollMember: the connector is in the active set, its row is active, *)
(* the vault has its token.                                                 *)
Poll(p) ==
  /\ at[p] = "idle"
  /\ Goto(p, "read")
  /\ UNCHANGED << jira, writes, reads, events, edits, faults >>

(* pollConnector reads the first page only.                                 *)
PollConnector(p) ==
  /\ at[p] = "read"
  /\ page' = [page EXCEPT ![p] = Present(PageFrom(0))]
  /\ Goto(p, "publish")
  /\ UNCHANGED << jira, writes, cursor, events, edits, faults >>

(* publishEvent: an XADD whose reply is lost is sent again.                 *)
PublishEvent(p) ==
  /\ at[p] = "publish"
  /\ stream' = Append(stream, p)
  /\ \/ Goto(p, "done") /\ UNCHANGED faults
     \/ UNCHANGED at /\ Fault
  /\ UNCHANGED << jira, writes, reads, group, got, hand, acked, edits >>

----------------------------------------------------------------------------

(* Mutant: the group starts with the entries yet to come, "$".              *)
EnsureConsumerGroupLate(c) ==
  /\ at[c] = "idle"
  /\ group' = IF group = NoGroup THEN Len(stream) ELSE group
  /\ Goto(c, "take")
  /\ UNCHANGED << jira, writes, reads, stream, got, hand, acked, edits, faults >>

(* ensureConsumerGroup: from the first entry on; a group there is stays.    *)
EnsureConsumerGroup(c) ==
  /\ at[c] = "idle"
  /\ group' = IF group = NoGroup THEN 0 ELSE group
  /\ Goto(c, "take")
  /\ UNCHANGED << jira, writes, reads, stream, got, hand, acked, edits, faults >>

(* readEvents: entries that no consumer of the group was handed yet.        *)
ReadEvents(c) ==
  /\ at[c] = "take" /\ group < Len(stream)
  /\ LET last == IF group + Count < Len(stream) THEN group + Count ELSE Len(stream)
     IN /\ group' = last
        /\ got'  = [got EXCEPT ![c] = @ \cup (group + 1 .. last)]
        /\ hand' = [hand EXCEPT ![c] = group + 1 .. last]
  /\ Goto(c, "handle")
  /\ UNCHANGED << jira, writes, reads, stream, acked, edits, faults >>

(* acknowledgeEvent, when the consumer has handled an entry.                *)
AcknowledgeEvent(c) ==
  /\ at[c] = "handle"
  /\ \E e \in hand[c] :
       /\ acked' = acked \cup {e}
       /\ hand' = [hand EXCEPT ![c] = @ \ {e}]
       /\ Goto(c, IF hand[c] = {e} THEN "take" ELSE "handle")
  /\ UNCHANGED << jira, writes, reads, stream, group, got, edits, faults >>

(* A consumer dies and starts over: the entries in its hand stay pending,   *)
(* and only entries that are new are ever read.                             *)
RestartConsumer(c) ==
  /\ at[c] \in {"take", "handle"} /\ Fault
  /\ hand' = [hand EXCEPT ![c] = {}]
  /\ Goto(c, "idle")
  /\ UNCHANGED << jira, writes, reads, stream, group, got, acked, edits >>

(* A call of a write, a search or a poll throws, or its process dies.       *)
Fail(p) ==
  /\ at[p] \in {"check", "call", "set", "page", "read", "publish"} /\ Fault
  /\ Goto(p, "failed")
  /\ UNCHANGED << jira, writes, reads, events, edits >>

----------------------------------------------------------------------------

Next ==
  \/ \E w \in Writes : \/ \E j \in Jobs : Write(w, j)
                       \/ CheckIdempotency(w) \/ Call(w) \/ SetIdempotency(w)
  \/ \E k \in Keys : Expire(k)
  \/ \E s \in Searches : Search(s) \/ SearchIssues(s)
  \/ EditInJira
  \/ \E p \in Polls : Poll(p) \/ PollConnector(p) \/ PublishEvent(p)
  \/ \E c \in Consumers : \/ EnsureConsumerGroup(c) \/ ReadEvents(c)
                          \/ AcknowledgeEvent(c) \/ RestartConsumer(c)
  \/ \E p \in Writes \cup Searches \cup Polls : Fail(p)

Spec == Init /\ [][Next]_vars

----------------------------------------------------------------------------

TypeOK ==
  /\ order \in Seq(Issues \cup Writes)
  /\ record \in [Keys -> Results \cup {NoResult}] /\ expired \subseteq Keys
  /\ job \in [Writes -> Jobs \cup {NoJob}]
  /\ at \in [Callers ->
               { "idle", "check", "call", "set", "answered", "failed", "page",
                 "done", "read", "publish", "take", "handle" }]
  /\ did \subseteq Writes
  /\ answer \in [Writes -> Results \cup {NoResult}]
  /\ beside \in [Writes -> SUBSET Writes]
  /\ cursor \in [Searches -> Nat]
  /\ owed \in [Searches -> SUBSET (Issues \cup Writes)]
  /\ page \in [Polls -> SUBSET (Issues \cup Writes)]
  /\ stream \in Seq(Polls) /\ group \in Nat \cup {NoGroup}
  /\ got \in [Consumers -> SUBSET Nat] /\ hand \in [Consumers -> SUBSET Nat]
  /\ acked \subseteq Nat
  /\ edits \in 0..MaxEdits /\ faults \in 0..MaxFaults

(* What a write answers was really done in Jira, under the key it gave: by  *)
(* itself or by an earlier write, and never by a write that failed before   *)
(* its call (jira.connector.ts:56-75).                                      *)
AnswerWasDone ==
  \A w \in Writes : at[w] = "answered" =>
    \E v \in did : Key(v) = Key(w) /\ answer[w] = Outcome(v)

(* What was done under a key is on record, unless the record expired, or    *)
(* the write that did it is yet to make it or failed before it could        *)
(* (jira.connector.ts:62-74).  It does not say that a key is done once.     *)
DoneIsOnRecord ==
  \A w \in did : \/ record[Key(w)] # NoResult
                 \/ Key(w) \in expired
                 \/ at[w] \in {"set", "failed"}

(* When one key is done twice, its record has expired, or one of the two    *)
(* writes failed after its call, or one found no record while the other was *)
(* between its own check and its record: nothing holds the second back then *)
(* (jira.connector.ts:62-74), and Jira does both.                           *)
DoneTwiceForCause ==
  \A v, w \in did : v # w /\ Key(v) = Key(w) =>
    \/ Key(w) \in expired
    \/ "failed" \in {at[v], at[w]}
    \/ v \in beside[w] \/ w \in beside[v]

(* A search that follows the cursor to the end has returned every issue     *)
(* that was there when it began, but for those that moved towards the front *)
(* meanwhile: they were updated, or one before them was deleted             *)
(* (jira.connector.ts:106).                                                 *)
MissedOnlyIfMoved == \A s \in Searches : at[s] = "done" => owed[s] = {}

(* Every entry up to the last one handed out went to exactly one consumer,  *)
(* those published before the group was there included; one that is not     *)
(* acknowledged is in its consumer's hand or was lost with it               *)
(* (streams.ts:52, 78).                                                     *)
EachEntryOnce ==
  group # NoGroup =>
    \A e \in 1..Len(stream) :
      /\ Cardinality({ c \in Consumers : e \in got[c] }) = IF e <= group THEN 1 ELSE 0
      /\ e <= group => \/ e \in acked \/ faults > 0
                       \/ \E c \in Consumers : e \in hand[c]
=============================================================================
