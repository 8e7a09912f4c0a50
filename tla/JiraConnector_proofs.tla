------------------------ MODULE JiraConnector_proofs ------------------------
(***************************************************************************)
(* Theorems about JiraConnector, for any writes, searches, polls and       *)
(* consumers, any jobs and issues, any page sizes and any number of edits  *)
(* and faults.                                                             *)
(***************************************************************************)
EXTENDS JiraConnector, FiniteSetTheorems, SequenceTheorems, TLAPS

USE JiraCallersAssumption, JiraJobsAssumption, JiraIssuesAssumption, JiraBoundsAssumption

Named == Issues \cup Writes

LEMMA RemoveAtType ==
  ASSUME NEW S, NEW q \in Seq(S), NEW n \in DOMAIN q
  PROVE  RemoveAt(q, n) \in Seq(S)
<1>1. n \in 1..Len(q)
  OBVIOUS
<1>2. SubSeq(q, 1, n - 1) \in Seq(S)
  BY <1>1, SubSeqProperties
<1>3. SubSeq(q, n + 1, Len(q)) \in Seq(S)
  BY <1>1, SubSeqProperties
<1> QED
  BY <1>2, <1>3, ConcatProperties DEF RemoveAt

(* The lists that an edit, or the call of a write, makes of Jira's.         *)
LEMMA ListType ==
  ASSUME order \in Seq(Named)
  PROVE  /\ \A n \in DOMAIN order : Without(n) \in Seq(Named) /\ ToFront(n) \in Seq(Named)
         /\ \A w \in Writes : << w >> \o order \in Seq(Named)
<1>1. ASSUME NEW n \in DOMAIN order PROVE Without(n) \in Seq(Named)
  BY RemoveAtType DEF Without
<1>2. ASSUME NEW n \in DOMAIN order PROVE ToFront(n) \in Seq(Named)
  <2>1. order[n] \in Named
    OBVIOUS
  <2> QED
    BY <1>1, <2>1, ConcatProperties DEF ToFront
<1>3. ASSUME NEW w \in Writes PROVE << w >> \o order \in Seq(Named)
  BY ConcatProperties DEF Named
<1> QED
  BY <1>1, <1>2, <1>3

LEMMA SetToSeqType == SetToSeq(Issues) \in Seq(Issues)
<1>1. Cardinality(Issues) \in Nat /\ ExistsBijection(1..Cardinality(Issues), Issues)
  BY FS_CardinalityType
<1>2. PICK f \in Bijection(1..Cardinality(Issues), Issues) : TRUE
  BY <1>1 DEF ExistsBijection
<1>3. f \in [1..Cardinality(Issues) -> Issues] /\ IsInjective(f)
  BY <1>2 DEF Bijection, Injection, IsInjective
<1>4. SetToSeq(Issues) \in [1..Cardinality(Issues) -> Issues]
  BY <1>3 DEF SetToSeq
<1> QED
  BY <1>1, <1>4, IsASeq

(* A page is a part of the list.                                            *)
LEMMA PageType ==
  ASSUME order \in Seq(Named), NEW startAt \in Nat
  PROVE  /\ PageFrom(startAt) \in Seq(Named)
         /\ Len(PageFrom(startAt)) \in Nat
         /\ Present(PageFrom(startAt)) \subseteq Named
<1> DEFINE to == IF startAt + PageSize < Len(order) THEN startAt + PageSize ELSE Len(order)
<1>1. startAt + 1 \in 1..(Len(order) + 1) \/ to < startAt + 1
  BY LenProperties
<1>2. PageFrom(startAt) = SubSeq(order, startAt + 1, to)
  BY DEF PageFrom
<1>3. to \in Nat /\ to <= Len(order)
  BY LenProperties
<1>4. SubSeq(order, startAt + 1, to) \in Seq(Named)
  BY <1>3, SubSeqProperties
<1> QED
  BY <1>2, <1>4, LenProperties DEF Present

----------------------------------------------------------------------------

Place ==
  { "idle", "check", "call", "set", "answered", "failed", "page",
    "done", "read", "publish", "take", "handle" }

(* Where each caller is, and what it must have by then.                     *)
Places ==
  /\ \A w \in Writes : at[w] # "idle" => job[w] \in Jobs
  /\ \A w \in Writes : at[w] \in {"call", "set"} => job[w].action # "unsupported"
  /\ \A c \in Consumers : at[c] \in {"take", "handle"} => group \in Nat

Typed == TypeOK /\ Places

LEMMA GotoType ==
  ASSUME TypeOK, NEW p \in Callers, NEW where \in Place, Goto(p, where)
  PROVE  /\ at' \in [Callers -> Place] /\ at'[p] = where
         /\ \A o \in Callers \ {p} : at'[o] = at[o]
BY DEF TypeOK, Goto, Place

LEMMA OutcomeType ==
  ASSUME Typed, NEW w \in Writes, at[w] \in {"call", "set"}
  PROVE  Outcome(w) \in Results /\ Key(w) \in Keys
BY DEF Typed, Places, Outcome, Results, Key, Keys

LEMMA ReorderType ==
  ASSUME TypeOK, NEW new \in Seq(Named), Reorder(new)
  PROVE  order' \in Seq(Named) /\ owed' \in [Searches -> SUBSET Named]
BY DEF TypeOK, Reorder, Named

LEMMA EffectType ==
  ASSUME TypeOK, NEW w \in Writes, Effect(w)
  PROVE  /\ order' \in Seq(Named) /\ owed' \in [Searches -> SUBSET Named]
         /\ did' = did \cup {w} /\ did' \subseteq Writes
         /\ \E new \in Seq(Named) : Reorder(new)
<1>1. \E new \in Seq(Named) : Reorder(new)
  BY ListType DEF Effect, TypeOK, Named
<1> QED
  BY <1>1, ReorderType DEF Effect, TypeOK

LEMMA TypeWrites ==
  ASSUME Typed, NEW w \in Writes,
         \/ \E j \in Jobs : Write(w, j)
         \/ CheckIdempotency(w) \/ Call(w) \/ SetIdempotency(w)
  PROVE  Typed'
<1> w \in Callers
  BY DEF Callers
<1>1. ASSUME NEW j \in Jobs, Write(w, j) PROVE Typed'
  <2>1. job' \in [Writes -> Jobs \cup {NoJob}] /\ job'[w] \in Jobs
        /\ \A v \in Writes \ {w} : job'[v] = job[v]
    BY <1>1 DEF Typed, TypeOK, Write
  <2>2. at' \in [Callers -> Place] /\ at'[w] = "check"
        /\ \A o \in Callers \ {w} : at'[o] = at[o]
    BY <1>1, GotoType DEF Typed, Write, Place
  <2>3. TypeOK'
    BY <1>1, <2>1, <2>2 DEF Typed, TypeOK, Write, jira, reads, events, Place
  <2>4. Places'
    BY <1>1, <2>1, <2>2 DEF Typed, Places, Write, events, Callers
  <2> QED
    BY <2>3, <2>4 DEF Typed
<1>2. CASE CheckIdempotency(w)
  <2>1. job[w] \in Jobs /\ Key(w) \in Keys
    BY <1>2 DEF CheckIdempotency, Typed, Places, Key, Keys
  <2>2. /\ at' \in [Callers -> Place] /\ at'[w] \in {"answered", "failed", "call"}
        /\ at'[w] = "call" => job[w].action # "unsupported"
        /\ \A o \in Callers \ {w} : at'[o] = at[o]
    BY <1>2, GotoType DEF CheckIdempotency, Typed, Place
  <2>3. answer' \in [Writes -> Results \cup {NoResult}]
    BY <1>2, <2>1 DEF CheckIdempotency, Typed, TypeOK
  <2>4. TypeOK'
    BY <1>2, <2>2, <2>3 DEF Typed, TypeOK, CheckIdempotency, jira, reads, events, Place
  <2>5. Places'
    BY <1>2, <2>1, <2>2 DEF Typed, Places, CheckIdempotency, events, Callers
  <2> QED
    BY <2>4, <2>5 DEF Typed
<1>3. CASE Call(w)
  <2>1. job[w] \in Jobs /\ at[w] = "call"
    BY <1>3 DEF Call, Typed, Places
  <2>2. /\ order' \in Seq(Named) /\ owed' \in [Searches -> SUBSET Named]
        /\ did' \subseteq Writes
    BY <1>3, EffectType DEF Call, jira, Typed, TypeOK, Named
  <2>3. /\ at' \in [Callers -> Place] /\ at'[w] \in {"set", "failed"}
        /\ \A o \in Callers \ {w} : at'[o] = at[o]
    BY <1>3, GotoType DEF Call, Typed, Place
  <2>4. faults' \in 0..MaxFaults
    BY <1>3 DEF Call, Fault, Typed, TypeOK
  <2>5. TypeOK'
    BY <1>3, <2>2, <2>3, <2>4 DEF Typed, TypeOK, Call, writes, reads, events, Place, Named
  <2>6. Places'
    BY <1>3, <2>1, <2>3 DEF Typed, Places, Call, writes, events, Callers
  <2> QED
    BY <2>5, <2>6 DEF Typed
<1>4. CASE SetIdempotency(w)
  <2>1. job[w] \in Jobs /\ Outcome(w) \in Results /\ Key(w) \in Keys
    BY <1>4, OutcomeType DEF SetIdempotency, Typed, Places
  <2>2. /\ at' \in [Callers -> Place] /\ at'[w] = "answered"
        /\ \A o \in Callers \ {w} : at'[o] = at[o]
    BY <1>4, GotoType DEF SetIdempotency, Typed, Place
  <2>3. /\ answer' \in [Writes -> Results \cup {NoResult}]
        /\ record' \in [Keys -> Results \cup {NoResult}]
    BY <1>4, <2>1 DEF SetIdempotency, Typed, TypeOK
  <2>4. TypeOK'
    BY <1>4, <2>2, <2>3 DEF Typed, TypeOK, SetIdempotency, jira, reads, events, Place
  <2>5. Places'
    BY <1>4, <2>1, <2>2 DEF Typed, Places, SetIdempotency, events, Callers
  <2> QED
    BY <2>4, <2>5 DEF Typed
<1> QED
  BY <1>1, <1>2, <1>3, <1>4

LEMMA TypeReads ==
  ASSUME Typed,
         \/ \E s \in Searches : Search(s) \/ SearchIssues(s)
         \/ EditInJira
         \/ \E p \in Polls : Poll(p) \/ PollConnector(p) \/ PublishEvent(p)
  PROVE  Typed'
<1>1. ASSUME NEW s \in Searches, Search(s) PROVE Typed'
  <2>1. at' \in [Callers -> Place] /\ \A o \in Callers \ {s} : at'[o] = at[o]
    BY <1>1, GotoType DEF Search, Typed, Place, Callers
  <2>2. owed' \in [Searches -> SUBSET Named]
    <3>1. Present(order) \in SUBSET Named
      BY DEF Typed, TypeOK, Present, Named
    <3> QED
      BY <1>1, <3>1 DEF Search, Typed, TypeOK, Named
  <2>3. TypeOK'
    BY <1>1, <2>1, <2>2 DEF Typed, TypeOK, Search, writes, reads, events, Place, Named
  <2>4. Places'
    BY <1>1, <2>1 DEF Typed, Places, Search, writes, events, Callers
  <2> QED
    BY <2>3, <2>4 DEF Typed
<1>2. ASSUME NEW s \in Searches, SearchIssues(s) PROVE Typed'
  <2>1. at' \in [Callers -> Place] /\ \A o \in Callers \ {s} : at'[o] = at[o]
    BY <1>2, GotoType DEF SearchIssues, Typed, Place, Callers
  <2>2. Len(PageFrom(cursor[s])) \in Nat /\ cursor[s] \in Nat
    BY PageType DEF Typed, TypeOK, Named
  <2>3. cursor' \in [Searches -> Nat]
    BY <1>2, <2>2 DEF SearchIssues, Typed, TypeOK
  <2>4. owed' \in [Searches -> SUBSET Named]
    BY <1>2 DEF SearchIssues, Typed, TypeOK, Named
  <2>5. TypeOK'
    BY <1>2, <2>1, <2>3, <2>4 DEF Typed, TypeOK, SearchIssues, writes, events, Place, Named
  <2>6. Places'
    BY <1>2, <2>1 DEF Typed, Places, SearchIssues, writes, events, Callers
  <2> QED
    BY <2>5, <2>6 DEF Typed
<1>3. CASE EditInJira
  <2>1. order' \in Seq(Named) /\ owed' \in [Searches -> SUBSET Named]
    BY <1>3, ListType, ReorderType DEF EditInJira, Typed, TypeOK, Named
  <2>2. edits' \in 0..MaxEdits
    BY <1>3 DEF EditInJira, Typed, TypeOK
  <2>3. TypeOK'
    BY <1>3, <2>1, <2>2 DEF Typed, TypeOK, EditInJira, writes, reads, events, Named
  <2>4. Places'
    BY <1>3 DEF Typed, Places, EditInJira, writes, events
  <2> QED
    BY <2>3, <2>4 DEF Typed
<1>4. ASSUME NEW p \in Polls, Poll(p) \/ PollConnector(p) \/ PublishEvent(p) PROVE Typed'
  <2>1. at' \in [Callers -> Place] /\ \A o \in Callers \ {p} : at'[o] = at[o]
    <3>1. CASE UNCHANGED at
      BY <3>1 DEF Typed, TypeOK, Place
    <3>2. CASE ~UNCHANGED at
      BY <1>4, <3>2, GotoType DEF Poll, PollConnector, PublishEvent, Typed, Place, Callers
    <3> QED
      BY <3>1, <3>2
  <2>2. page' \in [Polls -> SUBSET Named]
    <3>1. Present(PageFrom(0)) \subseteq Named
      BY PageType DEF Typed, TypeOK, Named
    <3>2. page' = page \/ page' = [page EXCEPT ![p] = Present(PageFrom(0))]
      BY <1>4 DEF Poll, PollConnector, PublishEvent, reads
    <3>3. page \in [Polls -> SUBSET Named]
      BY DEF Typed, TypeOK, Named
    <3> QED
      BY <3>1, <3>2, <3>3
  <2>3. stream' \in Seq(Polls)
    <3>1. stream' = stream \/ stream' = Append(stream, p)
      <4>1. CASE PublishEvent(p)
        BY <4>1 DEF PublishEvent
      <4>2. CASE ~PublishEvent(p)
        BY <1>4, <4>2 DEF Poll, PollConnector, events
      <4> QED
        BY <4>1, <4>2
    <3>2. stream \in Seq(Polls)
      BY DEF Typed, TypeOK
    <3>3. Append(stream, p) \in Seq(Polls)
      BY <3>2, AppendProperties
    <3> QED
      BY <3>1, <3>2, <3>3
  <2>4. faults' \in 0..MaxFaults
    BY <1>4 DEF Poll, PollConnector, PublishEvent, Fault, Typed, TypeOK
  <2>5. UNCHANGED << jira, writes, cursor, group, got, hand, acked, edits >>
    BY <1>4 DEF Poll, PollConnector, PublishEvent, reads, events
  <2>6. TypeOK'
    BY <2>1, <2>2, <2>3, <2>4, <2>5 DEF Typed, TypeOK, jira, writes, Place, Named
  <2>7. Places'
    BY <2>1, <2>5 DEF Typed, Places, writes, Callers
  <2> QED
    BY <2>6, <2>7 DEF Typed
<1> QED
  BY <1>1, <1>2, <1>3, <1>4

LEMMA TypeEvents ==
  ASSUME Typed, NEW c \in Consumers,
         \/ EnsureConsumerGroup(c) \/ ReadEvents(c)
         \/ AcknowledgeEvent(c) \/ RestartConsumer(c)
  PROVE  Typed'
<1> c \in Callers
  BY DEF Callers
<1>0. UNCHANGED << jira, writes, reads, stream, edits >>
  BY DEF EnsureConsumerGroup, ReadEvents, AcknowledgeEvent, RestartConsumer
<1>1. CASE EnsureConsumerGroup(c)
  <2>1. group' \in Nat
    BY <1>1 DEF EnsureConsumerGroup, Typed, TypeOK
  <2>2. at' \in [Callers -> Place] /\ \A o \in Callers \ {c} : at'[o] = at[o]
    BY <1>1, GotoType DEF EnsureConsumerGroup, Typed, Place
  <2>3. TypeOK'
    BY <1>0, <1>1, <2>1, <2>2
       DEF Typed, TypeOK, EnsureConsumerGroup, jira, writes, reads, Place
  <2>4. Places'
    BY <1>0, <2>1, <2>2 DEF Typed, Places, writes, Callers
  <2> QED
    BY <2>3, <2>4 DEF Typed
<1>2. CASE ReadEvents(c)
  <2> DEFINE last == IF group + Count < Len(stream) THEN group + Count ELSE Len(stream)
  <2>1. group \in Nat /\ last \in Nat /\ group + 1 .. last \in SUBSET Nat
    BY <1>2, LenProperties DEF ReadEvents, Typed, TypeOK, Places
  <2>2. group' = last /\ got' \in [Consumers -> SUBSET Nat]
        /\ hand' \in [Consumers -> SUBSET Nat]
    BY <1>2, <2>1 DEF ReadEvents, Typed, TypeOK
  <2>3. at' \in [Callers -> Place] /\ \A o \in Callers \ {c} : at'[o] = at[o]
    BY <1>2, GotoType DEF ReadEvents, Typed, Place
  <2>4. TypeOK'
    BY <1>0, <1>2, <2>1, <2>2, <2>3 DEF Typed, TypeOK, ReadEvents, jira, writes, reads, Place
  <2>5. Places'
    BY <1>0, <2>1, <2>2, <2>3 DEF Typed, Places, writes, Callers
  <2> QED
    BY <2>4, <2>5 DEF Typed
<1>3. CASE AcknowledgeEvent(c)
  <2>1. PICK e \in hand[c] : /\ acked' = acked \cup {e}
                             /\ hand' = [hand EXCEPT ![c] = @ \ {e}]
                             /\ Goto(c, IF hand[c] = {e} THEN "take" ELSE "handle")
    BY <1>3 DEF AcknowledgeEvent
  <2>2. at' \in [Callers -> Place] /\ \A o \in Callers \ {c} : at'[o] = at[o]
    BY <2>1, GotoType DEF Typed, Place
  <2>3. acked' \subseteq Nat /\ hand' \in [Consumers -> SUBSET Nat]
    BY <2>1 DEF Typed, TypeOK
  <2>4. TypeOK'
    BY <1>0, <1>3, <2>2, <2>3
       DEF Typed, TypeOK, AcknowledgeEvent, jira, writes, reads, Place
  <2>5. Places'
    BY <1>0, <1>3, <2>2 DEF Typed, Places, AcknowledgeEvent, writes, Callers
  <2> QED
    BY <2>4, <2>5 DEF Typed
<1>4. CASE RestartConsumer(c)
  <2>1. at' \in [Callers -> Place] /\ \A o \in Callers \ {c} : at'[o] = at[o]
        /\ at'[c] = "idle"
    BY <1>4, GotoType DEF RestartConsumer, Typed, Place
  <2>2. faults' \in 0..MaxFaults /\ hand' \in [Consumers -> SUBSET Nat]
    BY <1>4 DEF RestartConsumer, Fault, Typed, TypeOK
  <2>3. TypeOK'
    BY <1>0, <1>4, <2>1, <2>2
       DEF Typed, TypeOK, RestartConsumer, jira, writes, reads, Place
  <2>4. Places'
    BY <1>0, <1>4, <2>1 DEF Typed, Places, RestartConsumer, writes, Callers
  <2> QED
    BY <2>3, <2>4 DEF Typed
<1> QED
  BY <1>1, <1>2, <1>3, <1>4

LEMMA TypeStep == Typed /\ [Next]_vars => Typed'
<1> SUFFICES ASSUME Typed, [Next]_vars PROVE Typed'
  OBVIOUS
<1>1. ASSUME NEW k \in Keys, Expire(k) PROVE Typed'
  BY <1>1 DEF Expire, Typed, TypeOK, Places, jira, reads, events
<1>2. ASSUME NEW p \in Writes \cup Searches \cup Polls, Fail(p) PROVE Typed'
  <2>1. at' \in [Callers -> Place] /\ at'[p] = "failed"
        /\ \A o \in Callers \ {p} : at'[o] = at[o]
    BY <1>2, GotoType DEF Fail, Typed, Place, Callers
  <2>2. faults' \in 0..MaxFaults
    BY <1>2 DEF Fail, Fault, Typed, TypeOK
  <2>3. TypeOK'
    BY <1>2, <2>1, <2>2 DEF Fail, Typed, TypeOK, jira, writes, reads, events, Place
  <2>4. Places'
    BY <1>2, <2>1 DEF Fail, Typed, Places, writes, events, Callers
  <2> QED
    BY <2>3, <2>4 DEF Typed
<1>3. CASE UNCHANGED vars
  BY <1>3 DEF vars, jira, writes, reads, events, Typed, TypeOK, Places
<1> QED
  BY <1>1, <1>2, <1>3, TypeWrites, TypeReads, TypeEvents DEF Next

(* Every variable keeps its type, and every caller has what it needs where  *)
(* it is: a write its job, a consumer its group.                            *)
LEMMA AlwaysTyped == Spec => []Typed
<1>1. Init => Typed
  <2> SUFFICES ASSUME Init PROVE Typed
    OBVIOUS
  <2>1. order \in Seq(Issues \cup Writes)
    BY SetToSeqType, SeqMonotonic DEF Init
  <2>2. TypeOK
    BY <2>1 DEF Init, TypeOK
  <2>3. Places
    BY DEF Init, Places, Callers
  <2> QED
    BY <2>2, <2>3 DEF Typed
<1> QED
  BY <1>1, TypeStep, PTL DEF Spec

(* Every variable keeps its type.                                           *)
THEOREM TypeCorrect == Spec => []TypeOK
<1>1. Typed => TypeOK
  BY DEF Typed
<1> QED
  BY <1>1, AlwaysTyped, PTL

----------------------------------------------------------------------------

(* What is on record, and what was answered, was done.  A write keeps its   *)
(* job and its place among those that have called.                          *)
DoneHaveCalled == \A w \in did : at[w] \in {"set", "failed", "answered"}
SetAfterDone == \A w \in Writes : at[w] = "set" => w \in did
RecordWasDone == \A k \in Keys : record[k] # NoResult =>
  \E v \in did : Key(v) = k /\ record[k] = Outcome(v)

Recorded ==
  /\ DoneHaveCalled /\ SetAfterDone /\ RecordWasDone
  /\ AnswerWasDone
  /\ DoneIsOnRecord

(* A step that leaves the writes alone.                                     *)
LEMMA RecordedQuietly ==
  ASSUME Typed, Recorded, UNCHANGED << writes, did >>,
         \A w \in Writes : at'[w] = at[w]
  PROVE  Recorded'
<1>1. did \subseteq Writes
  BY DEF Typed, TypeOK
<1>2. UNCHANGED << record, expired, job, answer, did >>
  BY DEF writes
<1>3. \A w \in Writes : Key(w)' = Key(w) /\ Outcome(w)' = Outcome(w)
  BY <1>2 DEF Key, Outcome
<1>4. DoneHaveCalled' /\ SetAfterDone'
  BY <1>1, <1>2 DEF Recorded, DoneHaveCalled, SetAfterDone
<1>5. RecordWasDone'
  BY <1>1, <1>2, <1>3 DEF Recorded, RecordWasDone
<1>6. AnswerWasDone'
  BY <1>1, <1>2, <1>3 DEF Recorded, AnswerWasDone
<1>7. DoneIsOnRecord'
  BY <1>1, <1>2, <1>3 DEF Recorded, DoneIsOnRecord
<1> QED
  BY <1>4, <1>5, <1>6, <1>7 DEF Recorded

LEMMA RecordedStep == Typed /\ Typed' /\ Recorded /\ [Next]_vars => Recorded'
<1> SUFFICES ASSUME Typed, Typed', Recorded, [Next]_vars PROVE Recorded'
  OBVIOUS
<1>1. ASSUME NEW w \in Writes, NEW j \in Jobs, Write(w, j) PROVE Recorded'
  <2>1. /\ at[w] = "idle" /\ at'[w] = "check"
        /\ \A o \in Writes \ {w} : at'[o] = at[o] /\ job'[o] = job[o]
        /\ UNCHANGED << record, expired, answer, did >>
    BY <1>1 DEF Write, Goto, Typed, TypeOK, jira, Callers
  <2>2. w \notin did /\ did \subseteq Writes
    BY <2>1 DEF Recorded, DoneHaveCalled, Typed, TypeOK
  <2>3. \A v \in did : Key(v)' = Key(v) /\ Outcome(v)' = Outcome(v)
    BY <2>1, <2>2 DEF Key, Outcome
  <2>4. \A v \in Writes : at[v] = "answered" => Key(v)' = Key(v)
    BY <2>1 DEF Key
  <2> QED
    BY <2>1, <2>2, <2>3, <2>4
       DEF Recorded, DoneHaveCalled, SetAfterDone, RecordWasDone, AnswerWasDone,
           DoneIsOnRecord
<1>2. ASSUME NEW w \in Writes, CheckIdempotency(w) PROVE Recorded'
  <2>1. /\ at[w] = "check" /\ at'[w] \in {"answered", "failed", "call"}
        /\ at'[w] = "answered" => record[Key(w)] # NoResult
        /\ \A o \in Writes \ {w} : at'[o] = at[o] /\ answer'[o] = answer[o]
        /\ answer'[w] = record[Key(w)]
        /\ UNCHANGED << record, expired, job, did >>
    BY <1>2 DEF CheckIdempotency, Goto, Typed, TypeOK, jira, Callers
  <2>2. w \notin did /\ Key(w) \in Keys
    BY <2>1 DEF Recorded, DoneHaveCalled, Typed, TypeOK, Places, Key, Keys
  <2>3. \A v \in Writes : Key(v)' = Key(v) /\ Outcome(v)' = Outcome(v)
    BY <2>1 DEF Key, Outcome
  <2>9. did \subseteq Writes /\ \A v \in did : Key(v) \in Keys
    BY DEF Recorded, DoneHaveCalled, Typed, TypeOK, Places, Key, Keys
  <2>10. DoneHaveCalled'
    BY <2>1, <2>2, <2>3, <2>9 DEF Recorded, DoneHaveCalled, SetAfterDone, Callers
  <2>11. SetAfterDone'
    BY <2>1, <2>2, <2>3, <2>9 DEF Recorded, SetAfterDone, Callers
  <2>12. RecordWasDone'
    BY <2>1, <2>2, <2>3, <2>9 DEF Recorded, RecordWasDone, writes
  <2>13. AnswerWasDone'
    BY <2>1, <2>2, <2>3, <2>9 DEF Recorded, RecordWasDone, AnswerWasDone, writes, Callers
  <2>14. DoneIsOnRecord'
    BY <2>1, <2>2, <2>3, <2>9 DEF Recorded, DoneHaveCalled, SetAfterDone, DoneIsOnRecord, writes, Callers
  <2> QED
    BY <2>10, <2>11, <2>12, <2>13, <2>14 DEF Recorded
<1>3. ASSUME NEW w \in Writes, Call(w) PROVE Recorded'
  <2>1. /\ at[w] = "call" /\ at'[w] \in {"set", "failed"}
        /\ at'[w] = "set" => did' = did \cup {w}
        /\ did' = did \/ did' = did \cup {w}
        /\ \A o \in Writes \ {w} : at'[o] = at[o]
        /\ UNCHANGED writes
    BY <1>3 DEF Call, Effect, Goto, Typed, TypeOK, jira, Callers
  <2>2. \A v \in Writes : Key(v)' = Key(v) /\ Outcome(v)' = Outcome(v)
    BY <2>1 DEF Key, Outcome, writes
  <2>9. did \subseteq Writes /\ \A v \in did : Key(v) \in Keys
    BY DEF Recorded, DoneHaveCalled, Typed, TypeOK, Places, Key, Keys
  <2>10. DoneHaveCalled'
    BY <2>1, <2>2, <2>9 DEF Recorded, DoneHaveCalled, SetAfterDone, Callers
  <2>11. SetAfterDone'
    BY <2>1, <2>2, <2>9 DEF Recorded, SetAfterDone, Callers
  <2>12. RecordWasDone'
    BY <2>1, <2>2, <2>9 DEF Recorded, RecordWasDone, writes
  <2>13. AnswerWasDone'
    BY <2>1, <2>2, <2>9 DEF Recorded, RecordWasDone, AnswerWasDone, writes, Callers
  <2>14. DoneIsOnRecord'
    BY <2>1, <2>2, <2>9 DEF Recorded, DoneHaveCalled, SetAfterDone, DoneIsOnRecord, writes, Callers
  <2> QED
    BY <2>10, <2>11, <2>12, <2>13, <2>14 DEF Recorded
<1>4. ASSUME NEW w \in Writes, SetIdempotency(w) PROVE Recorded'
  <2>1. /\ at[w] = "set" /\ at'[w] = "answered"
        /\ \A o \in Writes \ {w} : at'[o] = at[o] /\ answer'[o] = answer[o]
        /\ answer'[w] = Outcome(w)
        /\ record' = [record EXCEPT ![Key(w)] = Outcome(w)]
        /\ UNCHANGED << expired, job, did >>
    BY <1>4 DEF SetIdempotency, Goto, Typed, TypeOK, jira, Callers
  <2>2. w \in did /\ Key(w) \in Keys /\ Outcome(w) # NoResult
    BY <2>1, OutcomeType DEF Recorded, SetAfterDone, Typed, TypeOK, Places, Key, Keys
  <2>3. \A v \in Writes : Key(v)' = Key(v) /\ Outcome(v)' = Outcome(v)
    BY <2>1 DEF Key, Outcome
  <2>4. \A k \in Keys : record'[k] = IF k = Key(w) THEN Outcome(w) ELSE record[k]
    BY <2>1, <2>2 DEF Typed, TypeOK
  <2>9. did \subseteq Writes /\ \A v \in did : Key(v) \in Keys
    BY DEF Recorded, DoneHaveCalled, Typed, TypeOK, Places, Key, Keys
  <2>10. DoneHaveCalled'
    BY <2>1, <2>2, <2>3, <2>4, <2>9 DEF Recorded, DoneHaveCalled, SetAfterDone, Callers
  <2>11. SetAfterDone'
    BY <2>1, <2>2, <2>3, <2>4, <2>9 DEF Recorded, SetAfterDone, Callers
  <2>12. RecordWasDone'
    BY <2>1, <2>2, <2>3, <2>4, <2>9 DEF Recorded, RecordWasDone, writes
  <2>13. AnswerWasDone'
    BY <2>1, <2>2, <2>3, <2>4, <2>9 DEF Recorded, RecordWasDone, AnswerWasDone, writes, Callers
  <2>14. DoneIsOnRecord'
    BY <2>1, <2>2, <2>3, <2>4, <2>9 DEF Recorded, DoneHaveCalled, SetAfterDone, DoneIsOnRecord, writes, Callers
  <2> QED
    BY <2>10, <2>11, <2>12, <2>13, <2>14 DEF Recorded
<1>5. ASSUME NEW k \in Keys, Expire(k) PROVE Recorded'
  <2>1. /\ record' = [record EXCEPT ![k] = NoResult] /\ expired' = expired \cup {k}
        /\ UNCHANGED << job, answer, at, did >>
    BY <1>5 DEF Expire, jira
  <2>2. \A v \in Writes : Key(v)' = Key(v) /\ Outcome(v)' = Outcome(v)
    BY <2>1 DEF Key, Outcome
  <2>3. \A l \in Keys : record'[l] = IF l = k THEN NoResult ELSE record[l]
    BY <2>1 DEF Typed, TypeOK
  <2>9. did \subseteq Writes /\ \A v \in did : Key(v) \in Keys
    BY DEF Recorded, DoneHaveCalled, Typed, TypeOK, Places, Key, Keys
  <2>10. DoneHaveCalled'
    BY <2>1, <2>2, <2>3, <2>9 DEF Recorded, DoneHaveCalled, SetAfterDone, Callers
  <2>11. SetAfterDone'
    BY <2>1, <2>2, <2>3, <2>9 DEF Recorded, SetAfterDone, Callers
  <2>12. RecordWasDone'
    BY <2>1, <2>2, <2>3, <2>9 DEF Recorded, RecordWasDone, writes
  <2>13. AnswerWasDone'
    BY <2>1, <2>2, <2>3, <2>9 DEF Recorded, RecordWasDone, AnswerWasDone, writes, Callers
  <2>14. DoneIsOnRecord'
    BY <2>1, <2>2, <2>3, <2>9 DEF Recorded, DoneHaveCalled, SetAfterDone, DoneIsOnRecord, writes, Callers
  <2> QED
    BY <2>10, <2>11, <2>12, <2>13, <2>14 DEF Recorded
<1>6. ASSUME NEW p \in Writes \cup Searches \cup Polls, Fail(p) PROVE Recorded'
  <2>1. /\ at[p] \in {"check", "call", "set", "page", "read", "publish"}
        /\ at'[p] = "failed" /\ \A o \in Callers \ {p} : at'[o] = at[o]
        /\ UNCHANGED << writes, did >>
    BY <1>6 DEF Fail, Goto, Typed, TypeOK, jira, Callers
  <2>2. \A v \in Writes : Key(v)' = Key(v) /\ Outcome(v)' = Outcome(v)
    BY <2>1 DEF Key, Outcome, writes
  <2>9. did \subseteq Writes /\ \A v \in did : Key(v) \in Keys
    BY DEF Recorded, DoneHaveCalled, Typed, TypeOK, Places, Key, Keys
  <2>10. DoneHaveCalled'
    BY <2>1, <2>2, <2>9 DEF Recorded, DoneHaveCalled, SetAfterDone, Callers
  <2>11. SetAfterDone'
    BY <2>1, <2>2, <2>9 DEF Recorded, SetAfterDone, Callers
  <2>12. RecordWasDone'
    BY <2>1, <2>2, <2>9 DEF Recorded, RecordWasDone, writes
  <2>13. AnswerWasDone'
    BY <2>1, <2>2, <2>9 DEF Recorded, RecordWasDone, AnswerWasDone, writes, Callers
  <2>14. DoneIsOnRecord'
    BY <2>1, <2>2, <2>9 DEF Recorded, DoneHaveCalled, SetAfterDone, DoneIsOnRecord, writes, Callers
  <2> QED
    BY <2>10, <2>11, <2>12, <2>13, <2>14 DEF Recorded
<1>7. ASSUME NEW s \in Searches, Search(s) \/ SearchIssues(s) PROVE Recorded'
  <2>1. UNCHANGED << writes, did >> /\ \A w \in Writes : at'[w] = at[w]
    BY <1>7 DEF Search, SearchIssues, Goto, Typed, TypeOK, Callers
  <2> QED
    BY <2>1, RecordedQuietly
<1>8. CASE EditInJira
  BY <1>8, RecordedQuietly DEF EditInJira
<1>9. ASSUME NEW p \in Polls, Poll(p) \/ PollConnector(p) \/ PublishEvent(p)
      PROVE  Recorded'
  <2>1. UNCHANGED << writes, did >> /\ \A w \in Writes : at'[w] = at[w]
    BY <1>9 DEF Poll, PollConnector, PublishEvent, Goto, Typed, TypeOK, jira, Callers
  <2> QED
    BY <2>1, RecordedQuietly
<1>10. ASSUME NEW c \in Consumers,
              \/ EnsureConsumerGroup(c) \/ ReadEvents(c)
              \/ AcknowledgeEvent(c) \/ RestartConsumer(c)
       PROVE  Recorded'
  <2>1. UNCHANGED << writes, did >> /\ \A w \in Writes : at'[w] = at[w]
    BY <1>10 DEF EnsureConsumerGroup, ReadEvents, AcknowledgeEvent, RestartConsumer, Goto,
                 Typed, TypeOK, jira, Callers
  <2> QED
    BY <2>1, RecordedQuietly
<1>11. CASE UNCHANGED vars
  BY <1>11, RecordedQuietly DEF vars, jira
<1> QED
  BY <1>1, <1>2, <1>3, <1>4, <1>5, <1>6, <1>7, <1>8, <1>9, <1>10, <1>11 DEF Next

LEMMA AlwaysRecorded == Spec => []Recorded
<1>1. Init => Recorded
  BY DEF Init, Recorded, DoneHaveCalled, SetAfterDone, RecordWasDone, AnswerWasDone,
         DoneIsOnRecord, Callers
<1> QED
  BY <1>1, AlwaysTyped, RecordedStep, PTL DEF Spec

(* jira.connector.ts:56-75: whatever writes overlap under whatever keys, a  *)
(* write answers what was really done under its key.                        *)
THEOREM AnswersAreOfDeeds == Spec => []AnswerWasDone
<1>1. Recorded => AnswerWasDone
  BY DEF Recorded
<1> QED
  BY <1>1, AlwaysRecorded, PTL

(* jira.connector.ts:62-74: what was done is on record, but for a record    *)
(* that expired and a write that stopped in between.                        *)
THEOREM DeedsAreOnRecord == Spec => []DoneIsOnRecord
<1>1. Recorded => DoneIsOnRecord
  BY DEF Recorded
<1> QED
  BY <1>1, AlwaysRecorded, PTL

----------------------------------------------------------------------------

(* A write that found no record, and has not come to nothing since.         *)
Past(w) == at[w] \in {"call", "set"} \/ w \in did

(* Why two writes of one key may both be past their check.                  *)
Cause(v, w) == \/ Key(w) \in expired
               \/ at[v] = "failed" \/ at[w] = "failed"
               \/ v \in beside[w] \/ w \in beside[v]

Caused ==
  \A v, w \in Writes : v # w /\ Key(v) = Key(w) /\ Past(v) /\ Past(w) => Cause(v, w)

(* What a step can do to a write.                                           *)
LEMMA WriteMoves ==
  ASSUME Typed, Recorded, [Next]_vars, NEW w \in Writes
  PROVE  /\ Past(w)' => Past(w) \/ CheckIdempotency(w)
         /\ at[w] # "idle" => job'[w] = job[w]
         /\ at[w] = "failed" => at'[w] = "failed"
         /\ Past(w) => beside'[w] = beside[w]
         /\ expired \subseteq expired'
<1>1. Past(w) => at[w] \in {"call", "set", "failed", "answered"}
  BY DEF Past, Recorded, DoneHaveCalled
<1>2. ASSUME NEW o \in Writes, NEW j \in Jobs, Write(o, j)
      PROVE  /\ o = w => at[w] = "idle" /\ at'[w] = "check"
             /\ o # w => at'[w] = at[w] /\ job'[w] = job[w]
             /\ UNCHANGED << did, beside, expired >>
  BY <1>2 DEF Write, Goto, Typed, TypeOK, jira, Callers
<1>3. ASSUME NEW o \in Writes, CheckIdempotency(o)
      PROVE  /\ o = w => at[w] = "check"
             /\ o # w => at'[w] = at[w] /\ beside'[w] = beside[w]
             /\ UNCHANGED << did, job, expired >>
  BY <1>3 DEF CheckIdempotency, Goto, Typed, TypeOK, jira, Callers
<1>4. ASSUME NEW o \in Writes, Call(o)
      PROVE  /\ o = w => at[w] = "call"
             /\ o # w => at'[w] = at[w] /\ (w \in did' => w \in did)
             /\ UNCHANGED << job, beside, expired >>
  BY <1>4 DEF Call, Effect, Goto, Typed, TypeOK, jira, Callers, writes
<1>5. ASSUME NEW o \in Writes, SetIdempotency(o)
      PROVE  /\ o = w => at[w] = "set" /\ at'[w] = "answered"
             /\ o # w => at'[w] = at[w]
             /\ UNCHANGED << did, job, beside, expired >>
  BY <1>5 DEF SetIdempotency, Goto, Typed, TypeOK, jira, Callers
<1>6. ASSUME NEW p \in Writes \cup Searches \cup Polls, Fail(p)
      PROVE  /\ at'[w] = at[w] \/ at'[w] = "failed"
             /\ UNCHANGED << did, job, beside, expired >>
  BY <1>6 DEF Fail, Goto, Typed, TypeOK, jira, Callers, writes
<1>7. ASSUME NEW k \in Keys, Expire(k)
      PROVE  expired \subseteq expired' /\ UNCHANGED << at, did, job, beside >>
  BY <1>7 DEF Expire, jira
<1>8. ASSUME \/ EditInJira \/ UNCHANGED vars
             \/ \E s \in Searches : Search(s) \/ SearchIssues(s)
             \/ \E p \in Polls : Poll(p) \/ PollConnector(p) \/ PublishEvent(p)
             \/ \E c \in Consumers : \/ EnsureConsumerGroup(c) \/ ReadEvents(c)
                                     \/ AcknowledgeEvent(c) \/ RestartConsumer(c)
      PROVE  at'[w] = at[w] /\ UNCHANGED << did, job, beside, expired >>
  <2>1. UNCHANGED << did, job, beside, expired >>
    BY <1>8 DEF EditInJira, vars, Search, SearchIssues, Poll, PollConnector, PublishEvent,
       EnsureConsumerGroup, ReadEvents, AcknowledgeEvent, RestartConsumer, jira, writes
  <2>2. UNCHANGED at \/ \E o \in Callers \ Writes : \E where : Goto(o, where)
    BY <1>8, JiraCallersAssumption DEF EditInJira, vars, Search, SearchIssues, Poll,
       PollConnector, PublishEvent, EnsureConsumerGroup, ReadEvents, AcknowledgeEvent,
       RestartConsumer, Callers
  <2> QED
    BY <2>1, <2>2 DEF Goto, Typed, TypeOK, Callers
<1>9. CASE \E o \in Writes : \E j \in Jobs : Write(o, j)
  BY <1>1, <1>2, <1>9 DEF Past
<1>10. CASE \E o \in Writes : CheckIdempotency(o)
  BY <1>1, <1>3, <1>10 DEF Past
<1>11. CASE \E o \in Writes : Call(o)
  BY <1>1, <1>4, <1>11 DEF Past
<1>12. CASE \E o \in Writes : SetIdempotency(o)
  BY <1>1, <1>5, <1>12 DEF Past
<1>13. CASE \E p \in Writes \cup Searches \cup Polls : Fail(p)
  BY <1>1, <1>6, <1>13 DEF Past
<1>14. CASE \E k \in Keys : Expire(k)
  BY <1>1, <1>7, <1>14 DEF Past
<1> QED
  BY <1>1, <1>8, <1>9, <1>10, <1>11, <1>12, <1>13, <1>14 DEF Next, Past

(* A write that finds no record finds every other one of its key expired,   *)
(* failed, or between its check and its record.                             *)
LEMMA CheckedAgainst ==
  ASSUME Typed, Recorded, NEW w \in Writes, CheckIdempotency(w), at'[w] = "call",
         NEW v \in Writes, Key(v) = Key(w), Past(v)
  PROVE  Key(w) \in expired \/ at[v] = "failed" \/ v \in beside'[w]
<1>1. record[Key(w)] = NoResult
  BY DEF CheckIdempotency, Goto, Typed, TypeOK, Callers
<1>2. CASE v \in did
  <2>1. Key(w) \in expired \/ at[v] \in {"set", "failed"}
    BY <1>1, <1>2 DEF Recorded, DoneIsOnRecord
  <2> QED
    BY <2>1 DEF CheckIdempotency, Typed, TypeOK
<1>3. CASE at[v] \in {"call", "set"}
  BY <1>3 DEF CheckIdempotency, Typed, TypeOK
<1> QED
  BY <1>2, <1>3 DEF Past

LEMMA CausedStep == Typed /\ Recorded /\ Recorded' /\ Caused /\ [Next]_vars => Caused'
<1> SUFFICES ASSUME Typed, Recorded, Recorded', Caused, [Next]_vars,
                    NEW v \in Writes, NEW w \in Writes, v # w, Key(v)' = Key(w)',
                    Past(v)', Past(w)'
             PROVE  Cause(v, w)'
  BY DEF Caused
<1>1. ASSUME NEW x \in Writes, Past(x)'
      PROVE  job'[x] = job[x] /\ (~Past(x) => CheckIdempotency(x) /\ at'[x] = "call")
  <2>1. Past(x) => at[x] # "idle"
    BY DEF Past, Recorded, DoneHaveCalled
  <2>2. ~Past(x) => CheckIdempotency(x)
    BY <1>1, WriteMoves
  <2>3. CheckIdempotency(x) => at[x] = "check" /\ did' = did
    BY DEF CheckIdempotency, jira
  <2>4. CheckIdempotency(x) => at'[x] \in {"answered", "failed", "call"}
    BY DEF CheckIdempotency, Goto, Typed, TypeOK, Callers
  <2> QED
    BY <1>1, <2>1, <2>2, <2>3, <2>4, WriteMoves DEF Past
<1>2. Key(v)' = Key(v) /\ Key(w)' = Key(w) /\ Key(v) = Key(w)
  BY <1>1 DEF Key
<1>3. ASSUME NEW x \in Writes, NEW y \in Writes, x # y, Key(x) = Key(y), Past(x), ~Past(y),
             CheckIdempotency(y), at'[y] = "call"
      PROVE  Key(y) \in expired' \/ at'[x] = "failed" \/ x \in beside'[y]
  <2>1. Key(y) \in expired \/ at[x] = "failed" \/ x \in beside'[y]
    BY <1>3, CheckedAgainst
  <2> QED
    BY <2>1, WriteMoves
<1>4. CASE Past(v) /\ Past(w)
  <2>1. Cause(v, w)
    BY <1>2, <1>4 DEF Caused
  <2>2. expired \subseteq expired' /\ beside'[v] = beside[v] /\ beside'[w] = beside[w]
        /\ (at[v] = "failed" => at'[v] = "failed")
        /\ (at[w] = "failed" => at'[w] = "failed")
    BY <1>4, WriteMoves
  <2> QED
    BY <1>2, <2>1, <2>2 DEF Cause
<1>5. CASE Past(v) /\ ~Past(w)
  BY <1>1, <1>2, <1>3, <1>5 DEF Cause
<1>6. CASE ~Past(v) /\ Past(w)
  BY <1>1, <1>2, <1>3, <1>6 DEF Cause
<1>7. CASE ~Past(v) /\ ~Past(w)
  <2>1. CheckIdempotency(v) /\ CheckIdempotency(w) /\ at'[v] = "call"
    BY <1>1, <1>7
  <2> QED
    BY <2>1 DEF CheckIdempotency, Goto, Typed, TypeOK, Callers
<1> QED
  BY <1>4, <1>5, <1>6, <1>7

(* jira.connector.ts:62-74: for any writes and keys, one key is done twice  *)
(* only after its record expired, or beside or after a write that failed,   *)
(* or when the two were both past the check before either had its record.   *)
THEOREM TwiceHasACause == Spec => []DoneTwiceForCause
<1>1. Init => Caused
  BY DEF Init, Caused, Past, Callers
<1>2. Typed /\ Caused => DoneTwiceForCause
  BY DEF Typed, TypeOK, Caused, Past, Cause, DoneTwiceForCause
<1> QED
  BY <1>1, <1>2, AlwaysTyped, AlwaysRecorded, CausedStep, PTL DEF Spec

----------------------------------------------------------------------------

(* What a search owes lies ahead of its cursor.                             *)
Ahead ==
  \A s \in Searches :
    /\ at[s] = "idle" => cursor[s] = 0
    /\ at[s] = "page" =>
         \A i \in owed[s] : \E n \in DOMAIN order : n > cursor[s] /\ order[n] = i
    /\ at[s] = "done" => owed[s] = {}

(* A step that leaves searches and Jira's list alone, but for a search that *)
(* fails.                                                                   *)
LEMMA AheadQuietly ==
  ASSUME Typed, Ahead, UNCHANGED << order, owed, cursor >>,
         \A s \in Searches : at'[s] \in {at[s], "failed"}
  PROVE  Ahead'
BY DEF Ahead

(* Whatever Jira's list becomes: an issue that is not nearer the front than *)
(* it was is still ahead of the cursor.                                     *)
LEMMA AheadReorder ==
  ASSUME Typed, Ahead, NEW new \in Seq(Named), Reorder(new), UNCHANGED cursor,
         \A s \in Searches : at'[s] = at[s]
  PROVE  Ahead'
<1> SUFFICES ASSUME NEW s \in Searches
             PROVE  /\ at[s] = "idle" => cursor[s] = 0
                    /\ at[s] = "page" => \A i \in owed'[s] :
                         \E n \in DOMAIN new : n > cursor[s] /\ new[n] = i
                    /\ at[s] = "done" => owed'[s] = {}
  BY DEF Ahead, Reorder
<1>1. owed'[s] = owed[s] \ Advanced(order, new)
  BY DEF Reorder
<1>2. ASSUME at[s] = "page", NEW i \in owed'[s]
      PROVE  \E n \in DOMAIN new : n > cursor[s] /\ new[n] = i
  <2>1. PICK n \in DOMAIN order : n > cursor[s] /\ order[n] = i
    BY <1>1, <1>2 DEF Ahead
  <2>2. i \in Present(order) /\ i \notin Advanced(order, new)
    BY <1>1, <2>1 DEF Present
  <2>3. PICK m \in DOMAIN new : new[m] = i /\ ~(m < n)
    BY <2>1, <2>2 DEF Advanced
  <2>4. m \in Int /\ n \in Int /\ cursor[s] \in Int
    BY DEF Typed, TypeOK, Named
  <2> QED
    BY <2>1, <2>3, <2>4
<1> QED
  BY <1>1, <1>2 DEF Ahead

(* A page is what lies at the cursor, and the cursor moves over all of it.  *)
LEMMA AheadPage ==
  ASSUME Typed, Ahead, NEW s \in Searches, SearchIssues(s)
  PROVE  Ahead'
<1> DEFINE from == cursor[s]
           issues == PageFrom(from)
           to == IF from + PageSize < Len(order) THEN from + PageSize ELSE Len(order)
           next == from + Len(issues)
<1>1. /\ at[s] = "page" /\ owed' = [owed EXCEPT ![s] = @ \ Present(issues)]
      /\ cursor' = [cursor EXCEPT ![s] = next]
      /\ Goto(s, IF next < Len(order) THEN "page" ELSE "done")
      /\ UNCHANGED order
  BY DEF SearchIssues
<1>2. order \in Seq(Named) /\ from \in Nat /\ Len(order) \in Nat /\ to \in Nat
      /\ PageSize \in Nat \ {0}
  BY LenProperties DEF Typed, TypeOK, Named
<1>3. at'[s] = (IF next < Len(order) THEN "page" ELSE "done")
      /\ \A o \in Searches \ {s} : at'[o] = at[o]
  BY <1>1, GotoType DEF Typed, Place, Callers
<1>4. owed'[s] = owed[s] \ Present(issues) /\ cursor'[s] = next
      /\ \A o \in Searches \ {s} : owed'[o] = owed[o] /\ cursor'[o] = cursor[o]
  BY <1>1 DEF Typed, TypeOK
<1>5. ASSUME NEW i \in owed'[s]
      PROVE  \E n \in DOMAIN order : n > next /\ order[n] = i /\ next < Len(order)
  <2>1. PICK n \in DOMAIN order : n > from /\ order[n] = i
    BY <1>1, <1>4 DEF Ahead
  <2>2. n \in 1..Len(order)
    BY <1>2
  <2>3. from < Len(order) /\ from < to /\ to <= Len(order)
    BY <1>2, <2>1, <2>2
  <2>4. /\ Len(issues) = to - from
        /\ \A m \in 1..(to - from) : issues[m] = order[from + m]
    <3> HIDE DEF to
    <3>1. issues = SubSeq(order, from + 1, to)
      BY DEF PageFrom, to
    <3>2. from + 1 \in 1..(Len(order) + 1) /\ to \in from..Len(order)
      BY <1>2, <2>3
    <3>3. /\ Len(SubSeq(order, from + 1, to)) = to - from
          /\ \A m \in 1..(to - from) :
               SubSeq(order, from + 1, to)[m] = order[from + m]
      <4> HIDE DEF from, issues, next
      <4>1. from + 1 \in 1..(Len(order) + 1) /\ to \in from..Len(order)
        BY <3>2
      <4>2. /\ Len(SubSeq(order, from + 1, to)) =
                 (IF from + 1 <= to THEN to - (from + 1) + 1 ELSE 0)
            /\ \A m \in 1..(to - (from + 1) + 1) :
                 SubSeq(order, from + 1, to)[m] = order[from + 1 + m - 1]
        BY <1>2, <2>3, <4>1, SubSeqProperties
      <4> QED
        BY <1>2, <2>3, <4>2
    <3> QED
      BY <3>1, <3>3
  <2>5. issues \in Seq(Named)
    BY <1>2, PageType
  <2>6. n > to
    <3> SUFFICES ASSUME n <= to PROVE FALSE
      BY <1>2, <2>2
    <3> HIDE DEF to, issues
    <3>1. n - from \in 1..(to - from) /\ from + (n - from) = n
      BY <1>2, <2>1, <2>2
    <3>2. issues[n - from] = i
      BY <2>1, <2>4, <3>1
    <3>3. n - from \in DOMAIN issues
      BY <2>4, <2>5, <3>1
    <3>4. i \in Present(issues)
      BY <3>2, <3>3 DEF Present
    <3> QED
      BY <1>4, <3>4
  <2> HIDE DEF to, issues
  <2>7. next = to
    BY <1>2, <2>4
  <2> QED
    BY <1>2, <2>1, <2>2, <2>6, <2>7
<1> HIDE DEF issues, to, next
<1>6. at'[s] = "done" => owed'[s] = {}
  BY <1>3, <1>5
<1> QED
  BY <1>1, <1>3, <1>4, <1>5, <1>6 DEF Ahead

LEMMA AheadStep == Typed /\ Ahead /\ [Next]_vars => Ahead'
<1> SUFFICES ASSUME Typed, Ahead, [Next]_vars PROVE Ahead'
  OBVIOUS
<1>1. ASSUME NEW w \in Writes,
             \/ \E j \in Jobs : Write(w, j)
             \/ CheckIdempotency(w) \/ Call(w) \/ SetIdempotency(w)
      PROVE  Ahead'
  <2>1. UNCHANGED cursor /\ \A s \in Searches : at'[s] = at[s]
    BY <1>1 DEF Write, CheckIdempotency, Call, SetIdempotency, Goto, reads,
                Typed, TypeOK, Callers
  <2>2. UNCHANGED jira \/ Effect(w)
    BY <1>1 DEF Write, CheckIdempotency, Call, SetIdempotency
  <2>3. CASE UNCHANGED jira
    BY <2>1, <2>3, AheadQuietly DEF jira
  <2>4. CASE Effect(w)
    BY <2>1, <2>4, EffectType, AheadReorder DEF Typed
  <2> QED
    BY <2>2, <2>3, <2>4
<1>2. ASSUME NEW s \in Searches, Search(s) PROVE Ahead'
  <2>1. at[s] = "idle" /\ at'[s] = "page" /\ \A o \in Searches \ {s} : at'[o] = at[o]
    BY <1>2 DEF Search, Goto, Typed, TypeOK, Callers
  <2>2. owed'[s] = Present(order) /\ \A o \in Searches \ {s} : owed'[o] = owed[o]
    BY <1>2 DEF Search, Typed, TypeOK
  <2>3. UNCHANGED << order, cursor >>
    BY <1>2 DEF Search, reads
  <2>4. \A n \in DOMAIN order : n > 0
    BY DEF Typed, TypeOK
  <2> QED
    BY <2>1, <2>2, <2>3, <2>4 DEF Ahead, Present
<1>3. ASSUME NEW s \in Searches, SearchIssues(s) PROVE Ahead'
  BY <1>3, AheadPage
<1>4. CASE EditInJira
  <2>1. \E new \in Seq(Named) : Reorder(new)
    BY <1>4, ListType DEF EditInJira, Typed, TypeOK, Named
  <2> QED
    BY <1>4, <2>1, AheadReorder DEF EditInJira, reads
<1>5. ASSUME \/ \E k \in Keys : Expire(k)
             \/ \E p \in Polls : Poll(p) \/ PollConnector(p) \/ PublishEvent(p)
             \/ \E c \in Consumers : \/ EnsureConsumerGroup(c) \/ ReadEvents(c)
                                     \/ AcknowledgeEvent(c) \/ RestartConsumer(c)
             \/ \E p \in Writes \cup Searches \cup Polls : Fail(p)
      PROVE  Ahead'
  <2>1. UNCHANGED << order, owed, cursor >>
    BY <1>5 DEF Expire, Poll, PollConnector, PublishEvent, EnsureConsumerGroup, ReadEvents,
                AcknowledgeEvent, RestartConsumer, Fail, jira, reads
  <2>2. \A s \in Searches : at'[s] \in {at[s], "failed"}
    BY <1>5 DEF Expire, Poll, PollConnector, PublishEvent, EnsureConsumerGroup, ReadEvents,
                AcknowledgeEvent, RestartConsumer, Fail, Goto, Typed, TypeOK, Callers
  <2> QED
    BY <2>1, <2>2, AheadQuietly
<1>6. CASE UNCHANGED vars
  BY <1>6, AheadQuietly DEF vars, jira, reads
<1> QED
  BY <1>1, <1>2, <1>3, <1>4, <1>5, <1>6 DEF Next

(* jira.connector.ts:106: whatever the page size and whatever happens to    *)
(* the issues meanwhile, a search to the end misses only what moved.        *)
THEOREM SearchesMissOnlyTheMoved == Spec => []MissedOnlyIfMoved
<1>1. Init => Ahead
  BY DEF Init, Ahead, Callers
<1>2. Ahead => MissedOnlyIfMoved
  BY DEF Ahead, MissedOnlyIfMoved
<1> QED
  BY <1>1, <1>2, AlwaysTyped, AheadStep, PTL DEF Spec

----------------------------------------------------------------------------

(* The entries up to the last one handed out are shared out among the       *)
(* consumers; one that is in no hand was acknowledged or lost with its      *)
(* consumer.                                                                *)
SharedOut ==
  /\ group # NoGroup => group \in 0..Len(stream)
  /\ \A c \in Consumers : \A e \in got[c] : group # NoGroup /\ e \in 1..group
  /\ group # NoGroup => \A e \in 1..group : \E c \in Consumers : e \in got[c]
  /\ \A c, d \in Consumers : c # d => got[c] \cap got[d] = {}

NoneForgotten ==
  /\ \A c \in Consumers : at[c] \in {"idle", "take"} => hand[c] = {}
  /\ group # NoGroup => \A e \in 1..group :
       e \in acked \/ faults > 0 \/ \E c \in Consumers : e \in hand[c]

Handed == SharedOut /\ NoneForgotten

(* A step that leaves the consumers alone: the stream only grows.           *)
LEMMA HandedQuietly ==
  ASSUME Typed, Typed', Handed, UNCHANGED << group, got, hand, acked >>,
         Len(stream) <= Len(stream'), faults <= faults',
         \A c \in Consumers : at'[c] = at[c]
  PROVE  Handed'
<1>1. Len(stream) \in Nat /\ Len(stream') \in Nat /\ faults \in Nat /\ faults' \in Nat
  BY LenProperties DEF Typed, TypeOK
<1>2. SharedOut'
  BY <1>1 DEF Handed, SharedOut, Typed, TypeOK
<1>3. NoneForgotten'
  BY <1>1 DEF Handed, NoneForgotten
<1> QED
  BY <1>2, <1>3 DEF Handed

LEMMA HandedRead ==
  ASSUME Typed, Handed, NEW c \in Consumers, ReadEvents(c)
  PROVE  Handed'
<1> DEFINE last == IF group + Count < Len(stream) THEN group + Count ELSE Len(stream)
           new == group + 1 .. last
<1>1. group \in Nat /\ Len(stream) \in Nat /\ Count \in Nat \ {0} /\ group < Len(stream)
  BY LenProperties DEF ReadEvents, Typed, TypeOK, Places
<1>2. group' = last /\ last \in Nat /\ group < last /\ last <= Len(stream)
  BY <1>1 DEF ReadEvents
<1>3. /\ got'[c] = got[c] \cup new /\ \A d \in Consumers \ {c} : got'[d] = got[d]
      /\ hand'[c] = new /\ \A d \in Consumers \ {c} : hand'[d] = hand[d]
      /\ UNCHANGED << stream, acked, faults >>
  BY DEF ReadEvents, Typed, TypeOK
<1>4. at[c] = "take" /\ at'[c] = "handle"
      /\ \A d \in Consumers \ {c} : at'[d] = at[d]
  BY DEF ReadEvents, Goto, Typed, TypeOK, Callers
<1>5. group # NoGroup /\ group' # NoGroup
  BY <1>1, <1>2
<1>6. \A e \in 1..last : e \in 1..group \/ e \in new
  BY <1>1, <1>2
<1>7. \A e \in new : e \in 1..last /\ e \notin 1..group
  BY <1>1, <1>2
<1>8. \A e \in 1..group : e \in 1..last
  BY <1>1, <1>2
<1> HIDE DEF last, new
<1>9. SharedOut'
  <2>1. group' \in 0..Len(stream')
    BY <1>1, <1>2, <1>3
  <2>2. \A d \in Consumers : \A e \in got'[d] : e \in 1..group'
    BY <1>2, <1>3, <1>7, <1>8 DEF Handed, SharedOut
  <2>3. \A e \in 1..group' : \E d \in Consumers : e \in got'[d]
    BY <1>2, <1>3, <1>5, <1>6 DEF Handed, SharedOut
  <2>4. \A b, d \in Consumers : b # d => got'[b] \cap got'[d] = {}
    BY <1>3, <1>7 DEF Handed, SharedOut
  <2> QED
    BY <1>5, <2>1, <2>2, <2>3, <2>4 DEF SharedOut
<1>10. NoneForgotten'
  <2>1. \A d \in Consumers : at'[d] \in {"idle", "take"} => hand'[d] = {}
    BY <1>3, <1>4 DEF Handed, NoneForgotten
  <2>2. ASSUME NEW e \in 1..group'
        PROVE  e \in acked' \/ faults' > 0 \/ \E d \in Consumers : e \in hand'[d]
    <3>1. CASE e \in new
      BY <1>3, <3>1
    <3>2. CASE e \in 1..group
      <4>1. hand[c] = {}
        BY <1>4 DEF Handed, NoneForgotten
      <4>2. e \in acked \/ faults > 0 \/ \E d \in Consumers : e \in hand[d]
        BY <1>5, <3>2 DEF Handed, NoneForgotten
      <4> QED
        BY <1>3, <4>1, <4>2
    <3> QED
      BY <1>2, <1>6, <3>1, <3>2
  <2> QED
    BY <2>1, <2>2 DEF NoneForgotten
<1> QED
  BY <1>9, <1>10 DEF Handed

LEMMA HandedStep == Typed /\ Typed' /\ Handed /\ [Next]_vars => Handed'
<1> SUFFICES ASSUME Typed, Typed', Handed, [Next]_vars PROVE Handed'
  OBVIOUS
<1>0. Len(stream) \in Nat /\ faults \in Nat
  BY LenProperties DEF Typed, TypeOK
<1>1. ASSUME NEW c \in Consumers, EnsureConsumerGroup(c) PROVE Handed'
  <2>1. /\ group' = (IF group = NoGroup THEN 0 ELSE group)
        /\ UNCHANGED << stream, got, hand, acked, faults >>
        /\ at[c] = "idle" /\ \A d \in Consumers \ {c} : at'[d] = at[d]
    BY <1>1 DEF EnsureConsumerGroup, Goto, Typed, TypeOK, Callers
  <2>2. SharedOut'
    BY <1>0, <2>1 DEF Handed, SharedOut
  <2>3. NoneForgotten'
    BY <2>1 DEF Handed, NoneForgotten
  <2> QED
    BY <2>2, <2>3 DEF Handed
<1>2. ASSUME NEW c \in Consumers, ReadEvents(c) PROVE Handed'
  BY <1>2, HandedRead
<1>3. ASSUME NEW c \in Consumers, AcknowledgeEvent(c) PROVE Handed'
  <2>1. PICK e \in hand[c] : /\ acked' = acked \cup {e}
                             /\ hand' = [hand EXCEPT ![c] = @ \ {e}]
                             /\ Goto(c, IF hand[c] = {e} THEN "take" ELSE "handle")
    BY <1>3 DEF AcknowledgeEvent
  <2>2. /\ hand'[c] = hand[c] \ {e} /\ \A d \in Consumers \ {c} : hand'[d] = hand[d]
        /\ UNCHANGED << stream, group, got, faults >>
    BY <1>3, <2>1 DEF AcknowledgeEvent, Typed, TypeOK
  <2>3. /\ at'[c] = (IF hand[c] = {e} THEN "take" ELSE "handle")
        /\ \A d \in Consumers \ {c} : at'[d] = at[d]
    BY <2>1 DEF Goto, Typed, TypeOK, Callers
  <2>4. SharedOut'
    BY <2>2 DEF Handed, SharedOut
  <2>5. NoneForgotten'
    BY <2>1, <2>2, <2>3 DEF Handed, NoneForgotten
  <2> QED
    BY <2>4, <2>5 DEF Handed
<1>4. ASSUME NEW c \in Consumers, RestartConsumer(c) PROVE Handed'
  <2>1. /\ faults' > 0 /\ UNCHANGED << stream, group, got, acked >>
        /\ hand'[c] = {} /\ \A d \in Consumers \ {c} : hand'[d] = hand[d] /\ at'[d] = at[d]
    BY <1>0, <1>4 DEF RestartConsumer, Fault, Goto, Typed, TypeOK, Callers
  <2>2. SharedOut'
    BY <2>1 DEF Handed, SharedOut
  <2>3. NoneForgotten'
    BY <2>1 DEF Handed, NoneForgotten
  <2> QED
    BY <2>2, <2>3 DEF Handed
<1>5. ASSUME NEW w \in Writes,
             \/ \E j \in Jobs : Write(w, j)
             \/ CheckIdempotency(w) \/ Call(w) \/ SetIdempotency(w)
      PROVE  Handed'
  <2>1. UNCHANGED << stream, group, got, hand, acked >>
    BY <1>5 DEF Write, CheckIdempotency, Call, SetIdempotency, events
  <2>2. faults <= faults'
    BY <1>0, <1>5 DEF Write, CheckIdempotency, Call, SetIdempotency, Fault
  <2>3. \A c \in Consumers : at'[c] = at[c]
    BY <1>5 DEF Write, CheckIdempotency, Call, SetIdempotency, Goto, Typed, TypeOK, Callers
  <2> QED
    BY <1>0, <2>1, <2>2, <2>3, HandedQuietly
<1>8. ASSUME \/ \E k \in Keys : Expire(k)
             \/ \E s \in Searches : Search(s) \/ SearchIssues(s)
             \/ EditInJira
             \/ \E p \in Polls : Poll(p) \/ PollConnector(p)
             \/ \E p \in Writes \cup Searches \cup Polls : Fail(p)
      PROVE  Handed'
  <2>1. UNCHANGED << stream, group, got, hand, acked >>
    BY <1>8 DEF Expire, Search, SearchIssues, EditInJira, Poll, PollConnector, Fail, events
  <2>2. faults <= faults'
    BY <1>0, <1>8 DEF Expire, Search, SearchIssues, EditInJira, Poll, PollConnector, Fail,
                      Fault
  <2>3. \A c \in Consumers : at'[c] = at[c]
    BY <1>8 DEF Expire, Search, SearchIssues, EditInJira, Poll, PollConnector, Fail, Goto,
                Typed, TypeOK, Callers
  <2> QED
    BY <1>0, <2>1, <2>2, <2>3, HandedQuietly
<1>6. ASSUME NEW p \in Polls, PublishEvent(p) PROVE Handed'
  <2>1. UNCHANGED << group, got, hand, acked >> /\ stream' = Append(stream, p)
        /\ faults <= faults'
    BY <1>0, <1>6 DEF PublishEvent, Fault
  <2>2. Len(stream) <= Len(stream')
    BY <1>0, <2>1, AppendProperties DEF Typed, TypeOK
  <2>3. \A c \in Consumers : at'[c] = at[c]
    BY <1>6 DEF PublishEvent, Goto, Typed, TypeOK, Callers
  <2> QED
    BY <2>1, <2>2, <2>3, HandedQuietly
<1>7. CASE UNCHANGED vars
  BY <1>0, <1>7, HandedQuietly DEF vars, events
<1> QED
  BY <1>1, <1>2, <1>3, <1>4, <1>5, <1>6, <1>7, <1>8 DEF Next

(* streams.ts:52, 78: however many consumers read however much at a time    *)
(* and die, every entry of the stream is handed to one of them, once.       *)
THEOREM EntriesAreHandedOutOnce == Spec => []EachEntryOnce
<1>1. Init => Handed
  <2> SUFFICES ASSUME Init PROVE Handed
    OBVIOUS
  <2>1. SharedOut
    BY DEF Init, SharedOut
  <2>2. NoneForgotten
    BY DEF Init, NoneForgotten
  <2> QED
    BY <2>1, <2>2 DEF Handed
<1>2. Typed /\ Handed => EachEntryOnce
  <2> SUFFICES ASSUME Typed, Handed, group # NoGroup, NEW e \in 1..Len(stream)
               PROVE  /\ Cardinality({ c \in Consumers : e \in got[c] }) =
                           (IF e <= group THEN 1 ELSE 0)
                      /\ e <= group => \/ e \in acked \/ faults > 0
                                       \/ \E c \in Consumers : e \in hand[c]
    BY DEF EachEntryOnce
  <2>1. group \in Nat /\ e \in Nat \ {0}
    BY DEF Handed, SharedOut, Typed, TypeOK
  <2>2. CASE e <= group
    <3>1. e \in 1..group
      BY <2>1, <2>2
    <3>2. PICK c \in Consumers : e \in got[c]
      BY <3>1 DEF Handed, SharedOut
    <3>3. { d \in Consumers : e \in got[d] } = {c}
      BY <3>2 DEF Handed, SharedOut
    <3>4. Cardinality({ d \in Consumers : e \in got[d] }) = 1
      BY <3>3, FS_Singleton
    <3>5. e \in acked \/ faults > 0 \/ \E d \in Consumers : e \in hand[d]
      BY <3>1 DEF Handed, NoneForgotten
    <3> QED
      BY <2>2, <3>4, <3>5
  <2>3. CASE ~(e <= group)
    <3>1. { d \in Consumers : e \in got[d] } = {}
      BY <2>1, <2>3 DEF Handed, SharedOut
    <3>2. Cardinality({ d \in Consumers : e \in got[d] }) = 0
      BY <3>1, FS_EmptySet
    <3> QED
      BY <2>3, <3>2
  <2> QED
    BY <2>2, <2>3
<1> QED
  BY <1>1, <1>2, AlwaysTyped, HandedStep, PTL DEF Spec
=============================================================================
