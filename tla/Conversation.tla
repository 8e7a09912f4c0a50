---------------------------- MODULE Conversation ----------------------------
(***************************************************************************)
(* What the chat promises a page, with no sockets, replicas, queues or     *)
(* runs: a page that is not waiting may ask, and then waits.  The question *)
(* is pending only if the page was online to ask it.  An answer is to a    *)
(* pending question, takes it away and ends the waiting.  Nothing else     *)
(* does, but leaving the page; and a pending question is lost only with    *)
(* the connection of its page, which goes on waiting.                      *)
(***************************************************************************)
CONSTANT Pages

VARIABLES
  open,     \* pages that are there
  online,   \* pages with a connection
  waiting,  \* pages that show they wait for an answer
  pending   \* pages whose question is still to be answered

talkVars == << open, online, waiting, pending >>

TalkInit == open = {} /\ online = {} /\ waiting = {} /\ pending = {}

Enter(p) ==
  /\ p \notin open
  /\ open' = open \cup {p}
  /\ UNCHANGED << online, waiting, pending >>

GoOnline(p) ==
  /\ p \in open \ online
  /\ online' = online \cup {p}
  /\ UNCHANGED << open, waiting, pending >>

(* All the pages of a replica may lose their connections at once.           *)
GoOffline(P) ==
  /\ online' = online \ P
  /\ pending' = pending \ P
  /\ UNCHANGED << open, waiting >>

Ask(p) ==
  /\ p \in open \ waiting
  /\ waiting' = waiting \cup {p}
  /\ \/ p \in online /\ pending' = pending \cup {p}
     \/ UNCHANGED pending
  /\ UNCHANGED << open, online >>

Answer(p) ==
  /\ p \in pending
  /\ waiting' = waiting \ {p}
  /\ pending' = pending \ {p}
  /\ UNCHANGED << open, online >>

Leave(p) ==
  /\ p \in open
  /\ open' = open \ {p}
  /\ online' = online \ {p}
  /\ waiting' = waiting \ {p}
  /\ pending' = pending \ {p}

TalkNext ==
  \/ \E p \in Pages : Enter(p) \/ GoOnline(p) \/ Ask(p) \/ Answer(p) \/ Leave(p)
  \/ \E P \in SUBSET Pages : GoOffline(P)

TalkSpec == TalkInit /\ [][TalkNext]_talkVars
=============================================================================
