---------------------------- MODULE ChatGateway -----------------------------
(***************************************************************************)
(* The chat of one tenant: pages in browsers, the sockets they open, and   *)
(* in each replica of the API the gateway that verifies a socket's token   *)
(* after the connection, runs the agent on what it receives and pushes     *)
(* notices of approvals to the sockets it has registered.                  *)
(*                                                                         *)
(* A socket closes at its two ends at different times: link is what the    *)
(* browser sees, and the gateway hears of it later.  Messages keep their   *)
(* order on a socket; those under way when it closes may be lost.          *)
(***************************************************************************)
EXTENDS Integers, FiniteSets, Sequences

CONSTANTS
  Pages,         \* chat pages that are open or not
  Sockets,       \* connections, each used once
  Replicas,      \* processes of the API
  NoPage, NoSocket,
  MaxQuestions,  \* bound: messages typed
  MaxCrashes     \* bound: processes that die

ASSUME ChatAssumption ==
  /\ NoPage \notin Pages /\ NoSocket \notin Sockets
  /\ IsFiniteSet(Sockets) /\ MaxQuestions \in Nat /\ MaxCrashes \in Nat

VARIABLES
  latest,    \* per page, the socket its effect opened last
  current,   \* per page, wsRef
  loading,   \* per page, the question asked has no answer yet
  inVain,    \* per page, that question went into no socket, or its socket
             \* has closed since
  owner,     \* the page whose handlers a socket calls
  link,      \* readyState in the browser
  failing,   \* sockets whose error event is still to come
  failed,    \* sockets whose error event came
  host,      \* the replica a socket is connected to
  verifying, \* per replica, and so below: the token is being verified
  ready,     \* isReady
  down,      \* handleDisconnect was called
  clients,   \* the sockets registered for notices
  late,      \* sockets registered after handleDisconnect
  asked,     \* messages on their way to the gateway
  running,   \* runs of the agent for each socket
  events,    \* messages on their way to the browser
  questions, crashes

pages   == << latest, current, loading, inVain >>
browser == << owner, link, failing, failed >>
gateway == << verifying, ready, down, clients, late >>
bounds  == << questions, crashes >>
vars == << pages, browser, host, gateway, asked, running, events, bounds >>

----------------------------------------------------------------------------

Mounted(p) == latest[p] # NoSocket

Open(s) == link[s] = "open"

Live(s) == link[s] \in {"connecting", "open"}

(* Where in a queue of events the answers are.                              *)
Answers(queue) == { n \in DOMAIN queue : queue[n] \in {"response", "error"} }

(* The question of a socket: on its way, a run, or an answer on its way.    *)
Outstanding(s) == asked[s] + running[s] + Cardinality(Answers(events[s]))

(* The sockets of gone close in the browser, and what was on its way to it  *)
(* is lost.                                                                 *)
Close(gone) ==
  /\ link' = [s \in Sockets |-> IF s \in gone THEN "closed" ELSE link[s]]
  /\ events' = [s \in Sockets |-> IF s \in gone THEN << >> ELSE events[s]]

(* The question of a page whose socket closes goes unanswered.              *)
Forsake(gone) ==
  inVain' = [p \in Pages |-> inVain[p] \/ (loading[p] /\ latest[p] \in gone)]

Init ==
  /\ latest  = [p \in Pages |-> NoSocket] /\ current = [p \in Pages |-> NoSocket]
  /\ loading = [p \in Pages |-> FALSE] /\ inVain = [p \in Pages |-> FALSE]
  /\ owner   = [s \in Sockets |-> NoPage]
  /\ link    = [s \in Sockets |-> "unused"]
  /\ failing = {} /\ failed = {}
  /\ host    \in [Sockets -> Replicas]
  /\ verifying = {} /\ ready = {} /\ down = {} /\ clients = {} /\ late = {}
  /\ asked   = [s \in Sockets |-> 0] /\ running = [s \in Sockets |-> 0]
  /\ events  = [s \in Sockets |-> << >>]
  /\ questions = 0 /\ crashes = 0

----------------------------------------------------------------------------

(* useWebSocket: the effect opens a socket and keeps it in wsRef.           *)
Connect(p, s) ==
  /\ link[s] = "unused"
  /\ latest' = [latest EXCEPT ![p] = s]
  /\ current' = [current EXCEPT ![p] = s]

(* A user with a token opens the chat page.                                 *)
OpenPage(p) ==
  /\ ~Mounted(p)
  /\ \E s \in Sockets : /\ Connect(p, s)
                        /\ owner' = [owner EXCEPT ![s] = p]
                        /\ link' = [link EXCEPT ![s] = "connecting"]
  /\ UNCHANGED << loading, inVain, failing, failed, host, gateway, asked,
                  running, events, bounds >>

(* The effect is run again in the page that is there, as React's strict     *)
(* mode does: its cleanup closes the socket, which is an error if it was    *)
(* still connecting, and a new one is opened.                               *)
RerunEffect(p) ==
  /\ Mounted(p)
  /\ \E s \in Sockets :
       /\ Connect(p, s)
       /\ owner' = [owner EXCEPT ![s] = p]
       /\ link' = [link EXCEPT ![s] = "connecting", ![latest[p]] = "closed"]
  /\ events' = [events EXCEPT ![latest[p]] = << >>]
  /\ failing' = IF link[latest[p]] = "connecting" THEN failing \cup {latest[p]}
                                                  ELSE failing
  /\ Forsake({latest[p]})
  /\ UNCHANGED << loading, failed, host, gateway, asked, running, bounds >>

(* The page is left, by a link or by logging out: its socket is closed and  *)
(* its state is gone.                                                       *)
LeavePage(p) ==
  /\ Mounted(p)
  /\ Close({latest[p]})
  /\ owner' = [s \in Sockets |-> IF owner[s] = p THEN NoPage ELSE owner[s]]
  /\ latest' = [latest EXCEPT ![p] = NoSocket]
  /\ current' = [current EXCEPT ![p] = NoSocket]
  /\ loading' = [loading EXCEPT ![p] = FALSE]
  /\ inVain' = [inVain EXCEPT ![p] = FALSE]
  /\ UNCHANGED << failing, failed, host, gateway, asked, running, bounds >>

(* Mutant: the page lets the user ask again while it waits.                 *)
HandleSendAlways(p) ==
  /\ Mounted(p) /\ questions < MaxQuestions
  /\ questions' = questions + 1
  /\ loading' = [loading EXCEPT ![p] = TRUE]
  /\ IF current[p] # NoSocket /\ Open(current[p])
       THEN asked' = [asked EXCEPT ![current[p]] = @ + 1] /\ UNCHANGED inVain
       ELSE inVain' = [inVain EXCEPT ![p] = TRUE] /\ UNCHANGED asked
  /\ UNCHANGED << latest, current, browser, host, gateway, running, events, crashes >>

(* handleSend shows the question and waits, whether or not send had an open *)
(* socket to put it in.                                                     *)
HandleSend(p) ==
  /\ Mounted(p) /\ ~loading[p] /\ questions < MaxQuestions
  /\ questions' = questions + 1
  /\ loading' = [loading EXCEPT ![p] = TRUE]
  /\ IF current[p] # NoSocket /\ Open(current[p])
       THEN asked' = [asked EXCEPT ![current[p]] = @ + 1] /\ UNCHANGED inVain
       ELSE inVain' = [inVain EXCEPT ![p] = TRUE] /\ UNCHANGED asked
  /\ UNCHANGED << latest, current, browser, host, gateway, running, events, crashes >>

(* Mutant: any message ends the waiting.                                    *)
EndsWaitingAny(e) == TRUE

(* What of its events ends a page's waiting.                                *)
EndsWaiting(e) == e \in {"response", "error"}

(* onMessage.                                                               *)
OnMessage(s) ==
  /\ Open(s) /\ events[s] # << >>
  /\ events' = [events EXCEPT ![s] = Tail(@)]
  /\ IF owner[s] # NoPage /\ EndsWaiting(Head(events[s]))
       THEN /\ loading' = [loading EXCEPT ![owner[s]] = FALSE]
            /\ inVain' = [inVain EXCEPT ![owner[s]] = FALSE]
       ELSE UNCHANGED << loading, inVain >>
  /\ UNCHANGED << latest, current, browser, host, gateway, asked, running, bounds >>

(* The connection is refused or breaks: an error event is to come.          *)
Break(s) ==
  /\ Live(s)
  /\ Close({s}) /\ Forsake({s})
  /\ failing' = failing \cup {s}
  /\ UNCHANGED << latest, current, loading, owner, failed, host, gateway,
                  asked, running, bounds >>

(* Mutant: a socket's close clears the reference, too.                      *)
OnErrorOrClose(s) ==
  /\ s \in failing \/ (link[s] = "closed" /\ s \notin failed)
  /\ failing' = failing \ {s}
  /\ failed' = IF s \in failing THEN failed \cup {s} ELSE failed
  /\ current' = IF owner[s] = NoPage THEN current
                ELSE [current EXCEPT ![owner[s]] = NoSocket]
  /\ UNCHANGED << latest, loading, inVain, owner, link, host, gateway, asked,
                  running, events, bounds >>

(* onerror clears wsRef, whichever socket is in it by now.                  *)
OnError(s) ==
  /\ s \in failing
  /\ failing' = failing \ {s}
  /\ failed' = failed \cup {s}
  /\ current' = IF owner[s] = NoPage THEN current
                ELSE [current EXCEPT ![owner[s]] = NoSocket]
  /\ UNCHANGED << latest, loading, inVain, owner, link, host, gateway, asked,
                  running, events, bounds >>

----------------------------------------------------------------------------

(* handleConnection starts to verify the token.                             *)
HandleConnection(s) ==
  /\ link[s] = "connecting"
  /\ link' = [link EXCEPT ![s] = "open"]
  /\ verifying' = verifying \cup {s}
  /\ UNCHANGED << pages, owner, failing, failed, host, ready, down, clients,
                  late, asked, running, events, bounds >>

(* The token is good: the socket is ready, and registered even if it has    *)
(* been closed meanwhile.                                                   *)
Verified(s) ==
  /\ s \in verifying
  /\ verifying' = verifying \ {s}
  /\ ready' = ready \cup {s}
  /\ clients' = clients \cup {s}
  /\ late' = IF s \in down THEN late \cup {s} ELSE late
  /\ UNCHANGED << pages, browser, host, down, asked, running, events, bounds >>

(* The token is not good, or the key cannot be had: the socket is closed.   *)
Unverified(s) ==
  /\ s \in verifying
  /\ verifying' = verifying \ {s}
  /\ Close({s}) /\ Forsake({s})
  /\ UNCHANGED << latest, current, loading, owner, failing, failed, host,
                  ready, down, clients, late, asked, running, bounds >>

(* Mutant: handleDisconnect leaves the socket registered.                   *)
HandleDisconnectOnly(s) ==
  /\ link[s] = "closed" /\ s \notin down
  /\ down' = down \cup {s}
  /\ asked' = [asked EXCEPT ![s] = 0]
  /\ UNCHANGED << pages, browser, host, verifying, ready, clients, late,
                  running, events, bounds >>

(* handleDisconnect unregisters a socket that was verified.  What was not   *)
(* received by then is lost.                                                *)
HandleDisconnect(s) ==
  /\ link[s] = "closed" /\ s \notin down
  /\ down' = down \cup {s}
  /\ clients' = clients \ {s}
  /\ asked' = [asked EXCEPT ![s] = 0]
  /\ UNCHANGED << pages, browser, host, verifying, ready, late, running, events, bounds >>

(* What events become when message e is sent to each socket of to: a socket *)
(* that has closed gets nothing.                                            *)
Sent(e, to, sofar) ==
  [s \in Sockets |-> IF s \in to /\ Open(s) THEN Append(sofar[s], e) ELSE sofar[s]]

(* Mutant: a message of a socket that is not ready is dropped.              *)
HandleChatSilent(s) ==
  /\ asked[s] > 0 /\ s \notin down
  /\ asked' = [asked EXCEPT ![s] = @ - 1]
  /\ running' = IF s \in ready THEN [running EXCEPT ![s] = @ + 1] ELSE running
  /\ UNCHANGED << pages, browser, host, gateway, events, bounds >>

(* handleChat starts a run, or turns away a socket that is not ready.       *)
HandleChat(s) ==
  /\ asked[s] > 0 /\ s \notin down
  /\ asked' = [asked EXCEPT ![s] = @ - 1]
  /\ IF s \in ready
       THEN running' = [running EXCEPT ![s] = @ + 1] /\ UNCHANGED events
       ELSE events' = Sent("error", {s}, events) /\ UNCHANGED running
  /\ UNCHANGED << pages, browser, host, gateway, bounds >>

(* The clients of the replica that runs the agent for s.                    *)
Neighbours(s) == { t \in clients : host[t] = host[s] }

(* The run ends: an answer, an answer and the notice of the approval it     *)
(* waits for, or an error.                                                  *)
RunEnds(s) ==
  /\ running[s] > 0
  /\ running' = [running EXCEPT ![s] = @ - 1]
  /\ \/ events' = Sent("response", {s}, events)
     \/ events' = Sent("notification", Neighbours(s), Sent("response", {s}, events))
     \/ events' = Sent("error", {s}, events)
  /\ UNCHANGED << pages, browser, host, gateway, asked, bounds >>

(* A replica dies, with its runs and all it knows; its sockets break.       *)
Crash(r) ==
  LET mine == { s \in Sockets : host[s] = r }
      cut  == { s \in mine : Live(s) }
  IN /\ crashes < MaxCrashes /\ crashes' = crashes + 1
     /\ Close(cut) /\ Forsake(cut)
     /\ failing' = failing \cup cut
     /\ down' = down \cup { s \in mine : link[s] # "unused" }
     /\ verifying' = verifying \ mine /\ ready' = ready \ mine
     /\ clients' = clients \ mine /\ late' = late \ mine
     /\ asked' = [s \in Sockets |-> IF s \in mine THEN 0 ELSE asked[s]]
     /\ running' = [s \in Sockets |-> IF s \in mine THEN 0 ELSE running[s]]
     /\ UNCHANGED << latest, current, loading, owner, failed, host, questions >>

----------------------------------------------------------------------------

Next ==
  \/ \E p \in Pages : OpenPage(p) \/ RerunEffect(p) \/ LeavePage(p) \/ HandleSend(p)
  \/ \E s \in Sockets :
       \/ OnMessage(s) \/ Break(s) \/ OnError(s)
       \/ HandleConnection(s) \/ Verified(s) \/ Unverified(s)
       \/ HandleDisconnect(s) \/ HandleChat(s) \/ RunEnds(s)
  \/ \E r \in Replicas : Crash(r)

(* Messages arrive and runs end: the socket is TCP, and a run settles.      *)
Fairness ==
  \A s \in Sockets : WF_vars(OnMessage(s)) /\ WF_vars(HandleChat(s)) /\ WF_vars(RunEnds(s))

Spec == Init /\ [][Next]_vars /\ Fairness

----------------------------------------------------------------------------

TypeOK ==
  /\ latest \in [Pages -> Sockets \cup {NoSocket}]
  /\ current \in [Pages -> Sockets \cup {NoSocket}]
  /\ loading \in [Pages -> BOOLEAN] /\ inVain \in [Pages -> BOOLEAN]
  /\ owner \in [Sockets -> Pages \cup {NoPage}]
  /\ link \in [Sockets -> {"unused", "connecting", "open", "closed"}]
  /\ failing \subseteq Sockets /\ failed \subseteq Sockets
  /\ host \in [Sockets -> Replicas]
  /\ verifying \subseteq Sockets /\ ready \subseteq Sockets
  /\ down \subseteq Sockets /\ clients \subseteq Sockets /\ late \subseteq Sockets
  /\ asked \in [Sockets -> Nat] /\ running \in [Sockets -> Nat]
  /\ events \in [Sockets -> Seq({"response", "error", "notification"})]
  /\ questions \in 0..MaxQuestions /\ crashes \in 0..MaxCrashes

(* A socket never has two runs of the agent or two questions under way.     *)
(* Nothing in the gateway sees to it (chat.gateway.ts:82 starts a run for   *)
(* every message): it is the page's loading flag, and that only an answer   *)
(* or an error on the socket takes it back (page.tsx:50, 71, 82).           *)
OneQuestionPerSocket == \A s \in Sockets : Outstanding(s) <= 1

(* A page waits exactly while its question is under way, unless it had no   *)
(* open socket to put it in or has lost the socket since; then it waits     *)
(* until it is left (page.tsx:84-86, useWebSocket.ts:44-47).                *)
WaitsForAnAnswer ==
  \A p \in Pages : Mounted(p) /\ ~inVain[p] =>
    Outstanding(latest[p]) = IF loading[p] THEN 1 ELSE 0

(* The registry holds the sockets that are ready and not disconnected, and  *)
(* besides them only those whose token was verified after they had gone,    *)
(* which nothing ever takes out (chat.gateway.ts:66, 76).                   *)
RegistryIsExact == clients = (ready \ down) \cup late

(* A page with an open socket loses hold of it only by the error event of a *)
(* socket it had before (useWebSocket.ts:34-36): neither cleanup nor a      *)
(* close does that.                                                         *)
MuteByAnOldError ==
  \A p \in Pages :
    Mounted(p) /\ Open(latest[p]) /\ current[p] # latest[p]
      => \E s \in failed : s # latest[p] /\ owner[s] = p

(* A page whose socket is open, and one whose question is under way there.  *)
Online(p) == Mounted(p) /\ Open(latest[p])

Pending(p) == Online(p) /\ Outstanding(latest[p]) > 0

(* ChatGateway implements Conversation: an answer ends only the waiting for *)
(* the question it answers, never that for a later one, which nothing in    *)
(* the messages tells apart (page.tsx:50, 71); and a question that was put  *)
(* into a socket is lost only with that socket (chat.gateway.ts:82).        *)
Talk == INSTANCE Conversation WITH
  open    <- { p \in Pages : Mounted(p) },
  online  <- { p \in Pages : Online(p) },
  waiting <- { p \in Pages : loading[p] },
  pending <- { p \in Pages : Pending(p) }

ImplementsConversation == Talk!TalkSpec

(* A question that got into an open socket is answered, or its socket goes. *)
QuestionsAreAnswered ==
  \A p \in Pages : loading[p] /\ ~inVain[p] ~> ~loading[p] \/ inVain[p]
=============================================================================
