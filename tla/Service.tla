--------------------------------- MODULE Service ---------------------------------
(***************************************************************************)
(* Clients, the routes of the server and its map of results, on a server   *)
(* that Heart launches and kills.                                          *)
(*                                                                         *)
(* A client sends a command, gets a GUID, and asks /get for the answer     *)
(* until it is there: in the dialogue itself (Waiting) or in a future      *)
(* (Async), in whose destructor the dialogue waits.  It has one connection *)
(* and wire[c] is the message on it; a request that fails comes to the     *)
(* same as one never answered.  The server starts a task for each          *)
(* command; what tasks do under their locks is in the modules of the       *)
(* controllers, here a task is one step, up to its continuation.  Messages *)
(* may be lost, or answered too late, which is the same to the client; the *)
(* server may die, and what a memory_controller knew dies with it.         *)
(*                                                                         *)
(* The data is the sequence of the times of the changes made; a reading    *)
(* task answers how many of them it saw.  Every read of the program is a   *)
(* read of the past: the routes pass the pointer need_persist - '0', which *)
(* is never null.  Reads for which the user gave a time are left out.      *)
(***************************************************************************)
EXTENDS Heart, Integers, Sequences, Functions

CONSTANTS
  Client,
  Second,       \* clock ticks in a second
  Shift,        \* the 10800 seconds the route of read_value adds to a time
  MaxCommands,  \* bound: commands sent
  MaxLosses,    \* bound: messages lost
  MaxClock      \* bound: clock ticks

ASSUME ClockAssumption == Second \in Nat \ {0} /\ Shift \in Nat /\ Second <= Shift + 1
ASSUME ClientAssumption == IsFiniteSet(Client)
ASSUME ServiceBounds == MaxCommands \in Nat /\ MaxLosses \in Nat /\ MaxClock \in Nat

VARIABLES
  dialog,    \* where its dialogue is
  poll,      \* where its asking for an answer is
  guid,      \* the GUID it asks for
  wire,      \* the message on its connection
  tasks,     \* the server's running tasks: GUID -> command
  results,   \* _request_result: GUID -> answer
  changes,   \* the times of the changes made in this server's life
  clock,
  record,    \* ghost: by GUID, the client, the command and the answer of its task
  times,     \* ghost: how often the answer of each GUID was given out
  sent,      \* commands sent so far
  losses     \* messages lost so far

clientVars == <<dialog, poll, guid, wire>>
serverVars == <<tasks, results, changes>>
ghostVars == <<record, times>>
boundVars == <<sent, losses>>
vars == <<heartVars, clientVars, serverVars, clock, ghostVars, boundVars>>

Id == 1..MaxCommands
Reads == {"read_value", "read_range"}
Commands == {"write", "backward_range"} \cup Reads
NoReply == -1
Reply == Nat
NoGuid == 0

Silence == [kind |-> "none"]
Asking(g) == [kind |-> "get", guid |-> g]
Requests == {"command", "get"}

\* A map with one key more.
Put(f, key, value) ==
  [k \in DOMAIN f \cup {key} |-> IF k = key THEN value ELSE f[k]]

Init ==
  /\ HeartInit
  /\ dialog = [c \in Client |-> "prompt"]
  /\ poll = [c \in Client |-> "idle"]
  /\ guid = [c \in Client |-> NoGuid]
  /\ wire = [c \in Client |-> Silence]
  /\ tasks = [g \in {} |-> Silence] /\ results = [g \in {} |-> NoReply] /\ changes = <<>>
  /\ clock = 0
  /\ record = <<>> /\ times = [g \in Id |-> 0]
  /\ sent = 0 /\ losses = 0

-------------------------------------------------------------------------------
(* Clients. *)

Dialog(c, from, to) == dialog[c] = from /\ dialog' = [dialog EXCEPT ![c] = to]
Polls(c, from, to) == poll[c] = from /\ poll' = [poll EXCEPT ![c] = to]
Wire(c, message) == wire' = [wire EXCEPT ![c] = message]

\* A command typed at the prompt and sent; reads carry the present time in whole
\* seconds.
\* Sees is a ghost: the changes there were when it was sent, and in whose life.
Say(c, what) ==
  /\ Dialog(c, "prompt", "command")
  /\ sent < MaxCommands /\ sent' = sent + 1
  /\ Wire(c, [kind |-> "command", what |-> what, time |-> clock - (clock % Second),
              sees |-> Len(changes), server |-> listening])
  /\ UNCHANGED <<poll, guid, losses, clock, serverVars, ghostVars, heartVars>>

SayWrite(c) == Say(c, "write")
SayRead(c) == \E what \in Reads \cup {"backward_range"} : Say(c, what)

ClientFrame == UNCHANGED <<clock, serverVars, ghostVars, boundVars, heartVars>>

\* Fault: the future outlives the command.
GotGuidAndGone(c) ==
  /\ wire[c].kind = "guid"
  /\ \E to \in {"waiting", "prompt"} : Dialog(c, "command", to)
  /\ Polls(c, "idle", "due")
  /\ guid' = [guid EXCEPT ![c] = wire[c].guid]
  /\ Wire(c, Silence)
  /\ ClientFrame

\* get_answer_from_server, in the mode the user last chose: the future's destructor
\* waits as the loop does.
GotGuid(c) ==
  /\ wire[c].kind = "guid"
  /\ \E to \in {"waiting", "destructor"} : Dialog(c, "command", to)
  /\ Polls(c, "idle", "due")
  /\ guid' = [guid EXCEPT ![c] = wire[c].guid]
  /\ Wire(c, Silence)
  /\ ClientFrame

SendGet(c) ==
  /\ Polls(c, "due", "sent")
  /\ Wire(c, Asking(guid[c]))
  /\ UNCHANGED <<dialog, guid>> /\ ClientFrame

GotAnswer(c) ==
  /\ wire[c].kind = "answer"
  /\ Polls(c, "sent", "idle")
  /\ dialog' = [dialog EXCEPT ![c] = "prompt"]
  /\ Wire(c, Silence)
  /\ UNCHANGED guid /\ ClientFrame

\* Fault: the first get without an answer is the last.
NoAnswerGiveUp(c) ==
  /\ wire[c].kind = "missing"
  /\ Polls(c, "sent", "idle")
  /\ dialog' = [dialog EXCEPT ![c] = "prompt"]
  /\ Wire(c, Silence)
  /\ UNCHANGED guid /\ ClientFrame

\* Not found: sleep, and ask again.
NoAnswer(c) ==
  /\ wire[c].kind = "missing"
  /\ Polls(c, "sent", "due")
  /\ Wire(c, Silence)
  /\ UNCHANGED <<dialog, guid>> /\ ClientFrame

ClientThread(c) == GotGuid(c) \/ SendGet(c) \/ GotAnswer(c) \/ NoAnswer(c)

-------------------------------------------------------------------------------
(* The network. *)

\* No answer comes to the requests of some clients: a command has failed, a get is
\* sent again after a sleep.
FailExchanges(cs) ==
  /\ wire' = [c \in Client |-> IF c \in cs THEN Silence ELSE wire[c]]
  /\ dialog' = [c \in Client |->
                  IF c \in cs /\ dialog[c] = "command" THEN "prompt" ELSE dialog[c]]
  /\ poll' = [c \in Client |-> IF c \in cs /\ poll[c] = "sent" THEN "due" ELSE poll[c]]
  /\ UNCHANGED <<guid, clock, sent, ghostVars>>

Refused(c) ==
  /\ wire[c].kind \in Requests /\ listening = 0
  /\ FailExchanges({c})
  /\ UNCHANGED <<losses, serverVars, heartVars>>

LoseMessage(c) ==
  /\ wire[c] # Silence
  /\ losses < MaxLosses /\ losses' = losses + 1
  /\ FailExchanges({c})
  /\ UNCHANGED <<serverVars, heartVars>>

-------------------------------------------------------------------------------
(* The server: routes, tasks and the map of results. *)

ServerFrame == UNCHANGED <<dialog, poll, guid, clock, boundVars, heartVars>>

\* Fault: the time is taken as the client sent it.
RouteTimeAsSent(m) == IF m.what = "read_value" THEN m.time ELSE clock

\* The time the controller is asked for: the one sent and three hours more by
\* read_value; by read_range, whose test of time_str is inverted, now.
RouteTime(m) == IF m.what = "read_value" THEN m.time + Shift ELSE clock

\* A route that passes a command on to the controller.
Accept(c) ==
  LET m == wire[c]
      g == Len(record) + 1
  IN
  /\ listening # 0 /\ m.kind = "command"
  /\ tasks' = Put(tasks, g, [what |-> m.what, time |-> RouteTime(m)])
  /\ record' = Append(record,
       [client |-> c, what |-> m.what, reply |-> NoReply,
        sees |-> IF m.server = listening THEN m.sees ELSE 0])
  /\ Wire(c, [kind |-> "guid", guid |-> g])
  /\ UNCHANGED <<results, changes, times>> /\ ServerFrame

\* How many changes there are not after a time: revert_to undoes the others.
SeenAt(time) == Cardinality({n \in DOMAIN changes : changes[n] <= time})

\* Fault: the continuation does not run.
PublishNothing(g, answer) ==
  /\ tasks' = Restrict(tasks, DOMAIN tasks \ {g})
  /\ UNCHANGED <<wire, results, ghostVars>> /\ ServerFrame

\* Fault: the task runs again after its continuation.
PublishAndStay(g, answer) ==
  /\ results' = Put(results, g, answer)
  /\ record' = [record EXCEPT ![g].reply = answer]
  /\ UNCHANGED <<tasks, wire, times>> /\ ServerFrame

\* What a task that throws nothing answers, and its continuation with it.
Publish(g, answer) ==
  /\ results' = Put(results, g, answer)
  /\ tasks' = Restrict(tasks, DOMAIN tasks \ {g})
  /\ record' = [record EXCEPT ![g].reply = answer]
  /\ UNCHANGED <<wire, times>> /\ ServerFrame

RunWrite(g) ==
  /\ tasks[g].what = "write"
  /\ changes' = Append(changes, clock)
  /\ Publish(g, 0)

RunRead(g) ==
  /\ tasks[g].what \in Reads
  /\ Publish(g, SeenAt(tasks[g].time))
  /\ UNCHANGED changes

\* find_range with its bounds in the wrong order throws, and so does fut.get() in
\* the continuation.
RunBackward(g) ==
  /\ tasks[g].what = "backward_range"
  /\ tasks' = Restrict(tasks, DOMAIN tasks \ {g})
  /\ UNCHANGED <<wire, results, changes, ghostVars>> /\ ServerFrame

RunTask(g) == RunWrite(g) \/ RunRead(g) \/ RunBackward(g)

Respond(c, message, given) ==
  /\ listening # 0 /\ wire[c].kind = "get"
  /\ Wire(c, message)
  /\ times' = [g \in Id |-> times[g] + IF g \in given THEN 1 ELSE 0]
  /\ UNCHANGED <<tasks, changes, record>> /\ ServerFrame

\* Fault: get leaves the result in the map.
ServeGetKeep(c) ==
  /\ wire[c].kind = "get"
  /\ LET g == wire[c].guid IN
     IF g \in DOMAIN results
     THEN Respond(c, [kind |-> "answer", answer |-> results[g]], {g}) /\ UNCHANGED results
     ELSE Respond(c, [kind |-> "missing"], {}) /\ UNCHANGED results

\* The route of /get, and get of the controller, under _map_mut.
ServeGet(c) ==
  /\ wire[c].kind = "get"
  /\ LET g == wire[c].guid IN
     IF g \in DOMAIN results
     THEN /\ Respond(c, [kind |-> "answer", answer |-> results[g]], {g})
          /\ results' = Restrict(results, DOMAIN results \ {g})
     ELSE Respond(c, [kind |-> "missing"], {}) /\ UNCHANGED results

Server == \E c \in Client : Accept(c) \/ ServeGet(c)

\* What the end of the process that listens takes with it.
Forget ==
  /\ tasks' = [g \in {} |-> Silence] /\ results' = [g \in {} |-> NoReply] /\ changes' = <<>>
  /\ FailExchanges({c \in Client : wire[c].kind \in Requests})
  /\ UNCHANGED losses

-------------------------------------------------------------------------------

Watchdog ==
  /\ HeartNext
  /\ IF listening # 0 /\ listening' # listening THEN Forget
     ELSE UNCHANGED <<clientVars, serverVars, clock, ghostVars, boundVars>>

Tick ==
  /\ clock < MaxClock /\ clock' = clock + 1
  /\ UNCHANGED <<clientVars, serverVars, ghostVars, boundVars, heartVars>>

Next ==
  \/ \E c \in Client :
       \/ SayWrite(c) \/ SayRead(c)
       \/ ClientThread(c) \/ Refused(c) \/ LoseMessage(c)
       \/ Accept(c) \/ ServeGet(c)
  \/ \E g \in DOMAIN tasks : RunTask(g)
  \/ Watchdog \/ Tick

Spec == Init /\ [][Next]_vars

\* Programs run and connections answer; nobody need type anything.
Fairness ==
  /\ HeartFairness
  /\ \A c \in Client : WF_vars(ClientThread(c)) /\ WF_vars(Refused(c)) /\ WF_vars(Accept(c) \/ ServeGet(c))
  /\ \A g \in Id : WF_vars(g \in DOMAIN tasks /\ RunTask(g))

FairSpec == Spec /\ Fairness

-------------------------------------------------------------------------------
(* The abstract service this one implements. *)

Stage(g) ==
  IF g > Len(record) THEN "new"
  ELSE IF g \in DOMAIN tasks THEN "asked"
  ELSE IF g \in DOMAIN results THEN "answered"
  ELSE IF times[g] > 0 THEN "given" ELSE "lost"

ReplyOf(g) ==
  IF g <= Len(record) /\ Stage(g) # "lost" THEN record[g].reply ELSE NoReply

Promise == INSTANCE RequestService WITH
  stage <- [g \in Id |-> Stage(g)],
  reply <- [g \in Id |-> ReplyOf(g)],
  times <- times

-------------------------------------------------------------------------------
(* Properties *)

Messages ==
  {Silence, [kind |-> "missing"]}
  \cup [kind : {"command"}, what : Commands, time : Int, sees : Nat, server : Nat]
  \cup [kind : {"guid", "get"}, guid : Id]
  \cup [kind : {"answer"}, answer : Reply]

ClientTypeOK ==
  /\ dialog \in [Client -> {"prompt", "command", "waiting", "destructor"}]
  /\ poll \in [Client -> {"idle", "due", "sent"}]
  /\ guid \in [Client -> Id \cup {NoGuid}]
  /\ wire \in [Client -> Messages]
  /\ losses \in 0..MaxLosses /\ clock \in 0..MaxClock

ServerTypeOK ==
  /\ record \in Seq([client : Client, what : Commands, reply : Reply \cup {NoReply}, sees : Nat])
  /\ Len(record) <= sent /\ sent \in 0..MaxCommands
  /\ changes \in Seq(Nat) /\ times \in [Id -> Nat]
  /\ DOMAIN tasks \subseteq DOMAIN record /\ DOMAIN results \subseteq DOMAIN record
  /\ DOMAIN tasks \cap DOMAIN results = {}
  /\ \A g \in DOMAIN results : results[g] \in Reply /\ results[g] = record[g].reply

TypeOK == HeartTypeOK /\ ClientTypeOK /\ ServerTypeOK

\* A request is answered once or never, and its answer is given out once: a
\* refinement of the abstract service, through lost messages and deaths.
ImplementsRequestService == Promise!RequestServiceSpec

\* Two threads of a client, the dialogue and the future, share one connection and
\* one output: an exchange begins when the one before it is over.
OneExchange ==
  [][\A c \in Client :
       wire'[c] # wire[c] /\ wire'[c].kind \in Requests => wire[c] = Silence]_vars

\* The client of a request is asking for its answer, or about to.
HasReader(g) ==
  LET c == record[g].client IN
  \/ poll[c] # "idle" /\ guid[c] = g
  \/ wire[c].kind = "guid" /\ wire[c].guid = g

\* While no message is lost, each answer in the map is one its client is still
\* asking for, or about to: none stays there for ever.
ResultsHaveAReader == losses = 0 => \A g \in DOMAIN results : HasReader(g)

\* Every read sees the changes there were when its command was sent, though it is
\* served as a read of the past at a time in whole seconds.
ReadYourWrites ==
  \A g \in DOMAIN record :
    record[g].what \in Reads /\ record[g].reply # NoReply
    => record[g].reply >= record[g].sees

\* Unless its bounds are in the wrong order, messages are lost, or the server dies,
\* a command brings the dialogue back to its prompt, in either mode.
EveryCommandShown ==
  \A c \in Client :
    dialog[c] = "command" ~>
      \/ dialog[c] = "prompt"
      \/ losses > 0 \/ troubles > 0 \/ mainPc # "enter"
      \/ \E g \in DOMAIN record : record[g].what = "backward_range"
===============================================================================
