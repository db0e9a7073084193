----------------------------- MODULE ServiceProofs -----------------------------
(***************************************************************************)
(* Theorems about Service for any number of clients, commands, losses,     *)
(* crashes and clock ticks, and any Second and Shift that its assumption   *)
(* allows.                                                                 *)
(***************************************************************************)
EXTENDS Service, TLAPS, FiniteSetTheorems

-------------------------------------------------------------------------------
(* The watchdog.  The heart thread launches a server only when none is alive:  *)
(* it has terminated the one of its handle, or there was none, and no server   *)
(* is alive but that of the handle or the one just launched.  The main thread, *)
(* which closes and clears the handle beside it, spoils this in two ways: the  *)
(* handle of a new server is overwritten (the race "launch"), but then         *)
(* is_running is FALSE and the heart thread launches no other; unless start()  *)
(* has set it again (the race "start"), and then it never returns and the main *)
(* thread never comes to its end.                                              *)

\* What the handle has to do with the servers alive, as long as start() does not go on
\* after stop().
HandleFollows ==
  /\ heartPc \in {"wait", "close", "forget", "launch"} => alive = {}
  /\ heartPc = "assign" => alive \subseteq {launches}
  /\ "launch" \in races =>
       /\ alive \subseteq {launches}
       /\ heartPc \in {"loop", "returned"} /\ mainPc \notin {"enter", "clear"}
  /\ "launch" \notin races /\ heartPc # "assign" =>
       /\ alive \subseteq {handle}
       /\ mainPc \in {"wait", "close", "forget"} => alive = {}

\* When start() goes on after stop() its loop runs for ever.
StartedLate ==
  /\ isRunning
  /\ heartPc \notin {"created", "returned"} /\ mainPc \notin {"enter", "clear", "over"}

\* The inductive invariant.
HeartInv ==
  /\ HeartTypeOK
  /\ "start" \in races => StartedLate
  /\ "start" \notin races => HandleFollows
  /\ "start" \notin races /\ mainPc \notin {"enter", "clear"} => ~isRunning
  /\ mainPc = "over" => heartPc = "returned"
  /\ NothingLeftRunning

LEMMA HeartInvInit == HeartInit => HeartInv
<1> SUFFICES ASSUME HeartInit PROVE HeartInv  OBVIOUS
<1>1. isRunning \in BOOLEAN  BY DEF HeartInit
<1>2. /\ launches \in Nat /\ handle \in 0..launches
      /\ alive \subseteq 1..launches /\ listening \in alive \cup {0}
      /\ troubles \in 0..MaxTroubles /\ races \subseteq Races
  BY TroublesAssumption DEF HeartInit
<1>3. heartPc \in HeartLabels /\ mainPc \in MainLabels
  BY DEF HeartInit, HeartLabels, MainLabels
<1>4. HandleFollows /\ NothingLeftRunning
  BY DEF HeartInit, HandleFollows, NothingLeftRunning
<1> QED  BY <1>1, <1>2, <1>3, <1>4 DEF HeartInv, HeartTypeOK, HeartInit

\* One server at most, but for a late start().
LEMMA HeartInvOneServer == HeartInv => OneServer
BY DEF HeartInv, HandleFollows, OneServer

\* The types, in every step.
LEMMA HeartTypesNext ==
  ASSUME HeartTypeOK, HeartNext
  PROVE  HeartTypeOK'
<1> USE DEF HeartTypeOK, Goes, Back, HeartLabels, MainLabels, StopLabels, Races, processVars
<1>1. ASSUME NEW who \in {"heart", "main"}, StopProcess(who) PROVE HeartTypeOK'
  <2>1. CASE CheckHandle(who)  BY <2>1 DEF CheckHandle
  <2>2. CASE Terminate(who)  BY <2>2 DEF Terminate
  <2>3. CASE AwaitEnd(who)  BY <2>3 DEF AwaitEnd
  <2>4. CASE Close(who)  BY <2>4 DEF Close
  <2>5. CASE Forget_handle(who)  BY <2>5 DEF Forget_handle
  <2> QED  BY <1>1, <2>1, <2>2, <2>3, <2>4, <2>5 DEF StopProcess
<1>2. CASE StartHeart \/ TestRunning  BY <1>2 DEF StartHeart, TestRunning
<1>3. CASE ProbeAnswered  BY <1>3 DEF ProbeAnswered
<1>4. CASE ProbeMissed  BY <1>4, TroublesAssumption DEF ProbeMissed
<1>5. CASE LaunchProcess  BY <1>5 DEF LaunchProcess
<1>6. CASE AssignHandle  BY <1>6 DEF AssignHandle
<1>7. CASE PressEnter \/ ClearRunning  BY <1>7 DEF PressEnter, ClearRunning
<1>8. CASE JoinAndDestroy
  <2>1. isRunning' \in BOOLEAN  BY <1>8 DEF JoinAndDestroy
  <2>2. alive' \subseteq 1..launches' /\ listening' \in alive' \cup {0}
        /\ launches' = launches /\ handle' \in 0..launches'
    BY <1>8 DEF JoinAndDestroy
  <2>3. troubles' = troubles /\ races' = races /\ heartPc' = heartPc /\ mainPc' = "over"
    BY <1>8 DEF JoinAndDestroy
  <2> QED  BY <2>1, <2>2, <2>3
<1>9. ASSUME NEW p \in alive, Bind(p) PROVE HeartTypeOK'
  <2>1. UNCHANGED <<handle, launches, isRunning, troubles, heartPc, mainPc, races>>
    BY <1>9 DEF Bind
  <2>2. alive' \subseteq alive /\ listening' \in alive' \cup {0}  BY <1>9 DEF Bind
  <2> QED  BY <2>1, <2>2
<1>10. ASSUME NEW p \in alive, Crash(p) PROVE HeartTypeOK'
  BY <1>10, TroublesAssumption DEF Crash
<1> QED
  BY <1>1, <1>2, <1>3, <1>4, <1>5, <1>6, <1>7, <1>8, <1>9, <1>10
     DEF HeartNext, HeartThread, MainThread, RestartStop, StopServer

\* stopProcess in the heart thread: it comes to its end with no server alive.
LEMMA RestartStopKeeps ==
  ASSUME HeartInv, RestartStop, HeartTypeOK'
  PROVE  HeartInv'
<1> USE DEF HeartInv, HandleFollows, StartedLate, NothingLeftRunning, Goes, Back
<1>1. CASE CheckHandle("heart")  BY <1>1 DEF CheckHandle, processVars, HeartTypeOK
<1>2. CASE Terminate("heart")  BY <1>2 DEF Terminate
<1>3. CASE AwaitEnd("heart")  BY <1>3 DEF AwaitEnd, processVars
<1>4. CASE Close("heart")  BY <1>4 DEF Close
<1>5. CASE Forget_handle("heart")  BY <1>5 DEF Forget_handle
<1> QED  BY <1>1, <1>2, <1>3, <1>4, <1>5 DEF RestartStop, StopProcess

\* The heart thread.
LEMMA HeartThreadKeeps ==
  ASSUME HeartInv, HeartThread, HeartTypeOK'
  PROVE  HeartInv'
<1> USE DEF HeartInv, HandleFollows, StartedLate, NothingLeftRunning, Goes
<1>1. CASE StartHeart  BY <1>1 DEF StartHeart, processVars
<1>2. CASE TestRunning  BY <1>2 DEF TestRunning, processVars
<1>3. CASE ProbeAnswered  BY <1>3 DEF ProbeAnswered, processVars
<1>4. CASE ProbeMissed  BY <1>4 DEF ProbeMissed, processVars
<1>5. CASE LaunchProcess
  <2>1. "start" \notin races => alive' = {launches'}  BY <1>5 DEF LaunchProcess
  <2> QED  BY <1>5, <2>1 DEF LaunchProcess
<1>6. CASE AssignHandle  BY <1>6 DEF AssignHandle
<1> QED
  BY <1>1, <1>2, <1>3, <1>4, <1>5, <1>6, RestartStopKeeps DEF HeartThread

\* stopProcess in the main thread: it closes and clears the handle when no server is
\* alive, or one the heart thread is about to put there, or has put there.
LEMMA StopServerKeeps ==
  ASSUME HeartInv, StopServer, HeartTypeOK'
  PROVE  HeartInv'
<1> USE DEF HeartInv, HandleFollows, StartedLate, NothingLeftRunning, Goes, Back
<1>1. CASE CheckHandle("main")  BY <1>1 DEF CheckHandle, processVars
<1>2. CASE Terminate("main")  BY <1>2 DEF Terminate
<1>3. CASE AwaitEnd("main")  BY <1>3 DEF AwaitEnd, processVars
<1>4. CASE Close("main")  BY <1>4 DEF Close
<1>5. CASE Forget_handle("main")  BY <1>5 DEF Forget_handle
<1> QED  BY <1>1, <1>2, <1>3, <1>4, <1>5 DEF StopServer, StopProcess

\* The main thread.
LEMMA MainThreadKeeps ==
  ASSUME HeartInv, PressEnter \/ MainThread, HeartTypeOK'
  PROVE  HeartInv'
<1> USE DEF HeartInv, HandleFollows, StartedLate, NothingLeftRunning, Goes
<1>1. CASE PressEnter  BY <1>1 DEF PressEnter, processVars
<1>2. CASE ClearRunning  BY <1>2 DEF ClearRunning, processVars
<1>3. CASE JoinAndDestroy
  <2>1. "start" \notin races /\ heartPc = "returned"  BY <1>3 DEF JoinAndDestroy
  <2>2. IF "launch" \in races THEN alive' \subseteq {launches} ELSE alive' = {}
    BY <1>3, <2>1 DEF JoinAndDestroy
  <2> QED  BY <1>3, <2>1, <2>2 DEF JoinAndDestroy
<1> QED  BY <1>1, <1>2, <1>3, StopServerKeeps DEF MainThread

\* The processes themselves: they get the port, or end.
LEMMA ProcessesKeep ==
  ASSUME HeartInv, NEW p \in alive, Bind(p) \/ Crash(p), HeartTypeOK'
  PROVE  HeartInv'
<1>1. /\ alive' \subseteq alive
      /\ UNCHANGED <<handle, launches, isRunning, heartPc, mainPc, races>>
  BY DEF Bind, Crash
<1> QED  BY <1>1 DEF HeartInv, HandleFollows, StartedLate, NothingLeftRunning

LEMMA HeartInvNext == HeartInv /\ [HeartNext]_heartVars => HeartInv'
<1> SUFFICES ASSUME HeartInv, [HeartNext]_heartVars PROVE HeartInv'  OBVIOUS
<1>1. CASE UNCHANGED heartVars
  BY <1>1 DEF heartVars, HeartInv, HeartTypeOK, HandleFollows, StartedLate, NothingLeftRunning
<1>2. CASE HeartNext
  <2>1. HeartTypeOK'  BY <1>2, HeartTypesNext DEF HeartInv
  <2> QED
    BY <1>2, <2>1, HeartThreadKeeps, MainThreadKeeps, ProcessesKeep DEF HeartNext
<1> QED  BY <1>1, <1>2

\* The watchdog by itself: its types; one server at most, however restarts, crashes and
\* the calls of the two stops fall together, unless start() goes on after stop(); and
\* none when it has ended, but for one that a restart has launched behind stop().
THEOREM HeartCorrect == HeartSpec => [](HeartTypeOK /\ OneServer /\ NothingLeftRunning)
<1>1. HeartInv => HeartTypeOK /\ OneServer /\ NothingLeftRunning
  BY HeartInvOneServer DEF HeartInv
<1> QED  BY <1>1, HeartInvInit, HeartInvNext, PTL DEF HeartSpec

-------------------------------------------------------------------------------
(* The watchdog within the service. *)

\* Every step of the service is one of the watchdog, or leaves it alone.
LEMMA StepOfHeart == [Next]_vars => [HeartNext]_heartVars
<1> SUFFICES ASSUME [Next]_vars PROVE [HeartNext]_heartVars  OBVIOUS
<1>1. CASE UNCHANGED vars  BY <1>1 DEF vars
<1>2. CASE Watchdog  BY <1>2 DEF Watchdog
<1>3. CASE Tick  BY <1>3 DEF Tick
<1>4. ASSUME NEW c \in Client,
             SayWrite(c) \/ SayRead(c) \/ ClientThread(c) \/ Refused(c) \/ LoseMessage(c)
      PROVE  UNCHANGED heartVars
  BY <1>4 DEF SayWrite, SayRead, Say, ClientThread, GotGuid, SendGet, GotAnswer, NoAnswer,
     Refused, LoseMessage, ClientFrame
<1>5. ASSUME NEW c \in Client, Accept(c) \/ ServeGet(c)
      PROVE  UNCHANGED heartVars
  BY <1>5 DEF Accept, ServeGet, Respond, ServerFrame
<1>6. ASSUME NEW g \in DOMAIN tasks, RunTask(g)
      PROVE  UNCHANGED heartVars
  BY <1>6 DEF RunTask, RunWrite, RunRead, RunBackward, Publish, ServerFrame
<1> QED  BY <1>1, <1>2, <1>3, <1>4, <1>5, <1>6 DEF Next

\* The watchdog's properties in the service, where its crashes and slow answers
\* fall between those of clients and tasks.
LEMMA HeartInvAlways == Spec => []HeartInv
<1>1. Init => HeartInit  BY DEF Init
<1> QED  BY <1>1, StepOfHeart, HeartInvInit, HeartInvNext, PTL DEF Spec

THEOREM OneServerInService == Spec => []OneServer
BY HeartInvOneServer, HeartInvAlways, PTL

THEOREM NothingLeftRunningInService == Spec => []NothingLeftRunning
<1>1. HeartInv => NothingLeftRunning  BY DEF HeartInv
<1> QED  BY <1>1, HeartInvAlways, PTL

-------------------------------------------------------------------------------
(* Dialogues and exchanges. *)

\* What is on the wire fits where the dialogue and its asking are.
Fits(d, p, g, m) ==
  /\ d = "prompt" => p = "idle" /\ m = Silence
  /\ d = "command" => p = "idle" /\ m.kind \in {"command", "guid"}
  /\ d \in {"waiting", "destructor"} => p # "idle" /\ g # NoGuid
  /\ p = "due" => m = Silence
  /\ p = "sent" => m.kind \in {"get", "answer", "missing"}

DialogInv == \A c \in Client : Fits(dialog[c], poll[c], guid[c], wire[c])

LEMMA MessageFields ==
  ASSUME NEW m \in Messages
  PROVE  /\ m.kind \in {"none", "missing", "command", "guid", "get", "answer"}
         /\ m.kind = "none" => m = Silence
         /\ m.kind = "command" => /\ m.what \in Commands /\ m.time \in Int
                                  /\ m.sees \in Nat /\ m.server \in Nat
         /\ m.kind \in {"guid", "get"} => m.guid \in Id
BY DEF Messages, Silence

LEMMA MessagesThereAre ==
  /\ Silence \in Messages /\ [kind |-> "missing"] \in Messages
  /\ \A what \in Commands, time \in Int, sees, server \in Nat :
       [kind |-> "command", what |-> what, time |-> time, sees |-> sees, server |-> server]
       \in Messages
  /\ \A g \in Id : /\ [kind |-> "guid", guid |-> g] \in Messages
                   /\ Asking(g) \in Messages
  /\ \A r \in Reply : [kind |-> "answer", answer |-> r] \in Messages
BY DEF Messages, Silence, Asking

LEMMA WholeSeconds ==
  ASSUME NEW t \in Nat
  PROVE  /\ t - (t % Second) \in Int
         /\ t <= (t - (t % Second)) + Shift
BY ClockAssumption

\* Where the commands are that no route has accepted yet.
Commanding == {c \in Client : wire[c].kind = "command"}

\* Every command sent is in the record, on the wire or lost.
CountInv == Len(record) + Cardinality(Commanding) <= sent

BaseInv == HeartInv /\ ClientTypeOK /\ ServerTypeOK /\ DialogInv /\ CountInv

LEMMA CommandingIsFinite ==
  /\ IsFiniteSet(Commanding) /\ Cardinality(Commanding) \in Nat
  /\ IsFiniteSet(Commanding') /\ Cardinality(Commanding') \in Nat
<1>1. Commanding \subseteq Client /\ Commanding' \subseteq Client  BY DEF Commanding
<1> QED  BY <1>1, ClientAssumption, FS_Subset, FS_CardinalityType

\* A command that is accepted has a GUID left for it.
LEMMA NextGuidIsAnId ==
  ASSUME BaseInv, NEW c \in Client, wire[c].kind = "command"
  PROVE  Len(record) + 1 \in Id
<1>1. c \in Commanding  BY DEF Commanding
<1>2. Cardinality(Commanding) # 0  BY <1>1, CommandingIsFinite, FS_EmptySet
<1>3. Len(record) \in Nat  BY DEF BaseInv, ServerTypeOK
<1> QED
  BY <1>2, <1>3, CommandingIsFinite, ServiceBounds DEF BaseInv, CountInv, ServerTypeOK, Id

\* The requests of some clients fail.
LEMMA FailExchangesKeepsDialogs ==
  ASSUME BaseInv, NEW cs \in SUBSET Client, FailExchanges(cs), losses' \in 0..MaxLosses,
         \A c \in cs : wire[c] # Silence
  PROVE  ClientTypeOK' /\ DialogInv'
<1> USE DEF BaseInv
<1>1. \A c \in Client :
        /\ wire'[c] = IF c \in cs THEN Silence ELSE wire[c]
        /\ dialog'[c] = IF c \in cs /\ dialog[c] = "command" THEN "prompt" ELSE dialog[c]
        /\ poll'[c] = IF c \in cs /\ poll[c] = "sent" THEN "due" ELSE poll[c]
  BY DEF FailExchanges
<1>2. ClientTypeOK'
  <2>1. wire' \in [Client -> Messages]
    BY MessagesThereAre DEF FailExchanges, ClientTypeOK
  <2>2. dialog' \in [Client -> {"prompt", "command", "waiting", "destructor"}]
    BY DEF FailExchanges, ClientTypeOK
  <2>3. poll' \in [Client -> {"idle", "due", "sent"}]
    BY DEF FailExchanges, ClientTypeOK
  <2> QED  BY <2>1, <2>2, <2>3 DEF FailExchanges, ClientTypeOK
<1>3. ASSUME NEW c \in Client
      PROVE  Fits(dialog'[c], poll'[c], guid'[c], wire'[c])
  <2>1. guid' = guid  BY DEF FailExchanges
  <2>2. CASE c \in cs  BY <2>1, <2>2, <1>1 DEF DialogInv, Fits, ClientTypeOK, Silence
  <2>3. CASE c \notin cs  BY <2>1, <2>3, <1>1 DEF DialogInv
  <2> QED  BY <2>2, <2>3
<1> QED  BY <1>2, <1>3 DEF DialogInv

Dialogs == {"prompt", "command", "waiting", "destructor"}
Polling == {"idle", "due", "sent"}

\* One client, or its connection, moves to a state that fits.
LEMMA OneClientKeepsDialogs ==
  ASSUME BaseInv, NEW c \in Client,
         NEW d \in Dialogs, NEW p \in Polling, NEW g \in Id \cup {NoGuid}, NEW m \in Messages,
         Fits(d, p, g, m),
         dialog' = [dialog EXCEPT ![c] = d], poll' = [poll EXCEPT ![c] = p],
         guid' = [guid EXCEPT ![c] = g], wire' = [wire EXCEPT ![c] = m],
         UNCHANGED <<losses, clock>>
  PROVE  ClientTypeOK' /\ DialogInv'
<1> USE DEF BaseInv
<1>1. ClientTypeOK'
  <2>1. dialog' \in [Client -> Dialogs] /\ poll' \in [Client -> Polling]
    BY DEF ClientTypeOK, Dialogs, Polling
  <2>2. guid' \in [Client -> Id \cup {NoGuid}] /\ wire' \in [Client -> Messages]
    BY DEF ClientTypeOK
  <2> QED  BY <2>1, <2>2 DEF ClientTypeOK, Dialogs, Polling
<1>2. ASSUME NEW x \in Client
      PROVE  Fits(dialog'[x], poll'[x], guid'[x], wire'[x])
  <2>1. CASE x = c
    <3>1. dialog'[x] = d /\ poll'[x] = p /\ guid'[x] = g /\ wire'[x] = m
      BY <2>1 DEF ClientTypeOK
    <3> QED  BY <3>1
  <2>2. CASE x # c
    <3>1. dialog'[x] = dialog[x] /\ poll'[x] = poll[x] /\ guid'[x] = guid[x]
          /\ wire'[x] = wire[x]
      BY <2>2 DEF ClientTypeOK
    <3> QED  BY <3>1 DEF DialogInv
  <2> QED  BY <2>1, <2>2
<1> QED  BY <1>1, <1>2 DEF DialogInv

\* What is known of a client before its step.
LEMMA ClientFacts ==
  ASSUME BaseInv, NEW c \in Client
  PROVE  /\ dialog[c] \in Dialogs /\ poll[c] \in Polling /\ guid[c] \in Id \cup {NoGuid}
         /\ wire[c] \in Messages
         /\ Fits(dialog[c], poll[c], guid[c], wire[c])
         /\ dialog = [dialog EXCEPT ![c] = dialog[c]] /\ poll = [poll EXCEPT ![c] = poll[c]]
         /\ guid = [guid EXCEPT ![c] = guid[c]] /\ wire = [wire EXCEPT ![c] = wire[c]]
BY DEF BaseInv, ClientTypeOK, DialogInv, Dialogs, Polling

\* The message of a command typed now.
LEMMA CommandIsAMessage ==
  ASSUME BaseInv, NEW what \in Commands
  PROVE  [kind |-> "command", what |-> what, time |-> clock - (clock % Second),
          sees |-> Len(changes), server |-> listening] \in Messages
<1>1. clock \in Nat  BY DEF BaseInv, ClientTypeOK
<1>2. Len(changes) \in Nat  BY DEF BaseInv, ServerTypeOK
<1>3. listening \in Nat  BY DEF BaseInv, HeartInv, HeartTypeOK
<1> QED  BY <1>1, <1>2, <1>3, WholeSeconds, MessagesThereAre

\* The steps of the client.
LEMMA ClientKeepsDialogs ==
  ASSUME BaseInv, NEW c \in Client, SayWrite(c) \/ SayRead(c) \/ ClientThread(c)
  PROVE  ClientTypeOK' /\ DialogInv'
<1> USE DEF Wire, Dialog, Polls, ClientFrame, boundVars
<1>0. /\ dialog[c] \in Dialogs /\ poll[c] \in Polling /\ guid[c] \in Id \cup {NoGuid}
      /\ wire[c] \in Messages
      /\ Fits(dialog[c], poll[c], guid[c], wire[c])
  BY ClientFacts
<1>a. /\ dialog = [dialog EXCEPT ![c] = dialog[c]] /\ poll = [poll EXCEPT ![c] = poll[c]]
      /\ guid = [guid EXCEPT ![c] = guid[c]] /\ wire = [wire EXCEPT ![c] = wire[c]]
  BY ClientFacts
<1>b. {"prompt", "command", "waiting", "destructor"} \subseteq Dialogs
      /\ {"idle", "due", "sent"} \subseteq Polling
  BY DEF Dialogs, Polling
<1>1. ASSUME NEW what \in Commands, Say(c, what)
      PROVE  ClientTypeOK' /\ DialogInv'
  <2> DEFINE m == [kind |-> "command", what |-> what, time |-> clock - (clock % Second),
                   sees |-> Len(changes), server |-> listening]
  <2>1. m \in Messages /\ m.kind = "command"  BY CommandIsAMessage
  <2>2. Fits("command", poll[c], guid[c], m)  BY <1>0, <1>1, <2>1 DEF Say, Fits
  <2> HIDE DEF m
  <2>3. dialog' = [dialog EXCEPT ![c] = "command"] /\ poll' = [poll EXCEPT ![c] = poll[c]]
        /\ guid' = [guid EXCEPT ![c] = guid[c]] /\ wire' = [wire EXCEPT ![c] = m]
        /\ UNCHANGED <<losses, clock>>
    BY <1>a, <1>1 DEF Say, m
  <2> QED  BY <2>1, <2>2, <2>3, <1>0, <1>b, OneClientKeepsDialogs
<1>2. CASE GotGuid(c)
  <2>1. wire[c].guid \in Id /\ wire[c].guid # NoGuid
    BY <1>0, <1>2, MessageFields DEF GotGuid, Id, NoGuid
  <2>2. PICK to \in {"waiting", "destructor"} : Dialog(c, "command", to)
    BY <1>2 DEF GotGuid
  <2>3. Fits(to, "due", wire[c].guid, Silence)  BY <2>1 DEF Fits
  <2>4. dialog' = [dialog EXCEPT ![c] = to] /\ poll' = [poll EXCEPT ![c] = "due"]
        /\ guid' = [guid EXCEPT ![c] = wire[c].guid] /\ wire' = [wire EXCEPT ![c] = Silence]
        /\ UNCHANGED <<losses, clock>>
    BY <1>a, <1>2, <2>2 DEF GotGuid
  <2> QED  BY <2>1, <2>3, <2>4, <1>0, <1>b, OneClientKeepsDialogs, MessagesThereAre
<1>3. CASE SendGet(c)
  <2>1. dialog[c] \in {"waiting", "destructor"} /\ guid[c] \in Id
    BY <1>0, <1>3 DEF SendGet, Fits, Dialogs
  <2>2. Asking(guid[c]) \in Messages /\ Asking(guid[c]).kind = "get"
    BY <2>1, MessagesThereAre DEF Asking
  <2>3. Fits(dialog[c], "sent", guid[c], Asking(guid[c]))
    BY <1>0, <2>1, <2>2 DEF Fits
  <2>4. dialog' = [dialog EXCEPT ![c] = dialog[c]] /\ poll' = [poll EXCEPT ![c] = "sent"]
        /\ guid' = [guid EXCEPT ![c] = guid[c]] /\ wire' = [wire EXCEPT ![c] = Asking(guid[c])]
        /\ UNCHANGED <<losses, clock>>
    BY <1>a, <1>3 DEF SendGet
  <2> QED  BY <2>2, <2>3, <2>4, <1>0, <1>b, OneClientKeepsDialogs
<1>4. CASE GotAnswer(c)
  <2>1. Fits("prompt", "idle", guid[c], Silence)  BY DEF Fits
  <2>2. dialog' = [dialog EXCEPT ![c] = "prompt"] /\ poll' = [poll EXCEPT ![c] = "idle"]
        /\ guid' = [guid EXCEPT ![c] = guid[c]] /\ wire' = [wire EXCEPT ![c] = Silence]
        /\ UNCHANGED <<losses, clock>>
    BY <1>a, <1>4 DEF GotAnswer
  <2> QED  BY <2>1, <2>2, <1>0, <1>b, OneClientKeepsDialogs, MessagesThereAre
<1>5. CASE NoAnswer(c)
  <2>1. Fits(dialog[c], "due", guid[c], Silence)  BY <1>0, <1>5 DEF NoAnswer, Fits, Silence
  <2>2. dialog' = [dialog EXCEPT ![c] = dialog[c]] /\ poll' = [poll EXCEPT ![c] = "due"]
        /\ guid' = [guid EXCEPT ![c] = guid[c]] /\ wire' = [wire EXCEPT ![c] = Silence]
        /\ UNCHANGED <<losses, clock>>
    BY <1>a, <1>5 DEF NoAnswer
  <2> QED  BY <2>1, <2>2, <1>0, <1>b, OneClientKeepsDialogs, MessagesThereAre
<1> QED
  BY <1>1, <1>2, <1>3, <1>4, <1>5 DEF SayWrite, SayRead, ClientThread, Reads, Commands

\* The routes: a message takes the place of another.
LEMMA RoutesKeepDialogs ==
  ASSUME BaseInv, NEW c \in Client, Accept(c) \/ ServeGet(c)
  PROVE  ClientTypeOK' /\ DialogInv'
<1> USE DEF Wire, ServerFrame, boundVars
<1>0. /\ dialog[c] \in Dialogs /\ poll[c] \in Polling /\ guid[c] \in Id \cup {NoGuid}
      /\ wire[c] \in Messages
      /\ Fits(dialog[c], poll[c], guid[c], wire[c])
  BY ClientFacts
<1>a. /\ dialog = [dialog EXCEPT ![c] = dialog[c]] /\ poll = [poll EXCEPT ![c] = poll[c]]
      /\ guid = [guid EXCEPT ![c] = guid[c]]
  BY ClientFacts
<1>1. ASSUME NEW m \in Messages, wire' = [wire EXCEPT ![c] = m],
             UNCHANGED <<dialog, poll, guid, losses, clock>>,
             Fits(dialog[c], poll[c], guid[c], m)
      PROVE  ClientTypeOK' /\ DialogInv'
  <2>1. dialog' = [dialog EXCEPT ![c] = dialog[c]] /\ poll' = [poll EXCEPT ![c] = poll[c]]
        /\ guid' = [guid EXCEPT ![c] = guid[c]]
    BY <1>a, <1>1
  <2> QED  BY <1>0, <1>1, <2>1, OneClientKeepsDialogs
<1>2. CASE Accept(c)
  <2> DEFINE m == [kind |-> "guid", guid |-> Len(record) + 1]
  <2>1. wire[c].kind = "command"  BY <1>2 DEF Accept
  <2>2. m \in Messages /\ m.kind = "guid"  BY <2>1, NextGuidIsAnId, MessagesThereAre
  <2>3. wire' = [wire EXCEPT ![c] = m] /\ UNCHANGED <<dialog, poll, guid, losses, clock>>
    BY <1>2 DEF Accept
  <2> HIDE DEF m
  <2>4. Fits(dialog[c], poll[c], guid[c], m)
    BY <1>0, <2>1, <2>2 DEF Fits, Dialogs, Polling, Silence
  <2> QED  BY <1>1, <2>2, <2>3, <2>4
<1>3. CASE ServeGet(c)
  <2>1. wire[c].kind = "get"  BY <1>3 DEF ServeGet
  <2>2. PICK m \in Messages : m.kind \in {"answer", "missing"} /\ wire' = [wire EXCEPT ![c] = m]
    <3>1. CASE wire[c].guid \in DOMAIN results
      <4>1. results[wire[c].guid] \in Reply  BY <3>1 DEF BaseInv, ServerTypeOK
      <4>2. [kind |-> "answer", answer |-> results[wire[c].guid]] \in Messages
        BY <4>1, MessagesThereAre
      <4> QED  BY <1>3, <3>1, <4>2 DEF ServeGet, Respond
    <3>2. CASE wire[c].guid \notin DOMAIN results
      BY <1>3, <3>2, MessagesThereAre DEF ServeGet, Respond
    <3> QED  BY <3>1, <3>2
  <2>3. UNCHANGED <<dialog, poll, guid, losses, clock>>  BY <1>3 DEF ServeGet, Respond
  <2>4. Fits(dialog[c], poll[c], guid[c], m)
    BY <1>0, <2>1, <2>2 DEF Fits, Dialogs, Polling, Silence
  <2> QED  BY <1>1, <2>2, <2>3, <2>4
<1> QED  BY <1>2, <1>3

\* The clock, the tasks and the processes leave the clients alone, but for those
\* whose requests a death leaves without an answer.
LEMMA OthersKeepDialogs ==
  ASSUME BaseInv,
         \/ \E c \in Client : Refused(c) \/ LoseMessage(c)
         \/ \E g \in DOMAIN tasks : RunTask(g)
         \/ Watchdog \/ Tick \/ UNCHANGED vars
  PROVE  ClientTypeOK' /\ DialogInv'
<1>0. losses \in 0..MaxLosses  BY DEF BaseInv, ClientTypeOK
<1>1. ASSUME NEW c \in Client, Refused(c)
      PROVE  ClientTypeOK' /\ DialogInv'
  <2>1. FailExchanges({c}) /\ losses' = losses /\ wire[c] # Silence
    BY <1>1 DEF Refused, Requests, Silence
  <2> QED  BY <1>0, <2>1, FailExchangesKeepsDialogs
<1>2. ASSUME NEW c \in Client, LoseMessage(c)
      PROVE  ClientTypeOK' /\ DialogInv'
  <2>1. FailExchanges({c}) /\ losses' = losses + 1 /\ losses < MaxLosses /\ wire[c] # Silence
    BY <1>2 DEF LoseMessage
  <2>2. losses' \in 0..MaxLosses  BY <1>0, <2>1, ServiceBounds
  <2> QED  BY <2>1, <2>2, FailExchangesKeepsDialogs
<1>3. ASSUME UNCHANGED clientVars, UNCHANGED losses, clock' \in 0..MaxClock
      PROVE  ClientTypeOK' /\ DialogInv'
  BY <1>3 DEF BaseInv, ClientTypeOK, DialogInv, Fits, clientVars
<1>4. clock \in 0..MaxClock  BY DEF BaseInv, ClientTypeOK
<1>5. ASSUME NEW g \in DOMAIN tasks, RunTask(g)
      PROVE  ClientTypeOK' /\ DialogInv'
  BY <1>3, <1>4, <1>5
     DEF RunTask, RunWrite, RunRead, RunBackward, Publish, ServerFrame, clientVars, boundVars
<1>6. CASE Watchdog
  <2>1. CASE Forget
    <3>1. FailExchanges({c \in Client : wire[c].kind \in Requests}) /\ losses' = losses
      BY <2>1 DEF Forget
    <3>2. \A c \in {c \in Client : wire[c].kind \in Requests} : wire[c] # Silence
      BY DEF Requests, Silence
    <3> QED  BY <1>0, <3>1, <3>2, FailExchangesKeepsDialogs
  <2>2. CASE UNCHANGED <<clientVars, serverVars, clock, ghostVars, boundVars>>
    BY <1>3, <1>4, <2>2 DEF boundVars
  <2> QED  BY <1>6, <2>1, <2>2 DEF Watchdog
<1>7. CASE Tick
  <2>1. clock' \in 0..MaxClock  BY <1>4, <1>7, ServiceBounds DEF Tick
  <2> QED  BY <1>3, <1>7, <2>1 DEF Tick, boundVars
<1>8. CASE UNCHANGED vars  BY <1>3, <1>4, <1>8 DEF vars, boundVars
<1> QED  BY <1>1, <1>2, <1>5, <1>6, <1>7, <1>8

LEMMA DialogsKept == BaseInv /\ [Next]_vars => ClientTypeOK' /\ DialogInv'
BY ClientKeepsDialogs, RoutesKeepDialogs, OthersKeepDialogs DEF Next

-------------------------------------------------------------------------------
(* The record, the tasks and the results. *)

Entry == [client : Client, what : Commands, reply : Reply \cup {NoReply}, sees : Nat]

LEMMA EntryFields ==
  ASSUME BaseInv, NEW g \in DOMAIN record
  PROVE  /\ record[g].client \in Client /\ record[g].what \in Commands
         /\ record[g].reply \in Reply \cup {NoReply} /\ record[g].sees \in Nat
<1>1. record \in Seq(Entry)  BY DEF BaseInv, ServerTypeOK, Entry
<1>2. record[g] \in Entry  BY <1>1
<1> QED  BY <1>2 DEF Entry

\* Steps that send and accept no command keep the count.
LEMMA CountKeptByOthers ==
  ASSUME BaseInv, sent' = sent, Len(record') = Len(record),
         \A c \in Client : wire'[c].kind = "command" => wire[c].kind = "command"
  PROVE  CountInv'
<1>1. Commanding' \subseteq Commanding  BY DEF Commanding
<1>2. Cardinality(Commanding') <= Cardinality(Commanding)
  BY <1>1, CommandingIsFinite, FS_Subset
<1>3. Len(record) \in Nat /\ sent \in Nat  BY DEF BaseInv, ServerTypeOK
<1> QED  BY <1>2, <1>3, CommandingIsFinite DEF BaseInv, CountInv

LEMMA SayKeepsServer ==
  ASSUME BaseInv, NEW c \in Client, SayWrite(c) \/ SayRead(c)
  PROVE  ServerTypeOK' /\ CountInv'
<1>1. /\ sent < MaxCommands /\ sent' = sent + 1 /\ UNCHANGED <<serverVars, ghostVars>>
      /\ dialog[c] = "prompt"
  BY DEF SayWrite, SayRead, Say, Dialog
<1>2. \A x \in Client : x # c => wire'[x] = wire[x]
  BY DEF SayWrite, SayRead, Say, Wire, BaseInv, ClientTypeOK
<1>3. sent \in Nat /\ Len(record) \in Nat  BY DEF BaseInv, ServerTypeOK
<1>4. ServerTypeOK'
  BY <1>1, <1>3, ServiceBounds DEF BaseInv, ServerTypeOK, serverVars, ghostVars
<1>5. Commanding' \subseteq Commanding \cup {c}  BY <1>2 DEF Commanding
<1>6. Cardinality(Commanding') <= Cardinality(Commanding) + 1
  <2>1. IsFiniteSet(Commanding \cup {c})
        /\ Cardinality(Commanding \cup {c}) <= Cardinality(Commanding) + 1
    <3>1. /\ IsFiniteSet(Commanding \cup {c})
          /\ Cardinality(Commanding \cup {c}) =
               IF c \in Commanding THEN Cardinality(Commanding) ELSE Cardinality(Commanding) + 1
      BY CommandingIsFinite, FS_AddElement
    <3> QED  BY <3>1, CommandingIsFinite
  <2>2. Cardinality(Commanding') <= Cardinality(Commanding \cup {c})
    BY <1>5, <2>1, FS_Subset
  <2> QED  BY <2>1, <2>2, CommandingIsFinite, FS_CardinalityType
<1>7. record' = record  BY <1>1 DEF ghostVars
<1> QED  BY <1>1, <1>3, <1>4, <1>6, <1>7, CommandingIsFinite DEF BaseInv, CountInv

LEMMA AcceptKeepsServer ==
  ASSUME BaseInv, NEW c \in Client, Accept(c)
  PROVE  ServerTypeOK' /\ CountInv'
<1> DEFINE g == Len(record) + 1
           e == [client |-> c, what |-> wire[c].what, reply |-> NoReply,
                 sees |-> IF wire[c].server = listening THEN wire[c].sees ELSE 0]
<1> USE DEF BaseInv
<1>1. record \in Seq(Entry) /\ Len(record) \in Nat  BY DEF ServerTypeOK, Entry
<1>2. wire[c] \in Messages /\ wire[c].kind = "command"  BY DEF Accept, ClientTypeOK
<1>3. e \in Entry  BY <1>2, MessageFields DEF Entry
<1>4. record' = Append(record, e)  BY DEF Accept
<1> HIDE DEF e
<1>5. /\ record' \in Seq(Entry) /\ Len(record') = g /\ DOMAIN record' = DOMAIN record \cup {g}
      /\ record'[g] = e
      /\ \A i \in DOMAIN record : record'[i] = record[i]
  BY <1>1, <1>3, <1>4
<1>6. g \notin DOMAIN record /\ DOMAIN record = 1..Len(record)  BY <1>1
<1>7. DOMAIN tasks' = DOMAIN tasks \cup {g} /\ results' = results
      /\ UNCHANGED <<changes, times, sent>>
  BY DEF Accept, Put, ServerFrame, boundVars
<1>8. CountInv'
  <2>1. \A x \in Client : x # c => wire'[x] = wire[x]
    BY DEF Accept, Wire, ClientTypeOK
  <2>2. wire'[c].kind = "guid"  BY DEF Accept, Wire, ClientTypeOK
  <2>3. Commanding' = Commanding \ {c} /\ c \in Commanding
    BY <1>2, <2>1, <2>2 DEF Commanding
  <2>4. Cardinality(Commanding') = Cardinality(Commanding) - 1
    BY <2>3, CommandingIsFinite, FS_RemoveElement
  <2>5. sent' = sent /\ sent \in Nat  BY <1>7 DEF ServerTypeOK
  <2> QED  BY <1>1, <1>5, <2>4, <2>5, CommandingIsFinite DEF CountInv
<1>9. Len(record') <= sent'
  BY <1>5, <1>1, <1>7, <1>8, CommandingIsFinite DEF CountInv, ServerTypeOK
<1>10. DOMAIN tasks' \subseteq DOMAIN record' /\ DOMAIN results' \subseteq DOMAIN record'
       /\ DOMAIN tasks' \cap DOMAIN results' = {}
  BY <1>5, <1>6, <1>7 DEF ServerTypeOK
<1>11. \A i \in DOMAIN results' : results'[i] \in Reply /\ results'[i] = record'[i].reply
  BY <1>5, <1>7 DEF ServerTypeOK
<1> QED  BY <1>5, <1>7, <1>8, <1>9, <1>10, <1>11 DEF ServerTypeOK, Entry

\* A task ends: its answer is in the map, and it is no task any more.
LEMMA PublishKeepsServer ==
  ASSUME BaseInv, NEW g \in DOMAIN tasks, NEW answer \in Reply, Publish(g, answer),
         changes' \in Seq(Nat)
  PROVE  ServerTypeOK' /\ CountInv'
<1> USE DEF BaseInv
<1>1. record \in Seq(Entry) /\ g \in DOMAIN record  BY DEF ServerTypeOK, Entry
<1>2. /\ record' \in Seq(Entry) /\ Len(record') = Len(record) /\ DOMAIN record' = DOMAIN record
      /\ record'[g].reply = answer
      /\ \A i \in DOMAIN record : i # g => record'[i] = record[i]
  <2> DEFINE e == [record[g] EXCEPT !.reply = answer]
  <2>1. record' = [record EXCEPT ![g] = e]  BY DEF Publish
  <2>2. record[g] \in Entry  BY <1>1
  <2>3. e \in Entry /\ e.reply = answer  BY <2>2 DEF Entry
  <2> HIDE DEF e
  <2> QED  BY <1>1, <2>1, <2>3
<1>3. /\ DOMAIN tasks' = DOMAIN tasks \ {g}
      /\ DOMAIN results' = DOMAIN results \cup {g} /\ results'[g] = answer
      /\ \A i \in DOMAIN results : i # g => results'[i] = results[i]
      /\ UNCHANGED <<times, sent, wire>>
  BY DEF Publish, Put, Restrict, ServerFrame, boundVars
<1>4. CountInv'  BY <1>2, <1>3, CountKeptByOthers
<1>5. \A i \in DOMAIN results' : results'[i] \in Reply /\ results'[i] = record'[i].reply
  BY <1>2, <1>3 DEF ServerTypeOK
<1> QED  BY <1>1, <1>2, <1>3, <1>4, <1>5 DEF ServerTypeOK, Entry

\* What SeenAt counts is finite.
LEMMA SeenAtIsNat == \A t : ServerTypeOK => SeenAt(t) \in Nat
<1> SUFFICES ASSUME NEW t, ServerTypeOK PROVE SeenAt(t) \in Nat  OBVIOUS
<1>1. DOMAIN changes = 1..Len(changes) /\ Len(changes) \in Nat  BY DEF ServerTypeOK
<1>2. IsFiniteSet(DOMAIN changes)  BY <1>1, FS_Interval
<1>3. {n \in DOMAIN changes : changes[n] <= t} \subseteq DOMAIN changes  OBVIOUS
<1> QED  BY <1>2, <1>3, FS_Subset, FS_CardinalityType DEF SeenAt

LEMMA TasksKeepServer ==
  ASSUME BaseInv, NEW g \in DOMAIN tasks, RunTask(g)
  PROVE  ServerTypeOK' /\ CountInv'
<1> USE DEF BaseInv
<1>1. CASE RunWrite(g)
  <2>1. changes' \in Seq(Nat)  BY <1>1 DEF RunWrite, ServerTypeOK, ClientTypeOK
  <2> QED  BY <1>1, <2>1, PublishKeepsServer DEF RunWrite, Reply
<1>2. CASE RunRead(g)
  <2>1. SeenAt(tasks[g].time) \in Reply  BY SeenAtIsNat DEF Reply
  <2>2. changes' \in Seq(Nat)  BY <1>2 DEF RunRead, ServerTypeOK
  <2> QED  BY <1>2, <2>1, <2>2, PublishKeepsServer DEF RunRead
<1>3. CASE RunBackward(g)
  <2>1. DOMAIN tasks' = DOMAIN tasks \ {g}
        /\ UNCHANGED <<wire, results, changes, record, times, sent>>
    BY <1>3 DEF RunBackward, Restrict, ServerFrame, ghostVars, boundVars
  <2>2. CountInv'  BY <2>1, CountKeptByOthers
  <2> QED  BY <2>1, <2>2 DEF ServerTypeOK
<1> QED  BY <1>1, <1>2, <1>3 DEF RunTask

LEMMA ServeGetKeepsServer ==
  ASSUME BaseInv, NEW c \in Client, ServeGet(c)
  PROVE  ServerTypeOK' /\ CountInv'
<1> USE DEF BaseInv
<1>1. /\ UNCHANGED <<tasks, changes, record, sent>>
      /\ \A x \in Client : wire'[x].kind = "command" => wire[x].kind = "command"
  <2>1. /\ UNCHANGED <<tasks, changes, record, sent>>
        /\ \A x \in Client : x # c => wire'[x] = wire[x]
    BY DEF ServeGet, Respond, Wire, ServerFrame, boundVars, ClientTypeOK
  <2>2. wire'[c].kind \in {"answer", "missing"}
    BY DEF ServeGet, Respond, Wire, ClientTypeOK
  <2> QED  BY <2>1, <2>2
<1>2. DOMAIN results' \subseteq DOMAIN results
      /\ \A i \in DOMAIN results' : results'[i] = results[i]
  BY DEF ServeGet, Restrict
<1>3. times' \in [Id -> Nat]
  <2>1. CASE wire[c].guid \in DOMAIN results
    <3>1. times' = [g \in Id |-> times[g] + IF g \in {wire[c].guid} THEN 1 ELSE 0]
      BY <2>1 DEF ServeGet, Respond
    <3> QED  BY <3>1 DEF ServerTypeOK
  <2>2. CASE wire[c].guid \notin DOMAIN results
    <3>1. times' = [g \in Id |-> times[g] + IF g \in {} THEN 1 ELSE 0]
      BY <2>2 DEF ServeGet, Respond
    <3> QED  BY <3>1 DEF ServerTypeOK
  <2> QED  BY <2>1, <2>2
<1>4. CountInv'  BY <1>1, CountKeptByOthers
<1> QED  BY <1>1, <1>2, <1>3, <1>4 DEF ServerTypeOK

LEMMA OthersKeepServer ==
  ASSUME BaseInv,
         \/ \E c \in Client : ClientThread(c) \/ Refused(c) \/ LoseMessage(c)
         \/ Watchdog \/ Tick \/ UNCHANGED vars
  PROVE  ServerTypeOK' /\ CountInv'
<1> USE DEF BaseInv
<1>1. ASSUME UNCHANGED <<serverVars, ghostVars, sent>>,
             \A x \in Client : wire'[x].kind = "command" => wire[x].kind = "command"
      PROVE  ServerTypeOK' /\ CountInv'
  <2>1. CountInv'  BY <1>1, CountKeptByOthers DEF ghostVars
  <2> QED  BY <1>1, <2>1 DEF ServerTypeOK, serverVars, ghostVars
<1>2. ASSUME NEW c \in Client, ClientThread(c)
      PROVE  ServerTypeOK' /\ CountInv'
  <2>1. UNCHANGED <<serverVars, ghostVars, sent>>
    BY <1>2 DEF ClientThread, GotGuid, SendGet, GotAnswer, NoAnswer, ClientFrame, boundVars
  <2>2. \A x \in Client : x # c => wire'[x] = wire[x]
    BY <1>2 DEF ClientThread, GotGuid, SendGet, GotAnswer, NoAnswer, Wire, ClientTypeOK
  <2>3. wire'[c] = Silence \/ wire'[c] = Asking(guid[c])
    BY <1>2 DEF ClientThread, GotGuid, SendGet, GotAnswer, NoAnswer, Wire, ClientTypeOK
  <2>4. wire'[c].kind # "command"  BY <2>3 DEF Silence, Asking
  <2> QED  BY <1>1, <2>1, <2>2, <2>4
<1>3. ASSUME NEW cs, FailExchanges(cs)
      PROVE  \A x \in Client : wire'[x].kind = "command" => wire[x].kind = "command"
  BY <1>3 DEF FailExchanges, Silence
<1>4. ASSUME NEW c \in Client, Refused(c) \/ LoseMessage(c)
      PROVE  ServerTypeOK' /\ CountInv'
  BY <1>1, <1>3, <1>4 DEF Refused, LoseMessage, FailExchanges
<1>5. CASE Forget
  <2>1. CountInv'  BY <1>3, <1>5, CountKeptByOthers DEF Forget, FailExchanges, ghostVars
  <2>2. UNCHANGED <<record, times, sent>> /\ tasks' = [g \in {} |-> Silence]
        /\ results' = [g \in {} |-> NoReply] /\ changes' = <<>>
    BY <1>5 DEF Forget, FailExchanges, ghostVars
  <2> QED  BY <2>1, <2>2 DEF ServerTypeOK
<1>6. CASE UNCHANGED <<clientVars, serverVars, clock, ghostVars, boundVars>>
  BY <1>1, <1>6 DEF clientVars, boundVars
<1>7. CASE Watchdog  BY <1>5, <1>6, <1>7 DEF Watchdog
<1>8. CASE Tick  BY <1>1, <1>8 DEF Tick, clientVars, boundVars
<1>9. CASE UNCHANGED vars  BY <1>6, <1>9 DEF vars
<1> QED  BY <1>2, <1>4, <1>7, <1>8, <1>9

LEMMA BaseInvInit == Init => BaseInv
<1> SUFFICES ASSUME Init PROVE BaseInv  OBVIOUS
<1>1. HeartInv  BY HeartInvInit DEF Init
<1>2. ClientTypeOK  BY MessagesThereAre, ServiceBounds DEF Init, ClientTypeOK
<1>3. DialogInv  BY DEF Init, DialogInv, Fits
<1>4. ServerTypeOK  BY ServiceBounds DEF Init, ServerTypeOK
<1>5. CountInv
  <2>1. Commanding = {}  BY DEF Init, Commanding, Silence
  <2> QED  BY <2>1, FS_EmptySet DEF Init, CountInv
<1> QED  BY <1>1, <1>2, <1>3, <1>4, <1>5 DEF BaseInv

LEMMA BaseInvNext == BaseInv /\ [Next]_vars => BaseInv'
<1> SUFFICES ASSUME BaseInv, [Next]_vars PROVE BaseInv'  OBVIOUS
<1>1. HeartInv'  BY StepOfHeart, HeartInvNext DEF BaseInv
<1>2. ServerTypeOK' /\ CountInv'
  BY SayKeepsServer, AcceptKeepsServer, TasksKeepServer, ServeGetKeepsServer, OthersKeepServer
     DEF Next
<1> QED  BY <1>1, <1>2, DialogsKept DEF BaseInv

\* The types, and with them that no more requests are accepted than commands were sent.
THEOREM ServiceTypeCorrect == Spec => []TypeOK
<1>1. BaseInv => TypeOK  BY DEF BaseInv, HeartInv, TypeOK
<1> QED  BY <1>1, BaseInvInit, BaseInvNext, PTL DEF Spec

\* A new request goes on a wire that was silent.
LEMMA RequestsFollowSilence ==
  ASSUME BaseInv, [Next]_vars, NEW x \in Client, wire'[x] # wire[x], wire'[x].kind \in Requests
  PROVE  wire[x] = Silence
<1> USE DEF BaseInv, Wire, Requests
<1>1. Silence.kind \notin Requests  BY DEF Silence
<1>2. ASSUME NEW c \in Client, SayWrite(c) \/ SayRead(c)  PROVE wire[x] = Silence
  <2>1. dialog[c] = "prompt" /\ x = c
    BY <1>2 DEF SayWrite, SayRead, Say, Dialog, ClientTypeOK
  <2> QED  BY <2>1 DEF DialogInv, Fits
<1>3. ASSUME NEW c \in Client, SendGet(c)  PROVE wire[x] = Silence
  <2>1. poll[c] = "due" /\ x = c  BY <1>3 DEF SendGet, Polls, ClientTypeOK
  <2> QED  BY <2>1 DEF DialogInv, Fits
<1>4. ASSUME NEW c \in Client, GotGuid(c) \/ GotAnswer(c) \/ NoAnswer(c)  PROVE FALSE
  BY <1>1, <1>4 DEF GotGuid, GotAnswer, NoAnswer, ClientTypeOK
<1>5. ASSUME NEW c \in Client, Refused(c) \/ LoseMessage(c)  PROVE FALSE
  BY <1>1, <1>5 DEF Refused, LoseMessage, FailExchanges
<1>6. ASSUME NEW c \in Client, Accept(c)  PROVE FALSE
  BY <1>6 DEF Accept, ClientTypeOK
<1>7. ASSUME NEW c \in Client, ServeGet(c)  PROVE FALSE
  BY <1>7 DEF ServeGet, Respond, ClientTypeOK
<1>8. ASSUME NEW g \in DOMAIN tasks, RunTask(g)  PROVE FALSE
  BY <1>8 DEF RunTask, RunWrite, RunRead, RunBackward, Publish
<1>9. ~Watchdog /\ ~Tick /\ ~UNCHANGED vars
  BY <1>1 DEF Watchdog, Forget, FailExchanges, Tick, vars, clientVars
<1> QED  BY <1>2, <1>3, <1>4, <1>5, <1>6, <1>7, <1>8, <1>9 DEF Next, ClientThread

\* No request while another exchange of the same client is under way, by the way the
\* dialogue and the future take turns.
THEOREM ExchangesOneByOne == Spec => OneExchange
<1>1. BaseInv /\ [Next]_vars =>
        [\A c \in Client :
           wire'[c] # wire[c] /\ wire'[c].kind \in Requests => wire[c] = Silence]_vars
  BY RequestsFollowSilence
<1> QED  BY <1>1, BaseInvInit, BaseInvNext, PTL DEF Spec, OneExchange

-------------------------------------------------------------------------------
(* Answers and those who ask for them. *)

Unfinished == DOMAIN tasks \cup DOMAIN results

\* A client asks for a GUID that was given out, the last it got, and one whose
\* answer is on its way is in the map no more.
GuidInv ==
  \A c \in Client :
    /\ guid[c] <= Len(record)
    /\ wire[c].kind = "guid" => wire[c].guid <= Len(record)
    /\ wire[c].kind = "get" => wire[c].guid = guid[c]
    /\ wire[c].kind = "answer" => guid[c] \notin Unfinished

\* Not only answers, but the tasks that will bring them have a reader.
ReaderInv == losses = 0 => \A g \in Unfinished : HasReader(g)

ReadersInv == BaseInv /\ GuidInv /\ ReaderInv

\* Where the requests there are and their clients stay, it is enough that the
\* readers do.
LEMMA ReadersKept ==
  ASSUME ReadersInv, Unfinished' \subseteq Unfinished, losses' = 0 => losses = 0,
         \A g \in DOMAIN record : record'[g].client = record[g].client,
         \A g \in Unfinished', x \in Client :
           losses' = 0 =>
           /\ poll[x] # "idle" /\ guid[x] = g => poll'[x] # "idle" /\ guid'[x] = g
           /\ wire[x].kind = "guid" /\ wire[x].guid = g =>
                \/ poll'[x] # "idle" /\ guid'[x] = g
                \/ wire'[x].kind = "guid" /\ wire'[x].guid = g
  PROVE  ReaderInv'
<1> SUFFICES ASSUME losses' = 0, NEW g \in Unfinished'  PROVE HasReader(g)'
  BY DEF ReaderInv
<1>1. g \in DOMAIN record
  BY DEF ReadersInv, BaseInv, ServerTypeOK, Unfinished
<1>2. HasReader(g)
  BY DEF ReadersInv, ReaderInv
<1>3. record[g].client \in Client
  BY <1>1, EntryFields DEF ReadersInv
<1> QED  BY <1>1, <1>2, <1>3 DEF HasReader

LEMMA ClientKeepsReaders ==
  ASSUME ReadersInv, NEW c \in Client, SayWrite(c) \/ SayRead(c) \/ ClientThread(c)
  PROVE  GuidInv' /\ ReaderInv'
<1> USE DEF ReadersInv, BaseInv, Wire, Dialog, Polls
<1>1. UNCHANGED <<serverVars, ghostVars, losses>>
  BY DEF SayWrite, SayRead, Say, ClientThread, GotGuid, SendGet, GotAnswer, NoAnswer,
     ClientFrame, boundVars
<1>2. Unfinished' = Unfinished /\ record' = record /\ losses' = losses
  BY <1>1 DEF Unfinished, serverVars, ghostVars
<1>3. \A x \in Client : x # c => poll'[x] = poll[x] /\ guid'[x] = guid[x] /\ wire'[x] = wire[x]
  <2>1. CASE SayWrite(c) \/ SayRead(c)
    BY <2>1 DEF SayWrite, SayRead, Say, ClientTypeOK
  <2>2. CASE ClientThread(c)
    BY <2>2 DEF ClientThread, GotGuid, SendGet, GotAnswer, NoAnswer, ClientTypeOK
  <2> QED  BY <2>1, <2>2
<1>4. ASSUME /\ guid'[c] <= Len(record)
             /\ wire'[c].kind \notin {"guid", "answer"}
             /\ wire'[c].kind = "get" => wire'[c].guid = guid'[c],
             \A g \in Unfinished :
               /\ poll[c] # "idle" /\ guid[c] = g => poll'[c] # "idle" /\ guid'[c] = g
               /\ wire[c].kind = "guid" /\ wire[c].guid = g => poll'[c] # "idle" /\ guid'[c] = g
      PROVE  GuidInv' /\ ReaderInv'
  <2>1. GuidInv'  BY <1>2, <1>3, <1>4 DEF GuidInv
  <2>2. ReaderInv'  BY <1>2, <1>3, <1>4, ReadersKept
  <2> QED  BY <2>1, <2>2
<1>5. guid[c] <= Len(record) /\ Fits(dialog[c], poll[c], guid[c], wire[c])
  BY DEF GuidInv, DialogInv
<1>6. CASE SayWrite(c) \/ SayRead(c)
  <2>1. guid'[c] = guid[c] /\ wire'[c].kind = "command" /\ dialog[c] = "prompt"
    BY <1>6 DEF SayWrite, SayRead, Say, ClientTypeOK
  <2> QED  BY <1>4, <1>5, <2>1 DEF Fits, Silence
<1>7. CASE GotGuid(c)
  <2>1. /\ wire[c].kind = "guid" /\ guid'[c] = wire[c].guid /\ wire'[c] = Silence
        /\ poll[c] = "idle" /\ poll'[c] = "due"
    BY <1>7 DEF GotGuid, ClientTypeOK
  <2>2. wire[c].guid <= Len(record)  BY <2>1 DEF GuidInv
  <2> QED  BY <1>4, <2>1, <2>2 DEF Silence
<1>8. CASE SendGet(c)
  <2>1. /\ poll[c] = "due" /\ poll'[c] = "sent" /\ guid'[c] = guid[c]
        /\ wire'[c] = Asking(guid[c])
    BY <1>8 DEF SendGet, ClientTypeOK
  <2> QED  BY <1>4, <1>5, <2>1 DEF Asking, Fits, Silence
<1>9. CASE GotAnswer(c)
  <2>1. /\ wire[c].kind = "answer" /\ guid'[c] = guid[c] /\ wire'[c] = Silence
    BY <1>9 DEF GotAnswer, ClientTypeOK
  <2>2. guid[c] \notin Unfinished  BY <2>1 DEF GuidInv
  <2> QED  BY <1>4, <1>5, <2>1, <2>2 DEF Silence
<1>10. CASE NoAnswer(c)
  <2>1. /\ wire[c].kind = "missing" /\ guid'[c] = guid[c] /\ wire'[c] = Silence
        /\ poll'[c] = "due"
    BY <1>10 DEF NoAnswer, ClientTypeOK
  <2> QED  BY <1>4, <1>5, <2>1 DEF Silence
<1> QED  BY <1>6, <1>7, <1>8, <1>9, <1>10 DEF ClientThread

\* Requests that fail leave those asking as they are: a get is sent again.
LEMMA FailuresKeepReaders ==
  ASSUME ReadersInv, NEW c \in Client, Refused(c) \/ LoseMessage(c)
  PROVE  GuidInv' /\ ReaderInv'
<1> USE DEF ReadersInv, BaseInv
<1>1. FailExchanges({c}) /\ UNCHANGED <<tasks, results, record>>
  BY DEF Refused, LoseMessage, FailExchanges, serverVars, ghostVars
<1>2. Unfinished' = Unfinished /\ record' = record /\ guid' = guid
  BY <1>1 DEF Unfinished, FailExchanges
<1>3. \A x \in Client : wire'[x] = wire[x] \/ wire'[x] = Silence
  BY <1>1 DEF FailExchanges
<1>4. GuidInv'  BY <1>2, <1>3 DEF GuidInv, Silence
<1>5. CASE LoseMessage(c)
  <2>1. losses' # 0  BY <1>5 DEF LoseMessage, ClientTypeOK
  <2> QED  BY <1>4, <2>1 DEF ReaderInv
<1>6. CASE Refused(c)
  <2>1. /\ losses' = losses /\ wire[c].kind # "guid"
    BY <1>6 DEF Refused, Requests
  <2>2. \A x \in Client : /\ poll[x] # "idle" => poll'[x] # "idle"
                          /\ wire[x].kind = "guid" => wire'[x] = wire[x]
    BY <1>1, <2>1 DEF FailExchanges
  <2>3. \A g \in Unfinished', x \in Client :
           losses' = 0 =>
           /\ poll[x] # "idle" /\ guid[x] = g => poll'[x] # "idle" /\ guid'[x] = g
           /\ wire[x].kind = "guid" /\ wire[x].guid = g =>
                \/ poll'[x] # "idle" /\ guid'[x] = g
                \/ wire'[x].kind = "guid" /\ wire'[x].guid = g
    <3> TAKE g \in Unfinished', x \in Client
    <3>1. poll[x] # "idle" /\ guid[x] = g => poll'[x] # "idle" /\ guid'[x] = g
      BY <1>2, <2>2
    <3>2. wire[x].kind = "guid" => wire'[x] = wire[x]  BY <2>2
    <3> QED  BY <3>1, <3>2
  <2>4. ReaderInv'  BY <1>2, <2>1, <2>3, ReadersKept
  <2> QED  BY <1>4, <2>4
<1> QED  BY <1>5, <1>6

\* A command accepted gets a GUID that its client is about to ask for.
LEMMA AcceptKeepsReaders ==
  ASSUME ReadersInv, NEW c \in Client, Accept(c)
  PROVE  GuidInv' /\ ReaderInv'
<1> DEFINE n == Len(record) + 1
<1> USE DEF ReadersInv, BaseInv
<1>1. /\ Len(record) \in Nat /\ Len(record') = n
      /\ record'[n].client = c
      /\ \A i \in DOMAIN record : record'[i].client = record[i].client
  <2> DEFINE e == [client |-> c, what |-> wire[c].what, reply |-> NoReply,
                   sees |-> IF wire[c].server = listening THEN wire[c].sees ELSE 0]
  <2>1. record' = Append(record, e)  BY DEF Accept
  <2>2. e.client = c  OBVIOUS
  <2> HIDE DEF e
  <2>3. record \in Seq(Entry)  BY DEF ServerTypeOK, Entry
  <2> QED  BY <2>1, <2>2, <2>3
<1>2. Unfinished' = Unfinished \cup {n}  BY DEF Accept, Put, Unfinished
<1>3. /\ wire[c].kind = "command" /\ wire'[c] = [kind |-> "guid", guid |-> n]
      /\ \A x \in Client : x # c => wire'[x] = wire[x]
      /\ UNCHANGED <<poll, guid, losses>>
  BY DEF Accept, Wire, ServerFrame, boundVars, ClientTypeOK
<1>4. \A x \in Client : guid[x] \in Nat /\ guid[x] <= Len(record)
  BY DEF GuidInv, ClientTypeOK, Id, NoGuid
<1> HIDE DEF n
<1>5. n = Len(record) + 1  BY DEF n
<1>6. GuidInv'
  <2> SUFFICES ASSUME NEW x \in Client
               PROVE  /\ guid'[x] <= Len(record')
                      /\ wire'[x].kind = "guid" => wire'[x].guid <= Len(record')
                      /\ wire'[x].kind = "get" => wire'[x].guid = guid'[x]
                      /\ wire'[x].kind = "answer" => guid'[x] \notin Unfinished'
    BY DEF GuidInv
  <2>1. guid'[x] <= Len(record') /\ guid'[x] # n  BY <1>1, <1>3, <1>4, <1>5
  <2>2. CASE x = c  BY <1>1, <1>3, <1>5, <2>1, <2>2
  <2>3. CASE x # c
    <3>1. wire'[x] = wire[x] /\ guid'[x] = guid[x]  BY <1>3, <2>3
    <3>2. wire[x].kind = "guid" => wire[x].guid \in Nat /\ wire[x].guid <= Len(record)
      BY MessageFields DEF GuidInv, ClientTypeOK, Id
    <3>3. wire[x].kind = "guid" => wire'[x].guid <= Len(record')
      BY <1>1, <1>5, <3>1, <3>2
    <3> QED  BY <1>2, <2>1, <3>1, <3>3 DEF GuidInv
  <2> QED  BY <2>2, <2>3
<1>7. ASSUME losses' = 0, NEW g \in Unfinished'  PROVE HasReader(g)'
  <2>1. CASE g = n  BY <1>1, <1>3, <2>1 DEF HasReader
  <2>2. CASE g # n
    <3>1. g \in DOMAIN record /\ HasReader(g)
      <4>1. g \in Unfinished  BY <1>2, <1>7, <2>2
      <4>2. g \in DOMAIN record  BY <4>1 DEF ServerTypeOK, Unfinished
      <4> QED  BY <1>3, <1>7, <4>1, <4>2 DEF ReaderInv
    <3>2. record[g].client \in Client /\ record'[g].client = record[g].client
      BY <1>1, <3>1, EntryFields
    <3> QED  BY <1>3, <3>1, <3>2 DEF HasReader
  <2> QED  BY <2>1, <2>2
<1> QED  BY <1>6, <1>7 DEF ReaderInv

LEMMA TasksKeepReaders ==
  ASSUME ReadersInv, NEW g \in DOMAIN tasks, RunTask(g)
  PROVE  GuidInv' /\ ReaderInv'
<1> USE DEF ReadersInv, BaseInv
<1>1. UNCHANGED <<poll, guid, wire, losses>>
  BY DEF RunTask, RunWrite, RunRead, RunBackward, Publish, ServerFrame, boundVars
<1>2. /\ Unfinished' \subseteq Unfinished /\ Len(record') = Len(record)
      /\ \A i \in DOMAIN record : record'[i].client = record[i].client
  <2>1. ASSUME NEW answer, Publish(g, answer)
        PROVE  /\ Unfinished' \subseteq Unfinished /\ Len(record') = Len(record)
               /\ \A i \in DOMAIN record : record'[i].client = record[i].client
    <3>1. record \in Seq(Entry) /\ g \in DOMAIN record  BY DEF ServerTypeOK, Entry
    <3> DEFINE e == [record[g] EXCEPT !.reply = answer]
    <3>2. record' = [record EXCEPT ![g] = e]  BY <2>1 DEF Publish
    <3>3. e.client = record[g].client
      <4>1. record[g] \in Entry  BY <3>1
      <4> QED  BY <4>1 DEF Entry
    <3> HIDE DEF e
    <3>4. Unfinished' \subseteq Unfinished
      BY <2>1 DEF Publish, Put, Restrict, Unfinished
    <3> QED  BY <3>1, <3>2, <3>3, <3>4
  <2>2. CASE RunBackward(g)
    BY <2>2 DEF RunBackward, Restrict, Unfinished, ghostVars
  <2> QED  BY <2>1, <2>2 DEF RunTask, RunWrite, RunRead
<1>3. GuidInv'  BY <1>1, <1>2 DEF GuidInv
<1>4. ReaderInv'  BY <1>1, <1>2, ReadersKept
<1> QED  BY <1>3, <1>4

LEMMA ServeGetKeepsReaders ==
  ASSUME ReadersInv, NEW c \in Client, ServeGet(c)
  PROVE  GuidInv' /\ ReaderInv'
<1> USE DEF ReadersInv, BaseInv
<1>1. UNCHANGED <<poll, guid, losses, tasks, record>>
      /\ \A x \in Client : x # c => wire'[x] = wire[x]
  BY DEF ServeGet, Respond, Wire, ServerFrame, boundVars, ClientTypeOK
<1>2. wire[c].kind = "get" /\ wire[c].guid = guid[c]  BY DEF ServeGet, GuidInv
<1>3. Unfinished' \subseteq Unfinished  BY DEF ServeGet, Respond, Restrict, Unfinished
<1>4. /\ wire'[c].kind \in {"answer", "missing"}
      /\ wire'[c].kind = "answer" => guid[c] \notin Unfinished'
  <2>1. CASE guid[c] \in DOMAIN results
    <3>1. guid[c] \notin DOMAIN tasks  BY <2>1 DEF ServerTypeOK
    <3>2. guid[c] \notin Unfinished'
      BY <1>1, <1>2, <2>1, <3>1 DEF ServeGet, Restrict, Unfinished
    <3>3. wire'[c].kind = "answer"
      BY <1>2, <2>1 DEF ServeGet, Respond, Wire, ClientTypeOK
    <3> QED  BY <3>2, <3>3
  <2>2. CASE guid[c] \notin DOMAIN results
    BY <1>2, <2>2 DEF ServeGet, Respond, Wire, ClientTypeOK
  <2> QED  BY <2>1, <2>2
<1>5. GuidInv'  BY <1>1, <1>2, <1>3, <1>4 DEF GuidInv
<1>6. ReaderInv'
  <2>1. \A x \in Client : wire[x].kind = "guid" => wire'[x] = wire[x]  BY <1>1, <1>2
  <2>2. record' = record /\ losses' = losses /\ poll' = poll /\ guid' = guid  BY <1>1
  <2> QED  BY <1>3, <2>1, <2>2, ReadersKept
<1> QED  BY <1>5, <1>6

LEMMA OthersKeepReaders ==
  ASSUME ReadersInv, Watchdog \/ Tick \/ UNCHANGED vars
  PROVE  GuidInv' /\ ReaderInv'
<1> USE DEF ReadersInv, BaseInv
<1>1. CASE Forget
  <2>1. Unfinished' = {} /\ record' = record /\ guid' = guid
    BY <1>1 DEF Forget, Unfinished, FailExchanges, ghostVars
  <2>2. \A x \in Client : wire'[x] = wire[x] \/ wire'[x] = Silence
    BY <1>1 DEF Forget, FailExchanges
  <2>3. GuidInv'  BY <2>1, <2>2 DEF GuidInv, Silence
  <2> QED  BY <2>1, <2>3 DEF ReaderInv
<1>2. ASSUME UNCHANGED <<clientVars, serverVars, ghostVars, boundVars>>
      PROVE  GuidInv' /\ ReaderInv'
  BY <1>2 DEF GuidInv, ReaderInv, HasReader, Unfinished, clientVars, serverVars, ghostVars,
     boundVars
<1> QED  BY <1>1, <1>2 DEF Watchdog, Tick, vars

LEMMA ReadersInvInit == Init => ReadersInv
<1> SUFFICES ASSUME Init PROVE ReadersInv  OBVIOUS
<1>1. GuidInv  BY DEF Init, GuidInv, NoGuid, Silence
<1>2. ReaderInv  BY DEF Init, ReaderInv, Unfinished
<1> QED  BY <1>1, <1>2, BaseInvInit DEF ReadersInv

LEMMA ReadersInvNext == ReadersInv /\ [Next]_vars => ReadersInv'
<1> SUFFICES ASSUME ReadersInv, [Next]_vars PROVE ReadersInv'  OBVIOUS
<1>1. BaseInv'  BY BaseInvNext DEF ReadersInv
<1>2. GuidInv' /\ ReaderInv'
  BY ClientKeepsReaders, FailuresKeepReaders, AcceptKeepsReaders, TasksKeepReaders,
     ServeGetKeepsReaders, OthersKeepReaders DEF Next
<1> QED  BY <1>1, <1>2 DEF ReadersInv

\* While no message is lost the map of results holds no answer that nobody will fetch,
\* through the deaths and restarts of the server.
THEOREM NoOrphanedResult == Spec => []ResultsHaveAReader
<1>1. ReadersInv => ResultsHaveAReader
  BY DEF ReadersInv, ReaderInv, ResultsHaveAReader, Unfinished
<1> QED  BY <1>1, ReadersInvInit, ReadersInvNext, PTL DEF Spec

-------------------------------------------------------------------------------
(* What a read sees. *)

\* The first n changes are there, and made not after t.
Covered(n, t) == n <= Len(changes) /\ \A i \in 1..n : changes[i] <= t

\* The time of the route covers what the client could have seen, from the moment the
\* command is sent until its task has run: changes are only added after it, or lost
\* with the server, and with them the command and the task.
CommandSight ==
  \A c \in Client :
    wire[c].kind = "command" =>
      /\ wire[c].server \in {0, listening}
      /\ listening # 0 /\ wire[c].server = listening =>
           Covered(wire[c].sees, wire[c].time + Shift)

TaskSight ==
  \A g \in DOMAIN tasks :
    /\ tasks[g].what = record[g].what
    /\ tasks[g].what \in Reads => Covered(record[g].sees, tasks[g].time)

ChangesPast == \A n \in DOMAIN changes : changes[n] <= clock

SightInv == BaseInv /\ ChangesPast /\ CommandSight /\ TaskSight /\ ReadYourWrites

\* Reading at a time sees at least what is covered then.
LEMMA CoveredIsSeen ==
  ASSUME ServerTypeOK, NEW n \in Nat, NEW t, Covered(n, t)
  PROVE  SeenAt(t) >= n
<1>1. DOMAIN changes = 1..Len(changes) /\ Len(changes) \in Nat  BY DEF ServerTypeOK
<1> DEFINE seen == {i \in DOMAIN changes : changes[i] <= t}
<1>2. 1..n \subseteq seen  BY <1>1 DEF Covered
<1>3. IsFiniteSet(seen)
  <2>1. IsFiniteSet(DOMAIN changes)  BY <1>1, FS_Interval
  <2>2. seen \subseteq DOMAIN changes  OBVIOUS
  <2> QED  BY <2>1, <2>2, FS_Subset
<1>4. Cardinality(1..n) = n
  <2>1. Cardinality(1..n) = IF 1 > n THEN 0 ELSE n - 1 + 1  BY FS_Interval
  <2> QED  BY <2>1
<1>5. Cardinality(1..n) <= Cardinality(seen)  BY <1>2, <1>3, FS_Subset
<1>6. SeenAt(t) = Cardinality(seen) /\ Cardinality(seen) \in Nat
  BY <1>3, FS_CardinalityType DEF SeenAt
<1> QED  BY <1>4, <1>5, <1>6

\* Steps that leave changes, tasks and record alone, and send no command.
LEMMA SightKeptByOthers ==
  ASSUME SightInv, UNCHANGED <<tasks, changes, record, listening>>,
         clock' \in Nat, clock' >= clock,
         \A x \in Client : wire'[x].kind = "command" => wire'[x] = wire[x]
  PROVE  ChangesPast' /\ CommandSight' /\ TaskSight' /\ ReadYourWrites'
<1> USE DEF SightInv, BaseInv
<1>1. ChangesPast'
  <2> SUFFICES ASSUME NEW n \in DOMAIN changes PROVE changes[n] <= clock'
    BY DEF ChangesPast
  <2>1. changes[n] \in Nat /\ clock \in Nat  BY DEF ServerTypeOK, ClientTypeOK
  <2> QED  BY <2>1 DEF ChangesPast
<1>2. CommandSight'  BY DEF CommandSight, Covered
<1> QED  BY <1>1, <1>2 DEF TaskSight, Covered, ReadYourWrites

LEMMA SayKeepsSight ==
  ASSUME SightInv, NEW c \in Client, SayWrite(c) \/ SayRead(c)
  PROVE  ChangesPast' /\ CommandSight' /\ TaskSight' /\ ReadYourWrites'
<1> USE DEF SightInv, BaseInv
<1>1. UNCHANGED <<tasks, changes, record, clock, listening>>
  BY DEF SayWrite, SayRead, Say, serverVars, ghostVars, heartVars
<1>2. CommandSight'
  <2> SUFFICES ASSUME NEW x \in Client, wire'[x].kind = "command"
               PROVE  /\ wire'[x].server \in {0, listening}
                      /\ listening # 0 /\ wire'[x].server = listening =>
                           Covered(wire'[x].sees, wire'[x].time + Shift)
    BY <1>1 DEF CommandSight, Covered
  <2>1. CASE x = c
    <3>1. /\ wire'[x].server = listening /\ wire'[x].sees = Len(changes)
          /\ wire'[x].time = clock - (clock % Second)
      BY <2>1 DEF SayWrite, SayRead, Say, Wire, ClientTypeOK
    <3>2. Covered(Len(changes), (clock - (clock % Second)) + Shift)
      <4> SUFFICES ASSUME NEW i \in 1..Len(changes)
                   PROVE  changes[i] <= (clock - (clock % Second)) + Shift
        BY DEF Covered, ServerTypeOK
      <4>1. changes[i] \in Nat /\ clock \in Nat  BY DEF ServerTypeOK, ClientTypeOK
      <4>2. changes[i] <= clock  BY DEF ChangesPast, ServerTypeOK
      <4>3. /\ clock - (clock % Second) \in Int
            /\ clock <= (clock - (clock % Second)) + Shift
        BY <4>1, WholeSeconds
      <4> HIDE DEF SightInv, BaseInv
      <4> QED  BY <4>1, <4>2, <4>3, ClockAssumption
    <3> QED  BY <3>1, <3>2
  <2>2. CASE x # c
    <3>1. wire'[x] = wire[x]  BY <2>2 DEF SayWrite, SayRead, Say, Wire, ClientTypeOK
    <3> QED  BY <3>1 DEF CommandSight
  <2> QED  BY <2>1, <2>2
<1> QED  BY <1>1, <1>2 DEF ChangesPast, TaskSight, Covered, ReadYourWrites

LEMMA AcceptKeepsSight ==
  ASSUME SightInv, NEW c \in Client, Accept(c)
  PROVE  ChangesPast' /\ CommandSight' /\ TaskSight' /\ ReadYourWrites'
<1> DEFINE n == Len(record) + 1
           m == wire[c]
           sees == IF m.server = listening THEN m.sees ELSE 0
           e == [client |-> c, what |-> m.what, reply |-> NoReply, sees |-> sees]
<1> USE DEF SightInv, BaseInv
<1>1. /\ record \in Seq(Entry) /\ DOMAIN record = 1..Len(record) /\ Len(record) \in Nat
  BY DEF ServerTypeOK, Entry
<1>2. record' = Append(record, e)  BY DEF Accept
<1>3. /\ e.what = m.what /\ e.reply = NoReply /\ e.sees = sees
  OBVIOUS
<1> HIDE DEF e
<1>4. /\ DOMAIN record' = DOMAIN record \cup {n} /\ record'[n] = e /\ n \notin DOMAIN record
      /\ \A i \in DOMAIN record : record'[i] = record[i]
  BY <1>1, <1>2
<1>5. /\ DOMAIN tasks' = DOMAIN tasks \cup {n}
      /\ tasks'[n].what = m.what /\ tasks'[n].time = RouteTime(m)
      /\ \A i \in DOMAIN tasks : i # n => tasks'[i] = tasks[i]
  BY DEF Accept, Put
<1>6. UNCHANGED <<changes, clock, listening>> /\ m.kind = "command" /\ listening # 0
  BY DEF Accept, ServerFrame, heartVars
<1>7. \A x \in Client : wire'[x].kind = "command" => wire'[x] = wire[x]
  BY DEF Accept, Wire, ClientTypeOK
<1>8. m.what \in Reads => Covered(sees, RouteTime(m))
  <2>1. m \in Messages  BY DEF ClientTypeOK
  <2>2. m.sees \in Nat /\ m.time \in Int  BY <1>6, <2>1, MessageFields
  <2>3. \A t : Covered(0, t)  BY DEF Covered, ServerTypeOK
  <2>4. m.server = listening => Covered(m.sees, m.time + Shift)
    BY <1>6 DEF CommandSight
  <2>5. Covered(m.sees, m.time + Shift) => Covered(m.sees, clock)
    BY <2>2 DEF Covered, ChangesPast, ServerTypeOK
  <2> QED  BY <2>3, <2>4, <2>5 DEF RouteTime
<1> HIDE DEF n, m, sees
<1>9. TaskSight'
  <2> SUFFICES ASSUME NEW g \in DOMAIN tasks'
               PROVE  /\ tasks'[g].what = record'[g].what
                      /\ tasks'[g].what \in Reads => Covered(record'[g].sees, tasks'[g].time)
    BY <1>6 DEF TaskSight, Covered
  <2>1. CASE g = n  BY <1>3, <1>4, <1>5, <1>8, <2>1
  <2>2. CASE g # n
    <3>1. g \in DOMAIN tasks /\ tasks'[g] = tasks[g]  BY <1>5, <2>2
    <3>2. record'[g] = record[g]  BY <1>4, <3>1 DEF ServerTypeOK
    <3> QED  BY <3>1, <3>2 DEF TaskSight
  <2> QED  BY <2>1, <2>2
<1>10. CommandSight' /\ ChangesPast'  BY <1>6, <1>7 DEF CommandSight, ChangesPast, Covered
<1>11. ReadYourWrites'  BY <1>3, <1>4 DEF ReadYourWrites
<1> QED  BY <1>9, <1>10, <1>11

\* A task ends with an answer; it may have made a change.
LEMMA PublishKeepsSight ==
  ASSUME SightInv, NEW g \in DOMAIN tasks, NEW answer \in Reply, Publish(g, answer),
         record[g].what \in Reads => answer >= record[g].sees,
         changes' = changes \/ changes' = Append(changes, clock)
  PROVE  ChangesPast' /\ CommandSight' /\ TaskSight' /\ ReadYourWrites'
<1> USE DEF SightInv, BaseInv
<1>1. UNCHANGED <<wire, listening, clock>>  BY DEF Publish, ServerFrame, heartVars
<1>2. changes \in Seq(Nat) /\ clock \in Nat  BY DEF ServerTypeOK, ClientTypeOK
<1>3. \A n \in Nat : \A t : Covered(n, t) => Covered(n, t)'
  <2>1. CASE changes' = changes  BY <2>1 DEF Covered
  <2>2. CASE changes' = Append(changes, clock)
    <3>1. Len(changes') = Len(changes) + 1 /\ Len(changes) \in Nat
          /\ \A i \in 1..Len(changes) : changes'[i] = changes[i]
      BY <1>2, <2>2
    <3> QED  BY <3>1 DEF Covered
  <2> QED  BY <2>1, <2>2
<1>4. ChangesPast'
  <2>1. CASE changes' = changes  BY <1>1, <2>1 DEF ChangesPast
  <2>2. CASE changes' = Append(changes, clock)
    <3>1. DOMAIN changes' = 1..Len(changes) + 1 /\ Len(changes) \in Nat
          /\ (\A i \in 1..Len(changes) : changes'[i] = changes[i])
          /\ changes'[Len(changes) + 1] = clock
      BY <1>2, <2>2
    <3> QED  BY <1>1, <1>2, <3>1 DEF ChangesPast
  <2> QED  BY <2>1, <2>2
<1>5. CommandSight'
  <2> SUFFICES ASSUME NEW x \in Client, wire[x].kind = "command"
               PROVE  /\ wire[x].server \in {0, listening}
                      /\ listening # 0 /\ wire[x].server = listening =>
                           Covered(wire[x].sees, wire[x].time + Shift)'
    BY <1>1 DEF CommandSight, Covered
  <2>1. wire[x].sees \in Nat  BY MessageFields DEF ClientTypeOK
  <2>2. Covered(wire[x].sees, wire[x].time + Shift)'
          <=> wire[x].sees <= Len(changes') /\ \A i \in 1..wire[x].sees :
                changes'[i] <= wire[x].time + Shift
    BY <1>1 DEF Covered
  <2>3. Covered(wire[x].sees, wire[x].time + Shift)
          => wire[x].sees <= Len(changes') /\ \A i \in 1..wire[x].sees :
                changes'[i] <= wire[x].time + Shift
    BY <1>3, <2>1 DEF Covered
  <2> QED  BY <2>2, <2>3 DEF CommandSight
<1>6. /\ DOMAIN record' = DOMAIN record /\ g \in DOMAIN record
      /\ \A i \in DOMAIN record :
           /\ record'[i].what = record[i].what /\ record'[i].sees = record[i].sees
           /\ i # g => record'[i] = record[i]
      /\ record'[g].reply = answer
  <2> DEFINE e == [record[g] EXCEPT !.reply = answer]
  <2>1. record \in Seq(Entry) /\ g \in DOMAIN record  BY DEF ServerTypeOK, Entry
  <2>2. record' = [record EXCEPT ![g] = e]  BY DEF Publish
  <2>3. e.reply = answer /\ e.what = record[g].what /\ e.sees = record[g].sees
    <3>1. record[g] \in Entry  BY <2>1
    <3> QED  BY <3>1 DEF Entry
  <2> HIDE DEF e
  <2> QED  BY <2>1, <2>2, <2>3
<1>7. TaskSight'
  <2> SUFFICES ASSUME NEW i \in DOMAIN tasks'
               PROVE  /\ tasks'[i].what = record'[i].what
                      /\ tasks'[i].what \in Reads =>
                           /\ record'[i].sees <= Len(changes')
                           /\ \A j \in 1..record'[i].sees : changes'[j] <= tasks'[i].time
    BY DEF TaskSight, Covered
  <2>1. i \in DOMAIN tasks /\ tasks'[i] = tasks[i]  BY DEF Publish, Restrict
  <2>2. i \in DOMAIN record  BY <2>1 DEF ServerTypeOK
  <2>3. record[i].sees \in Nat  BY <2>2, EntryFields
  <2>4. tasks[i].what \in Reads => Covered(record[i].sees, tasks[i].time)
    BY <2>1 DEF TaskSight
  <2>5. Covered(record[i].sees, tasks[i].time) =>
          /\ record[i].sees <= Len(changes')
          /\ \A j \in 1..record[i].sees : changes'[j] <= tasks[i].time
    BY <1>3, <2>3 DEF Covered
  <2> QED  BY <1>6, <2>1, <2>2, <2>4, <2>5 DEF TaskSight
<1>8. ReadYourWrites'
  <2> SUFFICES ASSUME NEW i \in DOMAIN record', record'[i].what \in Reads,
                      record'[i].reply # NoReply
               PROVE  record'[i].reply >= record'[i].sees
    BY DEF ReadYourWrites
  <2> QED  BY <1>6 DEF ReadYourWrites
<1> QED  BY <1>4, <1>5, <1>7, <1>8

LEMMA TasksKeepSight ==
  ASSUME SightInv, NEW g \in DOMAIN tasks, RunTask(g)
  PROVE  ChangesPast' /\ CommandSight' /\ TaskSight' /\ ReadYourWrites'
<1> USE DEF SightInv, BaseInv
<1>1. tasks[g].what = record[g].what /\ g \in DOMAIN record  BY DEF TaskSight, ServerTypeOK
<1>2. CASE RunWrite(g)
  <2>1. record[g].what \notin Reads  BY <1>1, <1>2 DEF RunWrite, Reads
  <2>2. Publish(g, 0) /\ changes' = Append(changes, clock) /\ 0 \in Reply
    BY <1>2 DEF RunWrite, Reply
  <2>3. record[g].what \in Reads => 0 >= record[g].sees  BY <2>1
  <2>4. changes' = changes \/ changes' = Append(changes, clock)  BY <2>2
  <2> HIDE DEF SightInv, BaseInv
  <2> QED  BY <2>2, <2>3, <2>4, PublishKeepsSight
<1>3. CASE RunRead(g)
  <2>1. Covered(record[g].sees, tasks[g].time)  BY <1>3 DEF RunRead, TaskSight
  <2>2. record[g].sees \in Nat  BY <1>1, EntryFields
  <2>3. SeenAt(tasks[g].time) >= record[g].sees  BY <2>1, <2>2, CoveredIsSeen
  <2>4. SeenAt(tasks[g].time) \in Reply  BY SeenAtIsNat DEF Reply
  <2>5. Publish(g, SeenAt(tasks[g].time)) /\ changes' = changes  BY <1>3 DEF RunRead
  <2>6. record[g].what \in Reads => SeenAt(tasks[g].time) >= record[g].sees  BY <2>3
  <2>7. changes' = changes \/ changes' = Append(changes, clock)  BY <2>5
  <2> HIDE DEF SightInv, BaseInv
  <2> QED  BY <2>4, <2>5, <2>6, <2>7, PublishKeepsSight
<1>4. CASE RunBackward(g)
  <2>1. UNCHANGED <<wire, changes, record, clock, listening>>
    BY <1>4 DEF RunBackward, ServerFrame, ghostVars, heartVars
  <2>2. \A i \in DOMAIN tasks' : i \in DOMAIN tasks /\ tasks'[i] = tasks[i]
    BY <1>4 DEF RunBackward, Restrict
  <2> QED
    BY <2>1, <2>2 DEF ChangesPast, CommandSight, TaskSight, Covered, ReadYourWrites
<1> QED  BY <1>2, <1>3, <1>4 DEF RunTask

\* What is not a step of the server: the connections, the clock and the processes.
LEMMA OthersKeepSight ==
  ASSUME SightInv,
         \/ \E c \in Client : ClientThread(c) \/ Refused(c) \/ LoseMessage(c) \/ ServeGet(c)
         \/ Watchdog \/ Tick \/ UNCHANGED vars
  PROVE  ChangesPast' /\ CommandSight' /\ TaskSight' /\ ReadYourWrites'
<1> USE DEF SightInv, BaseInv
<1>0. clock \in Nat  BY DEF ClientTypeOK
<1>1. ASSUME NEW c \in Client, ClientThread(c)
      PROVE  ChangesPast' /\ CommandSight' /\ TaskSight' /\ ReadYourWrites'
  <2>1. UNCHANGED <<tasks, changes, record, listening, clock>>
    BY <1>1 DEF ClientThread, GotGuid, SendGet, GotAnswer, NoAnswer, ClientFrame, serverVars,
       ghostVars, heartVars
  <2>2. \A x \in Client : x # c => wire'[x] = wire[x]
    BY <1>1 DEF ClientThread, GotGuid, SendGet, GotAnswer, NoAnswer, Wire, ClientTypeOK
  <2>3. wire'[c] = Silence \/ wire'[c] = Asking(guid[c])
    BY <1>1 DEF ClientThread, GotGuid, SendGet, GotAnswer, NoAnswer, Wire, ClientTypeOK
  <2>4. wire'[c].kind # "command"  BY <2>3 DEF Silence, Asking
  <2> QED  BY <1>0, <2>1, <2>2, <2>4, SightKeptByOthers
<1>2. ASSUME NEW cs, FailExchanges(cs)
      PROVE  \A x \in Client : wire'[x].kind = "command" => wire'[x] = wire[x]
  BY <1>2 DEF FailExchanges, Silence
<1>3. ASSUME NEW c \in Client, Refused(c) \/ LoseMessage(c)
      PROVE  ChangesPast' /\ CommandSight' /\ TaskSight' /\ ReadYourWrites'
  <2>1. UNCHANGED <<tasks, changes, record, listening, clock>>
    BY <1>3 DEF Refused, LoseMessage, FailExchanges, serverVars, ghostVars, heartVars
  <2>2. FailExchanges({c})  BY <1>3 DEF Refused, LoseMessage
  <2> QED  BY <1>0, <1>2, <2>1, <2>2, SightKeptByOthers
<1>4. ASSUME NEW c \in Client, ServeGet(c)
      PROVE  ChangesPast' /\ CommandSight' /\ TaskSight' /\ ReadYourWrites'
  <2>1. UNCHANGED <<tasks, changes, record, listening, clock>>
        /\ \A x \in Client : x # c => wire'[x] = wire[x]
    BY <1>4 DEF ServeGet, Respond, Wire, ServerFrame, heartVars, ClientTypeOK
  <2>2. wire'[c].kind \in {"answer", "missing"}
    BY <1>4 DEF ServeGet, Respond, Wire, ClientTypeOK
  <2> QED  BY <1>0, <2>1, <2>2, SightKeptByOthers
<1>5. CASE Forget
  <2>1. /\ tasks' = [g \in {} |-> Silence] /\ changes' = <<>> /\ record' = record
        /\ \A x \in Client : wire'[x].kind # "command"
    BY <1>5 DEF Forget, FailExchanges, ghostVars, Requests, Silence
  <2> QED  BY <2>1 DEF ChangesPast, CommandSight, TaskSight, ReadYourWrites
<1>6. ASSUME UNCHANGED <<clientVars, serverVars, clock, ghostVars>>,
             listening' = listening \/ (listening = 0 /\ listening' # 0)
      PROVE  ChangesPast' /\ CommandSight' /\ TaskSight' /\ ReadYourWrites'
  <2>1. CASE listening' = listening
    <3>1. UNCHANGED <<tasks, changes, record, wire, clock>>
      BY <1>6 DEF clientVars, serverVars, ghostVars
    <3> QED  BY <1>0, <2>1, <3>1, SightKeptByOthers
  <2>2. CASE listening = 0 /\ listening' # 0
    <3>1. UNCHANGED <<tasks, changes, record, wire, clock>>
      BY <1>6 DEF clientVars, serverVars, ghostVars
    <3>2. CommandSight'  BY <2>2, <3>1 DEF CommandSight
    <3> QED  BY <3>1, <3>2 DEF ChangesPast, TaskSight, Covered, ReadYourWrites
  <2> QED  BY <1>6, <2>1, <2>2
<1>7. CASE Watchdog
  <2>1. CASE listening # 0 /\ listening' # listening
    BY <1>5, <1>7, <2>1 DEF Watchdog
  <2>2. CASE ~(listening # 0 /\ listening' # listening)
    <3>1. UNCHANGED <<clientVars, serverVars, clock, ghostVars>>
      BY <1>7, <2>2 DEF Watchdog
    <3>2. listening' = listening \/ (listening = 0 /\ listening' # 0)  BY <2>2
    <3> QED  BY <1>6, <3>1, <3>2
  <2> QED  BY <2>1, <2>2
<1>8. CASE Tick
  <2>1. UNCHANGED <<tasks, changes, record, wire, listening>> /\ clock' = clock + 1
    BY <1>8 DEF Tick, clientVars, serverVars, ghostVars, heartVars
  <2> QED  BY <1>0, <2>1, SightKeptByOthers
<1>9. CASE UNCHANGED vars
  <2>1. UNCHANGED <<clientVars, serverVars, clock, ghostVars>> /\ listening' = listening
    BY <1>9 DEF vars, heartVars
  <2> QED  BY <1>6, <2>1
<1> QED  BY <1>1, <1>3, <1>4, <1>7, <1>8, <1>9

LEMMA SightInvInit == Init => SightInv
<1> SUFFICES ASSUME Init PROVE SightInv  OBVIOUS
<1>1. ChangesPast /\ TaskSight /\ ReadYourWrites
  BY DEF Init, ChangesPast, TaskSight, ReadYourWrites
<1>2. CommandSight  BY DEF Init, CommandSight, Silence
<1> QED  BY <1>1, <1>2, BaseInvInit DEF SightInv

LEMMA SightInvNext == SightInv /\ [Next]_vars => SightInv'
<1> SUFFICES ASSUME SightInv, [Next]_vars PROVE SightInv'  OBVIOUS
<1>1. BaseInv'  BY BaseInvNext DEF SightInv
<1>2. ChangesPast' /\ CommandSight' /\ TaskSight' /\ ReadYourWrites'
  BY SayKeepsSight, AcceptKeepsSight, TasksKeepSight, OthersKeepSight DEF Next
<1> QED  BY <1>1, <1>2 DEF SightInv

\* A read served as one of the past still sees what its client could have seen when it
\* sent it, for every Shift of at least a second less one tick.
THEOREM ReadsSeeEarlierWrites == Spec => []ReadYourWrites
<1>1. SightInv => ReadYourWrites  BY DEF SightInv
<1> QED  BY <1>1, SightInvInit, SightInvNext, PTL DEF Spec

-------------------------------------------------------------------------------
(* The abstract service. *)

\* No answer has been given out of a request that is not accepted or not finished, and
\* a task has none yet.
StageInv ==
  /\ \A g \in Id : g > Len(record) \/ g \in Unfinished => times[g] = 0
  /\ \A g \in DOMAIN tasks : record[g].reply = NoReply

PromiseInv == ReadersInv /\ StageInv

\* Steps that the abstract service does not see.
LEMMA StutterOfPromise ==
  ASSUME UNCHANGED <<tasks, results, record, times>>
  PROVE  UNCHANGED Promise!serviceVars
BY DEF Promise!serviceVars, Stage, ReplyOf

LEMMA StagesSeen ==
  ASSUME BaseInv, NEW i \in Id
  PROVE  /\ Stage(i) = "new" <=> i > Len(record)
         /\ Stage(i) = "asked" <=> i \in DOMAIN tasks
         /\ Stage(i) = "answered" <=> i \in DOMAIN results
         /\ Stage(i) \in {"given", "lost"} <=> i <= Len(record) /\ i \notin Unfinished
BY DEF BaseInv, ServerTypeOK, Stage, Unfinished, Id

LEMMA AcceptIsAsk ==
  ASSUME PromiseInv, NEW c \in Client, Accept(c)
  PROVE  Promise!RequestServiceNext /\ StageInv'
<1> DEFINE n == Len(record) + 1
<1> USE DEF PromiseInv, ReadersInv, BaseInv
<1>1. n \in Id /\ Len(record) \in Nat
  BY NextGuidIsAnId DEF Accept, ServerTypeOK
<1>2. /\ DOMAIN tasks' = DOMAIN tasks \cup {n} /\ UNCHANGED <<results, times>>
  BY DEF Accept, Put
<1>3. /\ Len(record') = n /\ record'[n].reply = NoReply
      /\ DOMAIN record = 1..Len(record)
      /\ \A i \in DOMAIN record : record'[i] = record[i]
  <2> DEFINE e == [client |-> c, what |-> wire[c].what, reply |-> NoReply,
                   sees |-> IF wire[c].server = listening THEN wire[c].sees ELSE 0]
  <2>1. record' = Append(record, e)  BY DEF Accept
  <2>2. e.reply = NoReply  OBVIOUS
  <2> HIDE DEF e
  <2>3. record \in Seq(Entry)  BY DEF ServerTypeOK, Entry
  <2> QED  BY <2>1, <2>2, <2>3
<1>4. DOMAIN tasks \subseteq 1..Len(record) /\ DOMAIN results \subseteq 1..Len(record)
  BY <1>3 DEF ServerTypeOK
<1> HIDE DEF n
<1>5. n = Len(record) + 1  BY DEF n
<1>6. \A i \in Id : Stage(i)' = IF i = n THEN "asked" ELSE Stage(i)
  BY <1>1, <1>2, <1>3, <1>4, <1>5 DEF Stage, Id
<1>7. Stage(n) = "new"  BY <1>1, <1>5 DEF Stage
<1>8. \A i \in Id : ReplyOf(i)' = ReplyOf(i)
  <2> TAKE i \in Id
  <2>1. CASE i = n  BY <1>1, <1>3, <1>5, <1>6, <2>1 DEF ReplyOf, Id
  <2>2. CASE i # n
    <3>1. Stage(i)' = Stage(i)  BY <1>6, <2>2
    <3>2. i <= Len(record) => record'[i] = record[i]  BY <1>1, <1>3 DEF Id
    <3>3. i <= Len(record') <=> i <= Len(record)  BY <1>1, <1>3, <1>5, <2>2 DEF Id
    <3> QED  BY <3>1, <3>2, <3>3 DEF ReplyOf
  <2> QED  BY <2>1, <2>2
<1>9. Promise!Ask(n)  BY <1>1, <1>2, <1>6, <1>7, <1>8 DEF Promise!Ask
<1>10. StageInv'
  <2>1. \A g \in Id : g > Len(record') \/ g \in Unfinished' => times'[g] = 0
    BY <1>1, <1>2, <1>3, <1>5 DEF StageInv, Unfinished, Id
  <2>2. \A g \in DOMAIN tasks' : record'[g].reply = NoReply
    BY <1>2, <1>3, <1>4 DEF StageInv
  <2> QED  BY <2>1, <2>2 DEF StageInv
<1> QED  BY <1>1, <1>9, <1>10 DEF Promise!RequestServiceNext

LEMMA PublishIsAnswered ==
  ASSUME PromiseInv, NEW g \in DOMAIN tasks, NEW answer \in Reply, Publish(g, answer)
  PROVE  Promise!RequestServiceNext /\ StageInv'
<1> USE DEF PromiseInv, ReadersInv, BaseInv
<1>1. /\ record \in Seq(Entry) /\ g \in DOMAIN record /\ DOMAIN record = 1..Len(record)
      /\ Len(record) \in Nat /\ Len(record) <= MaxCommands
  BY ServiceBounds DEF ServerTypeOK, Entry
<1>2. /\ Len(record') = Len(record) /\ record'[g].reply = answer
      /\ \A i \in DOMAIN record : i # g => record'[i] = record[i]
  <2> DEFINE e == [record[g] EXCEPT !.reply = answer]
  <2>1. record' = [record EXCEPT ![g] = e]  BY DEF Publish
  <2>2. e.reply = answer
    <3>1. record[g] \in Entry  BY <1>1
    <3> QED  BY <3>1 DEF Entry
  <2> HIDE DEF e
  <2> QED  BY <1>1, <2>1, <2>2
<1>3. /\ DOMAIN tasks' = DOMAIN tasks \ {g} /\ DOMAIN results' = DOMAIN results \cup {g}
      /\ times' = times
  BY DEF Publish, Put, Restrict
<1>4. g \in Id /\ g <= Len(record)  BY <1>1, ServiceBounds DEF Id
<1>5. \A i \in Id : Stage(i)' = IF i = g THEN "answered" ELSE Stage(i)
  BY <1>1, <1>2, <1>3, <1>4 DEF Stage
<1>6. Stage(g) = "asked"  BY <1>4, StagesSeen
<1>7. \A i \in Id : ReplyOf(i)' = IF i = g THEN answer ELSE ReplyOf(i)
  <2> TAKE i \in Id
  <2>1. CASE i = g  BY <1>2, <1>4, <1>5, <2>1 DEF ReplyOf
  <2>2. CASE i # g
    <3>1. Stage(i)' = Stage(i)  BY <1>5, <2>2
    <3>2. i <= Len(record) => record'[i] = record[i]  BY <1>1, <1>2, <2>2 DEF Id
    <3> QED  BY <1>2, <2>2, <3>1, <3>2 DEF ReplyOf
  <2> QED  BY <2>1, <2>2
<1>8. Promise!Answered(g)
  <2>1. [i \in Id |-> ReplyOf(i)]' = [[i \in Id |-> ReplyOf(i)] EXCEPT ![g] = answer]
    BY <1>4, <1>7
  <2>2. [i \in Id |-> ReplyOf(i)]'[g] = answer  BY <1>4, <1>7
  <2>3. [i \in Id |-> Stage(i)]' = [[i \in Id |-> Stage(i)] EXCEPT ![g] = "answered"]
    BY <1>4, <1>5
  <2> QED  BY <1>3, <1>4, <1>6, <2>1, <2>2, <2>3 DEF Promise!Answered
<1>9. StageInv'
  <2>1. \A i \in Id : i > Len(record') \/ i \in Unfinished' => times'[i] = 0
    BY <1>2, <1>3 DEF StageInv, Unfinished
  <2>2. \A i \in DOMAIN tasks' : record'[i].reply = NoReply
    BY <1>2, <1>3 DEF StageInv, ServerTypeOK
  <2> QED  BY <2>1, <2>2 DEF StageInv
<1> QED  BY <1>4, <1>8, <1>9 DEF Promise!RequestServiceNext

\* Requests that go without an answer: the task of one throws, or the server of all dies.
LEMMA GoneIsLose ==
  ASSUME PromiseInv, NEW gone \in SUBSET Unfinished, UNCHANGED <<record, times>>,
         DOMAIN tasks' = DOMAIN tasks \ gone, DOMAIN results' = DOMAIN results \ gone
  PROVE  Promise!RequestServiceNext /\ StageInv'
<1> USE DEF PromiseInv, ReadersInv, BaseInv
<1>1. gone \subseteq Id /\ \A i \in gone : i <= Len(record)
  <2>1. /\ DOMAIN record = 1..Len(record) /\ Len(record) \in Nat
        /\ Len(record) <= MaxCommands
    BY ServiceBounds DEF ServerTypeOK
  <2>2. gone \subseteq DOMAIN record  BY DEF ServerTypeOK, Unfinished
  <2> QED  BY <2>1, <2>2, ServiceBounds DEF Id
<1>2. \A i \in gone : Stage(i) \in {"asked", "answered"} /\ times[i] = 0
  BY <1>1, StagesSeen DEF Unfinished, StageInv
<1>3. \A i \in Id : Stage(i)' = IF i \in gone THEN "lost" ELSE Stage(i)
  BY <1>1, <1>2 DEF Stage
<1>4. \A i \in Id : ReplyOf(i)' = IF i \in gone THEN NoReply ELSE ReplyOf(i)
  BY <1>1, <1>3 DEF ReplyOf
<1>5. Promise!Lose(gone)  BY <1>1, <1>2, <1>3, <1>4 DEF Promise!Lose
<1>6. StageInv'  BY DEF StageInv, Unfinished
<1> QED  BY <1>1, <1>5, <1>6 DEF Promise!RequestServiceNext

LEMMA ServeGetIsGive ==
  ASSUME PromiseInv, NEW c \in Client, ServeGet(c)
  PROVE  [Promise!RequestServiceNext]_(Promise!serviceVars) /\ StageInv'
<1> DEFINE g == wire[c].guid
<1> USE DEF PromiseInv, ReadersInv, BaseInv
<1>1. UNCHANGED <<tasks, record>>  BY DEF ServeGet, Respond
<1>2. times \in [Id -> Nat]  BY DEF ServerTypeOK
<1>3. CASE g \in DOMAIN results
  <2>1. g \in Id /\ g <= Len(record) /\ g \notin DOMAIN tasks
    BY <1>3, ServiceBounds DEF ServerTypeOK, Id
  <2>2. /\ DOMAIN results' = DOMAIN results \ {g}
        /\ times' = [i \in Id |-> times[i] + IF i \in {g} THEN 1 ELSE 0]
    BY <1>3 DEF ServeGet, Respond, Restrict
  <2> HIDE DEF g
  <2>3. times' = [times EXCEPT ![g] = @ + 1] /\ times'[g] > 0
    <3>1. \A i \in Id : times'[i] = IF i = g THEN times[i] + 1 ELSE times[i]
      BY <1>2, <2>2
    <3>2. DOMAIN times' = Id  BY <2>2
    <3>3. times' = [times EXCEPT ![g] = times[g] + 1]
      <4>1. times' = [i \in Id |-> times'[i]]  BY <2>2
      <4> QED  BY <1>2, <3>1, <4>1
    <3>4. times'[g] > 0  BY <1>2, <2>1, <3>1
    <3> QED  BY <3>3, <3>4
  <2>4. \A i \in Id : Stage(i)' = IF i = g THEN "given" ELSE Stage(i)
    <3> TAKE i \in Id
    <3>1. CASE i = g
      <4>1. Len(record') = Len(record) /\ Len(record) \in Nat /\ g \in Nat
        BY <1>1, <2>1 DEF ServerTypeOK, Id
      <4>2. ~(g > Len(record)) /\ g \notin DOMAIN tasks' /\ g \notin DOMAIN results'
        BY <1>1, <2>1, <2>2, <4>1
      <4> QED  BY <2>3, <3>1, <4>1, <4>2 DEF Stage
    <3>2. CASE i # g
      <4>1. times'[i] = times[i]  BY <1>2, <2>3, <3>2
      <4> QED  BY <1>1, <2>2, <3>2, <4>1 DEF Stage
    <3> QED  BY <3>1, <3>2
  <2>5. Stage(g) = "answered"  BY <1>3, <2>1, StagesSeen
  <2>6. \A i \in Id : ReplyOf(i)' = ReplyOf(i)  BY <1>1, <2>4, <2>5 DEF ReplyOf
  <2>7. Promise!Give(g)  BY <2>1, <2>3, <2>4, <2>5, <2>6 DEF Promise!Give
  <2>8. StageInv'
    <3>1. \A i \in Id : i > Len(record) \/ i \in Unfinished' => i # g /\ (i > Len(record) \/ i \in Unfinished)
      BY <1>1, <2>1, <2>2 DEF Unfinished, Id, ServerTypeOK
    <3> QED  BY <1>1, <1>2, <2>1, <2>3, <3>1 DEF StageInv
  <2> QED  BY <2>1, <2>7, <2>8 DEF Promise!RequestServiceNext
<1>4. CASE g \notin DOMAIN results
  <2>1. results' = results /\ times' = [i \in Id |-> times[i] + IF i \in {} THEN 1 ELSE 0]
    BY <1>4 DEF ServeGet, Respond
  <2>2. times' = times  BY <1>2, <2>1
  <2> QED  BY <1>1, <2>1, <2>2, StutterOfPromise DEF StageInv, Unfinished
<1> QED  BY <1>3, <1>4

LEMMA PromiseInit == Init => Promise!RequestServiceInit /\ PromiseInv
<1> SUFFICES ASSUME Init PROVE Promise!RequestServiceInit /\ PromiseInv  OBVIOUS
<1>1. StageInv  BY DEF Init, StageInv
<1>2. Len(record) = 0  BY DEF Init
<1>3. \A i \in Id : Stage(i) = "new" /\ ReplyOf(i) = NoReply
  BY <1>2 DEF Stage, ReplyOf, Id
<1>4. Promise!RequestServiceInit
  BY <1>3 DEF Init, Promise!RequestServiceInit
<1> QED  BY <1>1, <1>4, ReadersInvInit DEF PromiseInv

LEMMA PromiseStep ==
  ASSUME PromiseInv, [Next]_vars
  PROVE  [Promise!RequestServiceNext]_(Promise!serviceVars) /\ StageInv'
<1>1. ASSUME UNCHANGED <<tasks, results, record, times>>
      PROVE  [Promise!RequestServiceNext]_(Promise!serviceVars) /\ StageInv'
  BY <1>1, StutterOfPromise DEF PromiseInv, StageInv, Unfinished
<1>2. ASSUME NEW c \in Client, SayWrite(c) \/ SayRead(c) \/ ClientThread(c)
      PROVE  UNCHANGED <<tasks, results, record, times>>
  BY <1>2 DEF SayWrite, SayRead, Say, ClientThread, GotGuid, SendGet, GotAnswer, NoAnswer,
     ClientFrame, serverVars, ghostVars
<1>3. ASSUME NEW c \in Client, Refused(c) \/ LoseMessage(c)
      PROVE  UNCHANGED <<tasks, results, record, times>>
  BY <1>3 DEF Refused, LoseMessage, FailExchanges, serverVars, ghostVars
<1>4. ASSUME NEW g \in DOMAIN tasks, RunTask(g)
      PROVE  Promise!RequestServiceNext /\ StageInv'
  <2>1. CASE RunWrite(g)
    <3>1. 0 \in Reply /\ Publish(g, 0)  BY <2>1 DEF RunWrite, Reply
    <3> QED  BY <3>1, PublishIsAnswered
  <2>2. CASE RunRead(g)
    <3>1. SeenAt(tasks[g].time) \in Reply
      BY SeenAtIsNat DEF PromiseInv, ReadersInv, BaseInv, Reply
    <3>2. Publish(g, SeenAt(tasks[g].time))  BY <2>2 DEF RunRead
    <3> QED  BY <3>1, <3>2, PublishIsAnswered
  <2>3. CASE RunBackward(g)
    <3>1. {g} \in SUBSET Unfinished  BY DEF Unfinished
    <3>2. g \notin DOMAIN results  BY DEF PromiseInv, ReadersInv, BaseInv, ServerTypeOK
    <3>3. DOMAIN tasks' = DOMAIN tasks \ {g} /\ DOMAIN results' = DOMAIN results \ {g}
          /\ UNCHANGED <<record, times>>
      BY <2>3, <3>2 DEF RunBackward, Restrict, ghostVars
    <3> QED  BY <3>1, <3>3, GoneIsLose
  <2> QED  BY <1>4, <2>1, <2>2, <2>3 DEF RunTask
<1>5. CASE Forget
  <2>1. DOMAIN tasks' = DOMAIN tasks \ Unfinished /\ DOMAIN results' = DOMAIN results \ Unfinished
        /\ UNCHANGED <<record, times>>
    BY <1>5 DEF Forget, FailExchanges, ghostVars, Unfinished
  <2> QED  BY <2>1, GoneIsLose
<1>6. ASSUME UNCHANGED <<serverVars, ghostVars>>
      PROVE  UNCHANGED <<tasks, results, record, times>>
  BY <1>6 DEF serverVars, ghostVars
<1>7. CASE Watchdog
  <2>1. CASE listening # 0 /\ listening' # listening
    BY <1>5, <1>7, <2>1 DEF Watchdog
  <2>2. CASE ~(listening # 0 /\ listening' # listening)
    <3>1. UNCHANGED <<serverVars, ghostVars>>  BY <1>7, <2>2 DEF Watchdog
    <3> QED  BY <1>1, <1>6, <3>1
  <2> QED  BY <2>1, <2>2
<1>8. CASE Tick \/ UNCHANGED vars
  <2>1. UNCHANGED <<serverVars, ghostVars>>  BY <1>8 DEF Tick, vars
  <2> QED  BY <1>1, <1>6, <2>1
<1> QED
  BY <1>1, <1>2, <1>3, <1>4, <1>7, <1>8, AcceptIsAsk, ServeGetIsGive DEF Next

LEMMA PromiseInvNext == PromiseInv /\ [Next]_vars => PromiseInv'
BY PromiseStep, ReadersInvNext DEF PromiseInv

\* Clients, routes, tasks and the map of results, with messages lost and servers killed,
\* implement the abstract service: an answer is given out once, of a request that was
\* asked, and what is lost stays lost.
THEOREM ServiceRefinesPromise == Spec => ImplementsRequestService
<1>1. PromiseInv /\ [Next]_vars => [Promise!RequestServiceNext]_(Promise!serviceVars)
  BY PromiseStep
<1> QED  BY <1>1, PromiseInit, PromiseInvNext, PTL DEF Spec, ImplementsRequestService, Promise!RequestServiceSpec
===============================================================================
