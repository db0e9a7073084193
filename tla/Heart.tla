---------------------------------- MODULE Heart ----------------------------------
(***************************************************************************)
(* The watchdog: a process that launches the server, asks it for /heart    *)
(* and, when the answer fails to come, stops it and launches another.  Two *)
(* threads share the process handle and the flag is_running: the heart     *)
(* thread, which runs start(), and the main thread, which waits for Enter, *)
(* calls stop(), joins the other and destroys the Heart, which stops once  *)
(* more.                                                                   *)
(*                                                                         *)
(* Processes are numbered as they are launched, and CreateProcess works.   *)
(* A process listens as soon as the port is free; one that finds it taken  *)
(* ends.  stopProcess is the one of Windows, where the server builds, call *)
(* by call: server_process_ is passed by reference and not synchronised,   *)
(* so that each call takes the hProcess that is there when it is made, and *)
(* the other thread may come between any two.  A closed handle fails in    *)
(* the calls NULL fails in, and is 0 here as NULL is; only the test for    *)
(* NULL lets it pass, which the same test does that is made just before it *)
(* is closed.  A terminated process is gone at once.  Nothing depends on   *)
(* hThread.                                                                *)
(***************************************************************************)
EXTENDS Naturals, FiniteSets

CONSTANT MaxTroubles  \* bound: crashes of the server, starts and answers that take too long

ASSUME TroublesAssumption == MaxTroubles \in Nat

VARIABLES
  isRunning,  \* is_running
  handle,     \* the process of server_process_.hProcess, 0 when it is NULL or closed
  alive,      \* server processes there are
  listening,  \* the one that has the port, or 0
  launches,   \* how many have been launched
  troubles,   \* those so far
  heartPc,    \* where the heart thread is
  mainPc,     \* where the main thread is
  races       \* ghost: what the heart thread has done behind stop()

heartVars ==
  <<isRunning, handle, alive, listening, launches, troubles, heartPc, mainPc, races>>
processVars == <<handle, alive, listening, launches>>

StopLabels == {"check", "terminate", "wait", "close", "forget"}
HeartLabels == {"created", "loop", "probe", "launch", "assign", "returned"} \cup StopLabels
MainLabels == {"enter", "clear", "join", "over"} \cup StopLabels

\* "start": start() has set is_running after stop() had cleared it.  "launch":
\* restart_server() has put a new process into server_process_ when stop() had
\* terminated the old one and was still busy with the handle.
Races == {"start", "launch"}

\* The constructor has launched a server; both threads are there.
HeartInit ==
  /\ isRunning = FALSE
  /\ handle = 1 /\ alive = {1} /\ listening = 0 /\ launches = 1
  /\ troubles = 0
  /\ heartPc = "created" /\ mainPc = "enter"
  /\ races = {}

-------------------------------------------------------------------------------
(* Processes. *)

\* app.run: binding the port succeeds, or ends the process.
Bind(p) ==
  /\ p \in alive /\ p # listening
  /\ IF listening = 0 THEN listening' = p /\ UNCHANGED alive
                      ELSE alive' = alive \ {p} /\ UNCHANGED listening
  /\ UNCHANGED <<handle, launches, isRunning, troubles, heartPc, mainPc, races>>

Crash(p) ==
  /\ p \in alive /\ troubles < MaxTroubles
  /\ troubles' = troubles + 1
  /\ alive' = alive \ {p}
  /\ listening' = IF listening = p THEN 0 ELSE listening
  /\ UNCHANGED <<handle, launches, isRunning, heartPc, mainPc, races>>

-------------------------------------------------------------------------------
(* stopProcess, in either thread. *)

Goes(who, from, to) ==
  IF who = "heart" THEN heartPc = from /\ heartPc' = to /\ UNCHANGED mainPc
                   ELSE mainPc = from /\ mainPc' = to /\ UNCHANGED heartPc

\* Where the thread goes on when stopProcess returns.
Back(who) == IF who = "heart" THEN "launch" ELSE "join"

CheckHandle(who) ==
  /\ Goes(who, "check", IF handle = 0 THEN Back(who) ELSE "terminate")
  /\ UNCHANGED <<isRunning, troubles, races, processVars>>

\* TerminateProcess fails without a handle, and on a process that has ended.
Terminate(who) ==
  /\ Goes(who, "terminate", IF handle \in alive THEN "wait" ELSE Back(who))
  /\ alive' = alive \ {handle}
  /\ listening' = IF listening = handle THEN 0 ELSE listening
  /\ UNCHANGED <<handle, launches, isRunning, troubles, races>>

\* WaitForSingleObject fails without a handle, and waits as long as the process lives.
AwaitEnd(who) ==
  /\ handle \notin alive
  /\ Goes(who, "wait", IF handle = 0 THEN Back(who) ELSE "close")
  /\ UNCHANGED <<isRunning, troubles, races, processVars>>

\* CloseHandle(hProcess) fails when the handle is closed; its process goes on.
Close(who) ==
  /\ Goes(who, "close", IF handle = 0 THEN Back(who) ELSE "forget")
  /\ handle' = 0
  /\ UNCHANGED <<alive, listening, launches, isRunning, troubles, races>>

\* hProcess = NULL, whatever it is by now.
Forget_handle(who) ==
  /\ Goes(who, "forget", Back(who))
  /\ handle' = 0
  /\ UNCHANGED <<alive, listening, launches, isRunning, troubles, races>>

StopProcess(who) ==
  CheckHandle(who) \/ Terminate(who) \/ AwaitEnd(who) \/ Close(who) \/ Forget_handle(who)

-------------------------------------------------------------------------------
(* The heart thread. *)

StartHeart ==
  /\ Goes("heart", "created", "loop")
  /\ isRunning' = TRUE
  /\ races' = IF mainPc \in {"enter", "clear"} THEN races ELSE races \cup {"start"}
  /\ UNCHANGED <<troubles, processVars>>

TestRunning ==
  /\ Goes("heart", "loop", IF isRunning THEN "probe" ELSE "returned")
  /\ UNCHANGED <<isRunning, troubles, races, processVars>>

\* check_server: the answer comes in time, or does not.
ProbeAnswered ==
  /\ listening # 0
  /\ Goes("heart", "probe", "loop")
  /\ UNCHANGED <<isRunning, troubles, races, processVars>>

ProbeMissed ==
  /\ Goes("heart", "probe", "check")
  /\ IF alive = {} THEN UNCHANGED troubles
     ELSE troubles < MaxTroubles /\ troubles' = troubles + 1
  /\ UNCHANGED <<isRunning, races, processVars>>

\* Fault: the old process is not stopped before the new one is launched.
RestartStopNothing ==
  /\ Goes("heart", "check", "launch")
  /\ UNCHANGED <<isRunning, troubles, races, processVars>>

RestartStop == StopProcess("heart")

\* CreateProcess.
LaunchProcess ==
  /\ Goes("heart", "launch", "assign")
  /\ launches' = launches + 1
  /\ alive' = alive \cup {launches'}
  /\ UNCHANGED <<handle, listening, isRunning, troubles, races>>

\* What it returns is assigned to server_process_.
AssignHandle ==
  /\ Goes("heart", "assign", "loop")
  /\ handle' = launches
  /\ races' = IF mainPc \in {"wait", "close", "forget"} THEN races \cup {"launch"} ELSE races
  /\ UNCHANGED <<alive, listening, launches, isRunning, troubles>>

HeartThread ==
  \/ StartHeart \/ TestRunning \/ ProbeAnswered \/ ProbeMissed
  \/ RestartStop \/ LaunchProcess \/ AssignHandle

-------------------------------------------------------------------------------
(* The main thread. *)

PressEnter ==
  /\ Goes("main", "enter", "clear")
  /\ UNCHANGED <<isRunning, troubles, races, processVars>>

\* Fault: stop() leaves the flag alone.
ClearNothing ==
  /\ Goes("main", "clear", "check")
  /\ UNCHANGED <<isRunning, troubles, races, processVars>>

ClearRunning ==
  /\ Goes("main", "clear", "check")
  /\ isRunning' = FALSE
  /\ UNCHANGED <<troubles, races, processVars>>

StopServer == StopProcess("main")

\* Fault: the destructor does not stop again.
JoinOnly ==
  /\ heartPc = "returned"
  /\ Goes("main", "join", "over")
  /\ isRunning' = FALSE
  /\ UNCHANGED <<troubles, races, processVars>>

\* join, and ~Heart: it calls stop(), whose calls nobody comes between any more.
JoinAndDestroy ==
  /\ heartPc = "returned"
  /\ Goes("main", "join", "over")
  /\ isRunning' = FALSE
  /\ alive' = alive \ {handle}
  /\ listening' = IF listening = handle THEN 0 ELSE listening
  /\ handle' = IF handle \in alive THEN 0 ELSE handle
  /\ UNCHANGED <<troubles, launches, races>>

MainThread == ClearRunning \/ StopServer \/ JoinAndDestroy

HeartNext ==
  \/ HeartThread \/ PressEnter \/ MainThread
  \/ \E p \in alive : Bind(p) \/ Crash(p)

\* The threads and the processes run; nobody need press Enter.
HeartFairness ==
  /\ WF_heartVars(HeartThread) /\ WF_heartVars(MainThread)
  /\ WF_heartVars(\E p \in alive : Bind(p))

HeartSpec == HeartInit /\ [][HeartNext]_heartVars /\ HeartFairness

-------------------------------------------------------------------------------
(* Properties *)

HeartTypeOK ==
  /\ isRunning \in BOOLEAN
  /\ launches \in Nat /\ handle \in 0..launches
  /\ alive \subseteq 1..launches /\ listening \in alive \cup {0}
  /\ troubles \in 0..MaxTroubles
  /\ heartPc \in HeartLabels /\ mainPc \in MainLabels
  /\ races \subseteq Races

\* However restarts, crashes, slow answers and the calls of stop() fall together, there
\* are never two servers alive, unless start() has gone on after stop(): then the loop
\* may launch one beside a server whose handle stop() has thrown away.
OneServer == "start" \in races \/ \A p, q \in alive : p = q

\* When the watchdog has ended no server goes on without it, though stop() may have come
\* between any two calls of a restart, or it is the one that the restart has put into
\* server_process_ between stop()'s TerminateProcess and its hProcess = NULL.
NothingLeftRunning ==
  mainPc = "over" => alive = {} \/ ("launch" \in races /\ alive = {launches})

\* Enter ends the program, whatever the heart thread is at, but in two races: when
\* start() sets is_running again, join waits for ever; when a restart has put a new
\* process into server_process_, WaitForSingleObject may be called on that one.
StopEnds == mainPc = "clear" ~> mainPc = "over" \/ races # {}

\* What stop() says of itself, "Stopping server process": when the program has ended
\* after Enter, there is no server left.
EnterStopsTheServer == mainPc = "over" => alive = {}
===============================================================================
