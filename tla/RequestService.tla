----------------------------- MODULE RequestService -----------------------------
(***************************************************************************)
(* What a client may rely on when it has sent a request, whichever         *)
(* controller serves it and whatever becomes of the server: the request is *)
(* answered once or never, its answer does not change, and it is given out *)
(* to one get.  A request whose task throws, or whose server dies, is lost *)
(* and stays so.                                                           *)
(***************************************************************************)
EXTENDS Naturals

CONSTANTS
  Id,       \* requests
  Reply,    \* answers
  NoReply   \* no answer yet, or no more

VARIABLES
  stage,    \* how far each request has come
  reply,    \* its answer
  times     \* how often its answer has been given out

serviceVars == <<stage, reply, times>>

Stages == {"new", "asked", "answered", "given", "lost"}

RequestServiceInit ==
  /\ stage = [i \in Id |-> "new"]
  /\ reply = [i \in Id |-> NoReply]
  /\ times = [i \in Id |-> 0]

Ask(i) ==
  /\ stage[i] = "new"
  /\ stage' = [stage EXCEPT ![i] = "asked"]
  /\ UNCHANGED <<reply, times>>

Answered(i) ==
  /\ stage[i] = "asked"
  /\ stage' = [stage EXCEPT ![i] = "answered"]
  /\ reply'[i] \in Reply /\ reply' = [reply EXCEPT ![i] = reply'[i]]
  /\ UNCHANGED times

Give(i) ==
  /\ stage[i] = "answered"
  /\ stage' = [stage EXCEPT ![i] = "given"]
  /\ times' = [times EXCEPT ![i] = @ + 1]
  /\ UNCHANGED reply

\* One request whose task throws, or all that a server takes with it.
Lose(gone) ==
  /\ \A i \in gone : stage[i] \in {"asked", "answered"}
  /\ stage' = [i \in Id |-> IF i \in gone THEN "lost" ELSE stage[i]]
  /\ reply' = [i \in Id |-> IF i \in gone THEN NoReply ELSE reply[i]]
  /\ UNCHANGED times

RequestServiceNext ==
  \/ \E i \in Id : Ask(i) \/ Answered(i) \/ Give(i)
  \/ \E gone \in SUBSET Id : Lose(gone)

RequestServiceSpec == RequestServiceInit /\ [][RequestServiceNext]_serviceVars
===============================================================================
