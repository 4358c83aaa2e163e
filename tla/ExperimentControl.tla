------------------------- MODULE ExperimentControl -------------------------
(***************************************************************************)
(* How the local controller runs one experiment on all servers             *)
(* (implementation/WAN_exp_controller/core/local_controller.py):           *)
(* experiment() sends a command to every server, wait_for_ready() reads a  *)
(* reply of every server in the same order, and so on to the last command. *)
(*                                                                         *)
(* A send to, or a recv from, a connection whose agent is dead either does *)
(* nothing, as if the answer had come, or raises.  An exception ends the   *)
(* controller, except below the menu's rr, whose bare except goes back to  *)
(* the menu.                                                               *)
(***************************************************************************)
EXTENDS RemoteServer

CONSTANT TestProxy  \* test_proxy: the server whose proxies are started by hand, or -1

ASSUME ExperimentControlAssumption == TestProxy \in Servers \cup {-1}

VARIABLES
  phase,        \* outside experiment(), sending, waiting, quit, or ended by an exception
  cmd,          \* the command being sent or waited for
  idx,          \* the server the loop is at
  exp,          \* current_experiment
  scen,         \* current_scenario
  scensLeft,    \* the scenarios the loop has still to run
  caught,       \* an exception would be caught: below rr
  raised,       \* history: there has been one
  errorReasons  \* error_reasons

controlVars == <<phase, cmd, idx, exp, scen, scensLeft, caught, raised>>
vars == <<serverVars, controlVars, errorReasons>>

Reasons ==
  [scen : Scenarios \cup {None}, server : Servers, prog : Programs \cup {None}]

TypeOK ==
  /\ TypeOKServer
  /\ phase \in {"ready", "send", "wait", "closed", "dead"}
  /\ cmd \in Commands
  /\ idx \in Servers
  /\ exp \in Experiments \cup {None}
  /\ scen \in Scenarios \cup {None}
  /\ scensLeft \in Seq(Scenarios)
  /\ caught \in BOOLEAN /\ raised \in BOOLEAN
  /\ errorReasons \in [Experiments -> SUBSET Reasons]

InitControl ==
  /\ phase = "ready" /\ cmd = "q" /\ idx = 0
  /\ exp = None /\ scen = None /\ scensLeft = <<>>
  /\ caught = FALSE /\ raised = FALSE
  /\ errorReasons = [e \in Experiments |-> {}]

Init == InitServer /\ InitControl

-----------------------------------------------------------------------------
\* The servers a command is sent to, and those whose reply is waited for.
SentTo(c) == IF c = "p" THEN Servers \ {TestProxy} ELSE Servers
WaitedFor(c) == IF c \in {"p", "tp"} THEN Servers \ {TestProxy} ELSE Servers

(* Mutant of Following: senders are started before the proxies. *)
FollowingSendersFirst == [e |-> "cr", tc |-> "cs", cs |-> "sc", sc |-> "r", r |-> "s",
                          s |-> "p", p |-> "ts", ts |-> "tp", tp |-> "tr"]

\* The order of the commands; after cr and after tr the next scenario begins.
Following == [e |-> "cr", tc |-> "cs", cs |-> "sc", sc |-> "r", r |-> "p",
              p |-> "s", s |-> "ts", ts |-> "tp", tp |-> "tr"]

Argument(c) == CASE c = "e" -> exp
                 [] c = "sc" -> scen
                 [] OTHER -> None

Broadcast(c) == phase' = "send" /\ cmd' = c /\ idx' = 0

NextCommand ==
  IF cmd \in {"cr", "tr"}
  THEN /\ IF scensLeft = <<>>
          THEN phase' = "ready" /\ UNCHANGED <<cmd, idx>>
          ELSE Broadcast("tc")
       /\ UNCHANGED <<scen, scensLeft>>
  ELSE /\ Broadcast(Following[cmd])
       /\ IF cmd = "cs"
          THEN scen' = Head(scensLeft) /\ scensLeft' = Tail(scensLeft)
          ELSE UNCHANGED <<scen, scensLeft>>

Raise ==
  /\ phase' = IF caught THEN "ready" ELSE "dead"
  /\ raised' = TRUE

-----------------------------------------------------------------------------
\* experiment(name, scens), called from the menu; byRerun: below rr.
Begin(name, scens, byRerun) ==
  /\ phase = "ready"
  /\ exp' = name
  /\ scensLeft' = scens
  /\ caught' = byRerun
  /\ Broadcast("e")
  /\ failures' = {}
  /\ UNCHANGED <<agentVars, progs, toServer, toController, failed,
                 scen, raised, errorReasons>>

\* q: local_controller() sends "q\n" to every server and closes the connections.
BeginQuit ==
  /\ phase = "ready"
  /\ Broadcast("q")
  /\ caught' = FALSE
  /\ UNCHANGED <<serverVars, exp, scen, scensLeft, raised, errorReasons>>

AfterSend ==
  IF idx + 1 \in Servers
  THEN idx' = idx + 1 /\ UNCHANGED phase
  ELSE idx' = 0 /\ phase' = IF cmd = "q" THEN "closed" ELSE "wait"

SendOne ==
  /\ phase = "send"
  /\ AfterSend
  /\ IF idx \in SentTo(cmd) /\ pc[idx] # "dead"
     THEN toServer' = [toServer EXCEPT ![idx] =
                         Append(@, [cmd |-> cmd, arg |-> Argument(cmd)])]
     ELSE UNCHANGED toServer
  /\ UNCHANGED <<agentVars, progs, toController, failed, failures, cmd, exp, scen,
                 scensLeft, caught, raised, errorReasons>>

-----------------------------------------------------------------------------
(* Mutant of AfterReply: off by one. *)
AfterReplyLate ==
  IF idx \in Servers
  THEN idx' = idx + 1 /\ UNCHANGED <<phase, cmd, scen, scensLeft>>
  ELSE NextCommand

\* wait_for_ready() is done with the server at idx.
AfterReply ==
  IF idx + 1 \in Servers
  THEN idx' = idx + 1 /\ UNCHANGED <<phase, cmd, scen, scensLeft>>
  ELSE NextCommand

Awaits == phase = "wait" /\ idx \in WaitedFor(cmd)

\* Any two bytes but "e\n" mean that the server is ready.
TakeReady ==
  /\ Awaits
  /\ toController[idx] # <<>>
  /\ Head(toController[idx]).kind # "e"
  /\ toController' = [toController EXCEPT ![idx] = Tail(@)]
  /\ AfterReply
  /\ UNCHANGED <<agentVars, progs, toServer, failed, failures, exp, caught, raised,
                 errorReasons>>

(* Mutant of TakeError: the list of reasons is started anew each time. *)
TakeErrorLastOnly ==
  /\ Awaits
  /\ Len(toController[idx]) > 1
  /\ Head(toController[idx]).kind = "e"
  /\ LET reason == toController[idx][2] IN
       errorReasons' = [errorReasons EXCEPT ![exp] =
          {[scen |-> scen, server |-> idx, prog |-> reason.prog]}]
  /\ toController' = [toController EXCEPT ![idx] = Tail(Tail(@))]
  /\ IF pc[idx] = "dead"
     THEN UNCHANGED toServer
     ELSE toServer' = [toServer EXCEPT ![idx] = Append(@, [cmd |-> "ok", arg |-> None])]
  /\ UNCHANGED <<agentVars, progs, failed, failures, controlVars>>

(* Mutant of TakeError: no answer to the reason. *)
TakeErrorNoOk ==
  /\ Awaits
  /\ Len(toController[idx]) > 1
  /\ Head(toController[idx]).kind = "e"
  /\ LET reason == toController[idx][2] IN
       errorReasons' = [errorReasons EXCEPT ![exp] =
          @ \cup {[scen |-> scen, server |-> idx, prog |-> reason.prog]}]
  /\ toController' = [toController EXCEPT ![idx] = Tail(Tail(@))]
  /\ UNCHANGED <<agentVars, toServer, progs, failed, failures, controlVars>>

\* "e\n": read the reason, at most 200 bytes of it, record it, answer "ok", and read
\* the next reply of the same server.
TakeError ==
  /\ Awaits
  /\ Len(toController[idx]) > 1
  /\ Head(toController[idx]).kind = "e"
  /\ LET reason == toController[idx][2] IN
       errorReasons' = [errorReasons EXCEPT ![exp] =
          @ \cup {[scen |-> scen, server |-> idx, prog |-> reason.prog]}]
  /\ toController' = [toController EXCEPT ![idx] = Tail(Tail(@))]
  /\ IF pc[idx] = "dead"
     THEN UNCHANGED toServer
     ELSE toServer' = [toServer EXCEPT ![idx] = Append(@, [cmd |-> "ok", arg |-> None])]
  /\ UNCHANGED <<agentVars, progs, failed, failures, controlVars>>

\* The server is passed over: test_proxy, or a closed connection, whose recv()
\* returns no bytes, which are not "e\n".
PassOver ==
  /\ phase = "wait"
  /\ idx \in WaitedFor(cmd) => pc[idx] = "dead" /\ toController[idx] = <<>>
  /\ AfterReply
  /\ UNCHANGED <<serverVars, exp, caught, raised, errorReasons>>

\* A send to a dead agent, or a recv from it, raises.
Fail ==
  /\ \/ phase = "send" /\ idx \in SentTo(cmd)
     \/ Awaits /\ toController[idx] = <<>>
  /\ pc[idx] = "dead"
  /\ Raise
  /\ UNCHANGED <<serverVars, cmd, idx, exp, scen, scensLeft, caught, errorReasons>>

ControllerStep ==
  SendOne \/ TakeReady \/ TakeError \/ PassOver \/ Fail

-----------------------------------------------------------------------------
OfServers(A) == A /\ UNCHANGED <<controlVars, errorReasons>>

-----------------------------------------------------------------------------
\* The current command has been sent to the server and its answer has not been taken.
Unanswered(s) ==
  \/ phase = "send" /\ s < idx
  \/ phase = "wait" /\ idx <= s

\* A reply is taken for the command the controller waits for, whatever it answers:
\* nothing on the wire says so.  What is unread from a server answers the current
\* command, and no agent is still busy with an earlier one.
RepliesMatch ==
  ~raised =>
    \A s \in Servers :
      /\ \A i \in DOMAIN toController[s] : Unanswered(s) /\ toController[s][i].re = cmd
      /\ pc[s] \in {"poll", "write", "reap", "ok"} => Unanswered(s) /\ doing[s] = cmd

\* No sender runs, on any server, before every serving agent has started its receivers
\* and proxies, nor after one has taken a receiver or a proxy of its own down.  The one
\* exception is a server whose agent was killed by a broken pipe while it was stopping
\* senders: the others are still running when the controller, which passes over the dead
\* agent, has the proxies and receivers of the other servers taken down.
SendersInBetween ==
  ~raised =>
    \A s \in Servers, t \in {u \in Servers : Serving(u)} :
      (\E p \in Senders : Alive(progs[s][p])) /\ ~DiedAmongSenders(s) =>
        \A q \in Receivers \cup Proxies : progs[t][q].st # "none"

\* While an experiment or a scenario is being set up no agent has a program of the
\* one before: its dictionaries are about to be overwritten, and a program that is
\* no longer in them is never stopped.
NothingLeftRunning ==
  ~raised /\ phase \in {"send", "wait"} /\ cmd \in {"e", "cr", "tc", "cs", "sc", "q"} =>
    \A s \in {u \in Servers : Serving(u)}, p \in Programs : ~Started(progs[s][p])

\* Programs of a serving agent run with the controller's scenario and are of the folder
\* the agent is in, which its server has.  That is the folder of the controller's
\* experiment if the server has that one; else nobody is told, and the programs are
\* those of the experiment the agent entered last.
ProgramsOfThisScenario ==
  ~raised =>
    \A s \in {u \in Servers : Serving(u)}, p \in Programs :
      Started(progs[s][p]) =>
        /\ progs[s][p].scen = scen
        /\ progs[s][p].exp = folder[s] /\ s \in Deployed[folder[s]]
        /\ s \in Deployed[exp] => folder[s] = exp
=============================================================================
