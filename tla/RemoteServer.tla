---------------------------- MODULE RemoteServer ----------------------------
(***************************************************************************)
(* The agents on the experiment's servers                                  *)
(* (implementation/WAN_exp_controller/core/remote_server.py) and the two   *)
(* directions of their TCP connections to the local controller.            *)
(*                                                                         *)
(* An agent reads a two-byte command, carries it out and answers "r\n".    *)
(* The commands that stop programs first report every program that failed: *)
(* "e\n" and the reason, for which the controller answers "ok".            *)
(*                                                                         *)
(* A connection carries tokens: a command with the argument sent right     *)
(* after it, or one two-byte reply, or a reason.  There is no framing, so  *)
(* what a token means depends on what its reader expects.  The field re    *)
(* of a token names the command it belongs to: it is not on the wire, no   *)
(* guard reads it, and only properties use it.                             *)
(***************************************************************************)
EXTENDS Integers, Sequences

CONSTANTS
  NumServers,  \* number of servers
  Experiments, \* names of experiments
  Scenarios,   \* the coding schemes an experiment is run with
  Receivers, Proxies, Senders, \* names of executables
  Deployed,    \* the servers that have the folder of each experiment
  Builds,      \* the sets of executables make can leave in a folder of each server
  ReasonRest,  \* numbers of two-byte pieces a reason can have beyond 200 bytes
  MaxFailures, \* bound: programs that fail
  None         \* no experiment, no program, no argument

Servers == 0 .. NumServers - 1
Programs == Receivers \cup Proxies \cup Senders

\* The agent's patterns for receivers, proxies and senders have no file name in common.
ASSUME RemoteServerAssumption ==
  /\ NumServers \in Nat \ {0}
  /\ Scenarios \subseteq Nat /\ 0 \in Scenarios
  /\ None \notin Experiments \cup Programs \cup Nat
  /\ Receivers \cap Proxies = {} /\ Receivers \cap Senders = {} /\ Proxies \cap Senders = {}
  /\ Deployed \in [Experiments -> SUBSET Servers]
  /\ Builds \in [Servers -> SUBSET SUBSET Programs]
  /\ ReasonRest \subseteq Nat
  /\ MaxFailures \in Nat

VARIABLES
  pc,           \* where each agent is in its main loop
  doing,        \* the command an agent is carrying out
  rest,         \* the programs its loop has still to visit
  at,           \* the program it is writing to or reporting
  folder,       \* the experiment whose folder it is in, None: ../apps
  scenario,     \* its variable scenario
  progs,        \* its dictionaries proxies, receivers and senders
  toServer,     \* bytes on their way to each agent
  toController, \* bytes on their way to the controller
  failed,       \* number of programs that have failed, for the bound
  failures      \* history: the failures agents have seen in this experiment

agentVars == <<pc, doing, rest, at, folder, scenario>>
serverVars == <<agentVars, progs, toServer, toController, failed, failures>>

-----------------------------------------------------------------------------
StartCommands == {"r", "p", "s"}
StopCommands == {"tr", "tp", "ts"}
PlainCommands == {"tc", "cs", "cr"}
Commands == StartCommands \cup StopCommands \cup PlainCommands \cup {"e", "sc", "q"}

\* The dictionary a command works on.
Kind(c) == CASE c \in {"r", "tr"} -> Receivers
             [] c \in {"p", "tp"} -> Proxies
             [] OTHER -> Senders

\* An entry of a dictionary: no such key, the value None, or a process: running,
\* running with 'q' in its pipe, ended with return code 0, or with another one.
ProgramStates == {"absent", "none", "running", "asked", "ended", "failed"}
Slots == [st : ProgramStates, exp : Experiments \cup {None}, scen : Scenarios]
Absent == [st |-> "absent", exp |-> None, scen |-> 0]
NotStarted == [st |-> "none", exp |-> None, scen |-> 0]

Alive(x) == x.st \in {"running", "asked"}           \* poll() is None
Started(x) == x.st \notin {"absent", "none"}

ToServerTokens ==
  [cmd : {"e"}, arg : Experiments] \cup [cmd : {"sc"}, arg : Scenarios]
    \cup [cmd : (Commands \ {"e", "sc"}) \cup {"ok"}, arg : {None}]
ToControllerTokens ==
  [kind : {"r", "e", "reason", "piece"}, re : Commands, prog : Programs \cup {None}]
Failures ==
  [exp : Experiments \cup {None}, scen : Scenarios, server : Servers, prog : Programs]

Token(k, c, p) == [kind |-> k, re |-> c, prog |-> p]

TypeOKServer ==
  /\ pc \in [Servers -> {"recv", "poll", "write", "reap", "ok", "closed", "dead"}]
  /\ doing \in [Servers -> Commands]
  /\ rest \in [Servers -> SUBSET Programs]
  /\ at \in [Servers -> Programs \cup {None}]
  /\ folder \in [Servers -> Experiments \cup {None}]
  /\ scenario \in [Servers -> Scenarios]
  /\ progs \in [Servers -> [Programs -> Slots]]
  /\ toServer \in [Servers -> Seq(ToServerTokens)]
  /\ toController \in [Servers -> Seq(ToControllerTokens)]
  /\ failed \in 0 .. MaxFailures
  /\ failures \subseteq Failures

\* The state after the set-up of the connections: every agent has its number, its
\* addresses and the bandwidth, and waits for a command in ../apps.
InitServer ==
  /\ pc = [s \in Servers |-> "recv"]
  /\ doing = [s \in Servers |-> "q"]
  /\ rest = [s \in Servers |-> {}]
  /\ at = [s \in Servers |-> None]
  /\ folder = [s \in Servers |-> None]
  /\ scenario = [s \in Servers |-> 0]
  /\ progs = [s \in Servers |-> [p \in Programs |-> Absent]]
  /\ toServer = [s \in Servers |-> <<>>]
  /\ toController = [s \in Servers |-> <<>>]
  /\ failed = 0
  /\ failures = {}

-----------------------------------------------------------------------------
\* The agent waits in recv(2) and the next command is c.
Reads(s, c) ==
  /\ pc[s] = "recv"
  /\ toServer[s] # <<>>
  /\ Head(toServer[s]).cmd = c

Consume(s) == toServer' = [toServer EXCEPT ![s] = Tail(@)]

\* The "r\n" at the end of the loop.
Ready(s, c) == toController' = [toController EXCEPT ![s] = Append(@, Token("r", c, None))]

\* tc, cs and cr run shell commands that no program of the experiment depends on.
Answer(s) ==
  \E c \in PlainCommands :
    /\ Reads(s, c)
    /\ Consume(s)
    /\ Ready(s, c)
    /\ UNCHANGED <<pc, doing, rest, at, folder, scenario, progs, failed, failures>>

(* Mutant of EnterExperiment: after the exception the loop goes on to its end. *)
EnterExperimentNoContinue(s) ==
  /\ Reads(s, "e")
  /\ LET name == Head(toServer[s]).arg IN
       \/ /\ s \in Deployed[name]
          /\ folder' = [folder EXCEPT ![s] = name]
          /\ \E built \in Builds[s] :
               progs' = [progs EXCEPT ![s] =
                           [p \in Programs |-> IF p \in built THEN NotStarted ELSE Absent]]
          /\ Ready(s, "e")
       \/ /\ s \notin Deployed[name]
          /\ toController' = [toController EXCEPT ![s] =
                                @ \o <<Token("r", "e", None), Token("r", "e", None)>>]
          /\ UNCHANGED <<folder, progs>>
  /\ Consume(s)
  /\ UNCHANGED <<pc, doing, rest, at, scenario, failed, failures>>

(* Mutant of EnterExperiment: only the first folder can be entered. *)
EnterExperimentOnce(s) ==
  /\ Reads(s, "e")
  /\ LET name == Head(toServer[s]).arg IN
       \/ /\ s \in Deployed[name] /\ folder[s] = None
          /\ folder' = [folder EXCEPT ![s] = name]
          /\ \E built \in Builds[s] :
               progs' = [progs EXCEPT ![s] =
                           [p \in Programs |-> IF p \in built THEN NotStarted ELSE Absent]]
       \/ /\ s \notin Deployed[name] \/ folder[s] # None
          /\ UNCHANGED <<folder, progs>>
  /\ Consume(s)
  /\ Ready(s, "e")
  /\ UNCHANGED <<pc, doing, rest, at, scenario, failed, failures>>

\* e: enter the folder, make, and look for executables.  If there is no such folder
\* the exception is caught and the answer is the same: folder and dictionaries stay.
EnterExperiment(s) ==
  /\ Reads(s, "e")
  /\ LET name == Head(toServer[s]).arg IN
       \/ /\ s \in Deployed[name]
          /\ folder' = [folder EXCEPT ![s] = name]
          /\ \E built \in Builds[s] :
               progs' = [progs EXCEPT ![s] =
                           [p \in Programs |-> IF p \in built THEN NotStarted ELSE Absent]]
       \/ /\ s \notin Deployed[name]
          /\ UNCHANGED <<folder, progs>>
  /\ Consume(s)
  /\ Ready(s, "e")
  /\ UNCHANGED <<pc, doing, rest, at, scenario, failed, failures>>

SetScenario(s) ==
  /\ Reads(s, "sc")
  /\ scenario' = [scenario EXCEPT ![s] = Head(toServer[s]).arg]
  /\ Consume(s)
  /\ Ready(s, "sc")
  /\ UNCHANGED <<pc, doing, rest, at, folder, progs, failed, failures>>

\* r, p and s start every executable of the dictionary.
Launch(s) ==
  \E c \in StartCommands :
    /\ Reads(s, c)
    /\ progs' = [progs EXCEPT ![s] = [p \in Programs |->
                   IF p \in Kind(c) /\ @[p].st # "absent"
                   THEN [st |-> "running", exp |-> folder[s], scen |-> scenario[s]]
                   ELSE @[p]]]
    /\ Consume(s)
    /\ Ready(s, c)
    /\ UNCHANGED <<pc, doing, rest, at, folder, scenario, failed, failures>>

-----------------------------------------------------------------------------
\* tr, tp and ts.  The first loop writes 'q' to the programs that run.
(* Mutant of StartedOf: a program that has ended is not waited for. *)
StartedOfAlive(s, c) == {p \in Kind(c) : Alive(progs[s][p])}

StartedOf(s, c) == {p \in Kind(c) : Started(progs[s][p])}

BeginStop(s) ==
  \E c \in StopCommands :
    /\ Reads(s, c)
    /\ Consume(s)
    /\ pc' = [pc EXCEPT ![s] = "poll"]
    /\ doing' = [doing EXCEPT ![s] = c]
    /\ rest' = [rest EXCEPT ![s] = StartedOf(s, c)]
    /\ UNCHANGED <<at, folder, scenario, progs, toController, failed, failures>>

Poll(s) ==
  /\ pc[s] = "poll"
  /\ \E p \in rest[s] :
       IF Alive(progs[s][p])
       THEN /\ pc' = [pc EXCEPT ![s] = "write"]
            /\ at' = [at EXCEPT ![s] = p]
            /\ UNCHANGED rest
       ELSE /\ rest' = [rest EXCEPT ![s] = @ \ {p}]
            /\ UNCHANGED <<pc, at>>
  /\ UNCHANGED <<doing, folder, scenario, progs, toServer, toController, failed, failures>>

\* A program that ended after poll() has closed its pipe: flush() raises, nothing
\* catches it, and the agent dies with its connection.
WriteQuit(s) ==
  /\ pc[s] = "write"
  /\ LET p == at[s] IN
       \/ /\ Alive(progs[s][p])
          /\ progs' = [progs EXCEPT ![s][p].st = "asked"]
          /\ rest' = [rest EXCEPT ![s] = @ \ {p}]
          /\ pc' = [pc EXCEPT ![s] = "poll"]
       \/ /\ ~Alive(progs[s][p])
          /\ pc' = [pc EXCEPT ![s] = "dead"]
          /\ UNCHANGED <<progs, rest>>
  /\ at' = [at EXCEPT ![s] = None]
  /\ UNCHANGED <<doing, folder, scenario, toServer, toController, failed, failures>>

BeginReap(s) ==
  /\ pc[s] = "poll"
  /\ rest[s] = {}
  /\ pc' = [pc EXCEPT ![s] = "reap"]
  /\ rest' = [rest EXCEPT ![s] = StartedOf(s, doing[s])]
  /\ UNCHANGED <<doing, at, folder, scenario, progs, toServer, toController, failed, failures>>

\* The second loop: wait_and_print returns when the program has ended, with its
\* return code; a failure is sent with its reason.
Reap(s) ==
  /\ pc[s] = "reap"
  /\ \E p \in rest[s] :
       /\ ~Alive(progs[s][p])
       /\ rest' = [rest EXCEPT ![s] = @ \ {p}]
       /\ \/ /\ progs[s][p].st = "ended"
             /\ progs' = [progs EXCEPT ![s][p] = NotStarted]
             /\ UNCHANGED <<pc, at, toController, failures>>
          \/ /\ progs[s][p].st = "failed"
             /\ pc' = [pc EXCEPT ![s] = "ok"]
             /\ at' = [at EXCEPT ![s] = p]
             /\ \E n \in ReasonRest :
                  toController' = [toController EXCEPT ![s] =
                     @ \o <<Token("e", doing[s], p), Token("reason", doing[s], p)>>
                       \o [i \in 1 .. n |-> Token("piece", doing[s], p)]]
             /\ failures' = failures \cup {[exp |-> progs[s][p].exp,
                   scen |-> progs[s][p].scen, server |-> s, prog |-> p]}
             /\ UNCHANGED progs
  /\ UNCHANGED <<doing, folder, scenario, toServer, failed>>

\* recv(2) after a reason takes any two bytes for the "ok".
GetOk(s) ==
  /\ pc[s] = "ok"
  /\ toServer[s] # <<>>
  /\ Consume(s)
  /\ progs' = [progs EXCEPT ![s][at[s]] = NotStarted]
  /\ at' = [at EXCEPT ![s] = None]
  /\ pc' = [pc EXCEPT ![s] = "reap"]
  /\ UNCHANGED <<doing, rest, folder, scenario, toController, failed, failures>>

FinishStop(s) ==
  /\ pc[s] = "reap"
  /\ rest[s] = {}
  /\ Ready(s, doing[s])
  /\ pc' = [pc EXCEPT ![s] = "recv"]
  /\ doing' = [doing EXCEPT ![s] = "q"]
  /\ UNCHANGED <<rest, at, folder, scenario, progs, toServer, failed, failures>>

\* q: leave the loop without an answer and close the connection.
Leave(s) ==
  /\ Reads(s, "q")
  /\ Consume(s)
  /\ pc' = [pc EXCEPT ![s] = "closed"]
  /\ UNCHANGED <<doing, rest, at, folder, scenario, progs, toController, failed, failures>>

ServerStep(s) ==
  \/ Answer(s) \/ EnterExperiment(s) \/ SetScenario(s) \/ Launch(s)
  \/ BeginStop(s) \/ Poll(s) \/ WriteQuit(s) \/ BeginReap(s) \/ Reap(s)
  \/ GetOk(s) \/ FinishStop(s) \/ Leave(s)

-----------------------------------------------------------------------------
\* The programs, which the agents start: src/implementation/src.  One that is asked
\* to ends; one that runs may fail, before it is asked or while it ends.
ProgramEnds(s, p) ==
  /\ progs[s][p].st = "asked"
  /\ progs' = [progs EXCEPT ![s][p].st = "ended"]
  /\ UNCHANGED <<agentVars, toServer, toController, failed, failures>>

ProgramFails(s, p) ==
  /\ failed < MaxFailures
  /\ Alive(progs[s][p])
  /\ progs' = [progs EXCEPT ![s][p].st = "failed"]
  /\ failed' = failed + 1
  /\ UNCHANGED <<agentVars, toServer, toController, failures>>

ProgramStep == \E s \in Servers, p \in Programs : ProgramEnds(s, p) \/ ProgramFails(s, p)

Serving(s) == pc[s] \notin {"closed", "dead"}

\* A broken pipe has killed the agent in ts: its other senders run on, and nobody
\* will stop them.
DiedAmongSenders(s) == pc[s] = "dead" /\ doing[s] = "ts"
=============================================================================
