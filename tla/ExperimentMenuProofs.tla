------------------------ MODULE ExperimentMenuProofs ------------------------
(***************************************************************************)
(* Types; that replies stay in step with commands; that programs are       *)
(* started and stopped in order, as what the experiment says; and that     *)
(* failures are recorded: for every number of servers and programs, every  *)
(* list of experiments and any number of failures.                         *)
(***************************************************************************)
EXTENDS ExperimentMenu, SequenceTheorems, FiniteSetTheorems, TLAPS

----------------------------------------------------------------------------
(* What a step of an agent or of a program does to types, for every number *)
(* of servers and every set of experiments, scenarios and programs.        *)

AllProgs == [Servers -> [Programs -> Slots]]

\* An agent that writes to a program or reports one has one at hand.
AtHand == \A s \in Servers : pc[s] \in {"write", "ok"} => at[s] \in Programs

(* There is a first server. *)
LEMMA ServerZero == 0 \in Servers /\ Servers \subseteq Int
BY RemoteServerAssumption DEF Servers

(* The values an entry of a dictionary is given. *)
LEMMA SlotFacts ==
  /\ Absent \in Slots /\ NotStarted \in Slots
  /\ \A e \in Experiments \cup {None}, n \in Scenarios :
       [st |-> "running", exp |-> e, scen |-> n] \in Slots
BY RemoteServerAssumption DEF Slots, Absent, NotStarted, ProgramStates

(* Setting an entry of a dictionary keeps the dictionaries typed. *)
LEMMA EntryTyped ==
  ASSUME NEW f \in AllProgs, NEW s \in Servers, NEW p \in Programs, NEW x \in Slots
  PROVE  [f EXCEPT ![s][p] = x] \in AllProgs
BY DEF AllProgs

(* Setting the state of an entry keeps the dictionaries typed. *)
LEMMA StateTyped ==
  ASSUME NEW f \in AllProgs, NEW s \in Servers, NEW p \in Programs,
         NEW t \in ProgramStates
  PROVE  [f EXCEPT ![s][p].st = t] \in AllProgs
<1>1. f[s][p] \in Slots
  BY DEF AllProgs
<1>2. [f[s][p] EXCEPT !.st = t] \in Slots
  BY <1>1 DEF Slots
<1>3. [f EXCEPT ![s][p].st = t] = [f EXCEPT ![s][p] = [f[s][p] EXCEPT !.st = t]]
  BY DEF AllProgs
<1> QED
  BY <1>2, <1>3, EntryTyped

(* A token made for a command and a program is a token to the controller. *)
LEMMA TokenFacts ==
  ASSUME NEW c \in Commands, NEW p \in Programs \cup {None},
         NEW k \in {"r", "e", "reason", "piece"}
  PROVE  Token(k, c, p) \in ToControllerTokens
BY DEF Token, ToControllerTokens

(* The commands of each kind are commands. *)
LEMMA CommandFacts ==
  /\ "e" \in Commands /\ "sc" \in Commands /\ "q" \in Commands
  /\ PlainCommands \subseteq Commands
  /\ StartCommands \subseteq Commands
  /\ StopCommands \subseteq Commands
BY DEF Commands

(* What a stop command visits are programs. *)
LEMMA StartedOfFacts ==
  ASSUME NEW c, NEW s
  PROVE  StartedOf(s, c) \subseteq Programs
<1>1. Kind(c) \subseteq Programs
  BY DEF Kind, Programs
<1> QED
  BY <1>1 DEF StartedOf

(* Reading keeps the connections to the agents typed. *)
LEMMA ConsumeTyped ==
  ASSUME toServer \in [Servers -> Seq(ToServerTokens)], NEW s \in Servers,
         toServer[s] # <<>>, Consume(s)
  PROVE  toServer' \in [Servers -> Seq(ToServerTokens)]
BY DEF Consume

(* So does an answer with the connections to the controller. *)
LEMMA ReadyTyped ==
  ASSUME toController \in [Servers -> Seq(ToControllerTokens)], NEW s \in Servers,
         NEW c \in Commands, Ready(s, c)
  PROVE  toController' \in [Servers -> Seq(ToControllerTokens)]
<1>1. Token("r", c, None) \in ToControllerTokens
  BY TokenFacts
<1> QED
  BY <1>1 DEF Ready

(* And a report of a failure. *)
LEMMA ReportTyped ==
  ASSUME NEW q \in Seq(ToControllerTokens), NEW c \in Commands, NEW p \in Programs,
         NEW n \in Nat
  PROVE  q \o <<Token("e", c, p), Token("reason", c, p)>>
           \o [i \in 1 .. n |-> Token("piece", c, p)] \in Seq(ToControllerTokens)
<1>1. /\ Token("e", c, p) \in ToControllerTokens
      /\ Token("reason", c, p) \in ToControllerTokens
      /\ Token("piece", c, p) \in ToControllerTokens
  BY TokenFacts
<1>2. [i \in 1 .. n |-> Token("piece", c, p)] \in Seq(ToControllerTokens)
  BY <1>1
<1>3. <<Token("e", c, p), Token("reason", c, p)>> \in Seq(ToControllerTokens)
  BY <1>1
<1>4. q \o <<Token("e", c, p), Token("reason", c, p)>> \in Seq(ToControllerTokens)
  BY <1>3, ConcatProperties
<1> QED
  BY <1>2, <1>4, ConcatProperties

(* The argument that comes with a command. *)
LEMMA HeadTyped ==
  ASSUME toServer \in [Servers -> Seq(ToServerTokens)], NEW s \in Servers,
         toServer[s] # <<>>
  PROVE  /\ Head(toServer[s]).cmd = "e" => Head(toServer[s]).arg \in Experiments
         /\ Head(toServer[s]).cmd = "sc" => Head(toServer[s]).arg \in Scenarios
<1>1. Head(toServer[s]) \in ToServerTokens
  OBVIOUS
<1> QED
  BY <1>1 DEF ToServerTokens

-----------------------------------------------------------------------------
(* The agents start typed. *)
LEMMA InitServerTyped == InitServer => TypeOKServer /\ AtHand
<1> SUFFICES ASSUME InitServer PROVE TypeOKServer /\ AtHand
  OBVIOUS
<1> USE DEF InitServer
<1>1. progs \in [Servers -> [Programs -> Slots]]
  BY SlotFacts
<1>2. failures \subseteq Failures /\ failed \in 0 .. MaxFailures
  BY RemoteServerAssumption
<1>3. scenario \in [Servers -> Scenarios] /\ doing \in [Servers -> Commands]
  BY RemoteServerAssumption, CommandFacts
<1>4. /\ toServer \in [Servers -> Seq(ToServerTokens)]
      /\ toController \in [Servers -> Seq(ToControllerTokens)]
  OBVIOUS
<1> QED
  BY <1>1, <1>2, <1>3, <1>4 DEF TypeOKServer, AtHand

(* A step of an agent keeps everything of the agents typed. *)
LEMMA AgentTyped ==
  ASSUME TypeOKServer, AtHand, NEW s \in Servers, ServerStep(s)
  PROVE  TypeOKServer' /\ AtHand'
<1> USE DEF TypeOKServer, AtHand
<1>1. CASE Answer(s)
  <2> PICK c \in PlainCommands :
        /\ Reads(s, c) /\ Consume(s) /\ Ready(s, c)
        /\ UNCHANGED <<pc, doing, rest, at, folder, scenario, progs, failed, failures>>
    BY <1>1 DEF Answer
  <2>1. toServer' \in [Servers -> Seq(ToServerTokens)]
    BY ConsumeTyped DEF Reads
  <2>2. toController' \in [Servers -> Seq(ToControllerTokens)]
    BY ReadyTyped, CommandFacts
  <2> QED
    BY <2>1, <2>2
<1>2. CASE EnterExperiment(s)
  <2> DEFINE name == Head(toServer[s]).arg
  <2>0. /\ Reads(s, "e") /\ Consume(s) /\ Ready(s, "e")
        /\ UNCHANGED <<pc, doing, rest, at, scenario, failed, failures>>
    BY <1>2 DEF EnterExperiment
  <2>1. toServer' \in [Servers -> Seq(ToServerTokens)]
    BY <2>0, ConsumeTyped DEF Reads
  <2>2. toController' \in [Servers -> Seq(ToControllerTokens)]
    BY <2>0, ReadyTyped, CommandFacts
  <2>3. name \in Experiments
    BY <2>0, HeadTyped DEF Reads
  <2>4. /\ folder' \in [Servers -> Experiments \cup {None}]
        /\ progs' \in [Servers -> [Programs -> Slots]]
    <3>1. CASE UNCHANGED <<folder, progs>>
      BY <3>1
    <3>2. CASE \E built \in Builds[s] :
            /\ folder' = [folder EXCEPT ![s] = name]
            /\ progs' = [progs EXCEPT ![s] =
                  [p \in Programs |-> IF p \in built THEN NotStarted ELSE Absent]]
      <4>1. PICK built \in Builds[s] :
              /\ folder' = [folder EXCEPT ![s] = name]
              /\ progs' = [progs EXCEPT ![s] =
                    [p \in Programs |-> IF p \in built THEN NotStarted ELSE Absent]]
        BY <3>2
      <4>2. [p \in Programs |-> IF p \in built THEN NotStarted ELSE Absent]
               \in [Programs -> Slots]
        BY SlotFacts
      <4> QED
        BY <4>1, <4>2, <2>3
    <3> QED
      BY <1>2, <3>1, <3>2 DEF EnterExperiment
  <2> QED
    BY <2>0, <2>1, <2>2, <2>4
<1>3. CASE SetScenario(s)
  <2> USE <1>3 DEF SetScenario
  <2>1. toServer' \in [Servers -> Seq(ToServerTokens)]
    BY ConsumeTyped DEF Reads
  <2>2. toController' \in [Servers -> Seq(ToControllerTokens)]
    BY ReadyTyped, CommandFacts
  <2>3. Head(toServer[s]).arg \in Scenarios
    BY HeadTyped DEF Reads
  <2>4. scenario' \in [Servers -> Scenarios]
    BY <2>3
  <2> QED
    BY <2>1, <2>2, <2>4
<1>4. CASE Launch(s)
  <2> DEFINE launched == [st |-> "running", exp |-> folder[s], scen |-> scenario[s]]
  <2> PICK c \in StartCommands :
        /\ Reads(s, c) /\ Consume(s) /\ Ready(s, c)
        /\ progs' = [progs EXCEPT ![s] = [p \in Programs |->
             IF p \in Kind(c) /\ progs[s][p].st # "absent" THEN launched ELSE progs[s][p]]]
        /\ UNCHANGED <<pc, doing, rest, at, folder, scenario, failed, failures>>
    BY <1>4 DEF Launch
  <2>1. toServer' \in [Servers -> Seq(ToServerTokens)]
    BY ConsumeTyped DEF Reads
  <2>2. toController' \in [Servers -> Seq(ToControllerTokens)]
    BY ReadyTyped, CommandFacts
  <2>3. launched \in Slots
    BY SlotFacts
  <2>4. progs' \in [Servers -> [Programs -> Slots]]
    BY <2>3
  <2> QED
    BY <2>1, <2>2, <2>4
<1>5. CASE BeginStop(s)
  <2> PICK c \in StopCommands :
        /\ Reads(s, c) /\ Consume(s)
        /\ pc' = [pc EXCEPT ![s] = "poll"]
        /\ doing' = [doing EXCEPT ![s] = c]
        /\ rest' = [rest EXCEPT ![s] = StartedOf(s, c)]
        /\ UNCHANGED <<at, folder, scenario, progs, toController, failed, failures>>
    BY <1>5 DEF BeginStop
  <2>1. toServer' \in [Servers -> Seq(ToServerTokens)]
    BY ConsumeTyped DEF Reads
  <2>2. doing' \in [Servers -> Commands]
    BY CommandFacts
  <2>3. rest' \in [Servers -> SUBSET Programs]
    BY StartedOfFacts
  <2> QED
    BY <2>1, <2>2, <2>3
<1>6. CASE Poll(s)
  <2>1. PICK p \in rest[s] :
        \/ /\ pc' = [pc EXCEPT ![s] = "write"]
           /\ at' = [at EXCEPT ![s] = p]
           /\ UNCHANGED rest
        \/ /\ rest' = [rest EXCEPT ![s] = @ \ {p}]
           /\ UNCHANGED <<pc, at>>
    BY <1>6 DEF Poll
  <2>2. UNCHANGED <<doing, folder, scenario, progs, toServer, toController, failed, failures>>
    BY <1>6 DEF Poll
  <2>3. p \in Programs
    OBVIOUS
  <2>4. CASE /\ pc' = [pc EXCEPT ![s] = "write"]
             /\ at' = [at EXCEPT ![s] = p]
             /\ UNCHANGED rest
    BY <2>2, <2>3, <2>4
  <2>5. CASE /\ rest' = [rest EXCEPT ![s] = @ \ {p}]
             /\ UNCHANGED <<pc, at>>
    BY <2>2, <2>5
  <2> QED
    BY <2>1, <2>4, <2>5
<1>7. CASE WriteQuit(s)
  <2>0. at[s] \in Programs
    BY <1>7 DEF WriteQuit
  <2>1. /\ at' = [at EXCEPT ![s] = None]
        /\ UNCHANGED <<doing, folder, scenario, toServer, toController, failed, failures>>
    BY <1>7 DEF WriteQuit
  <2>2. CASE /\ progs' = [progs EXCEPT ![s][at[s]].st = "asked"]
             /\ rest' = [rest EXCEPT ![s] = @ \ {at[s]}]
             /\ pc' = [pc EXCEPT ![s] = "poll"]
    <3>1. progs' \in [Servers -> [Programs -> Slots]]
      BY <2>0, <2>2, StateTyped DEF AllProgs, ProgramStates
    <3> QED
      BY <2>1, <2>2, <3>1
  <2>3. CASE pc' = [pc EXCEPT ![s] = "dead"] /\ UNCHANGED <<progs, rest>>
    BY <2>1, <2>3
  <2> QED
    BY <1>7, <2>2, <2>3 DEF WriteQuit
<1>8. CASE BeginReap(s)
  BY <1>8, StartedOfFacts DEF BeginReap
<1>9. CASE Reap(s)
  <2>1. PICK p \in rest[s] :
        /\ rest' = [rest EXCEPT ![s] = @ \ {p}]
        /\ \/ /\ progs' = [progs EXCEPT ![s][p] = NotStarted]
              /\ UNCHANGED <<pc, at, toController, failures>>
           \/ /\ pc' = [pc EXCEPT ![s] = "ok"]
              /\ at' = [at EXCEPT ![s] = p]
              /\ \E n \in ReasonRest :
                   toController' = [toController EXCEPT ![s] =
                      @ \o <<Token("e", doing[s], p), Token("reason", doing[s], p)>>
                        \o [i \in 1 .. n |-> Token("piece", doing[s], p)]]
              /\ failures' = failures \cup {[exp |-> progs[s][p].exp,
                    scen |-> progs[s][p].scen, server |-> s, prog |-> p]}
              /\ UNCHANGED progs
    BY <1>9 DEF Reap
  <2>2. UNCHANGED <<doing, folder, scenario, toServer, failed>>
    BY <1>9 DEF Reap
  <2>3. p \in Programs /\ progs[s][p] \in Slots
    OBVIOUS
  <2>4. CASE /\ progs' = [progs EXCEPT ![s][p] = NotStarted]
             /\ UNCHANGED <<pc, at, toController, failures>>
    <3>1. progs' \in [Servers -> [Programs -> Slots]]
      BY <2>3, <2>4, SlotFacts, EntryTyped DEF AllProgs
    <3> QED
      BY <2>1, <2>2, <2>4, <3>1
  <2>5. CASE
      /\ pc' = [pc EXCEPT ![s] = "ok"]
      /\ at' = [at EXCEPT ![s] = p]
      /\ \E n \in ReasonRest :
           toController' = [toController EXCEPT ![s] =
              @ \o <<Token("e", doing[s], p), Token("reason", doing[s], p)>>
                \o [i \in 1 .. n |-> Token("piece", doing[s], p)]]
      /\ failures' = failures \cup {[exp |-> progs[s][p].exp,
            scen |-> progs[s][p].scen, server |-> s, prog |-> p]}
      /\ UNCHANGED progs
    <3>1. PICK n \in ReasonRest :
           toController' = [toController EXCEPT ![s] =
              @ \o <<Token("e", doing[s], p), Token("reason", doing[s], p)>>
                \o [i \in 1 .. n |-> Token("piece", doing[s], p)]]
      BY <2>5
    <3>2. toController[s] \o <<Token("e", doing[s], p), Token("reason", doing[s], p)>>
            \o [i \in 1 .. n |-> Token("piece", doing[s], p)] \in Seq(ToControllerTokens)
      <4>1. n \in Nat
        BY RemoteServerAssumption
      <4>2. toController[s] \in Seq(ToControllerTokens) /\ doing[s] \in Commands
        OBVIOUS
      <4> HIDE DEF TypeOKServer
      <4> QED
        BY ONLY <2>3, <4>1, <4>2, ReportTyped
    <3>3. toController' \in [Servers -> Seq(ToControllerTokens)]
      BY <3>1, <3>2
    <3>4. failures' \subseteq Failures
      BY <2>3, <2>5 DEF Failures, Slots
    <3>5. AtHand'
      BY <2>3, <2>5
    <3> QED
      BY <2>1, <2>2, <2>3, <2>5, <3>3, <3>4, <3>5
  <2> QED
    BY <2>1, <2>4, <2>5
<1>10. CASE GetOk(s)
  <2>1. toServer' \in [Servers -> Seq(ToServerTokens)]
    BY <1>10, ConsumeTyped DEF GetOk
  <2>2. progs' \in [Servers -> [Programs -> Slots]]
    BY <1>10, SlotFacts, EntryTyped DEF GetOk, AllProgs
  <2> QED
    BY <1>10, <2>1, <2>2 DEF GetOk
<1>11. CASE FinishStop(s)
  <2>1. toController' \in [Servers -> Seq(ToControllerTokens)]
    BY <1>11, ReadyTyped DEF FinishStop
  <2> QED
    BY <1>11, <2>1, CommandFacts DEF FinishStop
<1>12. CASE Leave(s)
  <2>1. toServer' \in [Servers -> Seq(ToServerTokens)]
    BY <1>12, ConsumeTyped DEF Leave, Reads
  <2> QED
    BY <1>12, <2>1 DEF Leave
<1> QED
  BY <1>1, <1>2, <1>3, <1>4, <1>5, <1>6, <1>7, <1>8, <1>9, <1>10, <1>11, <1>12
  DEF ServerStep

(* So does a step of a program. *)
LEMMA ProgramTyped ==
  ASSUME TypeOKServer, AtHand, ProgramStep
  PROVE  TypeOKServer' /\ AtHand'
<1> USE DEF TypeOKServer, AtHand
<1> PICK s \in Servers, p \in Programs : ProgramEnds(s, p) \/ ProgramFails(s, p)
  BY DEF ProgramStep
<1>1. CASE ProgramEnds(s, p)
  <2>1. progs' \in [Servers -> [Programs -> Slots]]
    BY <1>1, StateTyped DEF ProgramEnds, AllProgs, ProgramStates
  <2> QED
    BY <1>1, <2>1 DEF ProgramEnds, agentVars
<1>2. CASE ProgramFails(s, p)
  <2>1. progs' \in [Servers -> [Programs -> Slots]]
    BY <1>2, StateTyped DEF ProgramFails, AllProgs, ProgramStates
  <2>2. failed' \in 0 .. MaxFailures
    BY <1>2, RemoteServerAssumption DEF ProgramFails
  <2> QED
    BY <1>2, <2>1, <2>2 DEF ProgramFails, agentVars
<1> QED
  BY <1>1, <1>2

----------------------------------------------------------------------------
(* The types of the controller and its menu. *)

\* What makes a step of experiment() well defined: the arguments are set when they
\* are sent, the loop over the scenarios is not at its end when one begins, and q is
\* not waited for.
WellDefined ==
  /\ phase \in {"send", "wait"} /\ cmd # "q" => exp \in Experiments
  /\ phase \in {"send", "wait"} /\ cmd \in {"tc", "cs"} => scensLeft # <<>>
  /\ phase \in {"send", "wait"} /\ cmd = "sc" => scen \in Scenarios
  /\ phase = "wait" => cmd # "q"
  /\ phase = "closed" => cmd = "q"

Typed == TypeOK /\ AtHand /\ WellDefined
TypedMenu == Typed /\ TypeOKMenu

Entries == [exp : Experiments, scens : Seq(Scenarios)]

-----------------------------------------------------------------------------
(* Appending a token to a connection, and taking two from it, keep it typed. *)
LEMMA AppendTyped ==
  ASSUME NEW S, NEW f \in [Servers -> Seq(S)], NEW s \in Servers, NEW x \in S
  PROVE  [f EXCEPT ![s] = Append(@, x)] \in [Servers -> Seq(S)]
<1>1. Append(f[s], x) \in Seq(S)
  BY AppendProperties
<1> QED
  BY <1>1

(* A connection with two tokens: the second one, and what is left after both. *)
LEMMA TwoTaken ==
  ASSUME NEW S, NEW q \in Seq(S), Len(q) > 1
  PROVE  q[2] \in S /\ Tail(Tail(q)) \in Seq(S)
<1>1. q # <<>> /\ Len(q) \in Nat
  OBVIOUS
<1>2. Tail(q) \in Seq(S) /\ Len(Tail(q)) = Len(q) - 1
  BY <1>1, HeadTailProperties
<1>3. Tail(q) # <<>>
  <2>1. Len(Tail(q)) # 0
    BY <1>1, <1>2
  <2>2. Len(<<>>) = 0
    OBVIOUS
  <2> QED
    BY ONLY <2>1, <2>2
<1>4. Tail(Tail(q)) \in Seq(S)
  BY <1>2, <1>3, HeadTailProperties
<1>5. q[2] \in S
  OBVIOUS
<1> QED
  BY <1>4, <1>5

(* The controller starts typed, with every agent waiting. *)
LEMMA InitTyped == Init => Typed
<1> SUFFICES ASSUME Init PROVE Typed
  OBVIOUS
<1>1. TypeOKServer /\ AtHand
  BY InitServerTyped DEF Init
<1>2. TypeOK
  <2>1. errorReasons \in [Experiments -> SUBSET Reasons]
    BY DEF Init, InitControl
  <2>2. cmd \in Commands /\ idx \in Servers
    BY ServerZero, CommandFacts DEF Init, InitControl
  <2>3. /\ phase = "ready" /\ exp = None /\ scen = None /\ scensLeft = <<>>
        /\ caught = FALSE /\ raised = FALSE
    BY DEF Init, InitControl
  <2>4. scensLeft \in Seq(Scenarios)
    BY <2>3
  <2>5. caught \in BOOLEAN /\ raised \in BOOLEAN
    BY ONLY <2>3, Zenon
  <2> QED
    BY ONLY <1>1, <2>1, <2>2, <2>3, <2>4, <2>5, Zenon DEF TypeOK
<1>3. WellDefined
  BY DEF Init, InitControl, WellDefined
<1> QED
  BY <1>1, <1>2, <1>3 DEF Typed

(* Sending a command begins at the first server. *)
LEMMA BroadcastTyped ==
  ASSUME NEW c \in Commands, Broadcast(c)
  PROVE  phase' = "send" /\ cmd' = c /\ idx' = 0 /\ idx' \in Servers
BY ServerZero DEF Broadcast

(* After the last reply the next command is one, and has its argument. *)
LEMMA NextCommandTyped ==
  ASSUME Typed, phase = "wait", NextCommand, UNCHANGED exp
  PROVE  /\ phase' \in {"ready", "send"} /\ cmd' \in Commands /\ idx' \in Servers
         /\ phase' = "send" => idx' = 0
         /\ scen' \in Scenarios \cup {None} /\ scensLeft' \in Seq(Scenarios)
         /\ WellDefined'
<1> USE DEF Typed, TypeOK, WellDefined
<1>1. CASE cmd \in {"cr", "tr"} /\ scensLeft = <<>>
  BY <1>1 DEF NextCommand
<1>2. CASE cmd \in {"cr", "tr"} /\ scensLeft # <<>>
  <2>1. Broadcast("tc") /\ UNCHANGED <<scen, scensLeft>>
    BY <1>2 DEF NextCommand
  <2>2. "tc" \in Commands
    BY DEF Commands, PlainCommands
  <2>3. phase' = "send" /\ cmd' = "tc" /\ idx' = 0 /\ idx' \in Servers
    BY <2>1, <2>2, BroadcastTyped
  <2> QED
    BY <1>2, <2>1, <2>2, <2>3
<1>3. CASE cmd \notin {"cr", "tr"}
  <2>1. cmd \in {"e", "tc", "cs", "sc", "r", "p", "s", "ts", "tp"}
    BY <1>3 DEF Commands, PlainCommands, StartCommands, StopCommands
  <2>2. /\ Following[cmd] \in Commands
        /\ Following[cmd] \notin {"q", "tc"}
        /\ Following[cmd] = "cs" => cmd = "tc"
        /\ Following[cmd] = "sc" => cmd = "cs"
    BY <2>1 DEF Following, Commands, PlainCommands, StartCommands, StopCommands
  <2>3. phase' = "send" /\ cmd' = Following[cmd] /\ idx' = 0 /\ idx' \in Servers
    <3>1. Broadcast(Following[cmd])
      BY <1>3 DEF NextCommand
    <3> QED
      BY <2>2, <3>1, BroadcastTyped
  <2>4. CASE cmd = "cs"
    <3>1. scensLeft # <<>> /\ scen' = Head(scensLeft) /\ scensLeft' = Tail(scensLeft)
      BY <2>4 DEF NextCommand
    <3>2. scen' \in Scenarios /\ scensLeft' \in Seq(Scenarios)
      BY <3>1
    <3> QED
      BY <2>2, <2>3, <2>4, <3>2
  <2>5. CASE cmd # "cs"
    <3>1. UNCHANGED <<scen, scensLeft>>
      BY <1>3, <2>5 DEF NextCommand
    <3> QED
      BY <2>2, <2>3, <2>5, <3>1
  <2> QED
    BY <2>4, <2>5
<1> QED
  BY <1>1, <1>2, <1>3

(* So it is after the reply of any server. *)
LEMMA AfterReplyTyped ==
  ASSUME Typed, phase = "wait", AfterReply, UNCHANGED exp
  PROVE  /\ phase' \in {"ready", "send", "wait"} /\ cmd' \in Commands /\ idx' \in Servers
         /\ scen' \in Scenarios \cup {None} /\ scensLeft' \in Seq(Scenarios)
         /\ WellDefined'
<1>1. CASE idx + 1 \in Servers
  BY <1>1 DEF AfterReply, Typed, TypeOK, WellDefined
<1>2. CASE idx + 1 \notin Servers
  <2>1. NextCommand
    BY <1>2 DEF AfterReply
  <2> QED
    BY <2>1, NextCommandTyped
<1> QED
  BY <1>1, <1>2

(* Sending a command keeps everything typed: what is sent has the argument
   its reader expects. *)
LEMMA SendOneTyped ==
  ASSUME Typed, SendOne
  PROVE  Typed'
<1> USE DEF Typed, TypeOK
<1>1. /\ phase = "send" /\ AfterSend
      /\ UNCHANGED <<agentVars, progs, toController, failed, failures, cmd, exp, scen,
                     scensLeft, caught, raised, errorReasons>>
  BY DEF SendOne
<1>2. phase' \in {"send", "closed", "wait"} /\ idx' \in Servers
  BY <1>1, ServerZero DEF AfterSend
<1>3. phase' = "closed" => cmd = "q"
  BY <1>1 DEF AfterSend
<1>4. phase' = "wait" => cmd # "q"
  BY <1>1 DEF AfterSend
<1>5. toServer' \in [Servers -> Seq(ToServerTokens)]
  <2>1. [cmd |-> cmd, arg |-> Argument(cmd)] \in ToServerTokens
    <3>1. CASE cmd = "e"
      BY <1>1, <3>1 DEF ToServerTokens, Argument, WellDefined
    <3>2. CASE cmd = "sc"
      BY <1>1, <3>2 DEF ToServerTokens, Argument, WellDefined
    <3>3. CASE cmd \notin {"e", "sc"}
      BY <3>3 DEF ToServerTokens, Argument
    <3> QED
      BY <3>1, <3>2, <3>3
  <2>2. \/ toServer' = [toServer EXCEPT ![idx] =
                          Append(@, [cmd |-> cmd, arg |-> Argument(cmd)])]
        \/ UNCHANGED toServer
    BY DEF SendOne
  <2>3. toServer \in [Servers -> Seq(ToServerTokens)] /\ idx \in Servers
    BY DEF TypeOKServer
  <2>4. [toServer EXCEPT ![idx] = Append(@, [cmd |-> cmd, arg |-> Argument(cmd)])]
           \in [Servers -> Seq(ToServerTokens)]
    BY <2>1, <2>3, AppendTyped
  <2> QED
    BY <2>2, <2>3, <2>4
<1>6. TypeOKServer' /\ AtHand'
  BY <1>1, <1>5 DEF TypeOKServer, AtHand, agentVars
<1>7. WellDefined'
  BY <1>1, <1>2, <1>3, <1>4 DEF WellDefined
<1> QED
  BY <1>1, <1>2, <1>6, <1>7

(* Taking a reply does. *)
LEMMA TakeReadyTyped ==
  ASSUME Typed, TakeReady
  PROVE  Typed'
<1>1. /\ phase = "wait" /\ AfterReply /\ toController[idx] # <<>>
      /\ toController' = [toController EXCEPT ![idx] = Tail(@)]
      /\ UNCHANGED <<agentVars, progs, toServer, failed, failures, exp, caught, raised,
                     errorReasons>>
  BY DEF TakeReady, Awaits
<1>2. toController' \in [Servers -> Seq(ToControllerTokens)]
  BY <1>1 DEF Typed, TypeOK, TypeOKServer
<1>3. TypeOKServer' /\ AtHand'
  BY <1>1, <1>2 DEF TypeOKServer, AtHand, agentVars, Typed, TypeOK
<1>4. /\ phase' \in {"ready", "send", "wait"} /\ cmd' \in Commands /\ idx' \in Servers
      /\ scen' \in Scenarios \cup {None} /\ scensLeft' \in Seq(Scenarios)
      /\ WellDefined'
  BY <1>1, AfterReplyTyped
<1> QED
  BY <1>1, <1>3, <1>4 DEF Typed, TypeOK

(* Passing a server over does. *)
LEMMA PassOverTyped ==
  ASSUME Typed, PassOver
  PROVE  Typed'
<1>1. /\ phase = "wait" /\ AfterReply
      /\ UNCHANGED <<serverVars, exp, caught, raised, errorReasons>>
  BY DEF PassOver
<1>2. TypeOKServer' /\ AtHand'
  BY <1>1 DEF TypeOKServer, AtHand, serverVars, agentVars, Typed, TypeOK
<1>3. /\ phase' \in {"ready", "send", "wait"} /\ cmd' \in Commands /\ idx' \in Servers
      /\ scen' \in Scenarios \cup {None} /\ scensLeft' \in Seq(Scenarios)
      /\ WellDefined'
  BY <1>1, AfterReplyTyped
<1> QED
  BY <1>1, <1>2, <1>3 DEF Typed, TypeOK

(* An exception does. *)
LEMMA FailTyped ==
  ASSUME Typed, Fail
  PROVE  Typed'
<1>1. /\ phase' \in {"ready", "dead"} /\ raised' = TRUE
      /\ UNCHANGED <<serverVars, cmd, idx, exp, scen, scensLeft, caught, errorReasons>>
  BY DEF Fail, Raise
<1>2. TypeOKServer' /\ AtHand'
  BY <1>1 DEF TypeOKServer, AtHand, serverVars, agentVars, Typed, TypeOK
<1> QED
  BY <1>1, <1>2 DEF Typed, TypeOK, WellDefined

(* Taking an error does: the reason names a program of a server. *)
LEMMA TakeErrorTyped ==
  ASSUME Typed, TakeError
  PROVE  Typed'
<1> DEFINE entry == [scen |-> scen, server |-> idx, prog |-> toController[idx][2].prog]
           ok == [cmd |-> "ok", arg |-> None]
<1>1. /\ phase = "wait" /\ Len(toController[idx]) > 1
      /\ errorReasons' = [errorReasons EXCEPT ![exp] = @ \cup {entry}]
      /\ toController' = [toController EXCEPT ![idx] = Tail(Tail(@))]
      /\ UNCHANGED <<agentVars, progs, failed, failures, controlVars>>
  BY DEF TakeError, Awaits
<1>2. idx \in Servers /\ toController[idx] \in Seq(ToControllerTokens)
  BY DEF Typed, TypeOK, TypeOKServer
<1>3. toController[idx][2] \in ToControllerTokens
  BY <1>1, <1>2, TwoTaken
<1>4. Tail(Tail(toController[idx])) \in Seq(ToControllerTokens)
  BY <1>1, <1>2, TwoTaken
<1>5. toController' \in [Servers -> Seq(ToControllerTokens)]
  BY <1>1, <1>4 DEF Typed, TypeOK, TypeOKServer
<1>6. toServer' \in [Servers -> Seq(ToServerTokens)]
  <2>1. ok \in ToServerTokens
    BY DEF ToServerTokens
  <2>2. UNCHANGED toServer \/ toServer' = [toServer EXCEPT ![idx] = Append(@, ok)]
    BY DEF TakeError
  <2>3. toServer \in [Servers -> Seq(ToServerTokens)]
    BY DEF Typed, TypeOK, TypeOKServer
  <2>4. [toServer EXCEPT ![idx] = Append(@, ok)] \in [Servers -> Seq(ToServerTokens)]
    BY <1>2, <2>1, <2>3, AppendTyped
  <2> HIDE DEF ok
  <2> QED
    BY <2>2, <2>3, <2>4
<1>7. errorReasons' \in [Experiments -> SUBSET Reasons]
  <2>1. entry \in Reasons
    BY <1>2, <1>3 DEF Typed, TypeOK, Reasons, ToControllerTokens
  <2> QED
    BY <1>1, <2>1 DEF Typed, TypeOK
<1>8. TypeOKServer' /\ AtHand'
  BY <1>1, <1>5, <1>6 DEF TypeOKServer, AtHand, agentVars, Typed, TypeOK
<1> QED
  BY <1>1, <1>7, <1>8 DEF Typed, TypeOK, WellDefined, controlVars

(* Beginning an experiment does. *)
LEMMA BeginTyped ==
  ASSUME Typed, NEW name \in Experiments, NEW scens \in Seq(Scenarios),
         NEW byRerun \in BOOLEAN, Begin(name, scens, byRerun)
  PROVE  Typed'
<1>1. /\ exp' = name /\ scensLeft' = scens /\ caught' = byRerun /\ failures' = {}
      /\ phase' = "send" /\ cmd' = "e" /\ idx' = 0
      /\ UNCHANGED <<agentVars, progs, toServer, toController, failed,
                     scen, raised, errorReasons>>
  BY DEF Begin, Broadcast
<1>2. TypeOKServer' /\ AtHand'
  BY <1>1 DEF TypeOKServer, AtHand, agentVars, Typed, TypeOK
<1> QED
  BY <1>1, <1>2, ServerZero, CommandFacts DEF Typed, TypeOK, WellDefined

(* Quitting does. *)
LEMMA BeginQuitTyped ==
  ASSUME Typed, BeginQuit
  PROVE  Typed'
<1>1. /\ phase' = "send" /\ cmd' = "q" /\ idx' = 0 /\ caught' = FALSE
      /\ UNCHANGED <<serverVars, exp, scen, scensLeft, raised, errorReasons>>
  BY DEF BeginQuit, Broadcast
<1>2. TypeOKServer' /\ AtHand'
  BY <1>1 DEF TypeOKServer, AtHand, serverVars, agentVars, Typed, TypeOK
<1> QED
  BY <1>1, <1>2, ServerZero, CommandFacts DEF Typed, TypeOK, WellDefined

-----------------------------------------------------------------------------
(* Everything that goes on within an experiment keeps everything typed. *)
LEMMA NextOfExchange ==
  ASSUME Typed,
         \/ SendOne \/ TakeReady \/ TakeError \/ PassOver \/ Fail
         \/ OfServers(ProgramStep)
         \/ \E s \in Servers : OfServers(ServerStep(s))
  PROVE  Typed'
<1>1. CASE SendOne \/ TakeReady \/ TakeError \/ PassOver \/ Fail
  BY <1>1, SendOneTyped, TakeReadyTyped, TakeErrorTyped, PassOverTyped, FailTyped
<1>2. CASE TypeOKServer' /\ AtHand' /\ UNCHANGED <<controlVars, errorReasons>>
  BY <1>2 DEF Typed, TypeOK, WellDefined, controlVars
<1>3. CASE OfServers(ProgramStep)
  BY <1>2, <1>3, ProgramTyped DEF OfServers, Typed, TypeOK
<1>4. CASE \E s \in Servers : OfServers(ServerStep(s))
  BY <1>2, <1>4, AgentTyped DEF OfServers, Typed, TypeOK
<1> QED
  BY <1>1, <1>3, <1>4

(* A list of experiments becomes a list of entries. *)
LEMMA EntriesTyped ==
  ASSUME NEW list \in Seq(Experiments)
  PROVE  AllScenarios(list) \in Seq(Entries)
<1>1. Len(list) \in Nat /\ DOMAIN list = 1 .. Len(list)
  OBVIOUS
<1>2. \A i \in DOMAIN list : [exp |-> list[i], scens |-> ScenarioList] \in Entries
  BY <1>1, ExperimentMenuAssumption DEF Entries
<1>3. AllScenarios(list) \in [1 .. Len(list) -> Entries]
  BY <1>1, <1>2 DEF AllScenarios
<1> HIDE DEF Entries
<1> QED
  BY <1>1, <1>3

(* An order of the failed experiments is a list of experiments. *)
LEMMA OrderTyped ==
  ASSUME NEW S \in SUBSET Experiments, NEW list \in SetToSeqs(S)
  PROVE  list \in Seq(Experiments)
<1>1. Cardinality(S) \in Nat
  BY ExperimentMenuAssumption, FS_Subset, FS_CardinalityType
<1>2. list \in [1 .. Cardinality(S) -> S]
  BY DEF SetToSeqs
<1>3. list \in [1 .. Cardinality(S) -> Experiments]
  BY <1>2
<1> QED
  BY <1>1, <1>3

(* The menu starts typed. *)
LEMMA InitMenuTyped == InitMenu => TypedMenu
<1> SUFFICES ASSUME InitMenu PROVE TypedMenu
  OBVIOUS
<1>1. Typed
  BY InitTyped DEF InitMenu
<1>2. log \in [Experiments -> SUBSET Reasons] /\ starting \in BOOLEAN
  BY DEF InitMenu
<1>3. menus \in 0 .. MaxMenus
  BY ExperimentMenuAssumption DEF InitMenu
<1> QED
  BY <1>1, <1>2, <1>3 DEF InitMenu, Typed, TypedMenu, TypeOKMenu

(* A step of the menu that leaves experiment() as it is. *)
LEMMA BetweenTyped ==
  ASSUME Typed, UNCHANGED <<serverVars, phase, cmd, idx, exp, scen, scensLeft, raised>>,
         caught' \in BOOLEAN, errorReasons' \in [Experiments -> SUBSET Reasons]
  PROVE  Typed'
<1>1. TypeOKServer' /\ AtHand'
  BY DEF TypeOKServer, AtHand, serverVars, agentVars, Typed, TypeOK
<1> QED
  BY <1>1 DEF Typed, TypeOK, WellDefined

(* A command of the user is counted. *)
LEMMA OnMenuTyped ==
  ASSUME TypedMenu, OnMenu
  PROVE  menus' \in 0 .. MaxMenus
BY ExperimentMenuAssumption DEF TypedMenu, TypeOKMenu, OnMenu

(* Going through a list of entries. *)
LEMMA GoThroughTyped ==
  ASSUME NEW list \in Seq(Entries), NEW skips \in BOOLEAN, GoThrough(list, skips)
  PROVE  /\ mode' \in {"menu", "list", "experiment"} /\ todo' \in Seq(Entries)
         /\ starting' \in BOOLEAN /\ ran' \subseteq Experiments
BY DEF GoThrough

(* The errors after the log has been taken in. *)
LEMMA UpdatedTyped ==
  ASSUME NEW f \in [Experiments -> SUBSET Reasons],
         NEW g \in [Experiments -> SUBSET Reasons]
  PROVE  Updated(f, g) \in [Experiments -> SUBSET Reasons]
BY DEF Updated

(* Every step of the menu keeps everything typed. *)
LEMMA MenuStepTyped ==
  ASSUME TypedMenu, MenuStep
  PROVE  TypedMenu'
<1> USE DEF TypedMenu, TypeOKMenu, Entries
<1>0. /\ errorReasons \in [Experiments -> SUBSET Reasons]
      /\ NoErrors \in [Experiments -> SUBSET Reasons]
      /\ caught \in BOOLEAN
      /\ TRUE \in BOOLEAN /\ FALSE \in BOOLEAN /\ (StartFrom # None) \in BOOLEAN
  BY DEF Typed, TypeOK, NoErrors
<1>1. CASE RunList
  <2>1. PICK list \in Lists : GoThrough(AllScenarios(list), StartFrom # None)
    BY <1>1 DEF RunList
  <2>2. /\ UNCHANGED <<serverVars, phase, cmd, idx, exp, scen, scensLeft, raised,
                       errorReasons, log>>
        /\ forgotten' = {} /\ caught' = FALSE /\ OnMenu
    BY <1>1 DEF RunList
  <2>3. AllScenarios(list) \in Seq(Entries)
    BY EntriesTyped, ExperimentMenuAssumption
  <2>4. Typed'
    BY <1>0, <2>2, BetweenTyped
  <2>5. menus' \in 0 .. MaxMenus
    BY <2>2, OnMenuTyped
  <2>6. /\ mode' \in {"menu", "list", "experiment"} /\ todo' \in Seq(Entries)
        /\ starting' \in BOOLEAN /\ ran' \subseteq Experiments
    BY <1>0, <2>1, <2>3, GoThroughTyped
  <2> QED
    BY <2>2, <2>4, <2>5, <2>6 DEF Typed
<1>2. CASE RunFailed
  <2>1. PICK list \in SetToSeqs(Erroneous(errorReasons)) :
          GoThrough(AllScenarios(list), StartFrom # None)
    BY <1>2 DEF RunFailed
  <2>2. /\ UNCHANGED <<serverVars, phase, cmd, idx, exp, scen, scensLeft, raised, log>>
        /\ forgotten' = Erroneous(errorReasons) /\ caught' = FALSE /\ OnMenu
        /\ errorReasons' = NoErrors
    BY <1>2 DEF RunFailed
  <2>3. Erroneous(errorReasons) \subseteq Experiments
    BY DEF Erroneous
  <2>4. AllScenarios(list) \in Seq(Entries)
    BY <2>3, OrderTyped, EntriesTyped
  <2>5. Typed'
    BY <1>0, <2>2, BetweenTyped
  <2>6. menus' \in 0 .. MaxMenus
    BY <2>2, OnMenuTyped
  <2>7. /\ mode' \in {"menu", "list", "experiment"} /\ todo' \in Seq(Entries)
        /\ starting' \in BOOLEAN /\ ran' \subseteq Experiments
    BY <1>0, <2>1, <2>4, GoThroughTyped
  <2> QED
    BY <2>2, <2>3, <2>5, <2>6, <2>7 DEF Typed
<1>3. CASE RunRerun
  <2>1. /\ UNCHANGED <<serverVars, phase, cmd, idx, exp, scen, scensLeft, raised,
                       errorReasons, log>>
        /\ forgotten' = {} /\ caught' = TRUE /\ OnMenu /\ GoThrough(Rerun, FALSE)
    BY <1>3 DEF RunRerun
  <2>2. Rerun \in Seq(Entries)
    BY ExperimentMenuAssumption
  <2>3. Typed'
    BY <1>0, <2>1, BetweenTyped
  <2>4. menus' \in 0 .. MaxMenus
    BY <2>1, OnMenuTyped
  <2>5. /\ mode' \in {"menu", "list", "experiment"} /\ todo' \in Seq(Entries)
        /\ starting' \in BOOLEAN /\ ran' \subseteq Experiments
    BY <1>0, <2>1, <2>2, GoThroughTyped
  <2> QED
    BY <2>1, <2>3, <2>4, <2>5 DEF Typed
<1>4. CASE LoadFailed
  <2>1. /\ UNCHANGED <<serverVars, controlVars, mode, todo, starting, forgotten, ran, log>>
        /\ errorReasons' = log /\ OnMenu
    BY <1>4 DEF LoadFailed
  <2>2. Typed'
    BY <1>0, <2>1, BetweenTyped DEF controlVars
  <2>3. menus' \in 0 .. MaxMenus
    BY <2>1, OnMenuTyped
  <2> QED
    BY <2>1, <2>2, <2>3 DEF Typed
<1>5. CASE QuitMenu
  <2>1. /\ OnMenu /\ BeginQuit
        /\ UNCHANGED <<mode, todo, starting, forgotten, ran, log>>
    BY <1>5 DEF QuitMenu
  <2>2. Typed'
    BY <2>1, BeginQuitTyped
  <2>3. menus' \in 0 .. MaxMenus
    BY <2>1, OnMenuTyped
  <2> QED
    BY <2>1, <2>2, <2>3 DEF Typed
<1>6. CASE Skip
  <2>1. /\ todo # <<>> /\ todo' = Tail(todo)
        /\ UNCHANGED <<vars, mode, starting, forgotten, ran, log, menus>>
    BY <1>6 DEF Skip
  <2>2. Typed'
    BY <1>0, <2>1, BetweenTyped DEF vars, controlVars
  <2> QED
    BY <2>1, <2>2 DEF Typed
<1>7. CASE RunNext
  <2>1. /\ todo # <<>> /\ todo' = Tail(todo) /\ starting' = FALSE
        /\ Begin(Head(todo).exp, Head(todo).scens, caught)
        /\ mode' = "experiment" /\ ran' = ran \cup {Head(todo).exp}
        /\ UNCHANGED <<forgotten, log, menus>>
    BY <1>7 DEF RunNext
  <2>2. Head(todo) \in Entries /\ Tail(todo) \in Seq(Entries)
    BY <2>1, HeadTailProperties
  <2>3. Head(todo).exp \in Experiments /\ Head(todo).scens \in Seq(Scenarios)
    BY <2>2
  <2>4. Typed'
    BY <1>0, <2>1, <2>3, BeginTyped
  <2>5. ran' \subseteq Experiments /\ starting' \in BOOLEAN
    BY <1>0, <2>1, <2>3
  <2> QED
    BY <2>1, <2>2, <2>4, <2>5 DEF Typed
<1>8. CASE EndOfList
  <2>1. /\ mode' = "menu"
        /\ UNCHANGED <<vars, todo, starting, forgotten, ran, log, menus>>
    BY <1>8 DEF EndOfList
  <2>2. Typed'
    BY <1>0, <2>1, BetweenTyped DEF vars, controlVars
  <2> QED
    BY <2>1, <2>2 DEF Typed
<1>9. CASE LogErrors
  <2>1. PICK logged \in {log, NoErrors} :
          /\ errorReasons' = Updated(errorReasons, logged)
          /\ log' = Updated(errorReasons, logged)
    BY <1>9 DEF LogErrors
  <2>2. /\ mode' = "list"
        /\ UNCHANGED <<serverVars, controlVars, todo, starting, forgotten, ran, menus>>
    BY <1>9 DEF LogErrors
  <2>3. Updated(errorReasons, logged) \in [Experiments -> SUBSET Reasons]
    BY <1>0, UpdatedTyped
  <2>4. Typed'
    BY <1>0, <2>1, <2>2, <2>3, BetweenTyped DEF controlVars
  <2> QED
    BY <2>1, <2>2, <2>3, <2>4 DEF Typed
<1>10. CASE MenuFail
  <2>1. /\ Fail
        /\ \/ mode' = "menu" /\ todo' = <<>>
           \/ UNCHANGED <<mode, todo>>
        /\ UNCHANGED <<starting, forgotten, ran, log, menus>>
    BY <1>10 DEF MenuFail
  <2>2. Typed'
    BY <2>1, FailTyped
  <2>3. mode' \in {"menu", "list", "experiment"} /\ todo' \in Seq(Entries)
    <3>1. CASE mode' = "menu" /\ todo' = <<>>
      BY <3>1
    <3>2. CASE UNCHANGED <<mode, todo>>
      BY <3>2
    <3> QED
      BY <2>1, <3>1, <3>2
  <2>4. UNCHANGED log
    BY <2>1
  <2> QED
    BY <2>1, <2>2, <2>3, <2>4 DEF Typed
<1> QED
  BY <1>1, <1>2, <1>3, <1>4, <1>5, <1>6, <1>7, <1>8, <1>9, <1>10 DEF MenuStep

(* Every step keeps everything typed. *)
LEMMA NextMenuTyped == TypedMenu /\ [NextMenu]_allVars => TypedMenu'
<1> SUFFICES ASSUME TypedMenu, [NextMenu]_allVars PROVE TypedMenu'
  OBVIOUS
<1>1. CASE MenuStep
  BY <1>1, MenuStepTyped
<1>2. ASSUME Typed', UNCHANGED menuVars PROVE TypedMenu'
  BY <1>2 DEF TypedMenu, TypeOKMenu, Typed, menuVars
<1>3. CASE ExchangeStep
  BY <1>2, <1>3, NextOfExchange DEF ExchangeStep, WithinExperiment, TypedMenu
<1>4. CASE ProgramsStep
  BY <1>2, <1>4, NextOfExchange DEF ProgramsStep, WithinExperiment, TypedMenu
<1>5. CASE \E s \in Servers : AgentStep(s)
  BY <1>2, <1>5, NextOfExchange DEF AgentStep, WithinExperiment, TypedMenu
<1>6. CASE UNCHANGED allVars
  <2>1. Typed'
    BY <1>6, BetweenTyped DEF allVars, vars, controlVars, TypedMenu, Typed, TypeOK
  <2> QED
    BY <1>2, <1>6, <2>1 DEF allVars
<1> QED
  BY <1>1, <1>3, <1>4, <1>5, <1>6 DEF NextMenu

(* Type correctness of the controller, its menu and the agents: whatever fails, an
   index stays a server, a command has its argument, and what is unread has a type. *)
THEOREM MenuTypeCorrect == SpecMenu => []TypeOKMenu
<1>1. InitMenu => TypedMenu
  BY InitMenuTyped
<1>2. TypedMenu /\ [NextMenu]_allVars => TypedMenu'
  BY NextMenuTyped
<1>3. TypedMenu => TypeOKMenu
  BY DEF TypedMenu
<1> QED
  BY <1>1, <1>2, <1>3, PTL DEF SpecMenu

----------------------------------------------------------------------------
(* Replies stay in step with commands, if no reason is longer than the     *)
(* controller reads at once and no server is left to be tested by hand.    *)

\* The current command has been sent to the server; of q nothing is waited for.
Sent(s) == Unanswered(s) \/ phase = "closed"

\* Where an agent can be in its exchange with the controller: gone; with nothing to
\* do; asked; having answered; stopping programs; or reporting one of them, before
\* and after the controller's "ok".
Gone(s) == pc[s] \in {"dead", "closed"} /\ toController[s] = <<>>

Idle(s) ==
  ~Sent(s) /\ pc[s] = "recv" /\ toServer[s] = <<>> /\ toController[s] = <<>>

Asked(s) ==
  /\ Sent(s) /\ pc[s] = "recv" /\ toController[s] = <<>>
  /\ Len(toServer[s]) = 1 /\ toServer[s][1].cmd = cmd

Replied(s) ==
  /\ Unanswered(s) /\ cmd # "q" /\ pc[s] = "recv" /\ toServer[s] = <<>>
  /\ toController[s] = <<Token("r", cmd, None)>>

Stopping(s) ==
  /\ Unanswered(s) /\ cmd # "q" /\ pc[s] \in {"poll", "write", "reap"}
  /\ doing[s] = cmd /\ toServer[s] = <<>> /\ toController[s] = <<>>

Reporting(s) ==
  /\ Unanswered(s) /\ cmd # "q" /\ pc[s] = "ok" /\ doing[s] = cmd
  /\ toServer[s] = <<>>
  /\ \E p \in Programs :
       toController[s] = <<Token("e", cmd, p), Token("reason", cmd, p)>>

Reported(s) ==
  /\ Unanswered(s) /\ cmd # "q" /\ pc[s] = "ok" /\ doing[s] = cmd
  /\ Len(toServer[s]) = 1 /\ toController[s] = <<>>

InExchange(s) ==
  \/ Gone(s) \/ Idle(s) \/ Asked(s) \/ Replied(s) \/ Stopping(s)
  \/ Reporting(s) \/ Reported(s)

InStep == \A s \in Servers : InExchange(s)

\* The inductive invariant: an exception leaves the exchange undefined.
IInv == TypedMenu /\ (~raised => InStep)

-----------------------------------------------------------------------------
(* Connections with one or two tokens. *)
LEMMA OneToken ==
  ASSUME NEW S, NEW q \in Seq(S), Len(q) = 1
  PROVE  q # <<>> /\ Head(q) = q[1] /\ Tail(q) = <<>>
<1>1. q # <<>> /\ Head(q) = q[1]
  OBVIOUS
<1>2. Tail(q) \in Seq(S) /\ Len(Tail(q)) = 0
  BY <1>1, HeadTailProperties
<1> QED
  BY <1>1, <1>2, EmptySeq

(* A token in an empty connection. *)
LEMMA FirstToken ==
  ASSUME NEW x
  PROVE  /\ Append(<<>>, x) = <<x>> /\ <<x>> # <<>>
         /\ Head(<<x>>) = x /\ Tail(<<x>>) = <<>> /\ Len(<<x>>) = 1 /\ <<x>>[1] = x
OBVIOUS

(* A report is two tokens. *)
LEMMA TwoTokens ==
  ASSUME NEW x, NEW y
  PROVE  /\ <<x, y>> # <<>> /\ Head(<<x, y>>) = x /\ Tail(Tail(<<x, y>>)) = <<>>
         /\ Len(<<x, y>>) = 2
<1>1. <<x, y>> \in Seq({x, y}) /\ <<x, y>> # <<>> /\ Len(<<x, y>>) = 2
  OBVIOUS
<1>2. Tail(<<x, y>>) \in Seq({x, y}) /\ Len(Tail(<<x, y>>)) = 1
  BY <1>1, HeadTailProperties
<1>3. Tail(Tail(<<x, y>>)) = <<>>
  BY <1>2, OneToken
<1> QED
  BY <1>1, <1>3

(* A report without pieces beyond the reason. *)
LEMMA ShortReport ==
  ASSUME NEW x, NEW y, NEW z, NEW n \in {0}
  PROVE  <<>> \o <<x, y>> \o [i \in 1 .. n |-> z] = <<x, y>>
<1>1. [i \in 1 .. n |-> z] = <<>>
  OBVIOUS
<1>2. <<x, y>> \in Seq({x, y})
  OBVIOUS
<1>3. <<>> \o <<x, y>> = <<x, y>>
  BY <1>2, ConcatEmptySeq
<1>4. <<x, y>> \o <<>> = <<x, y>>
  BY <1>2, ConcatEmptySeq
<1> QED
  BY <1>1, <1>3, <1>4

-----------------------------------------------------------------------------
\* What a step of an agent does to its side of the exchange.
Answers(s) ==  \* a command that is carried out at once
  /\ pc[s] = "recv" /\ toServer[s] # <<>> /\ Head(toServer[s]).cmd # "q"
  /\ pc' = pc /\ doing' = doing
  /\ toServer' = [toServer EXCEPT ![s] = Tail(@)]
  /\ toController' = [toController EXCEPT
       ![s] = Append(@, Token("r", Head(toServer[s]).cmd, None))]

Begins(s) ==   \* a command that stops programs
  /\ pc[s] = "recv" /\ toServer[s] # <<>> /\ Head(toServer[s]).cmd # "q"
  /\ pc' = [pc EXCEPT ![s] = "poll"]
  /\ doing' = [doing EXCEPT ![s] = Head(toServer[s]).cmd]
  /\ toServer' = [toServer EXCEPT ![s] = Tail(@)] /\ toController' = toController

Leaves(s) ==
  /\ pc[s] \in {"recv", "write"}
  /\ pc[s] = "recv" => toServer[s] # <<>> /\ Head(toServer[s]).cmd = "q"
  /\ \E d \in {"closed", "dead"} : pc' = [pc EXCEPT ![s] = d]
  /\ doing' = doing /\ toController' = toController
  /\ \A t \in Servers \ {s} : toServer'[t] = toServer[t]

Works(s) ==
  /\ pc[s] \in {"poll", "write", "reap"}
  /\ \E d \in {"poll", "write", "reap"} : pc' = [pc EXCEPT ![s] = d]
  /\ UNCHANGED <<doing, toServer, toController>>

Reports(s) ==
  /\ pc[s] = "reap" /\ pc' = [pc EXCEPT ![s] = "ok"]
  /\ UNCHANGED <<doing, toServer>>
  /\ \E p \in Programs, n \in ReasonRest :
       toController' = [toController EXCEPT ![s] =
         @ \o <<Token("e", doing[s], p), Token("reason", doing[s], p)>>
           \o [i \in 1 .. n |-> Token("piece", doing[s], p)]]

GoesOn(s) ==
  /\ pc[s] = "ok" /\ toServer[s] # <<>> /\ pc' = [pc EXCEPT ![s] = "reap"]
  /\ toServer' = [toServer EXCEPT ![s] = Tail(@)]
  /\ UNCHANGED <<doing, toController>>

Finishes(s) ==
  /\ pc[s] = "reap" /\ pc' = [pc EXCEPT ![s] = "recv"]
  /\ \A t \in Servers \ {s} : doing'[t] = doing[t]
  /\ toController' = [toController EXCEPT ![s] = Append(@, Token("r", doing[s], None))]
  /\ toServer' = toServer

(* Every step of an agent has one of these effects. *)
LEMMA AgentEffect ==
  ASSUME TypeOKServer, AtHand, NEW s \in Servers, ServerStep(s)
  PROVE  \/ Answers(s) \/ Begins(s) \/ Leaves(s) \/ Works(s) \/ Reports(s)
         \/ GoesOn(s) \/ Finishes(s)
<1> USE DEF TypeOKServer
<1>1. CASE Answer(s)
  <2> PICK c \in PlainCommands :
        /\ Reads(s, c) /\ Consume(s) /\ Ready(s, c)
        /\ UNCHANGED <<pc, doing>>
    BY <1>1 DEF Answer
  <2> QED
    BY DEF Answers, Reads, Consume, Ready, PlainCommands
<1>2. CASE EnterExperiment(s)
  BY <1>2 DEF EnterExperiment, Answers, Reads, Consume, Ready
<1>3. CASE SetScenario(s)
  BY <1>3 DEF SetScenario, Answers, Reads, Consume, Ready
<1>4. CASE Launch(s)
  <2> PICK c \in StartCommands :
        /\ Reads(s, c) /\ Consume(s) /\ Ready(s, c)
        /\ UNCHANGED <<pc, doing>>
    BY <1>4 DEF Launch
  <2> QED
    BY DEF Answers, Reads, Consume, Ready, StartCommands
<1>5. CASE BeginStop(s)
  <2> PICK c \in StopCommands :
        /\ Reads(s, c) /\ Consume(s)
        /\ pc' = [pc EXCEPT ![s] = "poll"]
        /\ doing' = [doing EXCEPT ![s] = c]
        /\ UNCHANGED toController
    BY <1>5 DEF BeginStop
  <2> QED
    BY DEF Begins, Reads, Consume, StopCommands
<1>6. CASE Poll(s)
  <2>1. UNCHANGED pc => pc' = [pc EXCEPT ![s] = "poll"]
    BY <1>6 DEF Poll
  <2>2. /\ pc[s] = "poll" /\ UNCHANGED <<doing, toServer, toController>>
        /\ pc' = [pc EXCEPT ![s] = "write"] \/ UNCHANGED pc
    BY <1>6 DEF Poll
  <2> QED
    BY <2>1, <2>2 DEF Works
<1>7. CASE WriteQuit(s)
  <2>1. /\ pc[s] = "write" /\ UNCHANGED <<doing, toServer, toController>>
        /\ pc' = [pc EXCEPT ![s] = "poll"] \/ pc' = [pc EXCEPT ![s] = "dead"]
    BY <1>7 DEF WriteQuit
  <2> QED
    BY <2>1 DEF Works, Leaves
<1>8. CASE BeginReap(s)
  BY <1>8 DEF BeginReap, Works
<1>9. CASE Reap(s)
  <2>1. pc[s] = "reap" /\ UNCHANGED <<doing, toServer>>
    BY <1>9 DEF Reap
  <2>2. PICK p \in rest[s] :
        \/ UNCHANGED <<pc, toController>>
        \/ /\ pc' = [pc EXCEPT ![s] = "ok"]
           /\ \E n \in ReasonRest :
                toController' = [toController EXCEPT ![s] =
                   @ \o <<Token("e", doing[s], p), Token("reason", doing[s], p)>>
                     \o [i \in 1 .. n |-> Token("piece", doing[s], p)]]
    BY <1>9 DEF Reap
  <2>3. p \in Programs
    OBVIOUS
  <2>4. CASE UNCHANGED <<pc, toController>>
    <3>1. pc' = [pc EXCEPT ![s] = "reap"]
      BY <2>1, <2>4
    <3> QED
      BY <2>1, <2>4, <3>1 DEF Works
  <2>5. CASE
        /\ pc' = [pc EXCEPT ![s] = "ok"]
        /\ \E n \in ReasonRest :
             toController' = [toController EXCEPT ![s] =
                @ \o <<Token("e", doing[s], p), Token("reason", doing[s], p)>>
                  \o [i \in 1 .. n |-> Token("piece", doing[s], p)]]
    BY <2>1, <2>3, <2>5 DEF Reports
  <2> QED
    BY <2>2, <2>4, <2>5
<1>10. CASE GetOk(s)
  BY <1>10 DEF GetOk, GoesOn, Consume
<1>11. CASE FinishStop(s)
  BY <1>11 DEF FinishStop, Finishes, Ready
<1>12. CASE Leave(s)
  BY <1>12 DEF Leave, Leaves, Reads, Consume
<1> QED
  BY <1>1, <1>2, <1>3, <1>4, <1>5, <1>6, <1>7, <1>8, <1>9, <1>10, <1>11, <1>12
  DEF ServerStep

-----------------------------------------------------------------------------
(* A server whose part of the state and of the exchange is left alone stays. *)
LEMMA OthersStay ==
  ASSUME NEW t \in Servers, InExchange(t), UNCHANGED controlVars,
         pc'[t] = pc[t], doing'[t] = doing[t],
         toServer'[t] = toServer[t], toController'[t] = toController[t]
  PROVE  InExchange(t)'
BY DEF InExchange, Gone, Idle, Asked, Replied, Stopping, Reporting, Reported,
       Sent, Unanswered, controlVars

(* Nor does a step of an agent disturb the exchange with another. *)
LEMMA OtherAgents ==
  ASSUME TypeOKServer, NEW s \in Servers, NEW t \in Servers, t # s,
         \/ Answers(s) \/ Begins(s) \/ Leaves(s) \/ Works(s) \/ Reports(s)
         \/ GoesOn(s) \/ Finishes(s)
  PROVE  /\ pc'[t] = pc[t] /\ doing'[t] = doing[t]
         /\ toServer'[t] = toServer[t] /\ toController'[t] = toController[t]
<1> USE DEF TypeOKServer
<1>1. CASE Answers(s)
  BY <1>1 DEF Answers
<1>2. CASE Begins(s)
  BY <1>2 DEF Begins
<1>3. CASE Leaves(s)
  BY <1>3 DEF Leaves
<1>4. CASE Works(s)
  BY <1>4 DEF Works
<1>5. CASE Reports(s)
  BY <1>5 DEF Reports
<1>6. CASE GoesOn(s)
  BY <1>6 DEF GoesOn
<1>7. CASE Finishes(s)
  BY <1>7 DEF Finishes
<1> QED
  BY <1>1, <1>2, <1>3, <1>4, <1>5, <1>6, <1>7

(* A step of an agent takes its own exchange to the next place.  q is left without
   an answer, and whatever else is read is the command that has been sent. *)
LEMMA OwnAgent ==
  ASSUME Typed, ReasonRest \subseteq {0}, NEW s \in Servers, InExchange(s),
         OfServers(ServerStep(s))
  PROVE  InExchange(s)'
<1> USE DEF Typed, TypeOK
<1>0. UNCHANGED controlVars /\ (Sent(s)' <=> Sent(s)) /\ (Unanswered(s)' <=> Unanswered(s))
      /\ cmd' = cmd
  BY DEF OfServers, controlVars, Sent, Unanswered
<1>1. \/ Answers(s) \/ Begins(s) \/ Leaves(s) \/ Works(s) \/ Reports(s)
      \/ GoesOn(s) \/ Finishes(s)
  BY AgentEffect DEF OfServers
<1>2. /\ pc \in [Servers -> {"recv", "poll", "write", "reap", "ok", "closed", "dead"}]
      /\ doing \in [Servers -> Commands]
      /\ toServer \in [Servers -> Seq(ToServerTokens)]
      /\ toController \in [Servers -> Seq(ToControllerTokens)]
  BY DEF TypeOKServer
<1>3. pc[s] = "recv" /\ toServer[s] # <<>> =>
        /\ Asked(s) /\ Head(toServer[s]).cmd = cmd /\ Tail(toServer[s]) = <<>>
  <2> SUFFICES ASSUME pc[s] = "recv", toServer[s] # <<>>
               PROVE  Asked(s) /\ Head(toServer[s]).cmd = cmd /\ Tail(toServer[s]) = <<>>
    OBVIOUS
  <2>1. Asked(s)
    BY DEF InExchange, Gone, Idle, Replied, Stopping, Reporting, Reported
  <2>2. toServer[s] \in Seq(ToServerTokens) /\ Len(toServer[s]) = 1
    BY <1>2, <2>1 DEF Asked
  <2> QED
    BY <2>1, <2>2, OneToken DEF Asked
<1>4. Asked(s) /\ cmd # "q" => Unanswered(s)
  BY DEF Asked, Sent, WellDefined
<1>5. pc[s] \in {"poll", "write", "reap"} => Stopping(s)
  BY DEF InExchange, Gone, Idle, Asked, Replied, Reporting, Reported
<1>6. CASE Answers(s)
  <2>1. Asked(s) /\ Head(toServer[s]).cmd = cmd /\ Tail(toServer[s]) = <<>> /\ cmd # "q"
    BY <1>3, <1>6 DEF Answers
  <2>2. /\ pc'[s] = "recv" /\ toServer'[s] = <<>>
        /\ toController'[s] = Append(<<>>, Token("r", cmd, None))
    BY <1>2, <1>6, <2>1 DEF Answers, Asked
  <2>3. toController'[s] = <<Token("r", cmd, None)>>
    BY <2>2, FirstToken
  <2>4. Replied(s)'
    BY <1>0, <1>4, <2>1, <2>2, <2>3 DEF Replied
  <2> QED
    BY <2>4 DEF InExchange
<1>7. CASE Begins(s)
  <2>1. Asked(s) /\ Head(toServer[s]).cmd = cmd /\ Tail(toServer[s]) = <<>> /\ cmd # "q"
    BY <1>3, <1>7 DEF Begins
  <2>2. /\ pc'[s] = "poll" /\ toServer'[s] = <<>> /\ doing'[s] = cmd
        /\ toController'[s] = <<>>
    BY <1>2, <1>7, <2>1 DEF Begins, Asked
  <2>3. Stopping(s)'
    BY <1>0, <1>4, <2>1, <2>2 DEF Stopping
  <2> QED
    BY <2>3 DEF InExchange
<1>8. CASE Leaves(s)
  <2>1. pc'[s] \in {"closed", "dead"} /\ toController'[s] = toController[s]
    BY <1>2, <1>8 DEF Leaves
  <2>2. toController[s] = <<>>
    BY <1>3, <1>5, <1>8 DEF Leaves, Asked, Stopping
  <2>3. Gone(s)'
    BY <2>1, <2>2 DEF Gone
  <2> QED
    BY <2>3 DEF InExchange
<1>9. CASE Works(s)
  <2>1. Stopping(s) /\ pc'[s] \in {"poll", "write", "reap"}
    BY <1>2, <1>5, <1>9 DEF Works
  <2>2. Stopping(s)'
    BY <1>0, <1>9, <2>1 DEF Works, Stopping
  <2> QED
    BY <2>2 DEF InExchange
<1>10. CASE Reports(s)
  <2>1. Stopping(s) /\ pc'[s] = "ok" /\ doing' = doing /\ toServer' = toServer
    BY <1>2, <1>5, <1>10 DEF Reports
  <2>2. PICK p \in Programs, n \in ReasonRest :
          toController' = [toController EXCEPT ![s] =
            @ \o <<Token("e", doing[s], p), Token("reason", doing[s], p)>>
              \o [i \in 1 .. n |-> Token("piece", doing[s], p)]]
    BY <1>10 DEF Reports
  <2>3. toController'[s] =
          <<>> \o <<Token("e", cmd, p), Token("reason", cmd, p)>>
            \o [i \in 1 .. n |-> Token("piece", cmd, p)]
    BY <1>2, <2>1, <2>2 DEF Stopping
  <2>4. n \in {0}
    OBVIOUS
  <2>5. toController'[s] = <<Token("e", cmd, p), Token("reason", cmd, p)>>
    BY <2>3, <2>4, ShortReport
  <2>6. Reporting(s)'
    <3>1. cmd' = cmd /\ Unanswered(s)' /\ cmd # "q" /\ doing'[s] = cmd /\ toServer'[s] = <<>>
      BY <1>0, <2>1 DEF Stopping
    <3>2. toController'[s] = <<Token("e", cmd', p), Token("reason", cmd', p)>>
      BY <2>5, <3>1
    <3> QED
      BY <2>1, <3>1, <3>2 DEF Reporting
  <2> QED
    BY <2>6 DEF InExchange
<1>11. CASE GoesOn(s)
  <2>1. Reported(s)
    BY <1>11 DEF InExchange, Gone, Idle, Asked, Replied, Stopping, Reporting, GoesOn
  <2>2. Tail(toServer[s]) = <<>>
    BY <1>2, <2>1, OneToken DEF Reported
  <2>3. /\ pc'[s] = "reap" /\ toServer'[s] = <<>> /\ doing' = doing
        /\ toController' = toController
    BY <1>2, <1>11, <2>2 DEF GoesOn
  <2>4. Stopping(s)'
    BY <1>0, <2>1, <2>3 DEF Stopping, Reported
  <2> QED
    BY <2>4 DEF InExchange
<1>12. CASE Finishes(s)
  <2>1. Stopping(s)
    BY <1>5, <1>12 DEF Finishes
  <2>2. /\ pc'[s] = "recv" /\ toServer' = toServer
        /\ toController'[s] = Append(<<>>, Token("r", cmd, None))
    BY <1>2, <1>12, <2>1 DEF Finishes, Stopping
  <2>3. toController'[s] = <<Token("r", cmd, None)>>
    BY <2>2, FirstToken
  <2>4. Replied(s)'
    BY <1>0, <2>1, <2>2, <2>3 DEF Replied, Stopping
  <2> QED
    BY <2>4 DEF InExchange
<1> QED
  BY <1>1, <1>6, <1>7, <1>8, <1>9, <1>10, <1>11, <1>12

(* A step of an agent keeps every exchange in step. *)
LEMMA AgentInStep ==
  ASSUME Typed, ReasonRest \subseteq {0}, InStep, NEW s \in Servers,
         OfServers(ServerStep(s))
  PROVE  InStep'
<1> SUFFICES ASSUME NEW t \in Servers PROVE InExchange(t)'
  BY DEF InStep
<1>1. InExchange(t)
  BY DEF InStep
<1>2. CASE t = s
  BY <1>1, <1>2, OwnAgent
<1>3. CASE t # s
  <2>1. \/ Answers(s) \/ Begins(s) \/ Leaves(s) \/ Works(s) \/ Reports(s)
        \/ GoesOn(s) \/ Finishes(s)
    BY AgentEffect DEF OfServers, Typed, TypeOK
  <2>2. /\ pc'[t] = pc[t] /\ doing'[t] = doing[t]
        /\ toServer'[t] = toServer[t] /\ toController'[t] = toController[t]
    BY <1>3, <2>1, OtherAgents DEF Typed, TypeOK
  <2> QED
    BY <1>1, <2>2, OthersStay DEF OfServers
<1> QED
  BY <1>2, <1>3

-----------------------------------------------------------------------------
(* The servers without one that is tested by hand. *)
LEMMA EveryServer ==
  ASSUME TestProxy = -1, NEW c
  PROVE  SentTo(c) = Servers /\ WaitedFor(c) = Servers
<1>1. TestProxy \notin Servers
  BY RemoteServerAssumption DEF Servers
<1>2. Servers \ {TestProxy} = Servers
  BY <1>1
<1> QED
  BY <1>2 DEF SentTo, WaitedFor

(* Sending moves the bound between those that have been asked and those that are
   still to be asked past one server. *)
LEMMA AfterSendEffect ==
  ASSUME Typed, phase = "send", AfterSend, UNCHANGED cmd, NEW t \in Servers
  PROVE  /\ t # idx => (Sent(t)' <=> Sent(t))
         /\ t # idx /\ cmd # "q" /\ Unanswered(t) => Unanswered(t)'
         /\ t = idx => Sent(t)' /\ ~Sent(t)
<1>1. /\ NumServers \in Nat /\ idx \in Nat /\ idx < NumServers
      /\ t \in Nat /\ t < NumServers
  BY RemoteServerAssumption DEF Typed, TypeOK, Servers
<1>2. ~(phase = "wait" \/ phase = "closed")
  OBVIOUS
<1>3. Unanswered(t) <=> t < idx
  BY <1>2 DEF Unanswered
<1>4. Sent(t) <=> t < idx
  BY <1>2, <1>3 DEF Sent
<1>5. CASE idx + 1 \in Servers
  <2>1. idx' = idx + 1 /\ phase' = "send"
    BY <1>5 DEF AfterSend
  <2>2. (Unanswered(t)' <=> t < idx + 1) /\ (Sent(t)' <=> t < idx + 1)
    BY <2>1 DEF Sent, Unanswered
  <2> QED
    BY <1>1, <1>3, <1>4, <2>2
<1>6. CASE idx + 1 \notin Servers
  <2>1. idx + 1 = NumServers
    BY <1>1, <1>6 DEF Servers
  <2>2. idx' = 0 /\ (phase' = IF cmd = "q" THEN "closed" ELSE "wait")
    BY <1>6 DEF AfterSend
  <2>3. Sent(t)' /\ (cmd # "q" => Unanswered(t)')
    BY <1>1, <2>2 DEF Sent, Unanswered
  <2> QED
    BY <1>1, <1>3, <1>4, <2>1, <2>3
<1> QED
  BY <1>5, <1>6

(* Sending asks an agent that has nothing to do, or is gone. *)
LEMMA SendOneInStep ==
  ASSUME Typed, TestProxy = -1, InStep, SendOne
  PROVE  InStep'
<1> SUFFICES ASSUME NEW t \in Servers PROVE InExchange(t)'
  BY DEF InStep
<1>1. /\ phase = "send" /\ AfterSend
      /\ UNCHANGED <<agentVars, progs, toController, failed, failures, cmd, exp, scen,
                     scensLeft, caught, raised, errorReasons>>
  BY DEF SendOne
<1>2. UNCHANGED <<pc, doing, toController, cmd>>
  BY <1>1 DEF agentVars
<1>3. InExchange(t) /\ idx \in Servers
  BY DEF InStep, Typed, TypeOK
<1>4. /\ toServer \in [Servers -> Seq(ToServerTokens)]
      /\ \/ toServer' = [toServer EXCEPT ![idx] =
                            Append(@, [cmd |-> cmd, arg |-> Argument(cmd)])]
         \/ pc[idx] = "dead" /\ UNCHANGED toServer
  BY EveryServer, <1>3 DEF SendOne, Typed, TypeOK, TypeOKServer
<1>5. CASE t # idx
  <2>1. toServer'[t] = toServer[t]
    BY <1>4, <1>5
  <2>2. /\ Sent(t)' <=> Sent(t)
        /\ cmd # "q" /\ Unanswered(t) => Unanswered(t)'
    BY <1>1, <1>5, AfterSendEffect
  <2>3. ASSUME Gone(t) PROVE Gone(t)'
    BY <1>2, <2>3 DEF Gone
  <2>4. ASSUME Idle(t) PROVE Idle(t)'
    BY <1>2, <2>1, <2>2, <2>4 DEF Idle
  <2>5. ASSUME Asked(t) PROVE Asked(t)'
    BY <1>2, <2>1, <2>2, <2>5 DEF Asked
  <2>6. ASSUME Replied(t) PROVE Replied(t)'
    BY <1>2, <2>1, <2>2, <2>6 DEF Replied
  <2>7. ASSUME Stopping(t) PROVE Stopping(t)'
    BY <1>2, <2>1, <2>2, <2>7 DEF Stopping
  <2>8. ASSUME Reporting(t) PROVE Reporting(t)'
    BY <1>2, <2>1, <2>2, <2>8 DEF Reporting
  <2>9. ASSUME Reported(t) PROVE Reported(t)'
    BY <1>2, <2>1, <2>2, <2>9 DEF Reported
  <2> QED
    BY <1>3, <2>3, <2>4, <2>5, <2>6, <2>7, <2>8, <2>9 DEF InExchange
<1>6. CASE t = idx
  <2> DEFINE request == [cmd |-> cmd, arg |-> Argument(cmd)]
  <2>1. ~Sent(t)
    BY <1>1, <1>2, <1>6, AfterSendEffect
  <2>2. Gone(t) \/ Idle(t)
    BY <1>3, <2>1
    DEF InExchange, Asked, Replied, Stopping, Reporting, Reported, Sent
  <2>3. CASE Gone(t)
    <3>1. Gone(t)'
      BY <1>2, <2>3 DEF Gone
    <3> QED
      BY <3>1 DEF InExchange
  <2>4. CASE Idle(t)
    <3>1. toServer'[idx] = Append(<<>>, request)
      BY <1>3, <1>4, <1>6, <2>4 DEF Idle
    <3>2. Len(toServer'[idx]) = 1 /\ toServer'[idx][1] = request
      BY <3>1, FirstToken
    <3>3. toServer'[t][1].cmd = cmd' /\ Len(toServer'[t]) = 1
      BY <1>2, <1>6, <3>2
    <3>4. Sent(t)'
      BY <1>1, <1>2, <1>6, AfterSendEffect
    <3>5. Asked(t)'
      BY <1>2, <2>4, <3>3, <3>4 DEF Asked, Idle
    <3> QED
      BY <3>5 DEF InExchange
  <2> QED
    BY <2>2, <2>3, <2>4
<1> QED
  BY <1>5, <1>6

-----------------------------------------------------------------------------
(* Going on to the next server, or from the last to the next command, ends the
   exchange with the server the loop was at, and with no other. *)
LEMMA AfterReplyEffect ==
  ASSUME Typed, phase = "wait", AfterReply, NEW t \in Servers
  PROVE  /\ t = idx => ~Sent(t)'
         /\ t # idx /\ ~Sent(t) => ~Sent(t)'
         /\ t # idx /\ Sent(t) => Unanswered(t) /\ Unanswered(t)' /\ UNCHANGED cmd
<1>1. /\ NumServers \in Nat /\ idx \in Nat /\ idx < NumServers
      /\ t \in Nat /\ t < NumServers
  BY RemoteServerAssumption DEF Typed, TypeOK, Servers
<1>2. (Unanswered(t) <=> idx <= t) /\ (Sent(t) <=> idx <= t)
  BY DEF Unanswered, Sent
<1>3. CASE idx + 1 \in Servers
  <2>1. idx' = idx + 1 /\ phase' = "wait" /\ UNCHANGED cmd
    BY <1>3 DEF AfterReply
  <2>2. (Unanswered(t)' <=> idx + 1 <= t) /\ (Sent(t)' <=> idx + 1 <= t)
    BY <2>1 DEF Unanswered, Sent
  <2> QED
    BY <1>1, <1>2, <2>1, <2>2
<1>4. CASE idx + 1 \notin Servers
  <2>1. idx + 1 = NumServers
    BY <1>1, <1>4 DEF Servers
  <2>2. phase' = "ready" \/ (phase' = "send" /\ idx' = 0)
    BY <1>4 DEF AfterReply, NextCommand, Broadcast
  <2>3. ~Sent(t)'
    BY <1>1, <2>2 DEF Unanswered, Sent
  <2> QED
    BY <1>1, <1>2, <2>1, <2>3
<1> QED
  BY <1>3, <1>4

(* The exchanges with the other servers are as they were. *)
LEMMA AfterReplyOthers ==
  ASSUME Typed, phase = "wait", AfterReply, NEW t \in Servers, t # idx,
         InExchange(t), UNCHANGED agentVars, toServer'[t] = toServer[t],
         toController'[t] = toController[t]
  PROVE  InExchange(t)'
<1>1. UNCHANGED <<pc, doing>>
  BY DEF agentVars
<1>2. /\ ~Sent(t) => ~Sent(t)'
      /\ Sent(t) => Unanswered(t) /\ Unanswered(t)' /\ UNCHANGED cmd
  BY AfterReplyEffect
<1>3. (Unanswered(t) => Sent(t)) /\ (Unanswered(t)' => Sent(t)')
  BY DEF Sent
<1>4. ASSUME Gone(t) PROVE Gone(t)'
  BY <1>1, <1>4 DEF Gone
<1>5. ASSUME Idle(t) PROVE Idle(t)'
  BY <1>1, <1>2, <1>5 DEF Idle
<1>6. ASSUME Asked(t) PROVE Asked(t)'
  BY <1>1, <1>2, <1>3, <1>6 DEF Asked
<1>7. ASSUME Replied(t) PROVE Replied(t)'
  BY <1>1, <1>2, <1>3, <1>7 DEF Replied
<1>8. ASSUME Stopping(t) PROVE Stopping(t)'
  BY <1>1, <1>2, <1>3, <1>8 DEF Stopping
<1>9. ASSUME Reporting(t) PROVE Reporting(t)'
  BY <1>1, <1>2, <1>3, <1>9 DEF Reporting
<1>10. ASSUME Reported(t) PROVE Reported(t)'
  BY <1>1, <1>2, <1>3, <1>10 DEF Reported
<1> QED
  BY <1>4, <1>5, <1>6, <1>7, <1>8, <1>9, <1>10 DEF InExchange

(* A reply that is not an error is that of an agent that has answered, which then
   has nothing to do. *)
LEMMA TakeReadyInStep ==
  ASSUME Typed, InStep, TakeReady
  PROVE  InStep'
<1> SUFFICES ASSUME NEW t \in Servers PROVE InExchange(t)'
  BY DEF InStep
<1>1. /\ phase = "wait" /\ AfterReply /\ toController[idx] # <<>>
      /\ Head(toController[idx]).kind # "e"
      /\ toController' = [toController EXCEPT ![idx] = Tail(@)]
      /\ UNCHANGED <<agentVars, toServer>>
  BY DEF TakeReady, Awaits
<1>2. InExchange(t) /\ idx \in Servers
      /\ toController \in [Servers -> Seq(ToControllerTokens)]
  BY DEF InStep, Typed, TypeOK, TypeOKServer
<1>3. CASE t # idx
  BY <1>1, <1>2, <1>3, AfterReplyOthers
<1>4. CASE t = idx
  <2>1. ~Reporting(t)
    <3> SUFFICES ASSUME NEW p, toController[t] = <<Token("e", cmd, p), Token("reason", cmd, p)>>
                 PROVE  FALSE
      BY DEF Reporting
    <3>1. Head(toController[t]) = Token("e", cmd, p)
      BY TwoTokens
    <3> QED
      BY <1>1, <1>4, <3>1 DEF Token
  <2>2. Replied(t)
    BY <1>1, <1>2, <1>4, <2>1 DEF InExchange, Gone, Idle, Asked, Stopping, Reported
  <2>3. toController'[t] = <<>>
    BY <1>1, <1>2, <1>4, <2>2, FirstToken DEF Replied
  <2>4. ~Sent(t)'
    BY <1>1, <1>4, AfterReplyEffect
  <2>5. Idle(t)'
    BY <1>1, <2>2, <2>3, <2>4 DEF Idle, Replied, agentVars
  <2> QED
    BY <2>5 DEF InExchange
<1> QED
  BY <1>3, <1>4

(* A server that is passed over is gone. *)
LEMMA PassOverInStep ==
  ASSUME Typed, TestProxy = -1, InStep, PassOver
  PROVE  InStep'
<1> SUFFICES ASSUME NEW t \in Servers PROVE InExchange(t)'
  BY DEF InStep
<1>1. /\ phase = "wait" /\ AfterReply /\ UNCHANGED serverVars
      /\ pc[idx] = "dead" /\ toController[idx] = <<>>
  BY EveryServer DEF PassOver, Typed, TypeOK
<1>2. InExchange(t) /\ UNCHANGED <<agentVars, toServer, toController, pc>>
  BY <1>1 DEF InStep, serverVars, agentVars
<1>3. CASE t # idx
  BY <1>1, <1>2, <1>3, AfterReplyOthers
<1>4. CASE t = idx
  <2>1. Gone(t)'
    BY <1>1, <1>2, <1>4 DEF Gone
  <2> QED
    BY <2>1 DEF InExchange
<1> QED
  BY <1>3, <1>4

(* An error is that of an agent that reports, which gets its "ok". *)
LEMMA TakeErrorInStep ==
  ASSUME Typed, InStep, TakeError
  PROVE  InStep'
<1> SUFFICES ASSUME NEW t \in Servers PROVE InExchange(t)'
  BY DEF InStep
<1> DEFINE ok == [cmd |-> "ok", arg |-> None]
<1>1. /\ Len(toController[idx]) > 1 /\ Head(toController[idx]).kind = "e"
      /\ toController' = [toController EXCEPT ![idx] = Tail(Tail(@))]
      /\ IF pc[idx] = "dead"
         THEN UNCHANGED toServer
         ELSE toServer' = [toServer EXCEPT ![idx] = Append(@, ok)]
      /\ UNCHANGED <<agentVars, controlVars>>
  BY DEF TakeError
<1>2. UNCHANGED <<pc, doing, cmd>> /\ (Unanswered(t)' <=> Unanswered(t))
  BY <1>1 DEF agentVars, controlVars, Unanswered
<1>3. /\ InExchange(t) /\ idx \in Servers
      /\ toController \in [Servers -> Seq(ToControllerTokens)]
      /\ toServer \in [Servers -> Seq(ToServerTokens)]
  BY DEF InStep, Typed, TypeOK, TypeOKServer
<1>4. CASE t # idx
  <2>1. toServer'[t] = toServer[t] /\ toController'[t] = toController[t]
    BY <1>1, <1>3, <1>4
  <2> QED
    BY <1>1, <1>2, <1>3, <2>1, OthersStay
<1>5. CASE t = idx
  <2>1. toController[t] # <<>> /\ ~Replied(t)
    <3>1. Len(toController[t]) > 1
      BY <1>1, <1>5
    <3>2. ASSUME toController[t] = <<>> PROVE FALSE
      <4>1. Len(toController[t]) = 0
        BY <3>2, EmptySeq
      <4> QED
        BY <3>1, <4>1
    <3>3. ASSUME Replied(t) PROVE FALSE
      <4>1. toController[t] = <<Token("r", cmd, None)>>
        BY <3>3 DEF Replied
      <4>2. Len(toController[t]) = 1
        BY <4>1, FirstToken
      <4> QED
        BY <3>1, <4>2
    <3> QED
      BY <3>2, <3>3
  <2>2. Reporting(t)
    BY <1>3, <2>1 DEF InExchange, Gone, Idle, Asked, Stopping, Reported
  <2>3. toController'[t] = <<>>
    <3>1. PICK p \in Programs :
            toController[t] = <<Token("e", cmd, p), Token("reason", cmd, p)>>
      BY <2>2 DEF Reporting
    <3>2. Tail(Tail(toController[t])) = <<>>
      BY <3>1, TwoTokens
    <3> QED
      BY <1>1, <1>3, <1>5, <3>2
  <2>4. toServer'[t] = Append(<<>>, ok)
    BY <1>1, <1>3, <1>5, <2>2 DEF Reporting
  <2>5. Len(toServer'[t]) = 1
    BY <2>4, FirstToken
  <2>6. Reported(t)'
    BY <1>2, <2>2, <2>3, <2>5 DEF Reporting, Reported
  <2> QED
    BY <2>6 DEF InExchange
<1> QED
  BY <1>4, <1>5

-----------------------------------------------------------------------------
(* Outside experiment() no agent has anything to do, and a new command finds them so. *)
LEMMA BroadcastInStep ==
  ASSUME Typed, InStep, phase = "ready", NEW c, Broadcast(c),
         UNCHANGED <<agentVars, toServer, toController>>
  PROVE  InStep'
<1> SUFFICES ASSUME NEW t \in Servers PROVE InExchange(t)'
  BY DEF InStep
<1>1. ~Sent(t) /\ ~Sent(t)'
  <2>1. t \in Nat
    BY DEF Servers
  <2> QED
    BY <2>1 DEF Sent, Unanswered, Broadcast
<1>2. Gone(t) \/ Idle(t)
  BY <1>1 DEF InStep, InExchange, Asked, Replied, Stopping, Reporting, Reported, Sent
<1>3. Gone(t)' \/ Idle(t)'
  BY <1>1, <1>2 DEF Gone, Idle, agentVars
<1> QED
  BY <1>3 DEF InExchange

(* Nor does anything else the menu does disturb an exchange. *)
LEMMA QuietInStep ==
  ASSUME InStep, UNCHANGED <<serverVars, phase, cmd, idx>>
  PROVE  InStep'
BY DEF InStep, InExchange, Gone, Idle, Asked, Replied, Stopping, Reporting, Reported,
       Sent, Unanswered, serverVars, agentVars

(* A step of a program does not touch the exchanges. *)
LEMMA ProgramInStep ==
  ASSUME InStep, OfServers(ProgramStep)
  PROVE  InStep'
<1>1. UNCHANGED <<agentVars, toServer, toController, controlVars>>
  BY DEF OfServers, ProgramStep, ProgramEnds, ProgramFails
<1> QED
  BY <1>1 DEF InStep, InExchange, Gone, Idle, Asked, Replied, Stopping, Reporting,
              Reported, Sent, Unanswered, agentVars, controlVars

(* Every step keeps the exchanges in step, or raises. *)
LEMMA NextInStep ==
  ASSUME ReasonRest \subseteq {0}, TestProxy = -1, IInv, [NextMenu]_allVars
  PROVE  ~raised' => InStep'
<1> SUFFICES ASSUME ~raised' PROVE InStep'
  OBVIOUS
<1>0. Typed
  BY DEF IInv, TypedMenu
<1>1. ASSUME Fail PROVE FALSE
  BY <1>1 DEF Fail, Raise
<1>2. ASSUME UNCHANGED raised PROVE InStep
  BY <1>2 DEF IInv
<1>3. CASE MenuStep
  <2>1. CASE RunList \/ RunFailed \/ RunRerun \/ LoadFailed
    <3>1. UNCHANGED <<serverVars, phase, cmd, idx, raised>>
      BY <2>1 DEF RunList, RunFailed, RunRerun, LoadFailed, controlVars
    <3> QED
      BY <1>2, <3>1, QuietInStep
  <2>2. CASE QuitMenu
    <3>1. /\ phase = "ready" /\ Broadcast("q")
          /\ UNCHANGED <<agentVars, toServer, toController, raised>>
      BY <2>2 DEF QuitMenu, BeginQuit, serverVars
    <3> QED
      BY <1>0, <1>2, <3>1, BroadcastInStep
  <2>3. CASE Skip \/ EndOfList \/ LogErrors
    <3>1. UNCHANGED <<serverVars, phase, cmd, idx, raised>>
      BY <2>3 DEF Skip, EndOfList, LogErrors, vars, controlVars
    <3> QED
      BY <1>2, <3>1, QuietInStep
  <2>4. CASE RunNext
    <3>1. /\ phase = "ready" /\ Broadcast("e")
          /\ UNCHANGED <<agentVars, toServer, toController, raised>>
      BY <2>4 DEF RunNext, Begin
    <3> QED
      BY <1>0, <1>2, <3>1, BroadcastInStep
  <2>5. CASE MenuFail
    BY <1>1, <2>5 DEF MenuFail
  <2> QED
    BY <1>3, <2>1, <2>2, <2>3, <2>4, <2>5 DEF MenuStep
<1>4. CASE ExchangeStep
  <2>1. SendOne \/ TakeReady \/ TakeError \/ PassOver
    BY <1>4 DEF ExchangeStep, WithinExperiment
  <2>2. UNCHANGED raised
    BY <2>1 DEF SendOne, TakeReady, TakeError, PassOver, controlVars
  <2> QED
    BY <1>0, <1>2, <2>1, <2>2, SendOneInStep, TakeReadyInStep, TakeErrorInStep,
       PassOverInStep
<1>5. CASE ProgramsStep
  <2>1. OfServers(ProgramStep) /\ UNCHANGED raised
    BY <1>5 DEF ProgramsStep, WithinExperiment, OfServers, controlVars
  <2> QED
    BY <1>2, <2>1, ProgramInStep
<1>6. CASE \E s \in Servers : AgentStep(s)
  <2>1. PICK s \in Servers : OfServers(ServerStep(s))
    BY <1>6 DEF AgentStep, WithinExperiment
  <2>2. UNCHANGED raised
    BY <2>1 DEF OfServers, controlVars
  <2> QED
    BY <1>0, <1>2, <2>1, <2>2, AgentInStep
<1>7. CASE UNCHANGED allVars
  <2>1. UNCHANGED <<serverVars, phase, cmd, idx, raised>>
    BY <1>7 DEF allVars, vars, controlVars
  <2> QED
    BY <1>2, <2>1, QuietInStep
<1> QED
  BY <1>3, <1>4, <1>5, <1>6, <1>7 DEF NextMenu

(* At first nobody has anything to do. *)
LEMMA InitInStep == InitMenu => InStep
<1> SUFFICES ASSUME InitMenu, NEW s \in Servers PROVE Idle(s)
  BY DEF InStep, InExchange
<1> QED
  BY DEF Idle, Sent, Unanswered, InitMenu, Init, InitServer, InitControl

(* What is unread from a server in each place of the exchange. *)
LEMMA InStepReplies ==
  ASSUME InStep, NEW s \in Servers
  PROVE  /\ \A i \in DOMAIN toController[s] : Unanswered(s) /\ toController[s][i].re = cmd
         /\ pc[s] \in {"poll", "write", "reap", "ok"} => Unanswered(s) /\ doing[s] = cmd
<1>1. InExchange(s)
  BY DEF InStep
<1>2. pc[s] \in {"poll", "write", "reap", "ok"} => Unanswered(s) /\ doing[s] = cmd
  BY <1>1 DEF InExchange, Gone, Idle, Asked, Replied, Stopping, Reporting, Reported
<1>3. CASE toController[s] = <<>>
  BY <1>2, <1>3
<1>4. CASE Replied(s)
  BY <1>2, <1>4 DEF Replied, Token
<1>5. CASE Reporting(s)
  <2>1. PICK p \in Programs :
          toController[s] = <<Token("e", cmd, p), Token("reason", cmd, p)>>
    BY <1>5 DEF Reporting
  <2> QED
    BY <1>2, <1>5, <2>1 DEF Reporting, Token
<1> QED
  BY <1>1, <1>3, <1>4, <1>5
  DEF InExchange, Gone, Idle, Asked, Stopping, Reported

(* Replies match: however many servers there are, whatever fails and when, a reply the
   controller reads answers the command it waits for, until an exception is raised. *)
THEOREM RepliesStayInStep ==
  ASSUME ReasonRest \subseteq {0}, TestProxy = -1
  PROVE  SpecMenu => []RepliesMatch
<1>1. InitMenu => IInv
  BY InitMenuTyped, InitInStep DEF IInv
<1>2. IInv /\ [NextMenu]_allVars => IInv'
  BY NextInStep, NextMenuTyped DEF IInv
<1>3. IInv => RepliesMatch
  BY InStepReplies DEF IInv, RepliesMatch
<1> QED
  BY <1>1, <1>2, <1>3, PTL DEF SpecMenu
-----------------------------------------------------------------------------
(* The order in which programs are started and stopped, and the failures    *)
(* that are recorded, on top of the exchanges.                              *)

\* The current command has been carried out on the server.
Answered(s) ==
  \/ pc[s] = "recv" /\ toController[s] # <<>>
  \/ phase = "ready"
  \/ phase = "wait" /\ s < idx

\* The dictionaries, named by the commands that start them, whose programs are up
\* before a command has been carried out, and after it.
UpBefore(c) == CASE c \in {"p", "tr"} -> {"r"}
                 [] c \in {"s", "tp"} -> {"r", "p"}
                 [] c = "ts" -> {"r", "p", "s"}
                 [] OTHER -> {}
UpAfter(c) == CASE c \in {"r", "tp"} -> {"r"}
                [] c \in {"p", "ts"} -> {"r", "p"}
                [] c = "s" -> {"r", "p", "s"}
                [] OTHER -> {}
Up(s) == IF Answered(s) THEN UpAfter(cmd) ELSE UpBefore(cmd)

\* The dictionary a stop command works on.
StoppedBy(c) == CASE c = "tr" -> "r" [] c = "tp" -> "p" [] OTHER -> "s"

\* An agent has started and stopped what the commands so far say; of the dictionary
\* it is stopping nothing is said.
InStage(s) ==
  \A k \in StartCommands :
    /\ k \in Up(s) /\ (pc[s] = "recv" \/ k # StoppedBy(doing[s])) =>
         \A p \in Kind(k) : progs[s][p].st # "none"
    /\ k \notin Up(s) => \A p \in Kind(k) : ~Started(progs[s][p])

\* An agent that reaps has still to visit every program it has started.
Reaping(s) ==
  /\ pc[s] \in {"poll", "write", "reap", "ok"} => doing[s] \in StopCommands
  /\ pc[s] \in {"reap", "ok"} =>
       /\ rest[s] \subseteq Kind(doing[s])
       /\ \A p \in Kind(doing[s]) :
            Started(progs[s][p]) => p \in rest[s] \/ (pc[s] = "ok" /\ p = at[s])
  /\ pc[s] = "ok" => at[s] \in Kind(doing[s])

\* A server that has the folder of the experiment has entered it, every server has
\* been told the scenario, and programs are of both.
Told(s) ==
  /\ pc[s] = "recv" /\ toServer[s] # <<>> => toServer[s][1].arg = Argument(cmd)
  /\ cmd # "q" /\ (cmd = "e" => Answered(s)) /\ s \in Deployed[exp] => folder[s] = exp
  /\ cmd \in StartCommands \cup StopCommands \/ (cmd = "sc" /\ Answered(s)) =>
       scenario[s] = scen
  /\ \A p \in Programs :
       Started(progs[s][p]) =>
         /\ progs[s][p].scen = scen
         /\ s \in Deployed[exp] => progs[s][p].exp = exp

AllReap == \A s \in Servers : Reaping(s)
AllInOrder == \A s \in Servers : Serving(s) => InStage(s) /\ Told(s)

\* Between two experiments nothing is up.
AtRest == phase = "ready" => cmd \in {"cr", "tr", "q"}

\* The inductive invariant of the order of the programs.
OrderInv == IInv /\ AllReap /\ (~raised => AtRest /\ AllInOrder)

-----------------------------------------------------------------------------
(* The dictionaries of the commands that start and stop programs. *)
LEMMA KindFacts ==
  /\ Programs = Kind("r") \cup Kind("p") \cup Kind("s")
  /\ \A c : Kind(c) \subseteq Programs
  /\ \A k, l \in StartCommands : k # l => Kind(k) \cap Kind(l) = {}
  /\ \A c \in StopCommands : StoppedBy(c) \in StartCommands /\ Kind(c) = Kind(StoppedBy(c))
<1>1. Kind("r") = Receivers /\ Kind("p") = Proxies /\ Kind("s") = Senders
  BY DEF Kind
<1>2. Kind("tr") = Receivers /\ Kind("tp") = Proxies /\ Kind("ts") = Senders
  BY DEF Kind
<1>3. StoppedBy("tr") = "r" /\ StoppedBy("tp") = "p" /\ StoppedBy("ts") = "s"
  BY DEF StoppedBy
<1>4. Receivers \cap Proxies = {} /\ Receivers \cap Senders = {} /\ Proxies \cap Senders = {}
  BY RemoteServerAssumption
<1>5. ASSUME NEW c PROVE Kind(c) \subseteq Programs
  BY DEF Kind, Programs
<1>6. ASSUME NEW k \in StartCommands, NEW l \in StartCommands, k # l
      PROVE  Kind(k) \cap Kind(l) = {}
  BY <1>1, <1>4, <1>6 DEF StartCommands
<1>7. ASSUME NEW c \in StopCommands
      PROVE  StoppedBy(c) \in StartCommands /\ Kind(c) = Kind(StoppedBy(c))
  BY <1>1, <1>2, <1>3, <1>7 DEF StopCommands, StartCommands
<1>8. Programs = Kind("r") \cup Kind("p") \cup Kind("s")
  BY <1>1 DEF Programs
<1> QED
  BY <1>5, <1>6, <1>7, <1>8

(* What is up before and after each command. *)
LEMMA UpFacts ==
  ASSUME NEW c
  PROVE  /\ c \in PlainCommands \cup {"e", "sc", "q"} => UpBefore(c) = {} /\ UpAfter(c) = {}
         /\ c \in StartCommands => c \notin UpBefore(c) /\ UpAfter(c) = UpBefore(c) \cup {c}
         /\ c \in StopCommands => UpAfter(c) = UpBefore(c) \ {StoppedBy(c)}
<1>1. CASE c \in PlainCommands \cup {"e", "sc", "q"}
  BY <1>1 DEF PlainCommands, UpBefore, UpAfter, StartCommands, StopCommands
<1>2. CASE c \in StartCommands
  BY <1>2 DEF PlainCommands, UpBefore, UpAfter, StartCommands, StopCommands
<1>3. CASE c \in StopCommands
  BY <1>3 DEF PlainCommands, UpBefore, UpAfter, StartCommands, StopCommands, StoppedBy
<1> QED
  BY <1>1, <1>2, <1>3

(* The next command finds up what the one before has left so. *)
LEMMA UpNext ==
  /\ UpAfter("cr") = {} /\ UpAfter("tr") = {} /\ UpAfter("q") = {} /\ UpBefore("tc") = {}
  /\ UpBefore("e") = {} /\ UpBefore("q") = {}
  /\ \A c \in {"e", "tc", "cs", "sc", "r", "p", "s", "ts", "tp"} :
       UpBefore(Following[c]) = UpAfter(c)
BY DEF UpBefore, UpAfter, Following

-----------------------------------------------------------------------------
\* Everything an agent, its programs and its connection are is left alone.
Untouched(t) ==
  /\ pc'[t] = pc[t] /\ doing'[t] = doing[t] /\ rest'[t] = rest[t] /\ at'[t] = at[t]
  /\ folder'[t] = folder[t] /\ scenario'[t] = scenario[t] /\ progs'[t] = progs[t]
  /\ toServer'[t] = toServer[t] /\ toController'[t] = toController[t]

(* A step of an agent is its own. *)
LEMMA AgentsApart ==
  ASSUME TypeOKServer, NEW s \in Servers, ServerStep(s), NEW t \in Servers, t # s
  PROVE  Untouched(t)
<1> USE DEF TypeOKServer, Untouched
<1>1. CASE Answer(s)
  BY <1>1 DEF Answer, Consume, Ready
<1>2. CASE EnterExperiment(s)
  <2>1. folder'[t] = folder[t] /\ progs'[t] = progs[t]
    BY <1>2 DEF EnterExperiment
  <2> QED
    BY <1>2, <2>1 DEF EnterExperiment, Consume, Ready
<1>3. CASE SetScenario(s)
  BY <1>3 DEF SetScenario, Consume, Ready
<1>4. CASE Launch(s)
  <2>1. /\ \E f : progs' = [progs EXCEPT ![s] = f]
        /\ Consume(s) /\ \E c : Ready(s, c)
        /\ UNCHANGED <<pc, doing, rest, at, folder, scenario, failed, failures>>
    BY <1>4 DEF Launch
  <2> QED
    BY <2>1 DEF Consume, Ready
<1>5. CASE BeginStop(s)
  BY <1>5 DEF BeginStop, Consume
<1>6. CASE Poll(s)
  BY <1>6 DEF Poll
<1>7. CASE WriteQuit(s)
  BY <1>7 DEF WriteQuit
<1>8. CASE BeginReap(s)
  BY <1>8 DEF BeginReap
<1>9. CASE Reap(s)
  <2>1. PICK p \in rest[s] :
        /\ rest' = [rest EXCEPT ![s] = @ \ {p}]
        /\ \/ /\ progs' = [progs EXCEPT ![s][p] = NotStarted]
              /\ UNCHANGED <<pc, at, toController>>
           \/ /\ pc' = [pc EXCEPT ![s] = "ok"]
              /\ at' = [at EXCEPT ![s] = p]
              /\ \E q : toController' = [toController EXCEPT ![s] = q]
              /\ UNCHANGED progs
    BY <1>9 DEF Reap
  <2>2. UNCHANGED <<doing, folder, scenario, toServer>>
    BY <1>9 DEF Reap
  <2> QED
    BY <2>1, <2>2
<1>10. CASE GetOk(s)
  BY <1>10 DEF GetOk, Consume
<1>11. CASE FinishStop(s)
  BY <1>11 DEF FinishStop, Ready
<1>12. CASE Leave(s)
  BY <1>12 DEF Leave, Consume
<1> QED
  BY <1>1, <1>2, <1>3, <1>4, <1>5, <1>6, <1>7, <1>8, <1>9, <1>10, <1>11, <1>12
  DEF ServerStep

\* A step that neither starts nor stops a program, of all those of an agent.
SameStarted(s) ==
  \A p \in Programs :
    /\ Started(progs[s][p])' <=> Started(progs[s][p])
    /\ progs[s][p].st # "none" => progs[s][p].st' # "none"
    /\ progs[s][p].st = "absent" => progs[s][p].st' = "absent"
    /\ progs'[s][p].scen = progs[s][p].scen /\ progs'[s][p].exp = progs[s][p].exp

(* A program that has been started remains so, and nothing else of the entry changes,
   when its state is set to one of a process. *)
LEMMA StateSameStarted ==
  ASSUME progs \in AllProgs, NEW s \in Servers, NEW p \in Programs,
         NEW x \in {"running", "asked", "ended", "failed"}, Started(progs[s][p]),
         progs' = [progs EXCEPT ![s][p].st = x], NEW t \in Servers
  PROVE  SameStarted(t)
<1>1. ASSUME NEW q \in Programs
      PROVE  /\ progs'[t][q] = progs[t][q] \/ (t = s /\ q = p)
             /\ t = s /\ q = p => progs'[t][q] = [progs[t][q] EXCEPT !.st = x]
             /\ progs[t][q] \in Slots
  BY DEF AllProgs
<1> QED
  BY <1>1 DEF SameStarted, Started, Slots

(* A program ends or fails: it counts as started until it is waited for. *)
LEMMA ProgramSameStarted ==
  ASSUME TypeOKServer, ProgramStep, NEW t \in Servers
  PROVE  SameStarted(t)
<1> PICK s \in Servers, p \in Programs : ProgramEnds(s, p) \/ ProgramFails(s, p)
  BY DEF ProgramStep
<1>1. Alive(progs[s][p]) => Started(progs[s][p])
  BY DEF Alive, Started
<1>2. progs \in AllProgs
  BY DEF TypeOKServer, AllProgs
<1>3. CASE ProgramEnds(s, p)
  <2>1. Started(progs[s][p]) /\ progs' = [progs EXCEPT ![s][p].st = "ended"]
    BY <1>1, <1>3 DEF ProgramEnds, Alive
  <2> QED
    BY <1>2, <2>1, StateSameStarted
<1>4. CASE ProgramFails(s, p)
  <2>1. Started(progs[s][p]) /\ progs' = [progs EXCEPT ![s][p].st = "failed"]
    BY <1>1, <1>4 DEF ProgramFails
  <2> QED
    BY <1>2, <2>1, StateSameStarted
<1> QED
  BY <1>3, <1>4

(* What a record of a program says while nothing happens to it. *)
LEMMA UntouchedSameStarted ==
  ASSUME NEW t, progs'[t] = progs[t]
  PROVE  SameStarted(t)
BY DEF SameStarted, Started

-----------------------------------------------------------------------------
(* An agent that reaps goes on as long as nothing is started under it. *)
LEMMA ReapingKept ==
  ASSUME NEW s \in Servers, Reaping(s), SameStarted(s),
         pc'[s] = pc[s], doing'[s] = doing[s], rest'[s] = rest[s], at'[s] = at[s]
  PROVE  Reaping(s)'
<1>1. \A p \in Kind(doing[s]) : Started(progs[s][p])' => Started(progs[s][p])
  BY KindFacts DEF SameStarted
<1>2. Kind(doing[s])' = Kind(doing[s])
  BY DEF Kind
<1> QED
  BY <1>1, <1>2 DEF Reaping

(* Reaping begins with all that has been started, and each program is left out of it
   once it has been waited for. *)
LEMMA AgentReaping ==
  ASSUME TypeOKServer, NEW s \in Servers, Reaping(s), ServerStep(s)
  PROVE  Reaping(s)'
<1> USE DEF TypeOKServer
<1>1. CASE Answer(s) \/ EnterExperiment(s) \/ SetScenario(s) \/ Launch(s)
  <2>1. pc[s] = "recv" /\ pc' = pc
    BY <1>1 DEF Answer, EnterExperiment, SetScenario, Launch, Reads
  <2> QED
    BY <2>1 DEF Reaping
<1>2. CASE BeginStop(s)
  <2>1. PICK c \in StopCommands :
          pc' = [pc EXCEPT ![s] = "poll"] /\ doing' = [doing EXCEPT ![s] = c]
    BY <1>2 DEF BeginStop
  <2>2. pc'[s] = "poll" /\ doing'[s] = c
    BY <2>1
  <2> QED
    BY <2>2 DEF Reaping
<1>3. CASE Poll(s) \/ WriteQuit(s)
  <2>1. /\ pc[s] \in {"poll", "write"} /\ pc'[s] \in {"poll", "write", "dead"}
        /\ doing' = doing
    BY <1>3 DEF Poll, WriteQuit
  <2> QED
    BY <2>1 DEF Reaping
<1>4. CASE BeginReap(s)
  <2>1. /\ pc[s] = "poll" /\ pc'[s] = "reap" /\ doing' = doing /\ progs' = progs
        /\ rest'[s] = StartedOf(s, doing[s])
    BY <1>4 DEF BeginReap
  <2>2. doing'[s] \in StopCommands
    BY <2>1 DEF Reaping
  <2>3. \A p : p \in rest'[s] <=> p \in Kind(doing'[s]) /\ Started(progs'[s][p])
    BY <2>1 DEF StartedOf
  <2> QED
    BY <2>1, <2>2, <2>3 DEF Reaping
<1>5. CASE Reap(s)
  <2>1. PICK p \in rest[s] :
        /\ rest' = [rest EXCEPT ![s] = @ \ {p}]
        /\ \/ /\ progs' = [progs EXCEPT ![s][p] = NotStarted]
              /\ UNCHANGED <<pc, at>>
           \/ /\ pc' = [pc EXCEPT ![s] = "ok"]
              /\ at' = [at EXCEPT ![s] = p]
              /\ UNCHANGED progs
    BY <1>5 DEF Reap
  <2>2. pc[s] = "reap" /\ doing' = doing
    BY <1>5 DEF Reap
  <2>3. p \in Kind(doing[s]) /\ doing[s] \in StopCommands /\ rest[s] \subseteq Kind(doing[s])
    BY <2>2 DEF Reaping
  <2>4. rest'[s] = rest[s] \ {p}
    BY <2>1
  <2>5. \A q \in Kind(doing[s]) : Started(progs[s][q]) => q \in rest[s]
    BY <2>2 DEF Reaping
  <2>6. CASE progs' = [progs EXCEPT ![s][p] = NotStarted] /\ UNCHANGED <<pc, at>>
    <3>1. ~Started(progs'[s][p])
      BY <2>6, KindFacts DEF Started, NotStarted
    <3>2. \A q \in Programs \ {p} : progs'[s][q] = progs[s][q]
      BY <2>6
    <3>3. \A q \in Kind(doing[s]) : Started(progs'[s][q]) => q \in rest'[s]
      BY <2>4, <2>5, <3>1, <3>2, KindFacts
    <3> QED
      BY <2>2, <2>3, <2>4, <2>6, <3>3 DEF Reaping
  <2>7. CASE /\ pc' = [pc EXCEPT ![s] = "ok"] /\ at' = [at EXCEPT ![s] = p]
             /\ UNCHANGED progs
    <3>1. pc'[s] = "ok" /\ at'[s] = p
      BY <2>7
    <3>2. \A q \in Kind(doing[s]) : Started(progs'[s][q]) => q \in rest'[s] \/ q = at'[s]
      BY <2>4, <2>5, <2>7, <3>1
    <3> QED
      BY <2>2, <2>3, <2>4, <3>1, <3>2 DEF Reaping
  <2> QED
    BY <2>1, <2>6, <2>7
<1>6. CASE GetOk(s)
  <2>1. /\ pc[s] = "ok" /\ pc'[s] = "reap" /\ doing' = doing /\ rest' = rest
        /\ progs' = [progs EXCEPT ![s][at[s]] = NotStarted]
    BY <1>6 DEF GetOk
  <2>2. at[s] \in Kind(doing[s]) /\ doing[s] \in StopCommands /\ at[s] \in Programs
    BY <2>1, KindFacts DEF Reaping
  <2>3. ~Started(progs'[s][at[s]])
    BY <2>1, <2>2 DEF Started, NotStarted
  <2>4. \A q \in Programs \ {at[s]} : progs'[s][q] = progs[s][q]
    BY <2>1
  <2>5. \A q \in Kind(doing[s]) : Started(progs'[s][q]) => q \in rest[s]
    BY <2>1, <2>3, <2>4, KindFacts DEF Reaping
  <2> QED
    BY <2>1, <2>2, <2>5 DEF Reaping
<1>7. CASE FinishStop(s) \/ Leave(s)
  <2>1. pc'[s] \in {"recv", "closed"}
    BY <1>7 DEF FinishStop, Leave
  <2> QED
    BY <2>1 DEF Reaping
<1> QED
  BY <1>1, <1>2, <1>3, <1>4, <1>5, <1>6, <1>7 DEF ServerStep

(* Every step keeps it so. *)
LEMMA NextReaping ==
  ASSUME TypedMenu, AllReap, [NextMenu]_allVars
  PROVE  AllReap'
<1> SUFFICES ASSUME NEW t \in Servers PROVE Reaping(t)'
  BY DEF AllReap
<1>0. TypeOKServer /\ Reaping(t)
  BY DEF TypedMenu, Typed, TypeOK, AllReap
<1>1. ASSUME UNCHANGED <<agentVars, progs>> PROVE Reaping(t)'
  BY <1>0, <1>1 DEF Reaping, agentVars, Started
<1>2. CASE MenuStep
  <2>1. UNCHANGED <<agentVars, progs>>
    BY <1>2 DEF MenuStep, RunList, RunFailed, RunRerun, LoadFailed, QuitMenu, Skip, RunNext,
       EndOfList, LogErrors, MenuFail, BeginQuit, Begin, Fail, serverVars, vars
  <2> QED
    BY <1>1, <2>1
<1>3. CASE ExchangeStep
  <2>1. UNCHANGED <<agentVars, progs>>
    BY <1>3 DEF ExchangeStep, WithinExperiment, SendOne, TakeReady, TakeError, PassOver,
       serverVars
  <2> QED
    BY <1>1, <2>1
<1>4. CASE ProgramsStep
  <2>1. ProgramStep
    BY <1>4 DEF ProgramsStep, WithinExperiment, OfServers
  <2>2. UNCHANGED agentVars
    BY <2>1 DEF ProgramStep, ProgramEnds, ProgramFails
  <2> QED
    BY <1>0, <2>1, <2>2, ProgramSameStarted, ReapingKept DEF agentVars
<1>5. CASE \E s \in Servers : AgentStep(s)
  <2>1. PICK s \in Servers : ServerStep(s)
    BY <1>5 DEF AgentStep, WithinExperiment, OfServers
  <2>2. CASE t = s
    BY <1>0, <2>1, <2>2, AgentReaping
  <2>3. CASE t # s
    BY <1>0, <2>1, <2>3, AgentsApart, UntouchedSameStarted, ReapingKept DEF Untouched
  <2> QED
    BY <2>2, <2>3
<1>6. CASE UNCHANGED allVars
  BY <1>1, <1>6 DEF allVars, vars, serverVars
<1> QED
  BY <1>2, <1>3, <1>4, <1>5, <1>6 DEF NextMenu

-----------------------------------------------------------------------------
(* Which exchanges are over. *)
LEMMA AnsweredFacts ==
  ASSUME NEW s \in Servers, idx \in Servers, InExchange(s), Serving(s)
  PROVE  /\ pc[s] # "recv" => ~Answered(s) /\ doing[s] = cmd /\ Unanswered(s)
         /\ Unanswered(s) => (Answered(s) <=> pc[s] = "recv" /\ toController[s] # <<>>)
         /\ pc[s] = "recv" /\ toServer[s] # <<>> => Asked(s) /\ ~Answered(s)
         /\ toController[s] # <<>> => Unanswered(s)
<1>1. Unanswered(s) => phase # "ready" /\ ~(phase = "wait" /\ s < idx)
  BY DEF Unanswered, Servers
<1>2. ~Gone(s)
  BY DEF Gone, Serving
<1>3. CASE Idle(s)
  BY <1>1, <1>3 DEF Idle, Answered, Sent
<1>4. CASE Asked(s)
  <2>1. ~Unanswered(s) => phase = "closed"
    BY <1>4 DEF Asked, Sent
  <2> QED
    BY <1>1, <1>4, <2>1 DEF Asked, Answered
<1>5. CASE Replied(s)
  BY <1>1, <1>5 DEF Replied, Answered
<1>6. CASE Stopping(s) \/ Reporting(s) \/ Reported(s)
  BY <1>1, <1>6 DEF Stopping, Reporting, Reported, Answered
<1> QED
  BY <1>2, <1>3, <1>4, <1>5, <1>6 DEF InExchange

(* A stage lasts while what is up, what is started and what is being stopped stay. *)
LEMMA StageKept ==
  ASSUME NEW s \in Servers, InStage(s), SameStarted(s), Up(s)' = Up(s),
         pc'[s] = "recv" => pc[s] = "recv", pc'[s] = "recv" \/ doing'[s] = doing[s]
  PROVE  InStage(s)'
<1> SUFFICES ASSUME NEW k \in StartCommands
             PROVE  /\ k \in Up(s) /\ (pc'[s] = "recv" \/ k # StoppedBy(doing'[s])) =>
                         \A p \in Kind(k) : progs'[s][p].st # "none"
                    /\ k \notin Up(s) => \A p \in Kind(k) : ~Started(progs[s][p])'
  BY DEF InStage, Kind
<1>1. \A p \in Kind(k) : p \in Programs
  BY KindFacts
<1> QED
  BY <1>1 DEF InStage, SameStarted

(* What a server has been told holds as long as nothing of it changes. *)
LEMMA ToldKept ==
  ASSUME NEW s \in Servers, Told(s), SameStarted(s), Answered(s)' <=> Answered(s),
         UNCHANGED <<cmd, exp, scen>>,
         folder'[s] = folder[s], scenario'[s] = scenario[s],
         pc'[s] = "recv" /\ toServer'[s] # <<>> =>
           toServer'[s][1].arg = Argument(cmd)
  PROVE  Told(s)'
<1>1. Argument(cmd)' = Argument(cmd)
  BY DEF Argument
<1>2. pc'[s] = "recv" /\ toServer'[s] # <<>> => toServer'[s][1].arg = Argument(cmd)'
  BY <1>1
<1>3. \A p \in Programs :
        Started(progs[s][p])' =>
          /\ progs'[s][p].scen = scen'
          /\ s \in Deployed[exp'] => progs'[s][p].exp = exp'
  BY DEF Told, SameStarted
<1>4. cmd' # "q" /\ (cmd' = "e" => Answered(s)') /\ s \in Deployed[exp'] => folder'[s] = exp'
  BY DEF Told
<1>5. cmd' \in StartCommands \cup StopCommands \/ (cmd' = "sc" /\ Answered(s)') =>
        scenario'[s] = scen'
  BY DEF Told
<1> QED
  BY <1>2, <1>3, <1>4, <1>5 DEF Told

-----------------------------------------------------------------------------
(* What an agent reads is the current command, and the last token there is. *)
LEMMA ReadsCommand ==
  ASSUME Typed, NEW s \in Servers, InExchange(s), NEW c, Reads(s, c)
  PROVE  /\ c = cmd /\ ~Answered(s) /\ Tail(toServer[s]) = <<>>
         /\ Head(toServer[s]) = toServer[s][1] /\ toController[s] = <<>>
<1>1. Serving(s) /\ idx \in Servers /\ pc[s] = "recv" /\ toServer[s] # <<>>
  BY DEF Serving, Reads, Typed, TypeOK
<1>2. Asked(s) /\ ~Answered(s)
  BY <1>1, AnsweredFacts
<1>3. toServer[s] \in Seq(ToServerTokens) /\ Len(toServer[s]) = 1
  BY <1>2 DEF Asked, Typed, TypeOK, TypeOKServer
<1>4. Tail(toServer[s]) = <<>> /\ Head(toServer[s]) = toServer[s][1]
  BY <1>3, OneToken
<1> QED
  BY <1>2, <1>4 DEF Asked, Reads

(* A command that is carried out at once is answered, and nothing is left to read. *)
LEMMA CarriedOut ==
  ASSUME Typed, NEW s \in Servers, InExchange(s), NEW c, Reads(s, c), Consume(s),
         Ready(s, c), pc' = pc
  PROVE  pc'[s] = "recv" /\ Answered(s)' /\ toServer'[s] = <<>>
<1>1. /\ toServer \in [Servers -> Seq(ToServerTokens)]
      /\ toController \in [Servers -> Seq(ToControllerTokens)]
  BY DEF Typed, TypeOK, TypeOKServer
<1>2. toServer'[s] = <<>> /\ pc'[s] = "recv"
  BY <1>1, ReadsCommand DEF Consume, Reads
<1>3. toController'[s] = Append(<<>>, Token("r", c, None))
  BY <1>1, ReadsCommand DEF Ready
<1>4. toController'[s] # <<>>
  BY <1>3, FirstToken
<1> QED
  BY <1>2, <1>4 DEF Answered

(* No command is no other. *)
LEMMA CommandsApart ==
  /\ StartCommands \cap StopCommands = {}
  /\ \A c \in PlainCommands \cup {"e", "sc", "q"} : c \notin StartCommands \cup StopCommands
  /\ "e" \notin PlainCommands /\ "sc" \notin PlainCommands
BY DEF StartCommands, StopCommands, PlainCommands

(* tc, cs and cr: nothing is up before or after. *)
LEMMA AnswerInOrder ==
  ASSUME Typed, NEW s \in Servers, InExchange(s), Answer(s), UNCHANGED controlVars,
         InStage(s), Told(s)
  PROVE  InStage(s)' /\ Told(s)'
<1> PICK c \in PlainCommands :
      /\ Reads(s, c) /\ Consume(s) /\ Ready(s, c)
      /\ UNCHANGED <<pc, doing, rest, at, folder, scenario, progs, failed, failures>>
  BY DEF Answer
<1>1. c = cmd /\ ~Answered(s)
  BY ReadsCommand
<1>2. pc'[s] = "recv" /\ Answered(s)' /\ toServer'[s] = <<>>
  BY CarriedOut
<1>3. UNCHANGED <<cmd, exp, scen>>
  BY DEF controlVars
<1>4. Up(s)' = Up(s)
  BY <1>1, <1>2, <1>3, UpFacts DEF Up
<1>5. SameStarted(s)
  BY UntouchedSameStarted
<1>6. InStage(s)'
  BY <1>4, <1>5, StageKept
<1>7. Argument(cmd)' = Argument(cmd) /\ cmd \notin {"e", "sc", "q"}
  BY <1>1, <1>3 DEF Argument, PlainCommands
<1>8. Told(s)'
  <2>1. \A p \in Programs :
          Started(progs[s][p])' =>
            /\ progs'[s][p].scen = scen'
            /\ s \in Deployed[exp'] => progs'[s][p].exp = exp'
    BY <1>3 DEF Told, Started
  <2>2. s \in Deployed[exp'] => folder'[s] = exp'
    BY <1>3, <1>7 DEF Told
  <2>3. cmd' \notin StartCommands \cup StopCommands /\ cmd' # "sc"
    BY <1>1, <1>3, <1>7, CommandsApart
  <2> QED
    BY <1>2, <2>1, <2>2, <2>3 DEF Told
<1> QED
  BY <1>6, <1>8

(* e: the dictionaries are new, and the folder is that of the experiment. *)
LEMMA EnterInOrder ==
  ASSUME Typed, NEW s \in Servers, InExchange(s), EnterExperiment(s), UNCHANGED controlVars,
         InStage(s), Told(s)
  PROVE  InStage(s)' /\ Told(s)'
<1>0. /\ Reads(s, "e") /\ Consume(s) /\ Ready(s, "e")
      /\ UNCHANGED <<pc, doing, rest, at, scenario, failed, failures>>
  BY DEF EnterExperiment
<1>1. cmd = "e" /\ ~Answered(s) /\ Head(toServer[s]).arg = exp
  <2>1. cmd = "e" /\ ~Answered(s) /\ Head(toServer[s]) = toServer[s][1]
    BY <1>0, ReadsCommand
  <2>2. toServer[s][1].arg = Argument(cmd)
    BY <1>0 DEF Told, Reads
  <2> QED
    BY <2>1, <2>2 DEF Argument
<1>2. pc'[s] = "recv" /\ Answered(s)' /\ toServer'[s] = <<>>
  BY <1>0, CarriedOut
<1>3. UNCHANGED <<cmd, exp, scen>>
  BY DEF controlVars
<1>4. Up(s) = {} /\ Up(s)' = {}
  BY <1>1, <1>2, <1>3, UpFacts DEF Up
<1>5. \A p \in Programs : ~Started(progs[s][p])
  BY <1>4, KindFacts DEF InStage, StartCommands
<1>6. \A p \in Programs : ~Started(progs'[s][p])
  <2>1. CASE UNCHANGED <<folder, progs>>
    BY <1>5, <2>1
  <2>2. CASE \E built \in Builds[s] :
          progs' = [progs EXCEPT ![s] =
                [p \in Programs |-> IF p \in built THEN NotStarted ELSE Absent]]
    BY <2>2 DEF Typed, TypeOK, TypeOKServer, Started, NotStarted, Absent
  <2> QED
    BY <2>1, <2>2 DEF EnterExperiment
<1>7. InStage(s)'
  <2>1. \A k \in StartCommands : \A p \in Kind(k) : ~Started(progs[s][p])'
    BY <1>6, KindFacts DEF Started
  <2> QED
    BY <1>4, <2>1 DEF InStage, Kind
<1>8. s \in Deployed[exp] => folder'[s] = exp
  BY <1>1 DEF EnterExperiment, Typed, TypeOK, TypeOKServer
<1>9. cmd' \notin StartCommands \cup StopCommands /\ cmd' # "sc"
  BY <1>1, <1>3, CommandsApart
<1>10. Told(s)'
  BY <1>2, <1>3, <1>6, <1>8, <1>9 DEF Told, Started
<1> QED
  BY <1>7, <1>10

(* sc: the scenario is that of the controller. *)
LEMMA ScenarioInOrder ==
  ASSUME Typed, NEW s \in Servers, InExchange(s), SetScenario(s), UNCHANGED controlVars,
         InStage(s), Told(s)
  PROVE  InStage(s)' /\ Told(s)'
<1>0. /\ Reads(s, "sc") /\ Consume(s) /\ Ready(s, "sc")
      /\ scenario' = [scenario EXCEPT ![s] = Head(toServer[s]).arg]
      /\ UNCHANGED <<pc, doing, rest, at, folder, progs, failed, failures>>
  BY DEF SetScenario
<1>1. cmd = "sc" /\ ~Answered(s) /\ Head(toServer[s]).arg = scen
  <2>1. cmd = "sc" /\ ~Answered(s) /\ Head(toServer[s]) = toServer[s][1]
    BY <1>0, ReadsCommand
  <2>2. toServer[s][1].arg = Argument(cmd)
    BY <1>0 DEF Told, Reads
  <2> QED
    BY <2>1, <2>2 DEF Argument
<1>2. pc'[s] = "recv" /\ Answered(s)' /\ toServer'[s] = <<>>
  BY <1>0, CarriedOut
<1>3. UNCHANGED <<cmd, exp, scen>>
  BY DEF controlVars
<1>4. Up(s)' = Up(s)
  BY <1>1, <1>2, <1>3, UpFacts DEF Up
<1>5. SameStarted(s)
  BY <1>0, UntouchedSameStarted
<1>6. InStage(s)'
  BY <1>0, <1>4, <1>5, StageKept
<1>7. scenario'[s] = scen
  BY <1>0, <1>1 DEF Typed, TypeOK, TypeOKServer
<1>8. \A p \in Programs :
        Started(progs[s][p])' =>
          /\ progs'[s][p].scen = scen'
          /\ s \in Deployed[exp'] => progs'[s][p].exp = exp'
  BY <1>0, <1>3 DEF Told, Started
<1>9. s \in Deployed[exp'] => folder'[s] = exp'
  BY <1>0, <1>1, <1>3 DEF Told
<1>10. Told(s)'
  BY <1>2, <1>3, <1>7, <1>8, <1>9 DEF Told
<1> QED
  BY <1>6, <1>10

(* r, p and s: what is started is of the experiment and the scenario. *)
LEMMA LaunchInOrder ==
  ASSUME Typed, NEW s \in Servers, InExchange(s), Launch(s), UNCHANGED controlVars,
         InStage(s), Told(s)
  PROVE  InStage(s)' /\ Told(s)'
<1> DEFINE launched == [st |-> "running", exp |-> folder[s], scen |-> scenario[s]]
<1> PICK c \in StartCommands :
      /\ Reads(s, c) /\ Consume(s) /\ Ready(s, c)
      /\ progs' = [progs EXCEPT ![s] = [p \in Programs |->
           IF p \in Kind(c) /\ progs[s][p].st # "absent" THEN launched ELSE progs[s][p]]]
      /\ UNCHANGED <<pc, doing, rest, at, folder, scenario, failed, failures>>
  BY DEF Launch
<1>1. c = cmd /\ ~Answered(s)
  BY ReadsCommand
<1>2. pc'[s] = "recv" /\ Answered(s)' /\ toServer'[s] = <<>> /\ pc[s] = "recv"
  BY CarriedOut DEF Reads
<1>3. UNCHANGED <<cmd, exp, scen>>
  BY DEF controlVars
<1>4. Up(s)' = Up(s) \cup {c}
  BY <1>1, <1>2, <1>3, UpFacts DEF Up
<1>5. \A p \in Programs :
        progs'[s][p] = IF p \in Kind(c) /\ progs[s][p].st # "absent"
                       THEN launched ELSE progs[s][p]
  BY DEF Typed, TypeOK, TypeOKServer
<1>6. launched.st = "running" /\ launched.exp = folder[s] /\ launched.scen = scenario[s]
  OBVIOUS
<1> HIDE DEF launched
<1>7. InStage(s)'
  <2> SUFFICES ASSUME NEW k \in StartCommands
               PROVE  /\ k \in Up(s)' => \A p \in Kind(k) : progs'[s][p].st # "none"
                      /\ k \notin Up(s)' => \A p \in Kind(k) : ~Started(progs[s][p])'
    BY DEF InStage, Kind
  <2>1. \A p \in Kind(k) : p \in Programs
    BY KindFacts
  <2>2. CASE k = c
    <3>1. \A p \in Kind(k) : progs'[s][p].st # "none"
      <4> SUFFICES ASSUME NEW p \in Kind(k) PROVE progs'[s][p].st # "none"
        OBVIOUS
      <4>1. progs[s][p].st # "absent" => progs'[s][p].st = "running"
        BY <1>5, <1>6, <2>1, <2>2
      <4>2. progs[s][p].st = "absent" => progs'[s][p].st = "absent"
        BY <1>5, <2>1
      <4> QED
        BY <4>1, <4>2
    <3> QED
      BY <1>4, <2>2, <3>1
  <2>3. CASE k # c
    <3>1. \A p \in Kind(k) : progs'[s][p] = progs[s][p]
      BY <1>5, <2>1, <2>3, KindFacts
    <3> QED
      BY <1>2, <1>4, <2>3, <3>1 DEF InStage, Started
  <2> QED
    BY <2>2, <2>3
<1>8. Told(s)'
  <2>1. cmd \notin {"e", "sc", "q"}
    BY <1>1 DEF StartCommands
  <2>2. (s \in Deployed[exp] => folder[s] = exp) /\ scenario[s] = scen
    BY <1>1, <2>1 DEF Told
  <2>3. \A p \in Programs :
          Started(progs[s][p])' =>
            /\ progs'[s][p].scen = scen
            /\ s \in Deployed[exp] => progs'[s][p].exp = exp
    BY <1>5, <1>6, <2>2 DEF Told, Started
  <2> QED
    BY <1>2, <1>3, <2>2, <2>3 DEF Told
<1> QED
  BY <1>7, <1>8

(* tr, tp and ts: nothing has been stopped yet. *)
LEMMA BeginStopInOrder ==
  ASSUME Typed, NEW s \in Servers, InExchange(s), BeginStop(s), UNCHANGED controlVars,
         InStage(s), Told(s)
  PROVE  InStage(s)' /\ Told(s)'
<1> PICK c \in StopCommands :
      /\ Reads(s, c) /\ Consume(s)
      /\ pc' = [pc EXCEPT ![s] = "poll"]
      /\ doing' = [doing EXCEPT ![s] = c]
      /\ UNCHANGED <<at, folder, scenario, progs, toController, failed, failures>>
  BY DEF BeginStop
<1>1. c = cmd /\ ~Answered(s)
  BY ReadsCommand
<1>2. pc'[s] = "poll" /\ pc[s] = "recv"
  BY DEF Typed, TypeOK, TypeOKServer, Reads
<1>3. UNCHANGED <<cmd, exp, scen, phase, idx>>
  BY DEF controlVars
<1>4. ~Answered(s)' /\ Up(s)' = Up(s)
  BY <1>1, <1>2, <1>3 DEF Answered, Up
<1>5. SameStarted(s)
  BY UntouchedSameStarted
<1>6. InStage(s)'
  BY <1>2, <1>4, <1>5 DEF InStage, SameStarted, Kind, Started
<1>7. Told(s)'
  BY <1>1, <1>2, <1>3, <1>4, <1>5, ToldKept
<1> QED
  BY <1>6, <1>7

(* While an agent goes through the programs the command is not answered. *)
LEMMA WhileStopping ==
  ASSUME Typed, NEW s \in Servers, InExchange(s), Serving(s), pc[s] # "recv",
         pc'[s] # "recv", UNCHANGED controlVars
  PROVE  ~Answered(s) /\ ~Answered(s)' /\ Up(s)' = Up(s) /\ cmd = doing[s]
<1>1. ~Answered(s) /\ cmd = doing[s] /\ Unanswered(s)
  BY AnsweredFacts DEF Typed, TypeOK
<1>2. UNCHANGED <<cmd, phase, idx>>
  BY DEF controlVars
<1>3. ~Answered(s)'
  BY <1>1, <1>2 DEF Answered
<1> QED
  BY <1>1, <1>2, <1>3 DEF Up

(* What is asked to end still counts as started. *)
LEMMA AskInOrder ==
  ASSUME Typed, NEW s \in Servers, InExchange(s), Serving(s), Serving(s)',
         Poll(s) \/ WriteQuit(s) \/ BeginReap(s), UNCHANGED controlVars,
         InStage(s), Told(s)
  PROVE  InStage(s)' /\ Told(s)'
<1>1. /\ pc[s] \in {"poll", "write"} /\ pc'[s] \in {"poll", "write", "reap"}
      /\ UNCHANGED <<doing, folder, scenario>>
  BY DEF Poll, WriteQuit, BeginReap, Serving, Typed, TypeOK, TypeOKServer
<1>2. SameStarted(s)
  <2>1. CASE Poll(s) \/ BeginReap(s)
    BY <2>1, UntouchedSameStarted DEF Poll, BeginReap
  <2>2. CASE WriteQuit(s)
    <3>1. at[s] \in Programs
      BY <2>2 DEF WriteQuit, Typed, AtHand
    <3>2. /\ Alive(progs[s][at[s]])
          /\ progs' = [progs EXCEPT ![s][at[s]].st = "asked"]
      BY <1>1, <2>2 DEF WriteQuit, Typed, TypeOK, TypeOKServer
    <3>3. Started(progs[s][at[s]])
      BY <3>2 DEF Alive, Started
    <3>4. progs \in AllProgs
      BY DEF Typed, TypeOK, TypeOKServer, AllProgs
    <3> QED
      BY <3>1, <3>2, <3>3, <3>4, StateSameStarted
  <2> QED
    BY <2>1, <2>2
<1>3. ~Answered(s) /\ ~Answered(s)' /\ Up(s)' = Up(s)
  BY <1>1, WhileStopping
<1>4. InStage(s)'
  BY <1>1, <1>2, <1>3, StageKept
<1>5. UNCHANGED <<cmd, exp, scen>>
  BY DEF controlVars
<1>6. Told(s)'
  BY <1>1, <1>2, <1>3, <1>5, ToldKept
<1> QED
  BY <1>4, <1>6

(* A program that has been waited for is of the dictionary that is being stopped. *)
LEMMA ClearInOrder ==
  ASSUME Typed, NEW s \in Servers, InExchange(s), Serving(s),
         pc[s] \in {"reap", "ok"}, pc'[s] = "reap", doing[s] \in StopCommands,
         NEW p \in Kind(doing[s]), progs' = [progs EXCEPT ![s][p] = NotStarted],
         UNCHANGED <<doing, folder, scenario, controlVars>>, InStage(s), Told(s)
  PROVE  InStage(s)' /\ Told(s)'
<1>1. ~Answered(s) /\ ~Answered(s)' /\ Up(s)' = Up(s)
  BY WhileStopping
<1>2. UNCHANGED <<cmd, exp, scen>>
  BY DEF controlVars
<1>3. /\ p \in Programs /\ progs'[s][p] = NotStarted
      /\ \A q \in Programs \ {p} : progs'[s][q] = progs[s][q]
  BY KindFacts DEF Typed, TypeOK, TypeOKServer
<1>4. ~Started(progs'[s][p])
  BY <1>3 DEF Started, NotStarted
<1>5. InStage(s)'
  <2> SUFFICES ASSUME NEW k \in StartCommands
               PROVE  /\ k \in Up(s)' /\ k # StoppedBy(doing[s]) =>
                            \A q \in Kind(k) : progs'[s][q].st # "none"
                      /\ k \notin Up(s)' => \A q \in Kind(k) : ~Started(progs[s][q])'
    BY DEF InStage, Kind
  <2>1. \A q \in Kind(k) : q \in Programs
    BY KindFacts
  <2>2. k # StoppedBy(doing[s]) => p \notin Kind(k)
    BY KindFacts
  <2> QED
    BY <1>1, <1>3, <1>4, <2>1, <2>2 DEF InStage, Started
<1>6. \A q \in Programs :
        Started(progs[s][q])' =>
          /\ progs'[s][q].scen = scen'
          /\ s \in Deployed[exp'] => progs'[s][q].exp = exp'
  BY <1>2, <1>3, <1>4 DEF Told, Started
<1>7. Told(s)'
  BY <1>1, <1>2, <1>6 DEF Told
<1> QED
  BY <1>5, <1>7

(* A failure is reported before the program is given up. *)
LEMMA ReapInOrder ==
  ASSUME Typed, NEW s \in Servers, InExchange(s), Reaping(s), Reap(s) \/ GetOk(s),
         UNCHANGED controlVars, InStage(s), Told(s)
  PROVE  InStage(s)' /\ Told(s)'
<1>1. /\ pc[s] \in {"reap", "ok"} /\ UNCHANGED <<doing, folder, scenario>>
      /\ Serving(s) /\ doing[s] \in StopCommands
  BY DEF Reap, GetOk, Serving, Reaping
<1>2. CASE GetOk(s)
  <2>1. /\ pc'[s] = "reap" /\ at[s] \in Kind(doing[s])
        /\ progs' = [progs EXCEPT ![s][at[s]] = NotStarted]
    BY <1>2 DEF GetOk, Reaping, Typed, TypeOK, TypeOKServer
  <2> QED
    BY <1>1, <2>1, ClearInOrder
<1>3. CASE Reap(s)
  <2>1. PICK p \in rest[s] :
        \/ /\ progs' = [progs EXCEPT ![s][p] = NotStarted]
           /\ UNCHANGED pc
        \/ /\ pc' = [pc EXCEPT ![s] = "ok"]
           /\ UNCHANGED progs
    BY <1>3 DEF Reap
  <2>2. pc[s] = "reap" /\ p \in Kind(doing[s])
    BY <1>3 DEF Reap, Reaping
  <2>3. CASE progs' = [progs EXCEPT ![s][p] = NotStarted] /\ UNCHANGED pc
    BY <1>1, <2>2, <2>3, ClearInOrder
  <2>4. CASE pc' = [pc EXCEPT ![s] = "ok"] /\ UNCHANGED progs
    <3>1. pc'[s] = "ok" /\ SameStarted(s)
      BY <2>4, UntouchedSameStarted DEF Typed, TypeOK, TypeOKServer
    <3>2. ~Answered(s) /\ ~Answered(s)' /\ Up(s)' = Up(s)
      BY <1>1, <3>1, WhileStopping
    <3>3. InStage(s)'
      BY <1>1, <3>1, <3>2, StageKept
    <3>4. Told(s)'
      BY <1>1, <3>1, <3>2, ToldKept DEF controlVars
    <3> QED
      BY <3>3, <3>4
  <2> QED
    BY <2>1, <2>3, <2>4
<1> QED
  BY <1>2, <1>3

(* When the agent answers, nothing of the dictionary is left. *)
LEMMA FinishInOrder ==
  ASSUME Typed, NEW s \in Servers, InExchange(s), Reaping(s), FinishStop(s),
         UNCHANGED controlVars, InStage(s), Told(s)
  PROVE  InStage(s)' /\ Told(s)'
<1>1. /\ pc[s] = "reap" /\ rest[s] = {} /\ doing[s] \in StopCommands
      /\ UNCHANGED <<folder, scenario, progs, toServer>> /\ Serving(s)
      /\ pc' = [pc EXCEPT ![s] = "recv"] /\ Ready(s, doing[s])
  BY DEF FinishStop, Reaping, Serving
<1>2. ~Answered(s) /\ cmd = doing[s] /\ toServer[s] = <<>> /\ toController[s] = <<>>
  <2>1. ~Answered(s) /\ cmd = doing[s]
    BY <1>1, AnsweredFacts DEF Typed, TypeOK
  <2>2. Stopping(s)
    BY <1>1 DEF InExchange, Gone, Idle, Asked, Replied, Reporting, Reported
  <2> QED
    BY <2>1, <2>2 DEF Stopping
<1>3. pc'[s] = "recv" /\ toController'[s] = Append(<<>>, Token("r", doing[s], None))
  BY <1>1, <1>2 DEF Ready, Typed, TypeOK, TypeOKServer
<1>4. Answered(s)'
  BY <1>3, FirstToken DEF Answered
<1>5. UNCHANGED <<cmd, exp, scen>>
  BY DEF controlVars
<1>6. Up(s)' = Up(s) \ {StoppedBy(doing[s])}
  BY <1>1, <1>2, <1>4, <1>5, UpFacts DEF Up
<1>7. \A p \in Kind(StoppedBy(doing[s])) : ~Started(progs[s][p])
  BY <1>1, KindFacts DEF Reaping
<1>8. InStage(s)'
  <2> SUFFICES ASSUME NEW k \in StartCommands
               PROVE  /\ k \in Up(s)' => \A p \in Kind(k) : progs[s][p].st # "none"
                      /\ k \notin Up(s)' => \A p \in Kind(k) : ~Started(progs[s][p])
    BY <1>1 DEF InStage, Kind, Started
  <2> QED
    BY <1>6, <1>7 DEF InStage
<1>9. cmd \notin {"e", "sc", "q"} /\ cmd \in StartCommands \cup StopCommands
  BY <1>1, <1>2 DEF StopCommands
<1>10. Told(s)'
  <2>1. \A p \in Programs :
          Started(progs[s][p])' =>
            /\ progs'[s][p].scen = scen'
            /\ s \in Deployed[exp'] => progs'[s][p].exp = exp'
    BY <1>1, <1>5 DEF Told, Started
  <2>2. (s \in Deployed[exp] => folder[s] = exp) /\ scenario[s] = scen
    BY <1>9 DEF Told
  <2> QED
    BY <1>1, <1>2, <1>5, <2>1, <2>2 DEF Told
<1> QED
  BY <1>8, <1>10

(* Every step of an agent keeps the order on its server. *)
LEMMA OwnInOrder ==
  ASSUME Typed, NEW s \in Servers, InExchange(s), Reaping(s), ServerStep(s),
         UNCHANGED controlVars, Serving(s), Serving(s)', InStage(s), Told(s)
  PROVE  InStage(s)' /\ Told(s)'
<1>1. ~Leave(s)
  BY DEF Leave, Serving, Typed, TypeOK, TypeOKServer
<1> QED
  BY <1>1, AnswerInOrder, EnterInOrder, ScenarioInOrder, LaunchInOrder, BeginStopInOrder,
     AskInOrder, ReapInOrder, FinishInOrder
  DEF ServerStep

-----------------------------------------------------------------------------
(* A server nothing happens to stays as it is. *)
LEMMA UntouchedInOrder ==
  ASSUME NEW t \in Servers, Untouched(t), UNCHANGED <<phase, cmd, idx, exp, scen>>,
         InStage(t), Told(t)
  PROVE  InStage(t)' /\ Told(t)'
<1>1. (Answered(t)' <=> Answered(t)) /\ Up(t)' = Up(t)
  BY DEF Untouched, Answered, Up
<1>2. SameStarted(t)
  BY UntouchedSameStarted DEF Untouched
<1>3. InStage(t)'
  BY <1>1, <1>2, StageKept DEF Untouched
<1>4. Told(t)'
  BY <1>1, <1>2, ToldKept DEF Untouched, Told
<1> QED
  BY <1>3, <1>4

(* An agent keeps the order on every server. *)
LEMMA AgentInOrder ==
  ASSUME Typed, InStep, AllReap, AllInOrder, NEW s \in Servers, OfServers(ServerStep(s))
  PROVE  AllInOrder'
<1> SUFFICES ASSUME NEW t \in Servers, Serving(t)' PROVE InStage(t)' /\ Told(t)'
  BY DEF AllInOrder
<1>1. ServerStep(s) /\ UNCHANGED controlVars
  BY DEF OfServers
<1>2. CASE t = s
  <2>1. Serving(s)
    BY <1>1, <1>2 DEF ServerStep, Serving, Answer, EnterExperiment, SetScenario, Launch,
       BeginStop, Poll, WriteQuit, BeginReap, Reap, GetOk, FinishStop, Leave, Reads
  <2> QED
    BY <1>1, <1>2, <2>1, OwnInOrder DEF InStep, AllReap, AllInOrder
<1>3. CASE t # s
  <2>1. Untouched(t)
    BY <1>1, <1>3, AgentsApart DEF Typed, TypeOK
  <2>2. Serving(t)
    BY <2>1 DEF Serving, Untouched
  <2> QED
    BY <1>1, <2>1, <2>2, UntouchedInOrder DEF AllInOrder, controlVars
<1> QED
  BY <1>2, <1>3

(* A program that ends or fails is still to be waited for. *)
LEMMA ProgramInOrder ==
  ASSUME Typed, AllInOrder, OfServers(ProgramStep)
  PROVE  AllInOrder'
<1> SUFFICES ASSUME NEW t \in Servers, Serving(t)' PROVE InStage(t)' /\ Told(t)'
  BY DEF AllInOrder
<1>1. UNCHANGED <<agentVars, toServer, toController, controlVars>> /\ ProgramStep
  BY DEF OfServers, ProgramStep, ProgramEnds, ProgramFails
<1>2. SameStarted(t)
  BY <1>1, ProgramSameStarted DEF Typed, TypeOK
<1>3. InStage(t) /\ Told(t)
  BY <1>1 DEF AllInOrder, Serving, agentVars
<1>4. (Answered(t)' <=> Answered(t)) /\ Up(t)' = Up(t)
  BY <1>1 DEF Answered, Up, agentVars, controlVars
<1>5. InStage(t)'
  BY <1>1, <1>2, <1>3, <1>4, StageKept DEF agentVars
<1>6. Told(t)'
  BY <1>1, <1>2, <1>3, <1>4, ToldKept DEF agentVars, controlVars, Told
<1> QED
  BY <1>5, <1>6

-----------------------------------------------------------------------------
(* A command is sent with its argument to an agent that has nothing to do. *)
LEMMA SendOneInOrder ==
  ASSUME Typed, TestProxy = -1, InStep, AllInOrder, SendOne
  PROVE  AllInOrder'
<1> SUFFICES ASSUME NEW t \in Servers, Serving(t)' PROVE InStage(t)' /\ Told(t)'
  BY DEF AllInOrder
<1>1. /\ phase = "send" /\ AfterSend /\ idx \in Servers
      /\ UNCHANGED <<agentVars, progs, toController, cmd, exp, scen>>
  BY DEF SendOne, Typed, TypeOK
<1>2. InExchange(t) /\ Serving(t) /\ InStage(t) /\ Told(t)
  BY <1>1 DEF InStep, AllInOrder, Serving, agentVars
<1>3. (Answered(t)' <=> Answered(t)) /\ Up(t)' = Up(t)
  <2>1. phase' \in {"send", "closed"} \/ (phase' = "wait" /\ idx' = 0)
    BY <1>1 DEF AfterSend
  <2>2. ~(t < 0)
    BY DEF Servers
  <2>3. Answered(t)' <=> Answered(t)
    BY <1>1, <2>1, <2>2 DEF Answered, agentVars
  <2> QED
    BY <1>1, <2>3 DEF Up
<1>4. SameStarted(t)
  BY <1>1, UntouchedSameStarted
<1>5. InStage(t)'
  BY <1>1, <1>2, <1>3, <1>4, StageKept DEF agentVars
<1>6. pc'[t] = "recv" /\ toServer'[t] # <<>> => toServer'[t][1].arg = Argument(cmd)
  <2>0. toServer \in [Servers -> Seq(ToServerTokens)] /\ UNCHANGED pc
    BY <1>1 DEF Typed, TypeOK, TypeOKServer, agentVars
  <2>1. CASE t # idx
    <3>1. toServer'[t] = toServer[t]
      BY <2>0, <2>1 DEF SendOne
    <3> QED
      BY <1>2, <2>0, <3>1 DEF Told
  <2>2. CASE t = idx
    <3>1. ~Sent(t)
      BY <1>1, <2>2 DEF Sent, Unanswered, Servers
    <3>2. Idle(t)
      BY <1>2, <3>1
      DEF InExchange, Gone, Serving, Asked, Replied, Stopping, Reporting, Reported, Sent
    <3>3. toServer'[t] = Append(<<>>, [cmd |-> cmd, arg |-> Argument(cmd)])
      <4>1. idx \in SentTo(cmd) /\ pc[idx] # "dead"
        BY <1>1, <1>2, <2>2, EveryServer DEF Serving
      <4> QED
        BY <2>0, <2>2, <3>2, <4>1 DEF SendOne, Idle
    <3>4. toServer'[t][1] = [cmd |-> cmd, arg |-> Argument(cmd)]
      BY <3>3, FirstToken
    <3> QED
      BY <3>4
  <2> QED
    BY <2>1, <2>2
<1>7. Told(t)'
  BY <1>1, <1>2, <1>3, <1>4, <1>6, ToldKept DEF agentVars
<1> QED
  BY <1>5, <1>7

(* An error is that of an agent that is still stopping its programs. *)
LEMMA TakeErrorInOrder ==
  ASSUME Typed, InStep, AllInOrder, TakeError
  PROVE  AllInOrder'
<1> SUFFICES ASSUME NEW t \in Servers, Serving(t)' PROVE InStage(t)' /\ Told(t)'
  BY DEF AllInOrder
<1>1. /\ UNCHANGED <<agentVars, progs, controlVars>> /\ idx \in Servers
      /\ \E q : toController' = [toController EXCEPT ![idx] = q]
      /\ toServer' = toServer \/ \E q : toServer' = [toServer EXCEPT ![idx] = q]
      /\ Len(toController[idx]) > 1 /\ Head(toController[idx]).kind = "e"
  BY DEF TakeError, Typed, TypeOK
<1>2. /\ toServer \in [Servers -> Seq(ToServerTokens)]
      /\ toController \in [Servers -> Seq(ToControllerTokens)]
  BY DEF Typed, TypeOK, TypeOKServer
<1>3. InExchange(t) /\ Serving(t) /\ InStage(t) /\ Told(t)
  BY <1>1 DEF InStep, AllInOrder, Serving, agentVars
<1>4. CASE t # idx
  <2>1. Untouched(t)
    BY <1>1, <1>2, <1>4 DEF Untouched, agentVars
  <2> QED
    BY <1>1, <1>3, <2>1, UntouchedInOrder DEF controlVars
<1>5. CASE t = idx
  <2>1. pc[t] # "recv"
    <3> SUFFICES ASSUME pc[t] = "recv" PROVE FALSE
      OBVIOUS
    <3>1. toController[t] = <<>> \/ toController[t] = <<Token("r", cmd, None)>>
      BY <1>3 DEF InExchange, Gone, Idle, Asked, Replied, Stopping, Reporting, Reported
    <3>2. Len(toController[t]) > 1
      BY <1>1, <1>5
    <3>3. CASE toController[t] = <<>>
      <4>1. Len(toController[t]) = 0
        BY <3>3, EmptySeq
      <4> QED
        BY <3>2, <4>1
    <3>4. CASE toController[t] = <<Token("r", cmd, None)>>
      <4>1. Len(toController[t]) = 1
        BY <3>4, FirstToken
      <4> QED
        BY <3>2, <4>1
    <3> QED
      BY <3>1, <3>3, <3>4
  <2>2. pc'[t] # "recv" /\ SameStarted(t)
    BY <1>1, <2>1, UntouchedSameStarted DEF agentVars
  <2>3. (Answered(t)' <=> Answered(t)) /\ Up(t)' = Up(t)
    BY <1>1, <2>1, <2>2 DEF Answered, Up, controlVars
  <2>4. InStage(t)'
    BY <1>1, <1>3, <2>2, <2>3, StageKept DEF agentVars
  <2>5. Told(t)'
    BY <1>1, <1>3, <2>2, <2>3, ToldKept DEF agentVars, controlVars
  <2> QED
    BY <2>4, <2>5
<1> QED
  BY <1>4, <1>5

-----------------------------------------------------------------------------
(* When the loop over the replies is past a server, the server has answered. *)
LEMMA PassedAnswered ==
  ASSUME Typed, phase = "wait", NEW t \in Servers, t < idx, InExchange(t), Serving(t)
  PROVE  Answered(t) /\ toServer[t] = <<>> /\ toController[t] = <<>> /\ pc[t] = "recv"
<1>1. ~Sent(t)
  BY DEF Sent, Unanswered, Typed, TypeOK, Servers
<1>2. Idle(t)
  BY <1>1 DEF InExchange, Gone, Serving, Asked, Replied, Stopping, Reporting, Reported, Sent
<1> QED
  BY <1>2 DEF Idle, Answered

(* The next command begins where the last one has ended, or there is none. *)
LEMMA NextCommandEffect ==
  ASSUME Typed, phase = "wait", NextCommand
  PROVE  \/ phase' = "ready" /\ UNCHANGED <<cmd, scen>> /\ cmd \in {"cr", "tr"}
         \/ /\ phase' = "send" /\ cmd' \notin {"q", "e"} /\ UpBefore(cmd') = UpAfter(cmd)
            /\ cmd' \in StartCommands \cup StopCommands =>
                 cmd \in StartCommands \cup StopCommands \/ cmd = "sc"
            /\ scen' = scen \/ UpAfter(cmd) = {}
<1>1. cmd \in Commands \ {"q"}
  BY DEF Typed, TypeOK, WellDefined
<1>2. CASE cmd \in {"cr", "tr"} /\ scensLeft = <<>>
  BY <1>2 DEF NextCommand
<1>3. CASE cmd \in {"cr", "tr"} /\ scensLeft # <<>>
  <2>1. phase' = "send" /\ cmd' = "tc" /\ scen' = scen
    BY <1>3 DEF NextCommand, Broadcast
  <2>2. "tc" \notin StartCommands \cup StopCommands
    BY DEF StartCommands, StopCommands
  <2> QED
    BY <1>3, <2>1, <2>2, UpNext
<1>4. CASE cmd \notin {"cr", "tr"}
  <2>1. cmd \in {"e", "tc", "cs", "sc", "r", "p", "s", "ts", "tp"}
    BY <1>1, <1>4 DEF Commands, PlainCommands, StartCommands, StopCommands
  <2>2. phase' = "send" /\ cmd' = Following[cmd]
    BY <1>4 DEF NextCommand, Broadcast
  <2>3. scen' = scen \/ cmd = "cs"
    BY <1>4 DEF NextCommand
  <2>4. UpBefore(cmd') = UpAfter(cmd) /\ UpAfter("cs") = {}
    BY <2>1, <2>2, UpNext, UpFacts DEF PlainCommands
  <2>5. /\ Following[cmd] \notin {"q", "e"}
        /\ Following[cmd] \in StartCommands \cup StopCommands =>
             cmd \in StartCommands \cup StopCommands \/ cmd = "sc"
    BY <2>1 DEF Following, StartCommands, StopCommands
  <2> QED
    BY <2>2, <2>3, <2>4, <2>5
<1> QED
  BY <1>2, <1>3, <1>4

(* Between two commands every server has answered and has nothing to do. *)
LEMMA NextCommandInOrder ==
  ASSUME Typed, phase = "wait", NextCommand, UNCHANGED <<agentVars, progs, exp>>,
         NEW t \in Servers, Answered(t), pc[t] = "recv",
         toServer'[t] = <<>>, toController'[t] = <<>>, InStage(t), Told(t)
  PROVE  InStage(t)' /\ Told(t)'
<1>1. SameStarted(t) /\ UNCHANGED <<pc, doing, folder, scenario>>
  BY UntouchedSameStarted DEF agentVars
<1>2. Up(t) = UpAfter(cmd) /\ cmd # "q"
  BY DEF Up, Typed, WellDefined
<1>3. CASE phase' = "ready" /\ UNCHANGED <<cmd, scen>> /\ cmd \in {"cr", "tr"}
  <2>1. Answered(t)' /\ Up(t)' = Up(t)
    BY <1>2, <1>3 DEF Answered, Up
  <2>2. InStage(t)'
    BY <1>1, <2>1, StageKept
  <2>3. Told(t)'
    BY <1>1, <1>3, <2>1, ToldKept
  <2> QED
    BY <2>2, <2>3
<1>4. CASE /\ phase' = "send" /\ cmd' \notin {"q", "e"} /\ UpBefore(cmd') = UpAfter(cmd)
           /\ cmd' \in StartCommands \cup StopCommands =>
                cmd \in StartCommands \cup StopCommands \/ cmd = "sc"
           /\ scen' = scen \/ UpAfter(cmd) = {}
  <2>1. ~Answered(t)'
    BY <1>4 DEF Answered
  <2>2. Up(t)' = Up(t)
    BY <1>2, <1>4, <2>1 DEF Up
  <2>3. InStage(t)'
    BY <1>1, <2>2, StageKept
  <2>4. t \in Deployed[exp] => folder[t] = exp
    BY <1>2 DEF Told
  <2>5. \A p \in Programs :
          Started(progs[t][p])' =>
            /\ progs'[t][p].scen = scen'
            /\ t \in Deployed[exp'] => progs'[t][p].exp = exp'
    <3>1. CASE scen' = scen
      BY <3>1 DEF Told, Started
    <3>2. CASE UpAfter(cmd) = {}
      <4>1. \A p \in Programs : ~Started(progs[t][p])
        BY <1>2, <3>2, KindFacts DEF InStage, StartCommands
      <4> QED
        BY <4>1 DEF Started
    <3> QED
      BY <1>4, <3>1, <3>2
  <2>6. cmd' \in StartCommands \cup StopCommands => scenario[t] = scen /\ scen' = scen
    <3> SUFFICES ASSUME cmd' \in StartCommands \cup StopCommands
                 PROVE  scenario[t] = scen /\ scen' = scen
      OBVIOUS
    <3>1. scenario[t] = scen
      BY <1>4 DEF Told
    <3>2. cmd # "cs"
      BY <1>4 DEF StartCommands, StopCommands
    <3>3. scen' = scen
      BY <3>2 DEF NextCommand
    <3> QED
      BY <3>1, <3>3
  <2>7. Told(t)'
    BY <1>1, <1>4, <2>1, <2>4, <2>5, <2>6 DEF Told
  <2> QED
    BY <2>3, <2>7
<1> QED
  BY <1>3, <1>4, NextCommandEffect

(* So it is after the reply of any server, taken or passed over. *)
LEMMA AfterReplyInOrder ==
  ASSUME Typed, InStep, AllInOrder, phase = "wait", AfterReply,
         UNCHANGED <<agentVars, progs, toServer, exp>>,
         \A t \in Servers \ {idx} : toController'[t] = toController[t],
         Serving(idx) => Replied(idx) /\ toController'[idx] = <<>>
  PROVE  AllInOrder'
<1> SUFFICES ASSUME NEW t \in Servers, Serving(t)' PROVE InStage(t)' /\ Told(t)'
  BY DEF AllInOrder
<1>1. InExchange(t) /\ Serving(t) /\ InStage(t) /\ Told(t) /\ UNCHANGED pc
  BY DEF InStep, AllInOrder, Serving, agentVars
<1>2. t = idx => Answered(t) /\ toServer[t] = <<>> /\ toController'[t] = <<>> /\ pc[t] = "recv"
  <2> SUFFICES ASSUME t = idx PROVE Answered(t) /\ toServer[t] = <<>> /\ pc[t] = "recv"
    BY <1>1
  <2>1. Replied(t)
    BY <1>1
  <2>2. toController[t] # <<>>
    BY <2>1, FirstToken DEF Replied
  <2> QED
    BY <2>1, <2>2 DEF Replied, Answered
<1>3. /\ NumServers \in Nat /\ idx \in Nat /\ idx < NumServers
      /\ t \in Nat /\ t < NumServers
  BY RemoteServerAssumption DEF Typed, TypeOK, Servers
<1>4. CASE idx + 1 \in Servers
  <2>1. idx' = idx + 1 /\ UNCHANGED <<phase, cmd, scen>>
    BY <1>4 DEF AfterReply
  <2>2. Answered(t)' <=> Answered(t)
    <3>1. CASE t = idx
      <4>1. t < idx'
        BY <1>3, <2>1, <3>1
      <4> QED
        BY <1>2, <2>1, <3>1, <4>1 DEF Answered
    <3>2. CASE t # idx
      <4>1. t < idx' <=> t < idx
        BY <1>3, <2>1, <3>2
      <4> QED
        BY <1>1, <2>1, <3>2, <4>1 DEF Answered
    <3> QED
      BY <3>1, <3>2
  <2>3. Up(t)' = Up(t) /\ SameStarted(t)
    BY <2>1, <2>2, UntouchedSameStarted DEF Up
  <2>4. InStage(t)'
    BY <1>1, <2>3, StageKept DEF agentVars
  <2>5. Told(t)'
    BY <1>1, <2>1, <2>2, <2>3, ToldKept DEF agentVars, Told
  <2> QED
    BY <2>4, <2>5
<1>5. CASE idx + 1 \notin Servers
  <2>1. NextCommand
    BY <1>5 DEF AfterReply
  <2>2. Answered(t) /\ toServer[t] = <<>> /\ toController'[t] = <<>> /\ pc[t] = "recv"
    <3>1. CASE t = idx
      BY <1>2, <3>1
    <3>2. CASE t # idx
      <4>1. t < idx
        BY <1>3, <1>5, <3>2 DEF Servers
      <4> QED
        BY <1>1, <3>2, <4>1, PassedAnswered
    <3> QED
      BY <3>1, <3>2
  <2> QED
    BY <1>1, <2>1, <2>2, NextCommandInOrder
<1> QED
  BY <1>4, <1>5

(* An exception is not forgotten. *)
LEMMA RaisedStays ==
  ASSUME [NextMenu]_allVars
  PROVE  ~raised' => ~raised
<1> SUFFICES ASSUME ~raised' PROVE ~raised
  OBVIOUS
<1>1. ~Fail
  BY DEF Fail, Raise
<1>2. CASE MenuStep
  BY <1>1, <1>2 DEF MenuStep, RunList, RunFailed, RunRerun, LoadFailed, QuitMenu, Skip,
     RunNext, EndOfList, LogErrors, MenuFail, BeginQuit, Begin, vars, controlVars
<1>3. CASE ExchangeStep
  BY <1>3 DEF ExchangeStep, WithinExperiment, SendOne, TakeReady, TakeError, PassOver,
     controlVars
<1>4. CASE ProgramsStep \/ \E s \in Servers : AgentStep(s)
  BY <1>4 DEF ProgramsStep, AgentStep, WithinExperiment, OfServers, controlVars
<1>5. CASE UNCHANGED allVars
  BY <1>5 DEF allVars, vars, controlVars
<1> QED
  BY <1>2, <1>3, <1>4, <1>5 DEF NextMenu

(* A reply that is taken is that of a server that has carried out the command. *)
LEMMA TakeReadyInOrder ==
  ASSUME Typed, InStep, AllInOrder, TakeReady
  PROVE  AllInOrder'
<1>1. /\ phase = "wait" /\ AfterReply /\ toController[idx] # <<>>
      /\ Head(toController[idx]).kind # "e"
      /\ toController' = [toController EXCEPT ![idx] = Tail(@)]
      /\ UNCHANGED <<agentVars, progs, toServer, exp>> /\ idx \in Servers
  BY DEF TakeReady, Awaits, Typed, TypeOK
<1>2. InExchange(idx) /\ toController \in [Servers -> Seq(ToControllerTokens)]
  BY <1>1 DEF InStep, Typed, TypeOK, TypeOKServer
<1>3. ~Reporting(idx)
  <2> SUFFICES ASSUME NEW p,
                      toController[idx] = <<Token("e", cmd, p), Token("reason", cmd, p)>>
               PROVE  FALSE
    BY DEF Reporting
  <2>1. Head(toController[idx]) = Token("e", cmd, p)
    BY TwoTokens
  <2> QED
    BY <1>1, <2>1 DEF Token
<1>4. Replied(idx)
  BY <1>1, <1>2, <1>3 DEF InExchange, Gone, Idle, Asked, Stopping, Reported
<1>5. toController'[idx] = <<>> /\ \A t \in Servers \ {idx} : toController'[t] = toController[t]
  BY <1>1, <1>2, <1>4, FirstToken DEF Replied
<1> QED
  BY <1>1, <1>4, <1>5, AfterReplyInOrder

(* Who is passed over is gone. *)
LEMMA PassOverInOrder ==
  ASSUME Typed, TestProxy = -1, InStep, AllInOrder, PassOver
  PROVE  AllInOrder'
<1>1. /\ phase = "wait" /\ AfterReply /\ UNCHANGED <<serverVars, exp>>
      /\ pc[idx] = "dead"
  BY EveryServer DEF PassOver, Typed, TypeOK
<1>2. UNCHANGED <<agentVars, progs, toServer, toController, exp>> /\ ~Serving(idx)
  BY <1>1 DEF serverVars, Serving
<1> QED
  BY <1>1, <1>2, AfterReplyInOrder

-----------------------------------------------------------------------------
(* An experiment, or the end, begins when nothing is up. *)
LEMMA BeginInOrder ==
  ASSUME Typed, InStep, AllInOrder, AtRest, phase = "ready", NEW c \in {"e", "q"},
         Broadcast(c), UNCHANGED <<agentVars, progs, toServer, toController>>
  PROVE  AllInOrder'
<1> SUFFICES ASSUME NEW t \in Servers, Serving(t)' PROVE InStage(t)' /\ Told(t)'
  BY DEF AllInOrder
<1>1. InExchange(t) /\ Serving(t) /\ InStage(t) /\ Told(t)
  BY DEF InStep, AllInOrder, Serving, agentVars
<1>2. Idle(t)
  <2>1. ~Sent(t)
    BY DEF Sent, Unanswered
  <2> QED
    BY <1>1, <2>1
    DEF InExchange, Gone, Serving, Asked, Replied, Stopping, Reporting, Reported, Sent
<1>3. Up(t) = {}
  BY UpNext DEF Up, Answered, AtRest
<1>4. \A p \in Programs : ~Started(progs[t][p])
  BY <1>1, <1>3, KindFacts DEF InStage, StartCommands
<1>5. phase' = "send" /\ cmd' = c /\ toServer'[t] = <<>> /\ toController'[t] = <<>>
  BY <1>2 DEF Broadcast, Idle
<1>6. ~Answered(t)' /\ Up(t)' = {}
  BY <1>5, UpNext DEF Answered, Up
<1>7. InStage(t)'
  BY <1>4, <1>6, KindFacts DEF InStage, Kind, Started
<1>8. c \notin StartCommands \cup StopCommands /\ c # "sc"
  BY DEF StartCommands, StopCommands
<1>9. Told(t)'
  BY <1>4, <1>5, <1>6, <1>8 DEF Told, Started
<1> QED
  BY <1>7, <1>9

(* Nothing else the menu does changes what is up. *)
LEMMA QuietInOrder ==
  ASSUME AllInOrder, UNCHANGED <<serverVars, phase, cmd, idx, exp, scen>>
  PROVE  AllInOrder'
<1> SUFFICES ASSUME NEW t \in Servers, Serving(t)' PROVE InStage(t)' /\ Told(t)'
  BY DEF AllInOrder
<1>1. Untouched(t) /\ Serving(t)
  BY DEF Untouched, serverVars, agentVars, Serving
<1> QED
  BY <1>1, UntouchedInOrder DEF AllInOrder

(* Between experiments nothing but the end of the last one, or the start, has come. *)
LEMMA NextAtRest ==
  ASSUME Typed, ~raised', AtRest, [NextMenu]_allVars
  PROVE  AtRest'
<1>1. ASSUME UNCHANGED <<phase, cmd>> PROVE AtRest'
  BY <1>1 DEF AtRest
<1>2. CASE MenuStep
  <2>1. CASE RunList \/ RunFailed \/ RunRerun \/ LoadFailed \/ Skip \/ EndOfList \/ LogErrors
    <3>1. UNCHANGED <<phase, cmd>>
      BY <2>1 DEF RunList, RunFailed, RunRerun, LoadFailed, Skip, EndOfList, LogErrors,
         controlVars, vars
    <3> QED
      BY <1>1, <3>1
  <2>2. CASE QuitMenu \/ RunNext
    <3>1. phase' = "send"
      BY <2>2 DEF QuitMenu, RunNext, BeginQuit, Begin, Broadcast
    <3> QED
      BY <3>1 DEF AtRest
  <2>3. CASE MenuFail
    BY <2>3 DEF MenuFail, Fail, Raise
  <2> QED
    BY <1>2, <2>1, <2>2, <2>3 DEF MenuStep
<1>3. CASE ExchangeStep
  <2>1. CASE SendOne
    <3>1. phase' # "ready"
      BY <2>1 DEF SendOne, AfterSend
    <3> QED
      BY <3>1 DEF AtRest
  <2>2. CASE TakeReady \/ PassOver
    <3>1. phase = "wait" /\ AfterReply
      BY <2>2 DEF TakeReady, PassOver, Awaits
    <3>2. CASE idx + 1 \in Servers
      BY <3>1, <3>2 DEF AfterReply, AtRest
    <3>3. CASE NextCommand
      BY <3>1, <3>3, NextCommandEffect DEF AtRest
    <3> QED
      BY <3>1, <3>2, <3>3 DEF AfterReply
  <2>3. CASE TakeError
    BY <1>1, <2>3 DEF TakeError, controlVars
  <2> QED
    BY <1>3, <2>1, <2>2, <2>3 DEF ExchangeStep, WithinExperiment
<1>4. CASE ProgramsStep \/ \E s \in Servers : AgentStep(s)
  <2>1. UNCHANGED <<phase, cmd>>
    BY <1>4 DEF ProgramsStep, AgentStep, WithinExperiment, OfServers, controlVars
  <2> QED
    BY <1>1, <2>1
<1>5. CASE UNCHANGED allVars
  BY <1>1, <1>5 DEF allVars, vars, controlVars
<1> QED
  BY <1>2, <1>3, <1>4, <1>5 DEF NextMenu

(* Every step keeps the order, or raises. *)
LEMMA NextInOrder ==
  ASSUME ReasonRest \subseteq {0}, TestProxy = -1, OrderInv, [NextMenu]_allVars, ~raised'
  PROVE  AllInOrder'
<1>0. Typed /\ AllReap
  BY DEF OrderInv, IInv, TypedMenu
<1>1. ASSUME UNCHANGED raised PROVE InStep /\ AllInOrder /\ AtRest
  BY <1>1 DEF OrderInv, IInv
<1>2. ASSUME UNCHANGED <<serverVars, phase, cmd, idx, exp, scen, raised>> PROVE AllInOrder'
  BY <1>1, <1>2, QuietInOrder
<1>3. CASE MenuStep
  <2>1. CASE RunList \/ RunFailed \/ RunRerun \/ LoadFailed \/ Skip \/ EndOfList \/ LogErrors
    <3>1. UNCHANGED <<serverVars, phase, cmd, idx, exp, scen, raised>>
      BY <2>1 DEF RunList, RunFailed, RunRerun, LoadFailed, Skip, EndOfList, LogErrors,
         controlVars, vars
    <3> QED
      BY <1>2, <3>1
  <2>2. CASE QuitMenu
    <3>1. /\ phase = "ready" /\ Broadcast("q")
          /\ UNCHANGED <<agentVars, progs, toServer, toController, raised>>
      BY <2>2 DEF QuitMenu, BeginQuit, serverVars
    <3> QED
      BY <1>0, <1>1, <3>1, BeginInOrder
  <2>3. CASE RunNext
    <3>1. /\ phase = "ready" /\ Broadcast("e")
          /\ UNCHANGED <<agentVars, progs, toServer, toController, raised>>
      BY <2>3 DEF RunNext, Begin
    <3> QED
      BY <1>0, <1>1, <3>1, BeginInOrder
  <2>4. CASE MenuFail
    BY <2>4 DEF MenuFail, Fail, Raise
  <2> QED
    BY <1>3, <2>1, <2>2, <2>3, <2>4 DEF MenuStep
<1>4. CASE ExchangeStep
  <2>1. SendOne \/ TakeReady \/ TakeError \/ PassOver
    BY <1>4 DEF ExchangeStep, WithinExperiment
  <2>2. UNCHANGED raised
    BY <2>1 DEF SendOne, TakeReady, TakeError, PassOver, controlVars
  <2> QED
    BY <1>0, <1>1, <2>1, <2>2, SendOneInOrder, TakeReadyInOrder, TakeErrorInOrder,
       PassOverInOrder
<1>5. CASE ProgramsStep
  <2>1. OfServers(ProgramStep) /\ UNCHANGED raised
    BY <1>5 DEF ProgramsStep, WithinExperiment, OfServers, controlVars
  <2> QED
    BY <1>0, <1>1, <2>1, ProgramInOrder
<1>6. CASE \E s \in Servers : AgentStep(s)
  <2>1. PICK s \in Servers : OfServers(ServerStep(s))
    BY <1>6 DEF AgentStep, WithinExperiment
  <2>2. UNCHANGED raised
    BY <2>1 DEF OfServers, controlVars
  <2> QED
    BY <1>0, <1>1, <2>1, <2>2, AgentInOrder
<1>7. CASE UNCHANGED allVars
  <2>1. UNCHANGED <<serverVars, phase, cmd, idx, exp, scen, raised>>
    BY <1>7 DEF allVars, vars, controlVars
  <2> QED
    BY <1>2, <2>1
<1> QED
  BY <1>3, <1>4, <1>5, <1>6, <1>7 DEF NextMenu

(* At first nothing is started. *)
LEMMA InitInOrder == InitMenu => OrderInv
<1> SUFFICES ASSUME InitMenu PROVE OrderInv
  OBVIOUS
<1>1. IInv
  BY InitMenuTyped, InitInStep DEF IInv
<1>2. AllReap
  BY DEF InitMenu, Init, InitServer, AllReap, Reaping
<1>3. AtRest
  BY DEF InitMenu, Init, InitControl, AtRest
<1>4. AllInOrder
  <2> SUFFICES ASSUME NEW s \in Servers PROVE InStage(s) /\ Told(s)
    BY DEF AllInOrder
  <2>1. cmd = "q" /\ phase = "ready" /\ toServer[s] = <<>> /\ pc[s] = "recv"
    BY DEF InitMenu, Init, InitServer, InitControl
  <2>2. Up(s) = {}
    BY <2>1, UpNext DEF Up, Answered
  <2>3. \A p \in Programs : ~Started(progs[s][p])
    BY DEF InitMenu, Init, InitServer, Started, Absent
  <2>4. InStage(s)
    BY <2>2, <2>3, KindFacts DEF InStage
  <2>5. Told(s)
    BY <2>1, <2>3 DEF Told, StartCommands, StopCommands
  <2> QED
    BY <2>4, <2>5
<1> QED
  BY <1>1, <1>2, <1>3, <1>4 DEF OrderInv

(* The invariant holds of every run in which replies stay in step. *)
LEMMA OrderInvariant ==
  ASSUME ReasonRest \subseteq {0}, TestProxy = -1
  PROVE  SpecMenu => []OrderInv
<1>1. InitMenu => OrderInv
  BY InitInOrder
<1>2. OrderInv /\ [NextMenu]_allVars => OrderInv'
  <2> SUFFICES ASSUME OrderInv, [NextMenu]_allVars PROVE OrderInv'
    OBVIOUS
  <2>1. IInv'
    BY NextInStep, NextMenuTyped DEF IInv, OrderInv
  <2>2. AllReap'
    BY NextReaping DEF OrderInv, IInv
  <2>3. ~raised' => ~raised
    BY RaisedStays
  <2>4. ~raised' => AtRest' /\ AllInOrder'
    BY <2>3, NextInOrder, NextAtRest DEF OrderInv, IInv, TypedMenu
  <2> QED
    BY <2>1, <2>2, <2>4 DEF OrderInv
<1> QED
  BY <1>1, <1>2, PTL DEF SpecMenu

-----------------------------------------------------------------------------
(* The folder an agent is in, and the agents that are gone, on top of the order. *)

\* An agent that is in no folder has no programs, and one that is in a folder, which
\* its server has, has started none but its programs.
Home(s) ==
  /\ pc[s] = "ok" => at[s] \in Programs /\ Started(progs[s][at[s]])
  /\ IF folder[s] = None THEN \A p \in Programs : progs[s][p].st = "absent"
                         ELSE s \in Deployed[folder[s]]
  /\ \A p \in Programs : Started(progs[s][p]) => progs[s][p].exp = folder[s]
AllHome == \A s \in Servers : Home(s)

\* An agent that is gone has stopped its senders, if it did not die stopping them.
SendersOver(s) ==
  ~Serving(s) /\ ~DiedAmongSenders(s) => \A p \in Senders : ~Started(progs[s][p])
AllOver == \A s \in Servers : SendersOver(s)

\* The inductive invariant of what the programs are part of.
PlaceInv == OrderInv /\ AllHome /\ (~raised => AllOver)

(* Both last while nothing is started or stopped, and the agent stays where it is. *)
LEMMA HomeKept ==
  ASSUME NEW s, Home(s), SameStarted(s), folder'[s] = folder[s],
         pc'[s] = "ok" => pc[s] = "ok" /\ at'[s] = at[s]
  PROVE  Home(s)'
<1>1. folder'[s] = None => \A p \in Programs : progs'[s][p].st = "absent"
  BY DEF Home, SameStarted
<1>2. folder'[s] # None => s \in Deployed[folder'[s]]
  BY DEF Home
<1>3. \A p \in Programs : Started(progs[s][p])' => progs'[s][p].exp = folder'[s]
  BY DEF Home, SameStarted
<1>4. pc'[s] = "ok" => at'[s] \in Programs /\ Started(progs'[s][at'[s]])
  BY DEF Home, SameStarted, Started
<1> QED
  BY <1>1, <1>2, <1>3, <1>4 DEF Home, Started

LEMMA OverKept ==
  ASSUME NEW s, SendersOver(s), SameStarted(s), pc'[s] = pc[s], doing'[s] = doing[s]
  PROVE  SendersOver(s)'
<1>1. Senders \subseteq Programs
  BY DEF Programs
<1> QED
  BY <1>1 DEF SendersOver, SameStarted, Serving, DiedAmongSenders, Started

(* A program that has been waited for is none of an agent outside of any folder. *)
LEMMA ClearedAtHome ==
  ASSUME TypeOKServer, NEW s \in Servers, Home(s), NEW p \in Programs,
         Started(progs[s][p]), progs' = [progs EXCEPT ![s][p] = NotStarted],
         folder' = folder, pc'[s] # "ok"
  PROVE  Home(s)'
<1>1. folder[s] # None
  BY DEF Home, Started
<1>2. ~Started(progs'[s][p]) /\ \A q \in Programs \ {p} : progs'[s][q] = progs[s][q]
  BY DEF TypeOKServer, Started, NotStarted
<1> QED
  BY <1>1, <1>2 DEF Home, Started

(* A step of the agent. *)
LEMMA AgentHome ==
  ASSUME Typed, NEW s \in Servers, Home(s), ServerStep(s)
  PROVE  Home(s)'
<1>0. TypeOKServer /\ progs \in AllProgs
  BY DEF Typed, TypeOK, TypeOKServer, AllProgs
<1>1. CASE \/ Answer(s) \/ SetScenario(s) \/ BeginStop(s) \/ Poll(s) \/ BeginReap(s)
           \/ FinishStop(s) \/ Leave(s)
  <2>1. progs' = progs /\ folder' = folder /\ pc'[s] # "ok"
    BY <1>0, <1>1 DEF Answer, SetScenario, BeginStop, Poll, BeginReap, FinishStop, Leave, Reads,
       TypeOKServer
  <2> QED
    BY <2>1, UntouchedSameStarted, HomeKept
<1>2. CASE EnterExperiment(s)
  <2>1. pc[s] = "recv" /\ pc' = pc
    BY <1>2 DEF EnterExperiment, Reads
  <2>2. CASE UNCHANGED <<folder, progs>>
    BY <2>1, <2>2, UntouchedSameStarted, HomeKept
  <2>3. CASE /\ s \in Deployed[Head(toServer[s]).arg]
             /\ folder' = [folder EXCEPT ![s] = Head(toServer[s]).arg]
             /\ \E built \in Builds[s] :
                  progs' = [progs EXCEPT ![s] =
                    [p \in Programs |-> IF p \in built THEN NotStarted ELSE Absent]]
    <3>0. Reads(s, "e")
      BY <1>2 DEF EnterExperiment
    <3>1. Head(toServer[s]).arg \in Experiments
      <4>1. toServer \in [Servers -> Seq(ToServerTokens)]
        BY <1>0 DEF TypeOKServer
      <4> QED
        BY <3>0, <4>1, HeadTyped DEF Reads
    <3>2. folder'[s] = Head(toServer[s]).arg /\ folder'[s] # None
      BY <1>0, <2>3, <3>1, RemoteServerAssumption DEF TypeOKServer
    <3>3. \A p \in Programs : ~Started(progs'[s][p])
      BY <1>0, <2>3 DEF TypeOKServer, Started, NotStarted, Absent
    <3> QED
      BY <2>1, <2>3, <3>2, <3>3 DEF Home, Started
  <2> QED
    BY <1>2, <2>2, <2>3 DEF EnterExperiment
<1>3. CASE Launch(s)
  <2>1. PICK c \in StartCommands :
          progs' = [progs EXCEPT ![s] = [p \in Programs |->
            IF p \in Kind(c) /\ progs[s][p].st # "absent"
            THEN [st |-> "running", exp |-> folder[s], scen |-> scenario[s]]
            ELSE progs[s][p]]]
    BY <1>3 DEF Launch
  <2>2. pc[s] = "recv" /\ pc' = pc /\ folder' = folder
    BY <1>3 DEF Launch, Reads
  <2>3. \A p \in Programs :
          \/ progs'[s][p] = progs[s][p]
          \/ progs[s][p].st # "absent" /\ progs'[s][p].exp = folder[s]
    BY <1>0, <2>1 DEF TypeOKServer
  <2> QED
    BY <2>2, <2>3 DEF Home, Started
<1>4. CASE WriteQuit(s)
  <2>1. pc'[s] # "ok" /\ folder' = folder /\ at[s] \in Programs
    BY <1>0, <1>4 DEF WriteQuit, TypeOKServer, Typed, AtHand
  <2>2. CASE progs' = progs
    BY <2>1, <2>2, UntouchedSameStarted, HomeKept
  <2>3. CASE Alive(progs[s][at[s]]) /\ progs' = [progs EXCEPT ![s][at[s]].st = "asked"]
    <3>1. Started(progs[s][at[s]])
      BY <2>3 DEF Alive, Started
    <3> QED
      BY <1>0, <2>1, <2>3, <3>1, StateSameStarted, HomeKept
  <2> QED
    BY <1>4, <2>2, <2>3 DEF WriteQuit
<1>5. CASE Reap(s)
  <2>1. PICK p \in rest[s] :
        \/ /\ progs[s][p].st = "ended"
           /\ progs' = [progs EXCEPT ![s][p] = NotStarted]
           /\ UNCHANGED pc
        \/ /\ progs[s][p].st = "failed"
           /\ pc' = [pc EXCEPT ![s] = "ok"]
           /\ at' = [at EXCEPT ![s] = p]
           /\ UNCHANGED progs
    BY <1>5 DEF Reap
  <2>2. folder' = folder /\ pc[s] = "reap" /\ p \in Programs /\ Started(progs[s][p])
    BY <1>0, <1>5, <2>1 DEF Reap, TypeOKServer, Started
  <2>3. CASE progs' = [progs EXCEPT ![s][p] = NotStarted] /\ UNCHANGED pc
    BY <1>0, <2>2, <2>3, ClearedAtHome
  <2>4. CASE at' = [at EXCEPT ![s] = p] /\ UNCHANGED progs
    <3>1. at'[s] = p
      BY <1>0, <2>4 DEF TypeOKServer
    <3> QED
      BY <2>2, <2>4, <3>1 DEF Home, Started
  <2> QED
    BY <2>1, <2>3, <2>4
<1>6. CASE GetOk(s)
  <2>1. /\ pc[s] = "ok" /\ pc'[s] = "reap" /\ folder' = folder
        /\ progs' = [progs EXCEPT ![s][at[s]] = NotStarted]
    BY <1>0, <1>6 DEF GetOk, TypeOKServer
  <2>2. at[s] \in Programs /\ Started(progs[s][at[s]])
    BY <2>1 DEF Home
  <2> QED
    BY <1>0, <2>1, <2>2, ClearedAtHome
<1> QED
  BY <1>1, <1>2, <1>3, <1>4, <1>5, <1>6 DEF ServerStep

(* An agent leaves when nothing is up, and dies stopping senders or after them. *)
LEMMA AgentOver ==
  ASSUME Typed, NEW s \in Servers, ServerStep(s), InExchange(s), InStage(s), Reaping(s),
         Serving(s)
  PROVE  SendersOver(s)'
<1>0. TypeOKServer /\ idx \in Servers /\ Kind("s") = Senders
  BY DEF Typed, TypeOK, Kind
<1> SUFFICES ASSUME ~Serving(s)', ~DiedAmongSenders(s)', NEW p \in Senders
             PROVE  ~Started(progs'[s][p])
  BY DEF SendersOver, Started
<1>1. Leave(s) \/ WriteQuit(s)
  BY <1>0 DEF ServerStep, Answer, EnterExperiment, SetScenario, Launch, BeginStop, Poll,
     BeginReap, Reap, GetOk, FinishStop, Serving, TypeOKServer
<1>2. CASE Leave(s)
  <2>1. cmd = "q" /\ ~Answered(s) /\ progs' = progs
    BY <1>2, ReadsCommand DEF Leave
  <2>2. "s" \notin Up(s)
    BY <2>1, UpNext DEF Up
  <2> QED
    BY <1>0, <2>1, <2>2 DEF InStage, StartCommands
<1>3. CASE WriteQuit(s)
  <2>1. pc[s] = "write" /\ pc'[s] = "dead" /\ doing' = doing /\ progs' = progs
    BY <1>0, <1>3 DEF WriteQuit, Serving, TypeOKServer
  <2>2. ~Answered(s) /\ cmd = doing[s]
    BY <1>0, <2>1, AnsweredFacts
  <2>3. cmd \in {"tp", "tr"}
    BY <2>1, <2>2 DEF Reaping, StopCommands, DiedAmongSenders
  <2>4. "s" \notin Up(s)
    BY <2>2, <2>3 DEF Up, UpBefore
  <2> QED
    BY <1>0, <2>1, <2>4 DEF InStage, StartCommands
<1> QED
  BY <1>1, <1>2, <1>3

(* Every step keeps the invariant. *)
LEMMA NextPlace ==
  ASSUME PlaceInv, [NextMenu]_allVars, NEW t \in Servers
  PROVE  Home(t)' /\ (~raised => SendersOver(t)')
<1>0. /\ Typed /\ TypeOKServer /\ AllReap /\ Home(t)
      /\ ~raised => SendersOver(t) /\ InStep /\ AllInOrder
  BY DEF PlaceInv, OrderInv, IInv, TypedMenu, Typed, TypeOK, AllHome, AllOver
<1>1. ASSUME UNCHANGED <<agentVars, progs>>
      PROVE  Home(t)' /\ (~raised => SendersOver(t)')
  BY <1>0, <1>1, UntouchedSameStarted, HomeKept, OverKept DEF agentVars
<1>2. CASE MenuStep
  <2>1. UNCHANGED <<agentVars, progs>>
    BY <1>2 DEF MenuStep, RunList, RunFailed, RunRerun, LoadFailed, QuitMenu, Skip, RunNext,
       EndOfList, LogErrors, MenuFail, BeginQuit, Begin, Fail, serverVars, vars
  <2> QED
    BY <1>1, <2>1
<1>3. CASE ExchangeStep
  <2>1. UNCHANGED <<agentVars, progs>>
    BY <1>3 DEF ExchangeStep, WithinExperiment, SendOne, TakeReady, TakeError, PassOver,
       serverVars
  <2> QED
    BY <1>1, <2>1
<1>4. CASE ProgramsStep
  <2>1. ProgramStep
    BY <1>4 DEF ProgramsStep, WithinExperiment, OfServers
  <2>2. UNCHANGED agentVars
    BY <2>1 DEF ProgramStep, ProgramEnds, ProgramFails
  <2> QED
    BY <1>0, <2>1, <2>2, ProgramSameStarted, HomeKept, OverKept DEF agentVars
<1>5. CASE \E s \in Servers : AgentStep(s)
  <2>1. PICK s \in Servers : ServerStep(s)
    BY <1>5 DEF AgentStep, WithinExperiment, OfServers
  <2>2. CASE t = s
    <3>1. Serving(s)
      BY <1>0, <2>1 DEF ServerStep, Answer, EnterExperiment, SetScenario, Launch, BeginStop,
         Poll, WriteQuit, BeginReap, Reap, GetOk, FinishStop, Leave, Reads, Serving
    <3>2. ~raised => InExchange(s) /\ InStage(s) /\ Reaping(s)
      BY <1>0, <3>1 DEF InStep, AllInOrder, AllReap
    <3> QED
      BY <1>0, <2>1, <2>2, <3>1, <3>2, AgentHome, AgentOver
  <2>3. CASE t # s
    BY <1>0, <2>1, <2>3, AgentsApart, UntouchedSameStarted, HomeKept, OverKept DEF Untouched
  <2> QED
    BY <2>2, <2>3
<1>6. CASE UNCHANGED allVars
  BY <1>1, <1>6 DEF allVars, vars, serverVars
<1> QED
  BY <1>2, <1>3, <1>4, <1>5, <1>6 DEF NextMenu

LEMMA PlaceInvariant ==
  ASSUME ReasonRest \subseteq {0}, TestProxy = -1
  PROVE  SpecMenu => []PlaceInv
<1>1. InitMenu => PlaceInv
  <2> SUFFICES ASSUME InitMenu PROVE AllHome /\ AllOver
    BY InitInOrder DEF PlaceInv
  <2>1. ASSUME NEW s \in Servers
        PROVE  /\ pc[s] = "recv" /\ folder[s] = None
               /\ \A p \in Programs : progs[s][p] = Absent
    BY DEF InitMenu, Init, InitServer
  <2> QED
    BY <2>1 DEF AllHome, Home, AllOver, SendersOver, Serving, Started, Absent
<1>2. PlaceInv /\ OrderInv' /\ [NextMenu]_allVars => PlaceInv'
  <2> SUFFICES ASSUME PlaceInv, OrderInv', [NextMenu]_allVars PROVE PlaceInv'
    OBVIOUS
  <2>1. \A t \in Servers : Home(t)' /\ (~raised => SendersOver(t)')
    BY NextPlace
  <2>2. ~raised' => ~raised
    BY RaisedStays
  <2> QED
    BY <2>1, <2>2 DEF PlaceInv, AllHome, AllOver
<1> QED
  BY <1>1, <1>2, OrderInvariant, PTL DEF SpecMenu

-----------------------------------------------------------------------------
(* What is up is started by what is answered: senders only behind everything else. *)
LEMMA UpWithSenders ==
  ASSUME NEW s, NEW t, "s" \in Up(s)
  PROVE  cmd \in {"s", "ts"} /\ "r" \in Up(t) /\ "p" \in Up(t)
BY DEF Up, UpBefore, UpAfter

(* No sender runs, on any server, before every serving agent has started its receivers
   and proxies, nor after one has taken a receiver or a proxy down, but for the senders
   an agent left behind when a broken pipe killed it while it was stopping them: for
   every number of servers and programs, whatever fails and when, until an exception. *)
THEOREM SendersRunInBetween ==
  ASSUME ReasonRest \subseteq {0}, TestProxy = -1
  PROVE  SpecMenu => []SendersInBetween
<1>1. PlaceInv => SendersInBetween
  <2> SUFFICES ASSUME PlaceInv, ~raised, NEW s \in Servers, NEW t \in Servers,
                      ~DiedAmongSenders(s), Serving(t),
                      NEW p \in Senders, Alive(progs[s][p]), NEW q \in Receivers \cup Proxies
               PROVE  progs[t][q].st # "none"
    BY DEF SendersInBetween
  <2>1. (Serving(s) => InStage(s)) /\ InStage(t) /\ InExchange(t) /\ idx \in Servers
    BY DEF PlaceInv, OrderInv, AllInOrder, IInv, InStep, TypedMenu, Typed, TypeOK
  <2>2. p \in Kind("s") /\ Started(progs[s][p]) /\ Serving(s)
    <3>1. p \in Kind("s") /\ Started(progs[s][p])
      BY DEF Kind, Alive, Started
    <3> QED
      BY <3>1 DEF PlaceInv, AllOver, SendersOver
  <2>3. cmd \in {"s", "ts"} /\ "r" \in Up(t) /\ "p" \in Up(t)
    BY <2>1, <2>2, UpWithSenders DEF InStage, StartCommands
  <2>4. PICK k \in {"r", "p"} : q \in Kind(k)
    BY DEF Kind
  <2>5. pc[t] = "recv" \/ k # StoppedBy(doing[t])
    <3>1. pc[t] # "recv" => doing[t] \in {"s", "ts"}
      BY <2>1, <2>3, AnsweredFacts
    <3> QED
      BY <3>1 DEF StoppedBy
  <2> QED
    BY <2>1, <2>3, <2>4, <2>5 DEF InStage, StartCommands
<1> QED
  BY <1>1, PlaceInvariant, PTL

(* When an experiment, a scenario or the end is being set up, no agent has a program
   of what went before. *)
THEOREM EverythingIsStopped ==
  ASSUME ReasonRest \subseteq {0}, TestProxy = -1
  PROVE  SpecMenu => []NothingLeftRunning
<1>1. OrderInv => NothingLeftRunning
  <2> SUFFICES ASSUME OrderInv, ~raised, cmd \in {"e", "cr", "tc", "cs", "sc", "q"},
                      NEW s \in Servers, Serving(s), NEW p \in Programs
               PROVE  ~Started(progs[s][p])
    BY DEF NothingLeftRunning
  <2>1. InStage(s)
    BY DEF OrderInv, AllInOrder
  <2>2. Up(s) = {}
    BY UpFacts DEF Up, PlainCommands
  <2> QED
    BY <2>1, <2>2, KindFacts DEF InStage, StartCommands
<1> QED
  BY <1>1, OrderInvariant, PTL

(* Programs of serving agents run with the current scenario and are those of the folder
   the agent is in, which is that of the current experiment on every server that has it;
   on the others it is the folder the agent entered last. *)
THEOREM ProgramsAreCurrent ==
  ASSUME ReasonRest \subseteq {0}, TestProxy = -1
  PROVE  SpecMenu => []ProgramsOfThisScenario
<1>1. PlaceInv => ProgramsOfThisScenario
  <2> SUFFICES ASSUME PlaceInv, ~raised, NEW s \in Servers, Serving(s),
                      NEW p \in Programs, Started(progs[s][p])
               PROVE  /\ progs[s][p].scen = scen
                      /\ progs[s][p].exp = folder[s] /\ s \in Deployed[folder[s]]
                      /\ s \in Deployed[exp] => folder[s] = exp
    BY DEF ProgramsOfThisScenario
  <2>1. InStage(s) /\ Told(s) /\ Home(s)
    BY DEF PlaceInv, OrderInv, AllInOrder, AllHome
  <2>2. progs[s][p].exp = folder[s] /\ s \in Deployed[folder[s]]
    BY <2>1 DEF Home, Started
  <2>3. PICK k \in StartCommands : p \in Kind(k)
    BY KindFacts DEF StartCommands
  <2>4. k \in Up(s)
    BY <2>1, <2>3 DEF InStage
  <2>5. cmd \notin {"q", "e"}
    BY <2>4, UpFacts DEF Up
  <2> QED
    BY <2>1, <2>2, <2>5 DEF Told
<1> QED
  BY <1>1, PlaceInvariant, PTL

-----------------------------------------------------------------------------
(* Failures are recorded.                                                   *)

Record(f) == [scen |-> f.scen, server |-> f.server, prog |-> f.prog]

\* A report of the failure is on its way.
UnderWay(f) ==
  /\ f.scen = scen /\ Reporting(f.server)
  /\ toController[f.server] = <<Token("e", cmd, f.prog), Token("reason", cmd, f.prog)>>

\* The inductive invariant: in an experiment a failure is recorded or under way.
AllAccounted ==
  mode = "experiment" => \A f \in failures : Record(f) \in errorReasons[exp] \/ UnderWay(f)
FailureInv == OrderInv /\ (~raised => AllAccounted)

(* What the agents have seen has the shape of a failure. *)
LEMMA FailureTyped ==
  ASSUME Typed, NEW f \in failures
  PROVE  f.server \in Servers /\ f.prog \in Programs
BY DEF Typed, TypeOK, TypeOKServer, Failures

(* A report stays under way while nothing happens to its server. *)
LEMMA UnderWayKept ==
  ASSUME NEW f, f.server \in Servers, UnderWay(f), UNCHANGED <<cmd, scen>>,
         Unanswered(f.server)',
         pc'[f.server] = pc[f.server], doing'[f.server] = doing[f.server],
         toServer'[f.server] = toServer[f.server],
         toController'[f.server] = toController[f.server]
  PROVE  UnderWay(f)'
BY DEF UnderWay, Reporting

(* An agent adds a failure when it sends the report, and no other step of it has to do
   with a report. *)
LEMMA AgentAccounted ==
  ASSUME Typed, ReasonRest \subseteq {0}, InStep, AllReap, AllInOrder, AllAccounted,
         NEW s \in Servers, OfServers(ServerStep(s)), UNCHANGED menuVars
  PROVE  AllAccounted'
<1> SUFFICES ASSUME mode = "experiment", NEW f \in failures'
             PROVE  Record(f) \in errorReasons'[exp'] \/ UnderWay(f)'
  BY DEF AllAccounted, menuVars
<1>1. /\ ServerStep(s) /\ UNCHANGED <<phase, cmd, idx, exp, scen, errorReasons>>
      /\ \A t \in Servers : Unanswered(t)' <=> Unanswered(t)
  BY DEF OfServers, controlVars, Unanswered
<1>2. ASSUME f \in failures
      PROVE  Record(f) \in errorReasons'[exp'] \/ UnderWay(f)'
  <2>1. Record(f) \in errorReasons[exp] \/ UnderWay(f)
    BY <1>2 DEF AllAccounted
  <2>2. CASE UnderWay(f)
    <3>1. f.server \in Servers /\ Reporting(f.server)
      BY <1>2, <2>2, FailureTyped DEF UnderWay
    <3>2. CASE f.server # s
      <4>1. Untouched(f.server)
        BY <1>1, <3>1, <3>2, AgentsApart DEF Typed, TypeOK
      <4>2. Unanswered(f.server)'
        BY <1>1, <3>1 DEF Reporting
      <4> QED
        BY <1>1, <2>2, <3>1, <4>1, <4>2, UnderWayKept DEF Untouched
    <3>3. CASE f.server = s
      <4>1. pc[s] = "ok" /\ toServer[s] = <<>>
        BY <3>1, <3>3 DEF Reporting
      <4> QED
        BY <1>1, <4>1 DEF ServerStep, Answer, EnterExperiment, SetScenario, Launch,
           BeginStop, Poll, WriteQuit, BeginReap, Reap, GetOk, FinishStop, Leave, Reads
    <3> QED
      BY <3>2, <3>3
  <2> QED
    BY <1>1, <2>1, <2>2
<1>3. ASSUME f \notin failures PROVE UnderWay(f)'
  <2>1. Reap(s)
    BY <1>1, <1>3 DEF ServerStep, Answer, EnterExperiment, SetScenario, Launch,
       BeginStop, Poll, WriteQuit, BeginReap, GetOk, FinishStop, Leave
  <2>2. PICK p \in rest[s] :
        /\ progs[s][p].st = "failed"
        /\ pc' = [pc EXCEPT ![s] = "ok"]
        /\ \E n \in ReasonRest :
             toController' = [toController EXCEPT ![s] =
                @ \o <<Token("e", doing[s], p), Token("reason", doing[s], p)>>
                  \o [i \in 1 .. n |-> Token("piece", doing[s], p)]]
        /\ failures' = failures \cup {[exp |-> progs[s][p].exp,
              scen |-> progs[s][p].scen, server |-> s, prog |-> p]}
    BY <1>3, <2>1 DEF Reap
  <2>3. f.scen = progs[s][p].scen /\ f.server = s /\ f.prog = p
    BY <1>3, <2>2
  <2>4. pc[s] = "reap" /\ UNCHANGED <<doing, toServer>> /\ Serving(s) /\ p \in Programs
    BY <2>1 DEF Reap, Serving, Typed, TypeOK, TypeOKServer
  <2>5. progs[s][p].scen = scen
    <3>1. Started(progs[s][p])
      BY <2>2 DEF Started
    <3> QED
      BY <2>4, <3>1 DEF AllInOrder, Told
  <2>6. Stopping(s)
    BY <2>4 DEF InStep, InExchange, Gone, Idle, Asked, Replied, Reporting, Reported
  <2>7. toController'[s] = <<Token("e", cmd, p), Token("reason", cmd, p)>>
    <3>1. PICK n \in ReasonRest :
             toController' = [toController EXCEPT ![s] =
                @ \o <<Token("e", doing[s], p), Token("reason", doing[s], p)>>
                  \o [i \in 1 .. n |-> Token("piece", doing[s], p)]]
      BY <2>2
    <3>2. toController'[s] =
            <<>> \o <<Token("e", cmd, p), Token("reason", cmd, p)>>
              \o [i \in 1 .. n |-> Token("piece", cmd, p)]
      BY <2>6, <3>1 DEF Stopping, Typed, TypeOK, TypeOKServer
    <3>3. n \in {0}
      OBVIOUS
    <3> QED
      BY <3>2, <3>3, ShortReport
  <2>8. pc'[s] = "ok"
    BY <2>2 DEF Typed, TypeOK, TypeOKServer
  <2>9. Reporting(s)'
    <3>1. /\ Unanswered(s)' /\ cmd' = cmd /\ cmd # "q" /\ doing'[s] = cmd
          /\ toServer'[s] = <<>>
      BY <1>1, <2>4, <2>6 DEF Stopping
    <3>2. toController'[s] = <<Token("e", cmd', p), Token("reason", cmd', p)>>
      BY <2>7, <3>1
    <3> QED
      BY <2>4, <2>8, <3>1, <3>2 DEF Reporting
  <2>10. toController'[f.server] = <<Token("e", cmd', f.prog), Token("reason", cmd', f.prog)>>
    BY <1>1, <2>3, <2>7
  <2> QED
    BY <1>1, <2>3, <2>5, <2>9, <2>10 DEF UnderWay
<1> QED
  BY <1>2, <1>3

(* A reply that is taken is no report, nor is anything of a server the loop is past. *)
LEMMA AfterReplyAccounted ==
  ASSUME Typed, InStep, AllAccounted, phase = "wait", AfterReply, ~Reporting(idx),
         UNCHANGED <<agentVars, toServer, failures, exp, mode, errorReasons>>,
         \A t \in Servers \ {idx} : toController'[t] = toController[t]
  PROVE  AllAccounted'
<1> SUFFICES ASSUME mode = "experiment", NEW f \in failures, UnderWay(f)
             PROVE  UnderWay(f)'
  BY DEF AllAccounted
<1>1. f.server \in Servers /\ Reporting(f.server) /\ f.server # idx
  BY FailureTyped DEF UnderWay
<1>2. Sent(f.server)
  BY <1>1 DEF Reporting, Sent
<1>3. Unanswered(f.server)' /\ UNCHANGED cmd
  BY <1>1, <1>2, AfterReplyEffect
<1>4. UNCHANGED scen
  <2>1. /\ NumServers \in Nat /\ idx \in Nat /\ idx < NumServers
        /\ f.server \in Nat /\ f.server < NumServers
    BY <1>1, RemoteServerAssumption DEF Typed, TypeOK, Servers
  <2>2. idx <= f.server
    BY <1>1 DEF Reporting, Unanswered
  <2>3. idx + 1 \in Servers
    BY <1>1, <2>1, <2>2 DEF Servers
  <2> QED
    BY <2>3 DEF AfterReply
<1> QED
  BY <1>1, <1>3, <1>4, UnderWayKept DEF agentVars

(* The controller records the failure whose report it reads. *)
LEMMA TakeErrorAccounted ==
  ASSUME Typed, InStep, AllAccounted, TakeError, UNCHANGED menuVars
  PROVE  AllAccounted'
<1> SUFFICES ASSUME mode = "experiment", NEW f \in failures
             PROVE  Record(f) \in errorReasons'[exp'] \/ UnderWay(f)'
  BY DEF AllAccounted, menuVars, TakeError
<1> DEFINE reason == toController[idx][2]
           record == [scen |-> scen, server |-> idx, prog |-> reason.prog]
<1>1. /\ phase = "wait" /\ exp' = exp /\ scen' = scen /\ cmd' = cmd /\ idx \in Servers
      /\ UNCHANGED <<agentVars, controlVars>>
      /\ errorReasons' = [errorReasons EXCEPT ![exp] = @ \cup {record}]
      /\ \E q : toController' = [toController EXCEPT ![idx] = q]
      /\ toServer' = toServer \/ \E q : toServer' = [toServer EXCEPT ![idx] = q]
  BY DEF TakeError, Awaits, controlVars, Typed, TypeOK
<1>2. errorReasons'[exp] = errorReasons[exp] \cup {record}
  <2>1. exp \in Experiments
    BY <1>1 DEF Typed, WellDefined
  <2> QED
    BY <1>1, <2>1 DEF Typed, TypeOK
<1> HIDE DEF record
<1>3. CASE Record(f) \in errorReasons[exp]
  BY <1>1, <1>2, <1>3
<1>4. CASE UnderWay(f)
  <2>1. f.server \in Servers /\ Reporting(f.server) /\ f.scen = scen
    BY <1>4, FailureTyped DEF UnderWay
  <2>2. CASE f.server = idx
    <3>1. reason = Token("reason", cmd, f.prog)
      BY <1>4, <2>2 DEF UnderWay
    <3>2. record = Record(f)
      BY <2>1, <2>2, <3>1 DEF record, Record, Token
    <3> QED
      BY <1>1, <1>2, <3>2
  <2>3. CASE f.server # idx
    <3>1. /\ toServer'[f.server] = toServer[f.server]
          /\ toController'[f.server] = toController[f.server]
      BY <1>1, <2>1, <2>3 DEF Typed, TypeOK, TypeOKServer
    <3>2. Unanswered(f.server)'
      BY <1>1, <2>1 DEF Reporting, Unanswered, controlVars
    <3>3. UnderWay(f)'
      BY <1>1, <1>4, <2>1, <3>1, <3>2, UnderWayKept DEF agentVars
    <3> QED
      BY <3>3
  <2> QED
    BY <2>2, <2>3
<1> QED
  BY <1>3, <1>4 DEF AllAccounted

(* Sending a command comes before any report. *)
LEMMA SendOneAccounted ==
  ASSUME Typed, InStep, AllAccounted, SendOne, UNCHANGED menuVars
  PROVE  AllAccounted'
<1> SUFFICES ASSUME mode = "experiment", NEW f \in failures, UnderWay(f)
             PROVE  UnderWay(f)'
  BY DEF AllAccounted, menuVars, SendOne
<1>1. f.server \in Servers /\ Reporting(f.server) /\ idx \in Servers
  BY FailureTyped DEF UnderWay, Typed, TypeOK
<1>2. /\ phase = "send" /\ AfterSend /\ UNCHANGED <<agentVars, toController, cmd, scen>>
      /\ toServer' = toServer \/ \E q : toServer' = [toServer EXCEPT ![idx] = q]
  BY DEF SendOne
<1>3. f.server # idx /\ cmd # "q"
  BY <1>1, <1>2 DEF Reporting, Unanswered, Servers
<1>4. toServer'[f.server] = toServer[f.server]
  BY <1>1, <1>2, <1>3 DEF Typed, TypeOK, TypeOKServer
<1>5. Unanswered(f.server)'
  <2>1. f.server < idx
    BY <1>1, <1>2 DEF Reporting, Unanswered
  <2>2. f.server < idx + 1 /\ 0 <= f.server
    BY <1>1, <2>1 DEF Servers
  <2> QED
    BY <1>2, <1>3, <2>2 DEF AfterSend, Unanswered
<1> QED
  BY <1>1, <1>2, <1>4, <1>5, UnderWayKept DEF agentVars

(* A program does not touch what is known of failures. *)
LEMMA ProgramAccounted ==
  ASSUME AllAccounted, OfServers(ProgramStep), UNCHANGED menuVars
  PROVE  AllAccounted'
<1>1. UNCHANGED <<agentVars, toServer, toController, failures, controlVars, errorReasons, mode>>
  BY DEF OfServers, ProgramStep, ProgramEnds, ProgramFails, menuVars
<1> QED
  BY <1>1 DEF AllAccounted, UnderWay, Reporting, Unanswered, agentVars, controlVars

(* Every step keeps failures accounted for, or raises. *)
LEMMA NextAccounted ==
  ASSUME ReasonRest \subseteq {0}, TestProxy = -1, FailureInv, [NextMenu]_allVars, ~raised'
  PROVE  AllAccounted'
<1>0. Typed /\ AllReap
  BY DEF FailureInv, OrderInv, IInv, TypedMenu
<1>1. InStep /\ AllInOrder /\ AllAccounted
  BY RaisedStays DEF FailureInv, OrderInv, IInv
<1>2. CASE MenuStep
  <2>1. mode' # "experiment" \/ failures' = {} \/ (mode # "experiment" /\ mode' = mode)
    BY <1>2 DEF MenuStep, RunList, RunFailed, RunRerun, LoadFailed, QuitMenu, GoThrough,
       OnMenu, Skip, RunNext, Begin, EndOfList, LogErrors, MenuFail, Fail, Raise
  <2> QED
    BY <2>1 DEF AllAccounted
<1>3. CASE ExchangeStep
  <2>0. UNCHANGED menuVars
    BY <1>3 DEF ExchangeStep, WithinExperiment
  <2>1. CASE SendOne
    BY <1>0, <1>1, <2>0, <2>1, SendOneAccounted
  <2>2. CASE TakeError
    BY <1>0, <1>1, <2>0, <2>2, TakeErrorAccounted
  <2>3. CASE TakeReady
    <3>1. ~Reporting(idx)
      <4> SUFFICES ASSUME NEW p,
                          toController[idx] = <<Token("e", cmd, p), Token("reason", cmd, p)>>
                   PROVE  FALSE
        BY DEF Reporting
      <4>1. Head(toController[idx]) = Token("e", cmd, p)
        BY TwoTokens
      <4> QED
        BY <2>3, <4>1 DEF TakeReady, Token
    <3>2. \A t \in Servers \ {idx} : toController'[t] = toController[t]
      BY <1>0, <2>3 DEF TakeReady, Typed, TypeOK, TypeOKServer
    <3> QED
      BY <1>0, <1>1, <2>0, <2>3, <3>1, <3>2, AfterReplyAccounted
      DEF TakeReady, Awaits, menuVars
  <2>4. CASE PassOver
    <3>1. phase = "wait" /\ AfterReply /\ pc[idx] = "dead" /\ UNCHANGED <<serverVars, exp>>
      BY <1>0, <2>4, EveryServer DEF PassOver, Typed, TypeOK
    <3>2. ~Reporting(idx)
      BY <3>1 DEF Reporting
    <3> QED
      BY <1>0, <1>1, <2>0, <2>4, <3>1, <3>2, AfterReplyAccounted
      DEF PassOver, serverVars, menuVars
  <2> QED
    BY <1>3, <2>1, <2>2, <2>3, <2>4 DEF ExchangeStep, WithinExperiment
<1>4. CASE ProgramsStep
  BY <1>1, <1>4, ProgramAccounted DEF ProgramsStep, WithinExperiment
<1>5. CASE \E s \in Servers : AgentStep(s)
  <2>1. PICK s \in Servers : OfServers(ServerStep(s)) /\ UNCHANGED menuVars
    BY <1>5 DEF AgentStep, WithinExperiment
  <2> QED
    BY <1>0, <1>1, <2>1, AgentAccounted
<1>6. CASE UNCHANGED allVars
  BY <1>1, <1>6 DEF allVars, vars, serverVars, agentVars, controlVars, menuVars,
     AllAccounted, UnderWay, Reporting, Unanswered
<1> QED
  BY <1>2, <1>3, <1>4, <1>5, <1>6 DEF NextMenu

(* Every failure an agent has seen is recorded under its experiment and scenario when
   the experiment is over, until an exception: no report is lost or mixed up. *)
THEOREM FailuresAreRecorded ==
  ASSUME ReasonRest \subseteq {0}, TestProxy = -1
  PROVE  SpecMenu => []FailuresRecorded
<1>1. InitMenu => FailureInv
  <2> SUFFICES ASSUME InitMenu PROVE FailureInv
    OBVIOUS
  <2>1. OrderInv
    BY InitInOrder
  <2>2. AllAccounted
    BY DEF InitMenu, AllAccounted
  <2> QED
    BY <2>1, <2>2 DEF FailureInv
<1>2. FailureInv /\ OrderInv' /\ [NextMenu]_allVars => FailureInv'
  BY NextAccounted DEF FailureInv
<1>3. FailureInv => FailuresRecorded
  <2> SUFFICES ASSUME FailureInv, mode = "experiment", phase = "ready", ~raised,
                      NEW f \in failures
               PROVE  Record(f) \in errorReasons[exp]
    BY DEF FailuresRecorded, Record
  <2>1. ~UnderWay(f)
    BY DEF UnderWay, Reporting, Unanswered
  <2> QED
    BY <2>1 DEF FailureInv, AllAccounted
<1> QED
  BY <1>1, <1>2, <1>3, OrderInvariant, PTL DEF SpecMenu

=============================================================================
