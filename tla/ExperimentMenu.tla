--------------------------- MODULE ExperimentMenu ---------------------------
(***************************************************************************)
(* The menu of the local controller over its experiments                   *)
(* (implementation/WAN_exp_controller/core/local_controller.py): which     *)
(* experiments a command of the user runs, and the log of their errors.    *)
(***************************************************************************)
EXTENDS ExperimentControl, FiniteSets, SequencesExt

CONSTANTS
  Lists,        \* the lists rb, rw, rt and rs can ask for
  Rerun,        \* rerun.json: experiments with the scenarios to run
  ScenarioList, \* scenarios.keys()
  StartFrom,    \* start_from_exp, None if it is the empty string
  MaxMenus      \* bound: commands of the user

ASSUME ExperimentMenuAssumption ==
  /\ IsFiniteSet(Experiments)
  /\ Lists \subseteq Seq(Experiments)
  /\ ScenarioList \in Seq(Scenarios)
  /\ Rerun \in Seq([exp : Experiments, scens : Seq(Scenarios)])
  /\ StartFrom \in Experiments \cup {None}
  /\ MaxMenus \in Nat

VARIABLES
  mode,      \* reading a command, going through a list, or in experiment()
  todo,      \* what is left of the list, with the scenarios of each entry
  starting,  \* start_from: entries are skipped
  forgotten, \* history: the failed experiments rf has to run again
  ran,       \* history: the experiments run since the command
  log,       \* the error log of this hour
  menus      \* number of commands, for the bound

menuVars == <<mode, todo, starting, forgotten, ran, log, menus>>
allVars == <<vars, menuVars>>

TypeOKMenu ==
  /\ TypeOK
  /\ mode \in {"menu", "list", "experiment"}
  /\ todo \in Seq([exp : Experiments, scens : Seq(Scenarios)])
  /\ starting \in BOOLEAN
  /\ forgotten \subseteq Experiments /\ ran \subseteq Experiments
  /\ log \in [Experiments -> SUBSET Reasons]
  /\ menus \in 0 .. MaxMenus

InitMenu ==
  /\ Init
  /\ mode = "menu" /\ todo = <<>> /\ starting = FALSE
  /\ forgotten = {} /\ ran = {}
  /\ log = [e \in Experiments |-> {}]
  /\ menus = 0

-----------------------------------------------------------------------------
NoErrors == [e \in Experiments |-> {}]
Erroneous(errors) == {e \in Experiments : errors[e] # {}}   \* keys()

\* error_reasons.update(json.load(fin)): an experiment of the log replaces its entry.
Updated(errors, logged) ==
  [e \in Experiments |-> IF logged[e] # {} THEN logged[e] ELSE errors[e]]

OnMenu ==
  /\ mode = "menu" /\ phase = "ready" /\ menus < MaxMenus
  /\ menus' = menus + 1

\* Go through the experiments of list.
GoThrough(list, skips) ==
  /\ mode' = "list"
  /\ todo' = list
  /\ starting' = skips
  /\ ran' = {}

AllScenarios(list) == [i \in DOMAIN list |-> [exp |-> list[i], scens |-> ScenarioList]]

\* rb, rw, rt, rs.
RunList ==
  /\ OnMenu
  /\ \E list \in Lists : GoThrough(AllScenarios(list), StartFrom # None)
  /\ UNCHANGED <<serverVars, phase, cmd, idx, exp, scen, scensLeft, raised,
                 errorReasons, log>>
  /\ forgotten' = {}
  /\ caught' = FALSE

\* rf: the experiments with errors, in any order, which are then forgotten.
RunFailed ==
  /\ OnMenu
  /\ \E list \in SetToSeqs(Erroneous(errorReasons)) :
       GoThrough(AllScenarios(list), StartFrom # None)
  /\ errorReasons' = NoErrors
  /\ forgotten' = Erroneous(errorReasons)
  /\ caught' = FALSE
  /\ UNCHANGED <<serverVars, phase, cmd, idx, exp, scen, scensLeft, raised, log>>

\* rr: the experiments and scenarios of rerun.json, below a bare except.
RunRerun ==
  /\ OnMenu
  /\ GoThrough(Rerun, FALSE)
  /\ forgotten' = {}
  /\ caught' = TRUE
  /\ UNCHANGED <<serverVars, phase, cmd, idx, exp, scen, scensLeft, raised,
                 errorReasons, log>>

\* lf, when the user has given a log the name it looks for.
LoadFailed ==
  /\ OnMenu
  /\ errorReasons' = log
  /\ UNCHANGED <<serverVars, controlVars, mode, todo, starting, forgotten, ran, log>>

QuitMenu ==
  /\ OnMenu
  /\ BeginQuit
  /\ UNCHANGED <<mode, todo, starting, forgotten, ran, log>>

-----------------------------------------------------------------------------
\* The next entry of the list: skipped up to start_from_exp, or run.
Skip ==
  /\ mode = "list" /\ todo # <<>>
  /\ starting /\ Head(todo).exp # StartFrom
  /\ todo' = Tail(todo)
  /\ UNCHANGED <<vars, mode, starting, forgotten, ran, log, menus>>

RunNext ==
  /\ mode = "list" /\ todo # <<>>
  /\ starting => Head(todo).exp = StartFrom
  /\ Begin(Head(todo).exp, Head(todo).scens, caught)
  /\ mode' = "experiment"
  /\ todo' = Tail(todo)
  /\ starting' = FALSE
  /\ ran' = ran \cup {Head(todo).exp}
  /\ UNCHANGED <<forgotten, log, menus>>

EndOfList ==
  /\ mode = "list" /\ todo = <<>>
  /\ mode' = "menu"
  /\ UNCHANGED <<vars, todo, starting, forgotten, ran, log, menus>>

\* log_error_messages() after an experiment, with the log of this hour, which is
\* empty if the hour is new.
LogErrors ==
  /\ mode = "experiment" /\ phase = "ready"
  /\ \E logged \in {log, NoErrors} :
       /\ errorReasons' = Updated(errorReasons, logged)
       /\ log' = Updated(errorReasons, logged)
  /\ mode' = "list"
  /\ UNCHANGED <<serverVars, controlVars, todo, starting, forgotten, ran, menus>>

\* An exception in experiment() ends the menu, or, below rr, the list.
MenuFail ==
  /\ Fail
  /\ IF caught THEN mode' = "menu" /\ todo' = <<>> ELSE UNCHANGED <<mode, todo>>
  /\ UNCHANGED <<starting, forgotten, ran, log, menus>>

-----------------------------------------------------------------------------
WithinExperiment(A) == A /\ UNCHANGED menuVars

MenuStep ==
  \/ RunList \/ RunFailed \/ RunRerun \/ LoadFailed \/ QuitMenu
  \/ Skip \/ RunNext \/ EndOfList \/ LogErrors \/ MenuFail

ExchangeStep == WithinExperiment(SendOne \/ TakeReady \/ TakeError \/ PassOver)
AgentStep(s) == WithinExperiment(OfServers(ServerStep(s)))
ProgramsStep == WithinExperiment(OfServers(ProgramStep))

NextMenu ==
  \/ MenuStep \/ ExchangeStep \/ ProgramsStep
  \/ \E s \in Servers : AgentStep(s)

SpecMenu == InitMenu /\ [][NextMenu]_allVars

\* The controller and the agents run on, and a program that is asked to ends.
Fairness ==
  /\ WF_allVars(ExchangeStep) /\ WF_allVars(LogErrors)
  /\ \A s \in Servers : WF_allVars(AgentStep(s))
  /\ \A s \in Servers, p \in Programs :
       WF_allVars(WithinExperiment(OfServers(ProgramEnds(s, p))))

FairSpecMenu == SpecMenu /\ Fairness

-----------------------------------------------------------------------------
\* Every failure an agent has seen is recorded under the experiment and the scenario
\* it happened in, when the experiment is over and about to be logged.
FailuresRecorded ==
  mode = "experiment" /\ phase = "ready" /\ ~raised =>
    \A f \in failures :
      [scen |-> f.scen, server |-> f.server, prog |-> f.prog] \in errorReasons[exp]

\* An experiment comes to its end, or an exception ends it: no order of replies,
\* errors and crashes makes the controller and the agents wait for each other.
ExperimentEnds ==
  mode = "experiment" ~> mode # "experiment" \/ raised

-----------------------------------------------------------------------------
\* What the help text says of rf, "rerun failed experiments": when the menu is back,
\* every experiment whose errors rf has dropped has been run again.
FailedAreRerun ==
  mode = "menu" /\ phase = "ready" /\ ~raised => forgotten \subseteq ran

\* What the comment in log_error_messages() promises: the log takes in the existing
\* records, and the errors of the experiment that has just been run are in it.
NewErrorsAreLogged ==
  mode = "list" /\ exp \in ran =>
    \A f \in failures :
      [scen |-> f.scen, server |-> f.server, prog |-> f.prog] \in log[exp]
=============================================================================
