-------------------------------- MODULE Work --------------------------------
(***************************************************************************)
(* What runs beside a session's turn: background commands (jobs),          *)
(* background children (tasks) and the children a step waits for (calls).  *)
(* One table per session owns them (src/core/work.ts); task.ts, command.ts *)
(* and children.ts start and end them; the turn engine drains the table's  *)
(* news at a turn's start and after each step (agent.ts); the person stops *)
(* them.                                                                   *)
(***************************************************************************)
EXTENDS Naturals, FiniteSets

CONSTANTS Work,         \* what may ever be started, each at most once
          MaxChildren,  \* delegation.max_concurrent
          Keep          \* KEEP_ENDED

ASSUME MaxChildrenAssumption == MaxChildren \in Nat \ {0}
ASSUME KeepAssumption == Keep \in Nat

VARIABLES
  kind,      \* [Work -> {"none", "job", "task", "call"}]
  run,       \* [Work -> ...]: how far the process or the child's run is; "held": its shell is gone
             \* and a descendant keeps the output open
  stopping,  \* works whose controller was aborted, or whose process was signalled
  status,    \* [Work -> ...]: a background task's own record of how it stands
  entry,     \* [Work -> {"none", "running", "ended", "forgotten"}]: its line in the table
  outcome,   \* [Work -> ...]: how the table says it ended
  endedAt,   \* [Work -> Nat]: the order of the ends; 0 before
  told,      \* works whose end the model need not be told of
  news,      \* [Work -> Nat]: how often the model was told of its end
  given,     \* works whose result task_result returned once they had ended
  turn,      \* the session's turn: idle, waiting for the model, running a step's calls, or held by
             \* a command of its own whose output a descendant keeps open
  signal,    \* the turn's
  waiting,   \* works a task_result call holds for
  closed     \* the session was closed

workVars  == <<kind, run, stopping, status>>
tableVars == <<entry, outcome, endedAt, told>>
modelVars == <<news, given>>
turnVars  == <<turn, signal, waiting>>
vars == <<workVars, tableVars, modelVars, turnVars, closed>>

Runs     == {"none", "process", "setup", "thinking", "working", "held", "closing", "ended"}
Outcomes == {"none", "ok", "error", "cancelled"}

TypeOK ==
  /\ kind \in [Work -> {"none", "job", "task", "call"}]
  /\ run \in [Work -> Runs]
  /\ stopping \subseteq Work
  /\ status \in [Work -> {"none", "running", "ok", "error", "cancelled"}]
  /\ \A w \in Work : status[w] = "none" <=> kind[w] # "task"
  /\ entry \in [Work -> {"none", "running", "ended", "forgotten"}]
  /\ outcome \in [Work -> Outcomes]
  /\ endedAt \in [Work -> 0..Cardinality(Work)]
  /\ told \subseteq Work
  /\ news \in [Work -> Nat]
  /\ given \subseteq Work
  /\ turn \in {"idle", "model", "tools", "held"}
  /\ signal \in {"live", "aborted"}
  /\ waiting \subseteq Work
  /\ closed \in BOOLEAN

Init ==
  /\ kind = [w \in Work |-> "none"]
  /\ run = [w \in Work |-> "none"]
  /\ stopping = {}
  /\ status = [w \in Work |-> "none"]
  /\ entry = [w \in Work |-> "none"]
  /\ outcome = [w \in Work |-> "none"]
  /\ endedAt = [w \in Work |-> 0]
  /\ told = {}
  /\ news = [w \in Work |-> 0]
  /\ given = {}
  /\ turn = "idle"
  /\ signal = "live"
  /\ waiting = {}
  /\ closed = FALSE

-----------------------------------------------------------------------------
(* The table.                                                              *)

Running  == {w \in Work : entry[w] = "running"}
Children == {w \in Work : kind[w] \in {"task", "call"}}
Alive    == {w \in Work : run[w] \notin {"none", "ended"}}

\* Mutant: what the model was not told of is forgotten too.
PrunedUntold(lines, known, at) ==
  [w \in Work |->
    IF /\ lines[w] = "ended"
       /\ Cardinality({v \in Work : lines[v] = "ended" /\ at[v] > at[w]}) >= Keep
    THEN "forgotten" ELSE lines[w]]

\* prune(): of the ended lines the model knows of, the newest Keep stay.
Pruned(lines, known, at) ==
  [w \in Work |->
    IF /\ lines[w] = "ended" /\ w \in known
       /\ Cardinality({v \in Work : lines[v] = "ended" /\ v \in known /\ at[v] > at[w]}) >= Keep
    THEN "forgotten" ELSE lines[w]]

\* end(): a second end changes nothing.
End(w, how) ==
  IF entry[w] # "running" THEN UNCHANGED tableVars
  ELSE /\ endedAt' = [endedAt EXCEPT ![w] = Cardinality({v \in Work : endedAt[v] > 0}) + 1]
       /\ outcome' = [outcome EXCEPT ![w] = how]
       /\ entry' = Pruned([entry EXCEPT ![w] = "ended"], told, endedAt')
       /\ UNCHANGED told

\* Mutant: what was collected is not marked.
CollectUnmarked(w) == UNCHANGED tableVars

\* collect(): a running line is unchanged.
Collect(w) ==
  IF entry[w] # "ended" \/ w \in told THEN UNCHANGED tableVars
  ELSE /\ told' = told \cup {w}
       /\ entry' = Pruned(entry, told', endedAt)
       /\ UNCHANGED <<outcome, endedAt>>

\* drainEnded(): the lines that ended and were not yet told, each once.
DrainEnded ==
  LET ended == {w \in Work : entry[w] = "ended" /\ w \notin told}
  IN /\ told' = told \cup ended
     /\ news' = [w \in Work |-> IF w \in ended THEN news[w] + 1 ELSE news[w]]
     /\ UNCHANGED <<entry, outcome, endedAt, given>>

\* The stop() of each line of S: a background task's record says so at once.
StopEach(S) ==
  /\ stopping' = stopping \cup S
  /\ status' = [w \in Work |-> IF w \in S /\ kind[w] = "task" THEN "cancelled" ELSE status[w]]
  /\ UNCHANGED <<kind, run>>

-----------------------------------------------------------------------------
(* The calls of a step, the session's own or a child's.                    *)

\* Who can start something: a step of the session's turn, or of a child's, aborted or not, since
\* a call past the loop's head starts even after the abort.
Calling == turn = "tools" \/ \E c \in Children : run[c] = "working"

\* Mutant: only the children a step waits for take a slot.
MayDelegateBehind == Cardinality({w \in Running : kind[w] = "call"}) < MaxChildren

\* canDelegate(): the table's running children count, whoever started them.
MayDelegate == Cardinality(Running \cap Children) < MaxChildren

Begin(w, k, r, s, known) ==
  /\ kind[w] = "none"
  /\ kind' = [kind EXCEPT ![w] = k]
  /\ run' = [run EXCEPT ![w] = r]
  /\ status' = [status EXCEPT ![w] = s]
  /\ entry' = [entry EXCEPT ![w] = "running"]
  /\ told' = told \cup known
  /\ UNCHANGED <<stopping, outcome, endedAt, modelVars, turnVars, closed>>

\* startBackgroundCommand().
StartJob(w) == Calling /\ Begin(w, "job", "process", "none", {})

\* startBackground(): a child whose result is collected later.
StartTask(w) == Calling /\ MayDelegate /\ Begin(w, "task", "setup", "running", {})

\* A child the step waits for is listed, and its end is no news.  It listens to the turn's
\* signal from here on: a signal aborted before says nothing more.
StartCall(w) ==
  /\ turn = "tools" /\ MayDelegate
  /\ Begin(w, "call", "setup", "none", {w})

\* A final status is returned, and the line collected.  A task that was stopped has its final
\* status while its run still closes: its line is then no end yet, and nothing is marked.
Give(w) ==
  /\ Collect(w)
  /\ given' = IF entry[w] = "ended" THEN given \cup {w} ELSE given

\* task_result on a task that is not running any more, by its own record.
TaskResult(w) ==
  /\ Calling /\ kind[w] = "task" /\ entry[w] \in {"running", "ended"}
  /\ status[w] # "running"
  /\ Give(w)
  /\ UNCHANGED <<workVars, news, turnVars, closed>>

\* task_result with wait_seconds on one that is.
WaitForTask(w) ==
  /\ turn = "tools" /\ signal = "live"
  /\ kind[w] = "task" /\ entry[w] = "running" /\ status[w] = "running"
  /\ waiting' = waiting \cup {w}
  /\ UNCHANGED <<workVars, tableVars, modelVars, turn, signal, closed>>

\* The task settled, the seconds are over, or the turn was cancelled.
WaitEnds(w) ==
  /\ w \in waiting
  /\ waiting' = waiting \ {w}
  /\ \/ status[w] # "running" /\ Give(w)
     \/ status[w] = "running" /\ UNCHANGED <<tableVars, given>>
  /\ UNCHANGED <<workVars, news, turn, signal, closed>>

\* task_cancel, command_kill, or the person.
Stop(w) ==
  /\ entry[w] = "running"
  /\ StopEach({w})
  /\ UNCHANGED <<tableVars, modelVars, turnVars, closed>>

-----------------------------------------------------------------------------
(* The session's turn.                                                     *)

StartTurn ==
  /\ turn = "idle" /\ ~closed
  /\ turn' = "model" /\ signal' = "live"
  /\ DrainEnded
  /\ UNCHANGED <<workVars, waiting, closed>>

\* The model calls tools, or the turn ends.
ModelAnswers ==
  /\ turn = "model"
  /\ \/ turn' = "idle"
     \/ signal = "live" /\ turn' = "tools"
  /\ UNCHANGED <<workVars, tableVars, modelVars, signal, waiting, closed>>

\* A command the step runs by itself: its shell is gone, by itself or stopped, and a descendant
\* holds its output.  Nothing signals that one, and the call returns when the output closes.
TurnHeld ==
  /\ turn = "tools" /\ waiting = {} /\ \A w \in Alive : kind[w] # "call"
  /\ turn' = "held"
  /\ UNCHANGED <<workVars, tableVars, modelVars, signal, waiting, closed>>

\* Every call has its result; what ended meanwhile is told with the last one.
StepDone ==
  /\ turn \in {"tools", "held"} /\ waiting = {}
  /\ \A w \in Alive : kind[w] # "call"
  /\ \/ turn' = "idle"
     \/ signal = "live" /\ turn' = "model"
  /\ DrainEnded
  /\ UNCHANGED <<workVars, signal, waiting, closed>>

\* Cancelling a turn aborts the children it waits for, and nothing that runs beside it.
CancelTurn ==
  /\ turn # "idle" /\ signal = "live"
  /\ signal' = "aborted"
  /\ StopEach({w \in Alive : kind[w] = "call"})
  /\ UNCHANGED <<tableVars, modelVars, turn, waiting, closed>>

\* Closing the session stops everything its table lists as running.
Close ==
  /\ turn = "idle" /\ ~closed
  /\ closed' = TRUE
  /\ StopEach(Running)
  /\ UNCHANGED <<tableVars, modelVars, turnVars>>

-----------------------------------------------------------------------------
(* A child's run, and a process.                                           *)

Step(w, from, to) == run[w] = from /\ run' = [run EXCEPT ![w] = to]

\* The route, the worktree and the runtime are there.
ChildStarts(w) ==
  /\ Step(w, "setup", "thinking")
  /\ UNCHANGED <<kind, stopping, status, tableVars, modelVars, turnVars, closed>>

\* An aborted child makes no further step.
ChildCalls(w) ==
  /\ Step(w, "thinking", "working") /\ w \notin stopping
  /\ UNCHANGED <<kind, stopping, status, tableVars, modelVars, turnVars, closed>>

\* A command of its step is held as the session's is.
ChildHeld(w) ==
  /\ Step(w, "working", "held")
  /\ UNCHANGED <<kind, stopping, status, tableVars, modelVars, turnVars, closed>>

\* A step's end: the child asks the model again, unless it was aborted, refused, or is out of calls.
ChildStepDone(w) ==
  /\ kind[w] # "job" /\ run[w] \in {"working", "held"}
  /\ \/ run' = [run EXCEPT ![w] = "closing"]
     \/ w \notin stopping /\ run' = [run EXCEPT ![w] = "thinking"]
  /\ UNCHANGED <<kind, stopping, status, tableVars, modelVars, turnVars, closed>>

\* Its turn ends with a reply, an error, a limit or the abort; its worktree and runtime are closed next.
ChildTurnEnds(w) ==
  /\ Step(w, "thinking", "closing")
  /\ UNCHANGED <<kind, stopping, status, tableVars, modelVars, turnVars, closed>>

\* How a run that got no further than its setup, or that ended, comes back.
Fates(w) == IF run[w] = "setup" THEN {"error"} ELSE {"ok", "error", "cancelled"}

\* A task that was stopped stays cancelled, however its run came back.
SettledAs(w, fate) == IF status[w] = "running" THEN fate ELSE status[w]

\* Mutant: a delegation refused before it started is not ended in the table.
TaskBackStarted(w) ==
  /\ kind[w] = "task" /\ run[w] \in {"setup", "closing"}
  /\ run' = [run EXCEPT ![w] = "ended"]
  /\ \E fate \in Fates(w) :
       /\ status' = [status EXCEPT ![w] = SettledAs(w, fate)]
       /\ IF run[w] = "setup" THEN UNCHANGED tableVars ELSE End(w, SettledAs(w, fate))
  /\ UNCHANGED <<kind, stopping, modelVars, turnVars, closed>>

\* The delegation of a background task is back: startBackground's then().
TaskBack(w) ==
  /\ kind[w] = "task" /\ run[w] \in {"setup", "closing"}
  /\ run' = [run EXCEPT ![w] = "ended"]
  /\ \E fate \in Fates(w) :
       /\ status' = [status EXCEPT ![w] = SettledAs(w, fate)]
       /\ End(w, SettledAs(w, fate))
  /\ UNCHANGED <<kind, stopping, modelVars, turnVars, closed>>

\* It threw: its catch() records an error over whatever was recorded.
TaskThrows(w) ==
  /\ kind[w] = "task" /\ run[w] \in {"setup", "closing"}
  /\ run' = [run EXCEPT ![w] = "ended"]
  /\ status' = [status EXCEPT ![w] = "error"]
  /\ End(w, "error")
  /\ UNCHANGED <<kind, stopping, modelVars, turnVars, closed>>

\* The delegation a step waited for is back, or threw.
CallBack(w) ==
  /\ kind[w] = "call" /\ run[w] \in {"setup", "closing"}
  /\ run' = [run EXCEPT ![w] = "ended"]
  /\ \E fate \in Fates(w) : End(w, fate)
  /\ UNCHANGED <<kind, stopping, status, modelVars, turnVars, closed>>

\* A background command could not be started.
JobFails(w) ==
  /\ Step(w, "process", "closing")
  /\ kind[w] = "job"
  /\ End(w, "error")
  /\ UNCHANGED <<kind, stopping, status, modelVars, turnVars, closed>>

\* Its shell exits, by itself or killed, and a descendant holds its output: no further signal
\* is sent, and the line ends when the output closes.
ShellExits(w) ==
  /\ Step(w, "process", "held")
  /\ UNCHANGED <<kind, stopping, status, tableVars, modelVars, turnVars, closed>>

\* Its output closes, and with it the job, by a signal only if it was stopped; a close that
\* follows a failed start changes nothing.
JobCloses(w) ==
  /\ kind[w] = "job" /\ run[w] \in {"process", "held", "closing"}
  /\ run' = [run EXCEPT ![w] = "ended"]
  /\ \E how \in {"ok", "cancelled"} : (how = "cancelled" => w \in stopping) /\ End(w, how)
  /\ UNCHANGED <<kind, stopping, status, modelVars, turnVars, closed>>

-----------------------------------------------------------------------------
\* What a step may call, one work at a time.
CallStep(w) == StartJob(w) \/ StartTask(w) \/ StartCall(w) \/ TaskResult(w) \/ WaitForTask(w)

\* What takes a child's run to its end, whatever it still does on the way.
RunEnds(w) == TaskBack(w) \/ TaskThrows(w) \/ CallBack(w) \/ ChildTurnEnds(w)

ChildStep(w) ==
  ChildStarts(w) \/ ChildCalls(w) \/ ChildHeld(w) \/ ChildStepDone(w) \/ RunEnds(w)

JobStep(w) == JobFails(w) \/ ShellExits(w) \/ JobCloses(w)

\* The session was closed and nothing of it runs any more.
Over == closed /\ Alive = {} /\ UNCHANGED vars

TurnStep == StartTurn \/ ModelAnswers \/ TurnHeld \/ StepDone \/ CancelTurn \/ Close

Next ==
  \/ TurnStep
  \/ \E w \in Work : CallStep(w) \/ WaitEnds(w) \/ Stop(w) \/ ChildStep(w) \/ JobStep(w)
  \/ Over

Spec == Init /\ [][Next]_vars

\* The model answers; a step's calls are finitely many and a wait has its seconds, so a step ends
\* or is held; a child's steps are bounded, so its run goes on and ends, or is held; the shell of a
\* stopped job is killed.  What is held need never come back, and nothing else must happen.
Fairness ==
  /\ WF_vars(ModelAnswers)
  /\ SF_vars(turn = "tools" /\ (StepDone \/ TurnHeld))
  /\ \A w \in Work : /\ WF_vars(WaitEnds(w))
                     /\ WF_vars(run[w] # "held" /\ (ChildStarts(w) \/ ChildHeld(w) \/ ChildStepDone(w)))
                     /\ SF_vars(RunEnds(w))
                     /\ WF_vars(w \in stopping /\ run[w] = "process" /\ (ShellExits(w) \/ JobCloses(w)))

FairSpec == Spec /\ Fairness

-----------------------------------------------------------------------------
(* Properties.                                                             *)

\* "told once per job": no end is news twice, none whose result task_result returned once the
\* work had ended is news afterwards, and none of a child whose own call returns its result.  A
\* stopped task's result read before its run has closed is no end by the table, and is told again.
ToldOnce ==
  /\ [](\A w \in Work : news[w] <= 1 /\ (kind[w] = "call" => news[w] = 0))
  /\ [][\A w \in given : news'[w] = news[w]]_vars

\* The table forgets no end the model has not heard of.
ForgottenWereTold ==
  \A w \in Work : entry[w] = "forgotten" => news[w] = 1 \/ w \in given \/ kind[w] = "call"

\* No more children are at work at once than configured, those being stopped and those of
\* children included: a slot is free when its child has really ended.
SlotsHold == Cardinality(Alive \cap Children) <= MaxChildren

\* The news and task_result say the same of how a background task ended.
OneStory ==
  \A w \in Work : kind[w] = "task" /\ run[w] = "ended" => outcome[w] = status[w]

\* What the model was told of an end stays true: no later event changes how it ended.
EndStands ==
  [][\A w \in Work : entry[w] \in {"ended", "forgotten"} => outcome'[w] = outcome[w]]_vars

\* A background task that was stopped is never reported as done.
StoppedIsNotDone ==
  [][\A w \in Work : status[w] = "cancelled" => status'[w] # "ok"]_vars

\* What was stopped ends, in the table too, so that its slot comes back; unless a command it
\* leaves behind holds its output.
StoppedWorkEnds ==
  \A w \in Work : w \in stopping ~> entry[w] \notin {"none", "running"} \/ run[w] = "held"

\* A command of the turn, or of a child the turn waits for, holds the turn.
TurnIsHeld == turn = "held" \/ \E w \in Work : kind[w] = "call" /\ run[w] = "held"

\* An end reaches the model while the turn goes on; or the turn ends, or is held, before it can.
NewsArrives ==
  \A w \in Work : entry[w] = "ended" /\ w \notin told ~> w \in told \/ turn = "idle" \/ TurnIsHeld
=============================================================================
