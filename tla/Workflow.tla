------------------------------ MODULE Workflow ------------------------------
(***************************************************************************)
(* One workflow run (src/core/workflows/engine.ts): the process that       *)
(* executes its steps, the log that outlives it, the people who stop it,   *)
(* resume it and answer its approvals, and the crash that ends the process *)
(* between any two lines of the log.                                       *)
(*                                                                         *)
(* Nothing reads the order of two steps' lines, so the log is kept as the  *)
(* last line of each step and the approvals recorded since.                *)
(***************************************************************************)
EXTENDS Naturals, Sequences, FiniteSets

CONSTANTS N,           \* the workflow's steps, 1..N in the file's order
          Limit,       \* its concurrency, 1..4
          Flows,       \* the workflow files considered
          MaxAnswers,  \* bound: answers recorded of one waiting step before a resume
          Features     \* bound of the model: how many steps of SmallFlows tolerate errors, are gates
                       \* or have a condition

Steps    == 1..N
Statuses == {"pending", "running", "ok", "failed", "skipped", "waiting", "cancelled"}
Terminal == {"ok", "failed", "skipped", "cancelled"}

\* What the engine reads of a file: each step's needs, the steps with continue_on_error, the
\* approval steps, and the steps with a condition.
Files == [needs : [Steps -> SUBSET Steps], tolerant : SUBSET Steps,
          gates : SUBSET Steps, guarded : SUBSET Steps]

\* The needs form no cycle: some order of the steps puts each behind what it needs.
Acyclic(needs) ==
  \E rank \in [Steps -> Steps] : \A s \in Steps : \A n \in needs[s] : rank[n] < rank[s]

\* Flows, for TLC.
SmallFlows ==
  {f \in Files : /\ Acyclic(f.needs)
                 /\ Cardinality(f.tolerant) + Cardinality(f.gates) + Cardinality(f.guarded) <= Features}

ASSUME NAssumption == N \in Nat \ {0}
ASSUME LimitAssumption == Limit \in Nat \ {0}
ASSUME FlowsAssumption == Flows \subseteq Files
ASSUME MaxAnswersAssumption == MaxAnswers \in Nat

VARIABLES
  flow,      \* the file
  log,       \* [Steps -> Statuses]: the last the log says of each step
  answers,   \* [Steps -> Seq(...)]: the approvals the log holds after that
  over,      \* the run's last end in the log; "none" before it was started
  word,      \* [Steps -> ...]: the answer a person gave first, since the step last asked
  at,        \* where the process is: off, in the loop's pass, waiting, or past the loop
  next,      \* the pass: the next step in the file to look at
  memory,    \* [Steps -> Statuses]: what the process knows
  running,   \* its map of work under way
  woken,     \* some work it waited for is over
  aborted,   \* its signal
  killed     \* the last process was killed

logVars     == <<log, answers, over, word>>
processVars == <<at, next, memory, running, woken, aborted>>
vars == <<flow, logVars, processVars, killed>>

First(s, S) == s \in S /\ \A t \in S : s <= t

Blank == [s \in Steps |-> "pending"]

TypeOK ==
  /\ flow \in Flows
  /\ log \in [Steps -> Statuses]
  /\ answers \in [Steps -> Seq({"approved", "rejected"})]
  /\ over \in {"none", "running", "ok", "failed", "waiting", "cancelled"}
  /\ word \in [Steps -> {"none", "approved", "rejected"}]
  /\ at \in {"off", "scan", "await", "closing"}
  /\ next \in 1..N+1
  /\ memory \in [Steps -> Statuses]
  /\ running \in SUBSET Steps
  /\ woken \in BOOLEAN
  /\ aborted \in BOOLEAN
  /\ killed \in BOOLEAN

Init ==
  /\ flow \in Flows
  /\ log = Blank
  /\ answers = [s \in Steps |-> <<>>]
  /\ over = "none"
  /\ word = [s \in Steps |-> "none"]
  /\ at = "off"
  /\ next = 1
  /\ memory = Blank
  /\ running = {}
  /\ woken = FALSE
  /\ aborted = FALSE
  /\ killed = FALSE

-----------------------------------------------------------------------------
(* Starting and resuming.                                                  *)

\* A new run: the start line, then the loop.  The signal may be aborted already.
Begin ==
  /\ over = "none" /\ at = "off"
  /\ over' = "running"
  /\ at' = "scan"
  /\ next' = 1
  /\ memory' = Blank
  /\ aborted' \in BOOLEAN
  /\ killed' = FALSE
  /\ UNCHANGED <<flow, log, answers, word, running, woken>>

IsAnswered(s) == log[s] = "waiting" /\ answers[s] # <<>>

\* What the log's lines of a step come to: the first answer after it waited decides it.
Replayed(s) ==
  IF IsAnswered(s) THEN (IF Head(answers[s]) = "approved" THEN "ok" ELSE "failed")
  ELSE log[s]

\* Mutant: a step that failed gets another chance too.
RetriedFailed(st) == IF st \in {"running", "cancelled", "failed"} THEN "pending" ELSE st

\* Mutant: a step cut off is taken as it stands.
RetriedCancelled(st) == IF st = "cancelled" THEN "pending" ELSE st

\* A step cut off while running starts again; a cancelled one gets another chance.
Retried(st) == IF st \in {"running", "cancelled"} THEN "pending" ELSE st

\* Replaying is one synchronous stretch; a crash inside it leaves lines the next replay repeats.
Resume ==
  /\ over # "none" /\ at = "off"
  /\ log' = [s \in Steps |-> Replayed(s)]
  /\ answers' = [s \in Steps |-> IF IsAnswered(s) THEN <<>> ELSE answers[s]]
  /\ memory' = [s \in Steps |-> Retried(Replayed(s))]
  /\ at' = "scan"
  /\ next' = 1
  /\ aborted' = FALSE
  /\ killed' = FALSE
  /\ UNCHANGED <<flow, over, word, running, woken>>

-----------------------------------------------------------------------------
(* The loop.  set() changes the process's state and appends the line.      *)

Record(s, st) ==
  /\ memory' = [memory EXCEPT ![s] = st]
  /\ log' = [log EXCEPT ![s] = st]
  /\ answers' = [answers EXCEPT ![s] = <<>>]

\* Mutant: a step is ready when nothing it needs is running.
ReadyIdle(s) ==
  /\ memory[s] = "pending"
  /\ \A n \in flow.needs[s] : memory[n] # "running"

\* The steps a pass has still to start.
Ready(s) ==
  /\ memory[s] = "pending"
  /\ \A n \in flow.needs[s] : memory[n] \in Terminal

Ahead == {s \in Steps : s >= next /\ Ready(s)}

HasRoom == Cardinality(running) < Limit

Broken(s) == \E n \in flow.needs[s] : memory[n] \in {"failed", "cancelled"}

Scanning == at = "scan" /\ ~aborted /\ HasRoom /\ Ahead # {}

FailsForNeed(s) == Broken(s) /\ s \notin flow.tolerant

\* It fails for a need, is skipped for a false condition, or its condition cannot be evaluated.
PassesOver(s) ==
  /\ \/ FailsForNeed(s) /\ Record(s, "failed")
     \/ ~FailsForNeed(s) /\ s \in flow.guarded /\ (Record(s, "skipped") \/ Record(s, "failed"))
  /\ UNCHANGED <<running, word>>

Runs(s) ==
  /\ ~FailsForNeed(s)
  /\ Record(s, "running")
  /\ running' = running \cup {s}
  /\ word' = [word EXCEPT ![s] = "none"]

\* start(), for the next step of the pass.
StartNext ==
  /\ Scanning
  /\ \E s \in Steps :
       /\ First(s, Ahead)
       /\ next' = s + 1
       /\ PassesOver(s) \/ Runs(s)
  /\ UNCHANGED <<flow, over, at, woken, aborted, killed>>

\* The pass is over: nothing under way ends the loop, else it waits for some work to end.
EndPass ==
  /\ at = "scan" /\ ~Scanning
  /\ at' = IF running = {} THEN "closing" ELSE "await"
  /\ UNCHANGED <<flow, logVars, next, memory, running, woken, aborted, killed>>

Wake ==
  /\ at = "await" /\ woken
  /\ at' = "scan"
  /\ next' = 1
  /\ woken' = FALSE
  /\ UNCHANGED <<flow, logVars, memory, running, aborted, killed>>

-----------------------------------------------------------------------------
(* The work of a step.                                                     *)

\* Stopped work is cancelled, unless it was done.
StopsAs(st) == IF aborted /\ st # "ok" THEN "cancelled" ELSE st

\* A runner's outcome, or what it threw.
WorkEnds(s) ==
  /\ at = "await" /\ s \in running /\ memory[s] = "running" /\ s \notin flow.gates
  /\ \E st \in {"ok", "failed"} : Record(s, StopsAs(st))
  /\ UNCHANGED <<flow, over, word, at, next, running, woken, aborted, killed>>

\* An approval: a person at the interface answers, or nobody can and the step waits.
GateEnds(s) ==
  /\ at = "await" /\ s \in running /\ memory[s] = "running" /\ s \in flow.gates
  /\ \/ Record(s, StopsAs("ok")) /\ word' = [word EXCEPT ![s] = "approved"]
     \/ Record(s, StopsAs("failed")) /\ word' = [word EXCEPT ![s] = "rejected"]
     \/ Record(s, StopsAs("waiting")) /\ UNCHANGED word
     \/ Record(s, StopsAs("failed")) /\ UNCHANGED word        \* its message cannot be rendered
  /\ UNCHANGED <<flow, over, at, next, running, woken, aborted, killed>>

\* The work's promise settles after its line: only then is its place free.
Leave(s) ==
  /\ at = "await" /\ s \in running /\ memory[s] # "running"
  /\ running' = running \ {s}
  /\ woken' = TRUE
  /\ UNCHANGED <<flow, logVars, at, next, memory, aborted, killed>>

-----------------------------------------------------------------------------
(* The end.                                                                *)

Unstarted == {s \in Steps : memory[s] = "pending"}

\* A stopped run gives up what it has not started.
GiveUp ==
  /\ at = "closing" /\ aborted /\ Unstarted # {}
  /\ \E s \in Steps : First(s, Unstarted) /\ Record(s, "cancelled")
  /\ UNCHANGED <<flow, over, word, at, next, running, woken, aborted, killed>>

\* Mutant: a failed step fails no run.
VerdictLenient ==
  IF \E s \in Steps : memory[s] = "cancelled" THEN "cancelled"
  ELSE IF \E s \in Steps : memory[s] \in {"waiting", "pending"} THEN "waiting"
  ELSE "ok"

Verdict ==
  IF \E s \in Steps : memory[s] = "cancelled" THEN "cancelled"
  ELSE IF \E s \in Steps : memory[s] \in {"waiting", "pending"} THEN "waiting"
  ELSE IF \E s \in Steps : memory[s] = "failed" /\ s \notin flow.tolerant THEN "failed"
  ELSE "ok"

Gone ==
  /\ at' = "off"
  /\ next' = 1
  /\ memory' = Blank
  /\ running' = {}
  /\ woken' = FALSE
  /\ aborted' = FALSE

End ==
  /\ at = "closing" /\ ~(aborted /\ Unstarted # {})
  /\ over' = Verdict
  /\ Gone
  /\ UNCHANGED <<flow, log, answers, word, killed>>

-----------------------------------------------------------------------------
(* People, and what happens to the process.                                *)

\* The signal: an interrupt at the terminal, or the run this one is a step of.
Abort ==
  /\ at = "await" /\ ~aborted
  /\ aborted' = TRUE
  /\ UNCHANGED <<flow, logVars, at, next, memory, running, woken, killed>>

\* The process is killed between two lines.
Crash ==
  /\ at # "off"
  /\ Gone
  /\ killed' = TRUE
  /\ UNCHANGED <<flow, logVars>>

\* recordApproval(), from any process, while the run executes or not.  The resume that follows
\* it may fail before it reads the log, as when the workflow file no longer loads.
Approve(s) ==
  /\ at \in {"off", "await"}
  /\ log[s] = "waiting" /\ Len(answers[s]) < MaxAnswers
  /\ \E a \in {"approved", "rejected"} :
       /\ answers' = [answers EXCEPT ![s] = Append(answers[s], a)]
       /\ word' = IF answers[s] = <<>> THEN [word EXCEPT ![s] = a] ELSE word
  /\ UNCHANGED <<flow, log, over, processVars, killed>>

Loop   == StartNext \/ EndPass \/ Wake \/ GiveUp \/ End
Ending == \E s \in Steps : WorkEnds(s) \/ GateEnds(s) \/ Leave(s)
Mishap == Abort \/ Crash
Next   == Begin \/ Resume \/ Loop \/ Ending \/ Mishap \/ \E s \in Steps : Approve(s)

Spec == Init /\ [][Next]_vars

\* The process goes on, work ends (a person at the interface answers), and people answer what
\* waits and resume the run whenever its process is gone.
FairSpec ==
  /\ Spec
  /\ WF_vars(Loop) /\ WF_vars(Begin) /\ WF_vars(Resume)
  /\ \A s \in Steps : WF_vars(WorkEnds(s) \/ GateEnds(s)) /\ WF_vars(Leave(s))
  /\ \A s \in Steps : SF_vars(at = "off" /\ Approve(s))

-----------------------------------------------------------------------------
(* Properties.                                                             *)

Finished == {"ok", "failed", "skipped"}
GoodFor(s) == {"ok", "skipped"} \cup (IF s \in flow.tolerant THEN {"failed"} ELSE {})

\* Steps run in dependency order, as the log tells it: whatever was stopped, killed and
\* resumed before, a step marked running, done or waiting stands behind needs that finished well enough.
InOrder ==
  \A s \in Steps : log[s] \in {"running", "ok", "waiting"} =>
    \A n \in flow.needs[s] : log[n] \in GoodFor(s)

\* "At most the configured number run concurrently": no pass starts a step too many.
WithinLimit == Cardinality(running) <= Limit

\* "Each step is written as running before it starts": the process knows nothing the log does
\* not say, but for the steps a resume tries again.
LogFirst ==
  at # "off" => \A s \in Steps :
    \/ memory[s] = log[s]
    \/ memory[s] = "pending" /\ log[s] \in {"running", "cancelled"}

\* "Completed steps are not repeated": through every stop, crash and resume a finished step
\* stays as it finished.
CompletedNotRepeated ==
  [][\A s \in Steps : log[s] \in Finished => log'[s] = log[s]]_vars

\* A gate opens only when a person said so, and does when they did: the first answer decides,
\* given at the interface or recorded for a resume, and an abort does not turn it.
FirstWordStands ==
  \A g \in flow.gates :
    /\ log[g] = "ok" => word[g] = "approved"
    /\ word[g] = "approved" => log[g] \in {"waiting", "ok"}

\* A run told as ok did everything it was to do, and one told as failed left nothing undone.
VerdictHolds ==
  /\ over = "ok" => \A s \in Steps : log[s] \in GoodFor(s)
  /\ over = "failed" => \A s \in Steps : log[s] \in Finished

\* What a reader of the log is promised: see RunRecord.
Log == INSTANCE RunRecord WITH record <- log
KeepsPromise == Log!Spec

\* "A run stopped at any point resumes": resumed and answered, every step finishes in the end.
FinishesInTheEnd ==
  <>[][~Mishap]_vars => <>[](\A s \in Steps : log[s] \in Finished)
=============================================================================
