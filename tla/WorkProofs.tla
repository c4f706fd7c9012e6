----------------------------- MODULE WorkProofs -----------------------------
(***************************************************************************)
(* The properties of Work's table, for any number of works, slots and kept *)
(* lines.                                                                  *)
(*                                                                         *)
(* The argument is made one piece of work at a time: whatever the session  *)
(* does, each work is started, lives on or ends by that step (StepOfOne),  *)
(* and each of the three keeps what LifeInv says of it.  The slots are the *)
(* one thing that several works share (SlotInv).                           *)
(***************************************************************************)
EXTENDS Work, Sequences, FiniteSetTheorems, TLAPS

Kinds    == {"none", "job", "task", "call"}
Statuses == {"none", "running", "ok", "error", "cancelled"}
Lines    == {"none", "running", "ended", "forgotten"}

Typed ==
  /\ kind \in [Work -> Kinds]
  /\ run \in [Work -> Runs]
  /\ status \in [Work -> Statuses]
  /\ entry \in [Work -> Lines]
  /\ outcome \in [Work -> Outcomes]
  /\ news \in [Work -> Nat]
  /\ told \subseteq Work /\ given \subseteq Work

\* What the table, the task's record, the run and the news say of one work agrees.
LifeInv(w) ==
  /\ kind[w] = "none" => entry[w] = "none" /\ w \notin told /\ news[w] = 0
  /\ news[w] = 0 \/ (news[w] = 1 /\ w \in told)
  /\ kind[w] = "call" => w \in told /\ news[w] = 0
  /\ w \in told => news[w] = 1 \/ w \in given \/ kind[w] = "call"
  /\ w \in given => w \in told
  /\ entry[w] = "forgotten" => w \in told
  /\ w \in Children => (entry[w] = "running" <=> run[w] \notin {"none", "ended"})
  /\ kind[w] = "task" /\ run[w] = "ended" => outcome[w] = status[w]

SlotInv ==
  /\ IsFiniteSet(Running \cap Children)
  /\ Cardinality(Running \cap Children) <= MaxChildren

IInv == Typed /\ (\A w \in Work : LifeInv(w)) /\ SlotInv

-----------------------------------------------------------------------------
(* What a step may do to one work.                                         *)

\* It is started: a child the step waits for counts as told.
Born(v) ==
  /\ kind[v] = "none" /\ kind'[v] \in {"job", "task", "call"}
  /\ entry'[v] = "running" /\ run'[v] \notin {"none", "ended"}
  /\ status'[v] \in {"none", "running"}
  /\ v \in told' <=> kind'[v] = "call"
  /\ outcome'[v] = outcome[v] /\ news'[v] = news[v] /\ given' = given

\* Its line stays, or is forgotten once told.
LineStays(v) ==
  \/ entry'[v] = entry[v]
  \/ entry[v] = "ended" /\ entry'[v] = "forgotten" /\ v \in told'

\* The model is told of its end at most by this step, as news or as a result.
Hears(v) ==
  \/ (v \in told' <=> v \in told) /\ news'[v] = news[v]
  \/ /\ entry[v] = "ended" /\ v \notin told /\ v \in told'
     /\ news'[v] = news[v] + 1 \/ (news'[v] = news[v] /\ v \in given')

\* Its run goes on, or did not run before and does not now.
RunStays(v) ==
  \/ kind[v] = "job"
  \/ run'[v] = run[v]
  \/ run[v] \notin {"none", "ended"} /\ run'[v] \notin {"none", "ended"}

\* A result is given as final of what had ended, which the model is told of by it.
IsGiven(v) == v \in given' => v \in given \/ v \in told'

\* It is neither started nor ended.
Lives(v) ==
  /\ kind'[v] = kind[v] /\ outcome'[v] = outcome[v] /\ given \subseteq given' /\ IsGiven(v)
  /\ LineStays(v) /\ Hears(v) /\ RunStays(v)
  /\ status'[v] = status[v] \/ (entry[v] = "running" /\ status'[v] = "cancelled")

\* It ends in the table; a child's run ends with it, a task's record says the same.
Dies(v) ==
  /\ entry[v] = "running" /\ kind[v] # "none"
  /\ kind'[v] = kind[v] /\ news'[v] = news[v] /\ given' = given /\ told' = told
  /\ entry'[v] = "ended" \/ (entry'[v] = "forgotten" /\ v \in told)
  /\ kind[v] # "job" => run'[v] = "ended"
  /\ kind[v] = "task" => outcome'[v] = status'[v]
  /\ status[v] = "cancelled" => status'[v] # "ok"

\* A step that starts nothing.
GoesOn == Typed' /\ \A v \in Work : Lives(v) \/ Dies(v)

-----------------------------------------------------------------------------
(* Each of the three keeps what is said of the work.                       *)

LEMMA BornKeeps ==
  ASSUME Typed, Typed', NEW v \in Work, LifeInv(v), Born(v)
  PROVE  LifeInv(v)'
BY DEF Typed, LifeInv, Born, Children, Kinds, Lines

LEMMA LivesKeeps ==
  ASSUME Typed, Typed', NEW v \in Work, LifeInv(v), Lives(v)
  PROVE  LifeInv(v)'
<1>1. /\ kind'[v] = "none" => entry'[v] = "none" /\ v \notin told' /\ news'[v] = 0
      /\ news'[v] = 0 \/ (news'[v] = 1 /\ v \in told')
      /\ kind'[v] = "call" => v \in told' /\ news'[v] = 0
  BY DEF Typed, LifeInv, Lives, LineStays, Hears
<1>2. /\ v \in told' => news'[v] = 1 \/ v \in given' \/ kind'[v] = "call"
      /\ v \in given' => v \in told'
  BY DEF Typed, LifeInv, Lives, Hears, IsGiven
<1>3. entry'[v] = "forgotten" => v \in told'
  BY DEF LifeInv, Lives, LineStays, Hears
<1>4. kind'[v] \in {"task", "call"} => (entry'[v] = "running" <=> run'[v] \notin {"none", "ended"})
  BY DEF LifeInv, Lives, LineStays, RunStays, Children
<1>5. kind'[v] = "task" /\ run'[v] = "ended" => outcome'[v] = status'[v]
  BY DEF LifeInv, Lives, RunStays, Children
<1> QED
  BY <1>1, <1>2, <1>3, <1>4, <1>5 DEF LifeInv, Children

LEMMA DiesKeeps ==
  ASSUME Typed, Typed', NEW v \in Work, LifeInv(v), Dies(v)
  PROVE  LifeInv(v)'
BY DEF Typed, LifeInv, Dies, Children, Kinds

-----------------------------------------------------------------------------
(* What the table's operations do.                                         *)

\* prune() forgets ended lines the model was told of, and changes nothing else.
LEMMA PrunedLines ==
  ASSUME NEW lines \in [Work -> Lines], NEW known, NEW when
  PROVE  /\ Pruned(lines, known, when) \in [Work -> Lines]
         /\ \A v \in Work :
              \/ Pruned(lines, known, when)[v] = lines[v]
              \/ lines[v] = "ended" /\ v \in known /\ Pruned(lines, known, when)[v] = "forgotten"
BY DEF Pruned, Lines

\* An end: the other lines stay, and so does a line that had ended.
LEMMA EndLines ==
  ASSUME Typed, NEW w \in Work, NEW how \in Outcomes, End(w, how)
  PROVE  /\ entry' \in [Work -> Lines] /\ outcome' \in [Work -> Outcomes] /\ told' = told
         /\ \A v \in Work \ {w} : LineStays(v) /\ outcome'[v] = outcome[v]
         /\ entry[w] # "running" => LineStays(w) /\ outcome'[w] = outcome[w]
         /\ entry[w] = "running" =>
              /\ outcome'[w] = how
              /\ entry'[w] = "ended" \/ (entry'[w] = "forgotten" /\ w \in told)
<1>1. CASE entry[w] # "running"
  BY <1>1 DEF End, Typed, tableVars, LineStays
<1>2. CASE entry[w] = "running"
  <2> DEFINE lines == [entry EXCEPT ![w] = "ended"]
  <2>1. lines \in [Work -> Lines] /\ lines[w] = "ended" /\ \A v \in Work \ {w} : lines[v] = entry[v]
    BY DEF Typed, Lines
  <2>2. /\ entry' = Pruned(lines, told, endedAt') /\ told' = told
        /\ outcome' = [outcome EXCEPT ![w] = how]
    BY <1>2 DEF End
  <2> HIDE DEF lines
  <2>3. /\ entry' \in [Work -> Lines]
        /\ \A v \in Work : \/ entry'[v] = lines[v]
                           \/ lines[v] = "ended" /\ v \in told /\ entry'[v] = "forgotten"
    BY <2>1, <2>2, PrunedLines
  <2> QED
    BY <1>2, <2>1, <2>2, <2>3 DEF Typed, LineStays
<1> QED
  BY <1>1, <1>2

\* A final status given: an ended line is told of by it, and every line stays or is forgotten.
LEMMA GiveLines ==
  ASSUME Typed, NEW w \in Work, Give(w)
  PROVE  /\ entry' \in [Work -> Lines] /\ outcome' = outcome /\ told' \subseteq Work
         /\ given \subseteq given' /\ given' \subseteq Work
         /\ \A v \in Work :
              /\ LineStays(v) /\ IsGiven(v)
              /\ \/ v \in told' <=> v \in told
                 \/ entry[v] = "ended" /\ v \notin told /\ v \in told' /\ v \in given'
<1>0. Collect(w) /\ given' = IF entry[w] = "ended" THEN given \cup {w} ELSE given
  BY DEF Give
<1>1. CASE entry[w] # "ended" \/ w \in told
  BY <1>0, <1>1 DEF Collect, Typed, tableVars, LineStays, IsGiven
<1>2. CASE entry[w] = "ended" /\ w \notin told
  <2>1. entry' = Pruned(entry, told', endedAt) /\ told' = told \cup {w} /\ outcome' = outcome
    BY <1>0, <1>2 DEF Collect
  <2>2. /\ entry' \in [Work -> Lines]
        /\ \A v \in Work : \/ entry'[v] = entry[v]
                           \/ entry[v] = "ended" /\ v \in told' /\ entry'[v] = "forgotten"
    BY <2>1, PrunedLines DEF Typed
  <2> QED
    BY <1>0, <1>2, <2>1, <2>2 DEF Typed, LineStays, IsGiven
<1> QED
  BY <1>1, <1>2

\* The news: each ended line not told of yet is told of once.
LEMMA DrainLines ==
  ASSUME Typed, DrainEnded
  PROVE  /\ entry' = entry /\ outcome' = outcome /\ given' = given
         /\ told' \subseteq Work /\ news' \in [Work -> Nat]
         /\ \A v \in Work : Hears(v)
<1> DEFINE ended == {v \in Work : entry[v] = "ended" /\ v \notin told}
<1>1. /\ told' = told \cup ended
      /\ news' = [v \in Work |-> IF v \in ended THEN news[v] + 1 ELSE news[v]]
      /\ entry' = entry /\ outcome' = outcome /\ given' = given
  BY DEF DrainEnded
<1>2. told' \subseteq Work /\ news' \in [Work -> Nat]
  BY <1>1 DEF Typed
<1>3. ASSUME NEW v \in Work PROVE Hears(v)
  <2>1. CASE v \in ended
    <3>1. entry[v] = "ended" /\ v \notin told /\ v \in told' /\ news'[v] = news[v] + 1
      BY <1>1, <2>1
    <3> QED
      BY <3>1 DEF Hears
  <2>2. CASE v \notin ended
    <3>1. (v \in told' <=> v \in told) /\ news'[v] = news[v]
      BY <1>1, <2>2
    <3> QED
      BY <3>1 DEF Hears
  <2> QED
    BY <2>1, <2>2
<1> QED
  BY <1>1, <1>2, <1>3

\* A stop: the records of the tasks in S say so, and nothing else of a work changes.
LEMMA StopLines ==
  ASSUME Typed, NEW S \in SUBSET Work, StopEach(S)
  PROVE  /\ kind' = kind /\ run' = run /\ status' \in [Work -> Statuses]
         /\ \A v \in Work : status'[v] = status[v]
                            \/ (v \in S /\ kind[v] = "task" /\ status'[v] = "cancelled")
BY DEF StopEach, Typed, Statuses

-----------------------------------------------------------------------------
(* What each action does to each work.                                     *)

\* Nothing of the work changes, or only what no property reads of it.
LEMMA StillLives ==
  ASSUME NEW v \in Work,
         kind'[v] = kind[v], run'[v] = run[v], status'[v] = status[v],
         entry'[v] = entry[v], outcome'[v] = outcome[v],
         news'[v] = news[v], v \in told' <=> v \in told, given' = given
  PROVE  Lives(v)
BY DEF Lives, LineStays, Hears, RunStays, IsGiven

\* The turn's own moves, and a wait begun or given up.
LEMMA IdleSteps ==
  ASSUME Typed, UNCHANGED <<workVars, tableVars, modelVars>>
  PROVE  GoesOn
<1>1. Typed'
  BY DEF Typed, workVars, tableVars, modelVars
<1>2. \A v \in Work : Lives(v)
  BY StillLives DEF workVars, tableVars, modelVars
<1> QED
  BY <1>1, <1>2 DEF GoesOn

\* A final status given by task_result.
LEMMA GiveSteps ==
  ASSUME Typed, NEW w \in Work, Give(w), UNCHANGED <<workVars, news>>
  PROVE  GoesOn
<1>1. /\ kind' = kind /\ run' = run /\ status' = status /\ news' = news
  BY DEF workVars
<1>2. Typed'
  BY <1>1, GiveLines DEF Typed
<1>3. ASSUME NEW v \in Work PROVE Lives(v)
  <2>1. LineStays(v) /\ outcome'[v] = outcome[v] /\ given \subseteq given' /\ IsGiven(v)
    BY GiveLines
  <2>2. Hears(v)
    BY <1>1, GiveLines DEF Hears
  <2>3. RunStays(v)
    BY <1>1 DEF RunStays
  <2> QED
    BY <1>1, <2>1, <2>2, <2>3 DEF Lives
<1> QED
  BY <1>2, <1>3 DEF GoesOn

\* The news drained at the turn's start and after a step.
LEMMA DrainSteps ==
  ASSUME Typed, DrainEnded, UNCHANGED workVars
  PROVE  GoesOn
<1>1. /\ kind' = kind /\ run' = run /\ status' = status
  BY DEF workVars
<1>2. Typed'
  BY <1>1, DrainLines DEF Typed
<1>3. ASSUME NEW v \in Work PROVE Lives(v)
  <2>1. LineStays(v) /\ outcome'[v] = outcome[v] /\ given' = given /\ Hears(v) /\ IsGiven(v)
    BY DrainLines DEF LineStays, IsGiven
  <2>2. RunStays(v)
    BY <1>1 DEF RunStays
  <2> QED
    BY <1>1, <2>1, <2>2 DEF Lives
<1> QED
  BY <1>2, <1>3 DEF GoesOn

\* A stop of some works; the tasks among them are lines that still run.
LEMMA StopSteps ==
  ASSUME Typed, NEW S \in SUBSET Work, StopEach(S), UNCHANGED <<tableVars, modelVars>>,
         \A v \in S : kind[v] = "task" => entry[v] = "running"
  PROVE  GoesOn
<1>1. /\ entry' = entry /\ outcome' = outcome /\ told' = told /\ news' = news /\ given' = given
  BY DEF tableVars, modelVars
<1>2. Typed'
  BY <1>1, StopLines DEF Typed
<1>3. ASSUME NEW v \in Work PROVE Lives(v)
  BY <1>1, StopLines DEF Lives, LineStays, Hears, RunStays, IsGiven
<1> QED
  BY <1>2, <1>3 DEF GoesOn

\* A run goes on, or is held.
LEMMA RunSteps ==
  ASSUME Typed, NEW w \in Work, NEW to \in {"thinking", "working", "held", "closing"},
         run[w] \notin {"none", "ended"}, run' = [run EXCEPT ![w] = to],
         UNCHANGED <<kind, status, tableVars, modelVars>>
  PROVE  GoesOn
<1>1. /\ entry' = entry /\ outcome' = outcome /\ told' = told /\ news' = news /\ given' = given
      /\ kind' = kind /\ status' = status
  BY DEF tableVars, modelVars
<1>2. Typed'
  BY <1>1 DEF Typed, Runs
<1>3. ASSUME NEW v \in Work PROVE Lives(v)
  <2>1. RunStays(v)
    BY DEF Typed, RunStays
  <2> QED
    BY <1>1, <2>1 DEF Lives, LineStays, Hears, IsGiven
<1> QED
  BY <1>2, <1>3 DEF GoesOn

\* A child's run ends, and its line with it: the record, if it is a task's, says the same.
LEMMA ChildEnds ==
  ASSUME Typed, NEW w \in Work, LifeInv(w),
         kind[w] \in {"task", "call"}, run[w] \notin {"none", "ended"},
         run' = [run EXCEPT ![w] = "ended"],
         NEW record \in Statuses, status' = [status EXCEPT ![w] = record],
         NEW how \in Outcomes, End(w, how),
         kind[w] = "task" => record = how,
         status[w] = "cancelled" => record # "ok",
         UNCHANGED <<kind, modelVars>>
  PROVE  GoesOn
<1>1. kind' = kind /\ news' = news /\ given' = given
  BY DEF modelVars
<1>2. entry[w] = "running"
  BY DEF LifeInv, Children
<1>3. Typed'
  BY <1>1, EndLines DEF Typed, Runs
<1>4. Dies(w)
  <2>1. run'[w] = "ended" /\ status'[w] = record
    BY DEF Typed
  <2>2. /\ told' = told /\ outcome'[w] = how
        /\ entry'[w] = "ended" \/ (entry'[w] = "forgotten" /\ w \in told)
    BY <1>2, EndLines
  <2> QED
    BY <1>1, <1>2, <2>1, <2>2 DEF Dies
<1>5. ASSUME NEW v \in Work \ {w} PROVE Lives(v)
  <2>1. LineStays(v) /\ outcome'[v] = outcome[v] /\ told' = told
    BY EndLines
  <2>2. run'[v] = run[v] /\ status'[v] = status[v]
    BY DEF Typed
  <2> QED
    BY <1>1, <2>1, <2>2 DEF Lives, Hears, RunStays, IsGiven
<1> QED
  BY <1>3, <1>4, <1>5 DEF GoesOn

\* A job's process fails to start, exits or is killed: the first of these ends its line.
LEMMA JobEnds ==
  ASSUME Typed, NEW w \in Work, kind[w] = "job",
         NEW to \in {"closing", "ended"}, run' = [run EXCEPT ![w] = to],
         NEW how \in Outcomes, End(w, how),
         UNCHANGED <<kind, status, modelVars>>
  PROVE  GoesOn
<1>1. kind' = kind /\ status' = status /\ news' = news /\ given' = given
  BY DEF modelVars
<1>2. Typed'
  BY <1>1, EndLines DEF Typed, Runs
<1>3. Lives(w) \/ Dies(w)
  <2>1. CASE entry[w] = "running"
    <3>1. /\ told' = told
          /\ entry'[w] = "ended" \/ (entry'[w] = "forgotten" /\ w \in told)
      BY <2>1, EndLines
    <3> QED
      BY <1>1, <2>1, <3>1 DEF Dies
  <2>2. CASE entry[w] # "running"
    <3>1. LineStays(w) /\ outcome'[w] = outcome[w] /\ told' = told
      BY <2>2, EndLines
    <3> QED
      BY <1>1, <3>1 DEF Lives, Hears, RunStays, IsGiven
  <2> QED
    BY <2>1, <2>2
<1>4. ASSUME NEW v \in Work \ {w} PROVE Lives(v)
  <2>1. LineStays(v) /\ outcome'[v] = outcome[v] /\ told' = told
    BY EndLines
  <2>2. run'[v] = run[v]
    BY DEF Typed
  <2> QED
    BY <1>1, <2>1, <2>2 DEF Lives, Hears, RunStays, IsGiven
<1> QED
  BY <1>2, <1>3, <1>4 DEF GoesOn

\* A work is started, and every other stays as it is.
Starts(w) ==
  /\ Typed' /\ Born(w)
  /\ \A v \in Work \ {w} : Lives(v) /\ entry'[v] = entry[v]
  /\ kind'[w] \in {"task", "call"} => MayDelegate

LEMMA BeginStarts ==
  ASSUME Typed, NEW w \in Work, LifeInv(w),
         NEW k \in {"job", "task", "call"}, NEW r \in {"process", "setup"},
         NEW s \in {"none", "running"}, NEW known \in SUBSET {w},
         known = {w} <=> k = "call",
         k \in {"task", "call"} => MayDelegate,
         Begin(w, k, r, s, known)
  PROVE  Starts(w)
<1>1. /\ kind[w] = "none" /\ w \notin told
      /\ kind' = [kind EXCEPT ![w] = k] /\ run' = [run EXCEPT ![w] = r]
      /\ status' = [status EXCEPT ![w] = s] /\ entry' = [entry EXCEPT ![w] = "running"]
      /\ told' = told \cup known
      /\ outcome' = outcome /\ news' = news /\ given' = given
  BY DEF Begin, modelVars, LifeInv
<1>2. Typed'
  BY <1>1 DEF Typed, Kinds, Runs, Statuses, Lines
<1>3. /\ kind'[w] = k /\ run'[w] = r /\ status'[w] = s /\ entry'[w] = "running"
      /\ w \in told' <=> k = "call"
  BY <1>1 DEF Typed
<1>4. Born(w)
  BY <1>1, <1>3 DEF Born
<1>5. ASSUME NEW v \in Work \ {w} PROVE Lives(v) /\ entry'[v] = entry[v]
  <2>1. /\ kind'[v] = kind[v] /\ run'[v] = run[v] /\ status'[v] = status[v]
        /\ entry'[v] = entry[v] /\ (v \in told' <=> v \in told)
    BY <1>1 DEF Typed
  <2> QED
    BY <1>1, <2>1, StillLives
<1> QED
  BY <1>2, <1>3, <1>4, <1>5 DEF Starts

\* Every step starts one work, or goes on with those there are.
LEMMA StepOfOne ==
  ASSUME IInv, [Next]_vars
  PROVE  GoesOn \/ \E w \in Work : Starts(w)
<1> USE DEF IInv
<1>1. CASE UNCHANGED vars
  BY <1>1, IdleSteps DEF vars
<1>2. CASE TurnStep
  <2>1. CASE StartTurn \/ StepDone
    BY <2>1, DrainSteps DEF StartTurn, StepDone
  <2>2. CASE ModelAnswers \/ TurnHeld
    BY <2>2, IdleSteps DEF ModelAnswers, TurnHeld
  <2>3. CASE CancelTurn
    <3> DEFINE S == {v \in Alive : kind[v] = "call"}
    <3>1. S \in SUBSET Work /\ \A v \in S : kind[v] # "task"
      BY DEF Alive
    <3>2. StopEach(S) /\ UNCHANGED <<tableVars, modelVars>>
      BY <2>3 DEF CancelTurn
    <3> QED
      BY <3>1, <3>2, StopSteps
  <2>4. CASE Close
    <3>1. Running \in SUBSET Work /\ \A v \in Running : entry[v] = "running"
      BY DEF Running
    <3>2. StopEach(Running) /\ UNCHANGED <<tableVars, modelVars>>
      BY <2>4 DEF Close
    <3> QED
      BY <3>1, <3>2, StopSteps
  <2> QED
    BY <1>2, <2>1, <2>2, <2>3, <2>4 DEF TurnStep
<1>3. ASSUME NEW w \in Work, CallStep(w) PROVE GoesOn \/ Starts(w)
  <2>1. CASE StartJob(w)
    BY <2>1, BeginStarts DEF StartJob
  <2>2. CASE StartTask(w)
    BY <2>2, BeginStarts DEF StartTask
  <2>3. CASE StartCall(w)
    BY <2>3, BeginStarts DEF StartCall
  <2>4. CASE TaskResult(w)
    BY <2>4, GiveSteps DEF TaskResult
  <2>5. CASE WaitForTask(w)
    BY <2>5, IdleSteps DEF WaitForTask
  <2> QED
    BY <1>3, <2>1, <2>2, <2>3, <2>4, <2>5 DEF CallStep
<1>4. ASSUME NEW w \in Work, WaitEnds(w) PROVE GoesOn
  <2>1. CASE Give(w)
    BY <1>4, <2>1, GiveSteps DEF WaitEnds
  <2>2. CASE UNCHANGED <<tableVars, given>>
    BY <1>4, <2>2, IdleSteps DEF WaitEnds, modelVars
  <2> QED
    BY <1>4, <2>1, <2>2 DEF WaitEnds
<1>5. ASSUME NEW w \in Work, Stop(w) PROVE GoesOn
  <2>1. StopEach({w}) /\ entry[w] = "running" /\ UNCHANGED <<tableVars, modelVars>>
    BY <1>5 DEF Stop
  <2> QED
    BY <2>1, StopSteps
<1>6. ASSUME NEW w \in Work, ChildStep(w) PROVE GoesOn
  <2>1. CASE ChildStarts(w)
    BY <2>1, RunSteps DEF ChildStarts, Step
  <2>2. CASE ChildCalls(w) \/ ChildHeld(w)
    BY <2>2, RunSteps DEF ChildCalls, ChildHeld, Step
  <2>3. CASE ChildStepDone(w)
    BY <2>3, RunSteps DEF ChildStepDone
  <2>4. CASE ChildTurnEnds(w)
    BY <2>4, RunSteps DEF ChildTurnEnds, Step
  <2>5. CASE TaskBack(w)
    <3>1. PICK fate \in Fates(w) :
            /\ status' = [status EXCEPT ![w] = SettledAs(w, fate)]
            /\ End(w, SettledAs(w, fate))
      BY <2>5 DEF TaskBack
    <3>2. fate \in {"ok", "error", "cancelled"}
      BY DEF Fates
    <3>3. SettledAs(w, fate) \in Statuses \cap Outcomes
      <4>1. status[w] \in Statuses
        BY DEF Typed
      <4> QED
        BY <3>2, <4>1 DEF SettledAs, Statuses, Outcomes
    <3>4. status[w] = "cancelled" => SettledAs(w, fate) # "ok"
      BY DEF SettledAs
    <3> QED
      BY <2>5, <3>1, <3>3, <3>4, ChildEnds DEF TaskBack
  <2>6. CASE TaskThrows(w)
    <3>1. "error" \in Statuses /\ "error" \in Outcomes
      BY DEF Statuses, Outcomes
    <3> QED
      BY <2>6, <3>1, ChildEnds DEF TaskThrows
  <2>7. CASE CallBack(w)
    <3>1. PICK fate \in Fates(w) : End(w, fate)
      BY <2>7 DEF CallBack
    <3>2. fate \in Outcomes
      BY DEF Fates, Outcomes
    <3>3. status' = [status EXCEPT ![w] = status[w]] /\ status[w] \in Statuses
      BY <2>7 DEF CallBack, Typed
    <3> QED
      BY <2>7, <3>1, <3>2, <3>3, ChildEnds DEF CallBack
  <2> QED
    BY <1>6, <2>1, <2>2, <2>3, <2>4, <2>5, <2>6, <2>7 DEF ChildStep, RunEnds
<1>7. ASSUME NEW w \in Work, JobStep(w) PROVE GoesOn
  <2>1. {"ok", "error", "cancelled"} \subseteq Outcomes
    BY DEF Outcomes
  <2>2. CASE JobFails(w)
    BY <2>1, <2>2, JobEnds DEF JobFails, Step
  <2>3. CASE JobCloses(w)
    <3>1. PICK how \in {"ok", "cancelled"} : End(w, how)
      BY <2>3 DEF JobCloses
    <3> QED
      BY <2>1, <2>3, <3>1, JobEnds DEF JobCloses
  <2>4. CASE ShellExits(w)
    BY <2>4, RunSteps DEF ShellExits, Step
  <2> QED
    BY <1>7, <2>2, <2>3, <2>4 DEF JobStep
<1>8. CASE Over
  BY <1>1, <1>8 DEF Over
<1> QED
  BY <1>1, <1>2, <1>3, <1>4, <1>5, <1>6, <1>7, <1>8 DEF Next

-----------------------------------------------------------------------------
(* The invariant.                                                          *)

LEMMA LifeStep ==
  ASSUME IInv, [Next]_vars, NEW v \in Work
  PROVE  Typed' /\ LifeInv(v)'
<1>0. Typed /\ LifeInv(v)
  BY DEF IInv
<1>1. CASE GoesOn
  <2>1. Typed' /\ (Lives(v) \/ Dies(v))
    BY <1>1 DEF GoesOn
  <2> QED
    BY <1>0, <2>1, LivesKeeps, DiesKeeps
<1>2. ASSUME NEW w \in Work, Starts(w) PROVE Typed' /\ LifeInv(v)'
  <2>1. Typed' /\ (Born(v) \/ Lives(v))
    BY <1>2 DEF Starts
  <2> QED
    BY <1>0, <2>1, BornKeeps, LivesKeeps
<1> QED
  BY <1>1, <1>2, StepOfOne

LEMMA SlotStep ==
  ASSUME IInv, [Next]_vars
  PROVE  SlotInv'
<1> DEFINE held == Running \cap Children
<1>0. IsFiniteSet(held) /\ Cardinality(held) \in Nat /\ Cardinality(held) <= MaxChildren
  BY FS_CardinalityType DEF IInv, SlotInv
<1>1. ASSUME held' \subseteq held PROVE SlotInv'
  <2>1. IsFiniteSet(held') /\ Cardinality(held') <= Cardinality(held)
    BY ONLY <1>0, <1>1, FS_Subset
  <2>2. Cardinality(held') \in Nat
    BY <2>1, FS_CardinalityType
  <2> QED
    BY <1>0, <2>1, <2>2, MaxChildrenAssumption DEF SlotInv
<1>2. CASE GoesOn
  <2>1. ASSUME NEW v \in Work, kind'[v] \in {"task", "call"}, entry'[v] = "running"
        PROVE  kind[v] \in {"task", "call"} /\ entry[v] = "running"
    BY <1>2, <2>1 DEF GoesOn, Lives, Dies, LineStays
  <2> QED
    BY <1>1, <2>1 DEF Running, Children
<1>3. ASSUME NEW w \in Work, Starts(w) PROVE SlotInv'
  <2>1. ASSUME NEW v \in Work \ {w}, kind'[v] \in {"task", "call"}, entry'[v] = "running"
        PROVE  kind[v] \in {"task", "call"} /\ entry[v] = "running"
    BY <1>3, <2>1 DEF Starts, Lives
  <2>2. CASE kind'[w] \in {"task", "call"}
    <3>1. held' \subseteq held \cup {w} /\ Cardinality(held) < MaxChildren
      BY <1>3, <2>1, <2>2 DEF Starts, MayDelegate, Running, Children
    <3>2. /\ IsFiniteSet(held \cup {w}) /\ Cardinality(held \cup {w}) \in Nat
          /\ Cardinality(held \cup {w}) <= Cardinality(held) + 1
      <4>1. /\ IsFiniteSet(held \cup {w})
            /\ \/ Cardinality(held \cup {w}) = Cardinality(held)
               \/ Cardinality(held \cup {w}) = Cardinality(held) + 1
        BY ONLY <1>0, FS_AddElement
      <4> QED
        BY ONLY <1>0, <4>1
    <3>3. IsFiniteSet(held') /\ Cardinality(held') <= Cardinality(held \cup {w})
      BY ONLY <3>1, <3>2, FS_Subset
    <3>4. Cardinality(held') \in Nat
      BY <3>3, FS_CardinalityType
    <3> QED
      BY <1>0, <3>1, <3>2, <3>3, <3>4, MaxChildrenAssumption DEF SlotInv
  <2>3. CASE kind'[w] \notin {"task", "call"}
    BY <1>1, <2>1, <2>3 DEF Running, Children
  <2> QED
    BY <2>2, <2>3
<1> QED
  BY <1>2, <1>3, StepOfOne

LEMMA IInvInit == Init => IInv
<1> SUFFICES ASSUME Init PROVE IInv
  OBVIOUS
<1>1. Typed
  BY DEF Init, Typed, Kinds, Runs, Statuses, Lines, Outcomes
<1>2. ASSUME NEW w \in Work PROVE LifeInv(w)
  BY DEF Init, LifeInv, Children
<1>3. SlotInv
  <2>1. Running \cap Children = {}
    BY DEF Init, Running, Children
  <2> QED
    BY <2>1, FS_EmptySet, MaxChildrenAssumption DEF SlotInv
<1> QED
  BY <1>1, <1>2, <1>3 DEF IInv

\* The invariant that carries the proofs holds of every behaviour.
THEOREM Inductive == Spec => []IInv
<1>1. Init => IInv
  BY IInvInit
<1>2. IInv /\ [Next]_vars => IInv'
  <2> SUFFICES ASSUME IInv, [Next]_vars PROVE IInv'
    OBVIOUS
  <2>1. Typed'
    <3>1. CASE GoesOn
      BY <3>1 DEF GoesOn
    <3>2. ASSUME NEW w \in Work, Starts(w) PROVE Typed'
      BY <3>2 DEF Starts
    <3> QED
      BY <3>1, <3>2, StepOfOne
  <2>2. \A w \in Work : LifeInv(w)'
    BY LifeStep
  <2> QED
    BY <2>1, <2>2, SlotStep DEF IInv
<1> QED
  BY <1>1, <1>2, PTL DEF Spec

-----------------------------------------------------------------------------
(* The properties.                                                         *)

\* No end is news twice, none whose result was given once the work had ended is news afterwards,
\* and none of a child whose own call returns its result.
THEOREM ToldOnceHolds == Spec => ToldOnce
<1>1. IInv => \A w \in Work : news[w] <= 1 /\ (kind[w] = "call" => news[w] = 0)
  BY DEF IInv, LifeInv
<1>2. ASSUME IInv, [Next]_vars, NEW w \in Work, w \in given PROVE news'[w] = news[w]
  <2>1. w \in told
    BY <1>2 DEF IInv, LifeInv
  <2>2. CASE GoesOn
    BY <2>1, <2>2 DEF GoesOn, Lives, Dies, Hears
  <2>3. ASSUME NEW v \in Work, Starts(v) PROVE news'[w] = news[w]
    BY <2>1, <2>3 DEF Starts, Born, Lives, Hears
  <2> QED
    BY <1>2, <2>2, <2>3, StepOfOne
<1>3. IInv /\ [Next]_vars => [\A w \in given : news'[w] = news[w]]_vars
  <2>1. IInv => given \subseteq Work
    BY DEF IInv, Typed
  <2> QED
    BY <1>2, <2>1
<1> QED
  BY <1>1, <1>3, Inductive, PTL DEF Spec, ToldOnce

\* The table forgets no end the model has not heard of.
THEOREM ForgottenHolds == Spec => []ForgottenWereTold
<1>1. IInv => ForgottenWereTold
  BY DEF IInv, LifeInv, ForgottenWereTold
<1> QED
  BY <1>1, Inductive, PTL

\* No more children run at once than configured, whoever started them.
THEOREM SlotsHoldAlways == Spec => []SlotsHold
<1>1. ASSUME IInv PROVE SlotsHold
  <2> DEFINE held == Running \cap Children
  <2>1. IsFiniteSet(held) /\ Cardinality(held) \in Nat /\ Cardinality(held) <= MaxChildren
    BY <1>1, FS_CardinalityType DEF IInv, SlotInv
  <2>2. Alive \cap Children \subseteq held
    BY <1>1 DEF IInv, LifeInv, Alive, Running, Children
  <2>3. IsFiniteSet(Alive \cap Children) /\ Cardinality(Alive \cap Children) <= Cardinality(held)
    BY ONLY <2>1, <2>2, FS_Subset
  <2>4. Cardinality(Alive \cap Children) \in Nat
    BY <2>3, FS_CardinalityType
  <2> QED
    BY <2>1, <2>3, <2>4, MaxChildrenAssumption DEF SlotsHold
<1> QED
  BY <1>1, Inductive, PTL

\* The news and task_result say the same of how a background task ended.
THEOREM OneStoryHolds == Spec => []OneStory
<1>1. IInv => OneStory
  BY DEF IInv, LifeInv, OneStory
<1> QED
  BY <1>1, Inductive, PTL

\* No later event changes how a work ended.
THEOREM EndStandsAlways == Spec => EndStands
<1>1. ASSUME IInv, [Next]_vars
      PROVE  \A w \in Work : entry[w] \in {"ended", "forgotten"} => outcome'[w] = outcome[w]
  <2>1. CASE GoesOn
    BY <2>1 DEF GoesOn, Lives, Dies
  <2>2. ASSUME NEW v \in Work, Starts(v)
        PROVE  \A w \in Work : outcome'[w] = outcome[w]
    BY <2>2 DEF Starts, Born, Lives
  <2> QED
    BY <1>1, <2>1, <2>2, StepOfOne
<1> QED
  BY <1>1, Inductive, PTL DEF Spec, EndStands

\* A background task that was stopped is never reported as done.
THEOREM StoppedIsNotDoneHolds == Spec => StoppedIsNotDone
<1>1. ASSUME IInv, [Next]_vars
      PROVE  \A w \in Work : status[w] = "cancelled" => status'[w] # "ok"
  <2>1. CASE GoesOn
    BY <2>1 DEF GoesOn, Lives, Dies
  <2>2. ASSUME NEW v \in Work, Starts(v)
        PROVE  \A w \in Work : status[w] = "cancelled" => status'[w] # "ok"
    BY <2>2 DEF Starts, Born, Lives
  <2> QED
    BY <1>1, <2>1, <2>2, StepOfOne
<1> QED
  BY <1>1, Inductive, PTL DEF Spec, StoppedIsNotDone

-----------------------------------------------------------------------------
(* The wakes of a session that a host drives (Delegated): what the log says   *)
(* of each, and what ran, for any number of wakes, questions and calls.  Who  *)
(* answers what is left aside: nothing here depends on it.                    *)

CONSTANTS Wakes, Timers, MaxPending, Asks, Background, Lists, Personal, Calls
VARIABLES open, now, worked, asks, list, answered, shown, calls, queue, pending, due, log, runs

Host == INSTANCE Delegated WITH turn <- now, told <- shown

Words == {"unset", "set", "cancel", "fire", "missed"}

(* Every wake that waits for its turn went off and did not run, and waits     *)
(* once; one that ran went off.                                               *)
QueueInv(q, rs, lg) ==
  /\ \A i \in DOMAIN q : lg[q[i]] = "fire" /\ rs[q[i]] = 0
  /\ \A i, j \in DOMAIN q : i # j => q[i] # q[j]
RunInv(rs, lg) == \A w \in Wakes : rs[w] <= 1 /\ (rs[w] = 1 => lg[w] = "fire")

HostTyped ==
  /\ queue \in Seq(Wakes) /\ pending \subseteq Wakes
  /\ log \in [Wakes -> Words] /\ runs \in [Wakes -> Nat]
  /\ IsFiniteSet(Host!Ahead(log))

HostInv ==
  /\ HostTyped
  /\ QueueInv(queue, runs, log)
  /\ RunInv(runs, log)
  /\ Host!TableAsLogged
  /\ Host!NothingUnderAList

-----------------------------------------------------------------------------

(* The oldest wake starts, or nothing does.                                   *)
LEMMA StartsOldest ==
  ASSUME NEW t, NEW as, NEW l, NEW q \in Seq(Wakes), NEW lg \in [Wakes -> Words],
         runs \in [Wakes -> Nat],
         QueueInv(q, runs, lg), RunInv(runs, lg), Host!WakeNext(t, as, l, q)
  PROVE  /\ queue' \in Seq(Wakes) /\ runs' \in [Wakes -> Nat]
         /\ QueueInv(queue', runs', lg) /\ RunInv(runs', lg)
         /\ now' = t \/ l = Host!Nothing
<1>1. CASE now' = t /\ queue' = q /\ UNCHANGED <<runs, worked>>
  BY <1>1
<1>2. CASE q # <<>> /\ l = Host!Nothing /\ queue' = Tail(q) /\ runs' = [runs EXCEPT ![Head(q)] = @ + 1]
  <2>1. Head(q) \in Wakes /\ Head(q) = q[1] /\ 1 \in DOMAIN q
    BY <1>2
  <2>2. queue' \in Seq(Wakes) /\ DOMAIN queue' = 1..(Len(q) - 1) /\ DOMAIN q = 1..Len(q) /\ Len(q) \in Nat
    BY <1>2
  <2>3. \A i \in DOMAIN queue' : queue'[i] = q[i + 1] /\ i + 1 \in DOMAIN q /\ queue'[i] \in Wakes
    BY <1>2, <2>2
  <2>4. runs[q[1]] = 0 /\ lg[q[1]] = "fire"
    BY <2>1 DEF QueueInv
  <2>5. runs' \in [Wakes -> Nat] /\ RunInv(runs', lg)
    <3>1. runs' = [w \in Wakes |-> IF w = q[1] THEN 1 ELSE runs[w]]
      <4>1. runs' = [runs EXCEPT ![q[1]] = runs[q[1]] + 1]
        BY <1>2, <2>1
      <4>2. runs[q[1]] + 1 = 1
        BY <2>4
      <4>3. QED
        BY <4>1, <4>2
    <3>2. QED
      BY <2>1, <2>4, <3>1 DEF RunInv
  <2>6. \A i \in DOMAIN queue' : queue'[i] # q[1]
    <3>1. \A i \in DOMAIN queue' : i + 1 # 1
      BY <2>2
    <3>2. \A i \in DOMAIN q : i # 1 => q[i] # q[1]
      BY <2>1 DEF QueueInv
    <3>3. QED
      BY <2>3, <3>1, <3>2
  <2>7. \A i \in DOMAIN queue' : lg[queue'[i]] = "fire" /\ runs'[queue'[i]] = 0
    BY <1>2, <2>1, <2>3, <2>6 DEF QueueInv
  <2>8. \A i, j \in DOMAIN queue' : i # j => queue'[i] # queue'[j]
    BY <2>2, <2>3 DEF QueueInv
  <2>9. QED
    BY <1>2, <2>2, <2>5, <2>7, <2>8 DEF QueueInv
<1>3. QED
  BY <1>1, <1>2 DEF Host!WakeNext

(* A step that writes nothing of a wake, and starts none.                     *)
LEMMA NothingOfWakes ==
  ASSUME HostInv, UNCHANGED <<queue, pending, log, runs>>, open' = open \/ open' # "open",
         list' = Host!Nothing \/ now' \in {"none", "command", "choose"}
  PROVE  HostInv'
BY DEF HostInv, HostTyped, Host!TableAsLogged, Host!NothingUnderAList, QueueInv, RunInv, Host!Ahead

(* Fewer wakes are ahead, so finitely many.                                   *)
LEMMA FewerAhead ==
  ASSUME HostInv, Host!Ahead(log') \subseteq Host!Ahead(log)
  PROVE  IsFiniteSet(Host!Ahead(log'))
BY FS_Subset DEF HostInv, HostTyped

(* What is said of the wakes when the log says more of those that are not in  *)
(* the queue and did not run.                                                 *)
LEMMA LogSaysMore ==
  ASSUME HostInv, log' \in [Wakes -> Words], UNCHANGED <<queue, runs>>,
         \A w \in Wakes : log[w] = "fire" => log'[w] = "fire"
  PROVE  QueueInv(queue, runs, log') /\ RunInv(runs, log')
<1>1. \A i \in DOMAIN queue : queue[i] \in Wakes
  BY DEF HostInv, HostTyped
<1>2. QED
  BY <1>1 DEF HostInv, HostTyped, QueueInv, RunInv

LEMMA TurnEndsInv == ASSUME HostInv, Host!TurnEnds PROVE HostInv'
<1>1. Host!WakeNext("none", asks, list, queue) /\ UNCHANGED <<open, list, pending, log>>
  BY DEF Host!TurnEnds, Host!questions, Host!table
<1>2. /\ queue' \in Seq(Wakes) /\ runs' \in [Wakes -> Nat]
      /\ QueueInv(queue', runs', log) /\ RunInv(runs', log)
      /\ now' = "none" \/ list = Host!Nothing
  BY <1>1, StartsOldest DEF HostInv, HostTyped
<1>3. QED
  BY <1>1, <1>2 DEF HostInv, HostTyped, Host!TableAsLogged, Host!NothingUnderAList, Host!Ahead

LEMMA SetWakeInv == ASSUME HostInv, Host!SetWake PROVE HostInv'
<1>1. PICK w \in Wakes : log[w] = "unset" /\ pending' = pending \cup {w} /\ log' = [log EXCEPT ![w] = "set"]
  BY DEF Host!SetWake
<1>2. log' \in [Wakes -> Words] /\ pending' \subseteq Wakes
  BY <1>1 DEF HostInv, HostTyped, Words
<1>3. \A v \in Wakes : log[v] = "fire" => log'[v] = "fire"
  BY <1>1 DEF HostInv, HostTyped
<1>4. QueueInv(queue, runs, log') /\ RunInv(runs, log')
  BY <1>2, <1>3, LogSaysMore DEF Host!SetWake
<1>5. Host!TableAsLogged'
  BY <1>1 DEF HostInv, HostTyped, Host!TableAsLogged, Host!SetWake
<1>6. IsFiniteSet(Host!Ahead(log'))
  <2>1. IsFiniteSet(Host!Ahead(log) \cup {w})
    BY FS_AddElement DEF HostInv, HostTyped
  <2>2. Host!Ahead(log') \subseteq Host!Ahead(log) \cup {w}
    BY <1>1 DEF Host!Ahead, HostInv, HostTyped
  <2>3. QED
    BY <2>1, <2>2, FS_Subset
<1>7. QED
  BY <1>2, <1>4, <1>5, <1>6 DEF HostInv, HostTyped, Host!NothingUnderAList, Host!SetWake,
        Host!questions

LEMMA CancelWakeInv == ASSUME HostInv, Host!CancelWake PROVE HostInv'
<1>1. PICK w \in pending : pending' = pending \ {w} /\ log' = [log EXCEPT ![w] = "cancel"]
  BY DEF Host!CancelWake
<1>2. w \in Wakes /\ log[w] = "set"
  BY DEF HostInv, HostTyped, Host!TableAsLogged, Host!CancelWake
<1>3. log' \in [Wakes -> Words] /\ pending' \subseteq Wakes
  BY <1>1 DEF HostInv, HostTyped, Words
<1>4. \A v \in Wakes : log[v] = "fire" => log'[v] = "fire"
  BY <1>1, <1>2 DEF HostInv, HostTyped
<1>5. QueueInv(queue, runs, log') /\ RunInv(runs, log')
  BY <1>3, <1>4, LogSaysMore DEF Host!CancelWake
<1>6. Host!TableAsLogged'
  BY <1>1, <1>2 DEF HostInv, HostTyped, Host!TableAsLogged, Host!CancelWake
<1>7. IsFiniteSet(Host!Ahead(log'))
  BY <1>1, FewerAhead DEF Host!Ahead, HostInv, HostTyped
<1>8. QED
  BY <1>3, <1>5, <1>6, <1>7 DEF HostInv, HostTyped, Host!NothingUnderAList, Host!CancelWake,
        Host!questions

(* The instance counts as this module does.                                   *)
LEMMA SameCount == \A S : Host!Cardinality(S) = Cardinality(S)
BY DEF Host!Cardinality, Cardinality

(* The wakes that go off were only set: none of them waits or ran.            *)
LEMMA CheckInv == ASSUME HostInv, Host!Check PROVE HostInv'
<1> DEFINE fired == pending \cap due
<1>1. /\ open = "open" /\ pending' = pending \ fired /\ log' = Host!Fired(log, fired)
      /\ UNCHANGED <<open, list>>
  BY DEF Host!Check, Host!questions
<1>2. PICK order \in Host!SetToSeqs(fired) : Host!WakeNext(now, asks, list, queue \o order)
  BY DEF Host!Check
<1>3. \A w \in fired : w \in Wakes /\ log[w] = "set"
  BY <1>1 DEF HostInv, HostTyped, Host!TableAsLogged
<1> HIDE DEF fired
<1>4. log' \in [Wakes -> Words] /\ \A w \in Wakes : log'[w] = IF w \in fired THEN "fire" ELSE log[w]
  BY <1>1 DEF HostInv, HostTyped, Host!Fired, Words
<1>5. Cardinality(fired) \in Nat
  <2>1. fired \subseteq Host!Ahead(log)
    BY <1>3 DEF Host!Ahead
  <2>2. QED
    BY <2>1, FS_Subset, FS_CardinalityType DEF HostInv, HostTyped
<1>6. order \in Seq(fired) /\ \A i, j \in DOMAIN order : i # j => order[i] # order[j]
  <2>1. /\ order \in [1..Cardinality(fired) -> fired]
        /\ \A i, j \in 1..Cardinality(fired) : i # j => order[i] # order[j]
    BY <1>2, SameCount DEF Host!SetToSeqs
  <2>2. QED
    BY <1>5, <2>1
<1>7. QueueInv(queue \o order, runs, log') /\ queue \o order \in Seq(Wakes)
  <2>1. \A i \in DOMAIN order : order[i] \in fired /\ order[i] \in Wakes /\ log[order[i]] = "set"
    BY <1>3, <1>6
  <2>2. order \in Seq(Wakes) /\ queue \in Seq(Wakes)
    BY <1>3, <1>6 DEF HostInv, HostTyped
  <2>3. /\ queue \o order \in Seq(Wakes) /\ DOMAIN (queue \o order) = 1..(Len(queue) + Len(order))
        /\ Len(queue) \in Nat /\ Len(order) \in Nat
        /\ DOMAIN queue = 1..Len(queue) /\ DOMAIN order = 1..Len(order)
    BY <2>2
  <2>4. \A i \in DOMAIN (queue \o order) :
          \/ i \in DOMAIN queue /\ (queue \o order)[i] = queue[i]
          \/ /\ i - Len(queue) \in DOMAIN order /\ (queue \o order)[i] = order[i - Len(queue)]
             /\ i \notin DOMAIN queue
    BY <2>2, <2>3
  <2>5. \A i \in DOMAIN queue : queue[i] \in Wakes /\ log[queue[i]] = "fire" /\ runs[queue[i]] = 0
    BY <2>2 DEF HostInv, QueueInv
  <2>6. \A i \in DOMAIN order : runs[order[i]] = 0
    BY <2>1 DEF HostInv, HostTyped, RunInv
  <2>7. \A i \in DOMAIN (queue \o order) : log'[(queue \o order)[i]] = "fire" /\ runs[(queue \o order)[i]] = 0
    BY <1>4, <2>1, <2>4, <2>5, <2>6
  <2>8. ASSUME NEW i \in DOMAIN (queue \o order), NEW j \in DOMAIN (queue \o order), i # j
        PROVE  (queue \o order)[i] # (queue \o order)[j]
    <3>1. CASE i \in DOMAIN queue /\ j \in DOMAIN queue
      BY <2>3, <2>4, <2>8, <3>1 DEF HostInv, QueueInv
    <3>2. CASE i \in DOMAIN queue /\ j \notin DOMAIN queue
      BY <2>1, <2>4, <2>5, <3>2
    <3>3. CASE i \notin DOMAIN queue /\ j \in DOMAIN queue
      BY <2>1, <2>4, <2>5, <3>3
    <3>4. CASE i \notin DOMAIN queue /\ j \notin DOMAIN queue
      <4>1. i - Len(queue) # j - Len(queue)
        BY <2>3, <2>8
      <4>2. QED
        BY <1>6, <2>4, <3>4, <4>1
    <3>5. QED
      BY <3>1, <3>2, <3>3, <3>4
  <2>9. QED
    BY <2>3, <2>7, <2>8 DEF QueueInv
<1>8. RunInv(runs, log')
  BY <1>4 DEF HostInv, HostTyped, RunInv
<1>9. /\ queue' \in Seq(Wakes) /\ runs' \in [Wakes -> Nat]
      /\ QueueInv(queue', runs', log') /\ RunInv(runs', log')
      /\ now' = now \/ list = Host!Nothing
  <2> DEFINE said == log'
             all  == queue \o order
  <2>1. /\ runs \in [Wakes -> Nat] /\ said \in [Wakes -> Words] /\ all \in Seq(Wakes)
        /\ QueueInv(all, runs, said) /\ RunInv(runs, said) /\ Host!WakeNext(now, asks, list, all)
    BY <1>2, <1>4, <1>7, <1>8 DEF HostInv, HostTyped
  <2> HIDE DEF said, all
  <2>2. /\ queue' \in Seq(Wakes) /\ runs' \in [Wakes -> Nat]
        /\ QueueInv(queue', runs', said) /\ RunInv(runs', said)
        /\ now' = now \/ list = Host!Nothing
    BY <2>1, StartsOldest
  <2>3. QED
    BY <2>2 DEF said
<1>10. Host!TableAsLogged'
  BY <1>1, <1>3, <1>4 DEF HostInv, HostTyped, Host!TableAsLogged
<1>11. IsFiniteSet(Host!Ahead(log'))
  BY <1>4, FewerAhead DEF Host!Ahead
<1>12. QED
  BY <1>1, <1>4, <1>9, <1>10, <1>11 DEF HostInv, HostTyped, Host!NothingUnderAList

(* The process ends, and a resume reads the wakes back from the log.          *)
LEMMA ResumeInv == ASSUME HostInv, Host!Resume PROVE HostInv'
<1> DEFINE missed == Host!Ahead(log) \cap Timers \cap due
<1>1. /\ open' = "open" /\ list' = Host!Nothing /\ UNCHANGED <<queue, runs>>
      /\ pending' = Host!Ahead(log) \ missed
      /\ log' = [w \in Wakes |-> IF w \in missed THEN "missed" ELSE log[w]]
  BY DEF Host!Resume
<1>2. /\ log' \in [Wakes -> Words] /\ pending' \subseteq Wakes
      /\ \A w \in Wakes : log[w] = "fire" => log'[w] = "fire"
  BY <1>1 DEF HostInv, HostTyped, Words, Host!Ahead
<1>3. QueueInv(queue, runs, log') /\ RunInv(runs, log')
  BY <1>1, <1>2, LogSaysMore
<1>4. Host!TableAsLogged'
  BY <1>1 DEF Host!TableAsLogged, Host!Ahead
<1>5. IsFiniteSet(Host!Ahead(log'))
  BY <1>1, FewerAhead DEF Host!Ahead
<1>6. QED
  BY <1>1, <1>2, <1>3, <1>4, <1>5 DEF HostInv, HostTyped, Host!NothingUnderAList

LEMMA EndsInv == ASSUME HostInv, Host!Stop \/ Host!Crash PROVE HostInv'
<1>1. /\ open' # "open" /\ queue' = <<>> /\ UNCHANGED <<log, runs>>
      /\ pending' = pending \/ pending' = {}
      /\ list' = Host!Nothing \/ (list' = list /\ now' = now)
  BY DEF Host!Stop, Host!Crash, Host!table
<1>2. QED
  BY <1>1 DEF HostInv, HostTyped, Host!TableAsLogged, Host!NothingUnderAList, QueueInv, RunInv,
        Host!Ahead

(* The calls of the host, and what asks: nothing of a wake, and what they     *)
(* start leaves no list waiting but to answer it.                             *)
LEMMA ApplyIs ==
  ASSUME NEW q, Host!Apply(q)
  PROVE  UNCHANGED <<queue, runs>> /\ (list' = Host!Nothing \/ (list' = list /\ now' = now))
BY DEF Host!Apply, Host!Start, Host!Decide, Host!questions

LEMMA CallsInv ==
  ASSUME HostInv, NEW c, Host!Send(c) \/ Host!SendChoice(c) \/ Host!State(c)
                      \/ Host!Answer(c) \/ Host!Attend(c) \/ Host!PersonAnswers(c) \/ Host!Retry(c)
  PROVE  HostInv'
<1>1. CASE Host!Send(c)
  BY <1>1, NothingOfWakes DEF Host!Send, Host!Start, Host!MaySend, Host!questions, Host!table,
        HostInv, Host!NothingUnderAList
<1>2. CASE Host!SendChoice(c)
  BY <1>2, NothingOfWakes DEF Host!SendChoice, Host!Start, Host!table
<1>3. CASE Host!State(c) \/ Host!Retry(c)
  BY <1>3, NothingOfWakes DEF Host!State, Host!Retry, Host!questions, Host!table, HostInv,
        Host!NothingUnderAList
<1>4. CASE Host!Answer(c)
  BY <1>4, NothingOfWakes DEF Host!Answer, Host!Start, Host!Decide, Host!table, HostInv,
        Host!NothingUnderAList
<1>5. CASE Host!Attend(c)
  <2>1. /\ UNCHANGED <<queue, pending, log, runs, open>>
        /\ list' = Host!Nothing \/ (list' = list /\ now' = now)
    BY <1>5, ApplyIs DEF Host!Attend, Host!questions, Host!table
  <2>2. QED
    BY <2>1, NothingOfWakes DEF HostInv, Host!NothingUnderAList
<1>6. CASE Host!PersonAnswers(c)
  <2>1. /\ UNCHANGED <<queue, pending, log, runs, open>>
        /\ list' = Host!Nothing \/ (list' = list /\ now' = now)
    BY <1>6, ApplyIs DEF Host!PersonAnswers, Host!table
  <2>2. QED
    BY <2>1, NothingOfWakes DEF HostInv, Host!NothingUnderAList
<1>7. QED
  BY <1>1, <1>2, <1>3, <1>4, <1>5, <1>6

LEMMA HostStep == ASSUME HostInv, [Host!Next]_(Host!vars) PROVE HostInv'
<1>1. CASE Host!CommandOffers
  BY <1>1, NothingOfWakes DEF Host!CommandOffers, Host!table
<1>2. CASE Host!AskArrives \/ Host!AskSettled \/ Host!ChildStopped
  BY <1>2, NothingOfWakes DEF Host!AskArrives, Host!AskSettled, Host!ChildStopped, Host!table,
        HostInv, Host!NothingUnderAList
<1>3. CASE Host!TurnEnds
  BY <1>3, TurnEndsInv
<1>4. CASE Host!SetWake
  BY <1>4, SetWakeInv
<1>5. CASE Host!CancelWake
  BY <1>5, CancelWakeInv
<1>6. CASE Host!ClockOrBoard
  BY <1>6, NothingOfWakes DEF Host!ClockOrBoard, Host!questions, HostInv, Host!NothingUnderAList
<1>7. CASE Host!Check
  BY <1>7, CheckInv
<1>8. ASSUME NEW c \in Calls,
             Host!Send(c) \/ Host!SendChoice(c) \/ Host!State(c)
          \/ Host!Answer(c) \/ Host!Attend(c) \/ Host!PersonAnswers(c) \/ Host!Retry(c)
      PROVE  HostInv'
  BY <1>8, CallsInv
<1>9. CASE Host!Stop \/ Host!Crash
  BY <1>9, EndsInv
<1>10. CASE Host!Closed
  BY <1>10, NothingOfWakes DEF Host!Closed, Host!questions, Host!table, HostInv,
        Host!NothingUnderAList
<1>11. CASE Host!Resume
  BY <1>11, ResumeInv
<1>12. CASE UNCHANGED Host!vars
  BY <1>12, NothingOfWakes DEF Host!vars, HostInv, Host!NothingUnderAList
<1>13. QED
  BY <1>1, <1>2, <1>3, <1>4, <1>5, <1>6, <1>7, <1>8, <1>9, <1>10, <1>11, <1>12 DEF Host!Next

LEMMA HostInit == Host!Init => HostInv
<1> SUFFICES ASSUME Host!Init PROVE HostInv
  OBVIOUS
<1>1. Host!Ahead(log) = {}
  BY DEF Host!Init, Host!Ahead
<1>2. IsFiniteSet(Host!Ahead(log))
  BY <1>1, FS_EmptySet
<1>3. QED
  BY <1>2 DEF Host!Init, HostInv, HostTyped, Host!TableAsLogged, Host!NothingUnderAList,
        QueueInv, RunInv, Words

(* The invariant of the wakes holds throughout, whoever crashes or resumes.   *)
THEOREM HostInvariant == Host!Spec => []HostInv
BY HostInit, HostStep, PTL DEF Host!Spec

LEMMA HostMeans == HostInv => Host!WakesRunOnce /\ Host!TableAsLogged /\ Host!NothingUnderAList
<1> SUFFICES ASSUME HostInv PROVE Host!WakesRunOnce
  BY DEF HostInv
<1>1. SUFFICES ASSUME NEW w \in Wakes
               PROVE  /\ runs[w] <= 1
                      /\ runs[w] = 1 \/ w \in Host!ToSet(queue) => log[w] = "fire"
                      /\ w \in Host!ToSet(queue) => runs[w] = 0
  BY DEF Host!WakesRunOnce
<1>2. w \in Host!ToSet(queue) => log[w] = "fire" /\ runs[w] = 0
  BY DEF HostInv, QueueInv, Host!ToSet
<1>3. QED
  BY <1>2 DEF HostInv, RunInv

(* A wake runs at most once, the table is what the log says, and no prompt or *)
(* wake starts while a list waits: for any number of wakes, questions, calls. *)
THEOREM WakesHold ==
  Host!Spec => [](Host!WakesRunOnce /\ Host!TableAsLogged /\ Host!NothingUnderAList)
BY HostInvariant, HostMeans, PTL

-----------------------------------------------------------------------------
(* A look at a child (WorkView): for any children, the list is the table's    *)
(* with nothing left to tell, and what is shown of a child is each event once *)
(* and in order.                                                              *)

CONSTANTS Watched, KeepDone, MaxEvents
VARIABLES item, made, events, timer, read, view

View == INSTANCE WorkView WITH Keep <- KeepDone, Children <- Watched

Items == [state : {"none", "running", "ended", "forgotten"}, line : Nat, told : BOOLEAN]
Live(c) == item[c].state # "forgotten"
Held(n) == IF n < KeepDone THEN n ELSE KeepDone
(* What is held of a child, while the table lists it: its last events.        *)
HeldOf(n) == [k \in 1..Held(n) |-> n - Held(n) + k]
EventsAre ==
  \A c \in Watched :
    /\ made[c] \in Nat
    /\ Live(c) => events[c] = HeldOf(made[c])
(* The first n a view shows: those held when it was opened, and then those    *)
(* from its watch on.                                                         *)
Upto(c, first, gone, seen, n) == [k \in 1..n |-> <<c, first + k + (IF k <= seen THEN 0 ELSE gone)>>]
After(c, last, n) == [k \in 1..n |-> <<c, last + k>>]
Shown(v, n) == Upto(v.child, v.first, v.gone, v.seen, n)
(* What a view shows, of the child it was opened on: what was held when it    *)
(* was opened, and all after what was let go since once it watches.           *)
MountedIs(v, m) ==
  /\ v.first \in Nat /\ v.seen \in Nat /\ v.gone \in Nat
  /\ v.first + v.gone = m - Held(m) /\ v.seen <= Held(m)
  /\ v.shown = Shown(v, v.seen)
WatchingIs(v, m) ==
  /\ v.first \in Nat /\ v.seen \in Nat /\ v.gone \in Nat
  /\ v.first + v.gone + v.seen <= m
  /\ v.shown = Shown(v, m - v.first - v.gone)
ViewIs(v) ==
  /\ v.stage \in {"closed", "mounted", "watching"}
  /\ v.stage = "closed" => v.tapped = View!Nobody /\ v.child = View!Nobody /\ ~v.moved
  /\ v.stage # "closed" => v.child \in Watched
  /\ v.stage = "mounted" /\ ~v.moved => v.tapped = View!Nobody
  /\ v.stage = "mounted" /\ ~v.moved /\ Live(v.child) => MountedIs(v, made[v.child])
  /\ v.stage = "watching" => v.tapped = v.child
  /\ v.stage = "watching" /\ ~v.moved /\ Live(v.child) => WatchingIs(v, made[v.child])
ReadAsIs == View!Watching /\ ~timer => read[1] = View!List
LooksInv ==
  /\ item \in [Watched -> Items] /\ DOMAIN made = Watched /\ DOMAIN events = Watched
  /\ EventsAre /\ ViewIs(view) /\ ReadAsIs
  /\ timer \in BOOLEAN

(* What a closed view is.                                                     *)
LEMMA ClosedIs ==
  View!Closed.stage = "closed" /\ View!Closed.tapped = View!Nobody
       /\ View!Closed.child = View!Nobody /\ ~View!Closed.moved
BY DEF View!Closed

(* There are no children, and no view is open.                                *)
LEMMA NothingViewedInv == ASSUME KeepDone \in Nat \ {0}, View!Nobody \notin Watched PROVE View!Init => LooksInv
<1> SUFFICES ASSUME View!Init PROVE LooksInv
  OBVIOUS
<1>1. Held(0) = 0
  BY DEF Held
<1>2. <<>> = [k \in 1..0 |-> 0 - 0 + k]
  OBVIOUS
<1>3. EventsAre
  BY <1>1, <1>2 DEF View!Init, EventsAre, HeldOf
<1>4. item \in [Watched -> Items]
  BY DEF View!Init, View!None, View!Quiet, Items
<1>5. ViewIs(view) /\ ReadAsIs
  BY ClosedIs DEF View!Init, ViewIs, ReadAsIs, View!Watching
<1> QED BY <1>3, <1>4, <1>5 DEF View!Init, LooksInv

(* What the watchers are told is the list.                                    *)
LEMMA NotifyReads == View!Notify => ReadAsIs' /\ timer' \in BOOLEAN
<1> SUFFICES ASSUME View!Notify PROVE ReadAsIs' /\ timer' \in BOOLEAN
  OBVIOUS
<1>1. read' = IF View!Watching THEN <<View!Listed(item')>> ELSE read
  BY DEF View!Notify
<1>2. CASE View!Watching
  <2>1. View!List' = View!Listed(item')
    BY DEF View!List, View!Listed
  <2>2. read'[1] = View!Listed(item')
    BY <1>1, <1>2
  <2> QED BY <2>1, <2>2 DEF ReadAsIs, View!Notify
<1>3. CASE ~View!Watching
  BY <1>1, <1>3 DEF ReadAsIs, View!Watching, View!Notify
<1> QED BY <1>2, <1>3

(* A list that says the same.                                                 *)
LEMMA SameList ==
  ASSUME DOMAIN item = Watched, DOMAIN item' = Watched, UNCHANGED <<timer, read>>, ReadAsIs,
         \A c \in Watched : item'[c].state = item[c].state /\ item'[c].line = item[c].line
  PROVE  ReadAsIs'
<1>1. View!List' = View!List
  BY DEF View!List, View!Listed
<1> QED BY <1>1 DEF ReadAsIs, View!Watching

(* What was shown, and then what was not yet.                                 *)
Joins(c, first, gone, s, n) ==
  Upto(c, first, gone, s, s) \o After(c, first + gone + s, n) = Upto(c, first, gone, s, s + n)
LEMMA Joined ==
  ASSUME NEW c, NEW first \in Nat, NEW gone \in Nat, NEW s \in Nat, NEW n \in Nat
  PROVE  Joins(c, first, gone, s, n)
<1> DEFINE at(k) == first + k + (IF k <= s THEN 0 ELSE gone)
           a == [k \in 1..s |-> <<c, at(k)>>]
           b == [k \in 1..n |-> <<c, first + gone + s + k>>]
           all == [k \in 1..s + n |-> <<c, at(k)>>]
           T == {<<c, k>> : k \in Nat}
<1>1. a \in Seq(T) /\ b \in Seq(T) /\ all \in Seq(T)
  <2>1. \A k \in 1..s + n : <<c, at(k)>> \in T
    OBVIOUS
  <2>2. \A k \in 1..n : <<c, first + gone + s + k>> \in T
    OBVIOUS
  <2> HIDE DEF T, at
  <2>3. \A k \in 1..s : k \in 1..s + n
    OBVIOUS
  <2> QED BY <2>1, <2>2, <2>3
<1>2. Len(a) = s /\ Len(b) = n /\ Len(all) = s + n
  OBVIOUS
<1>3. /\ \A k \in 1..s : a[k] = <<c, at(k)>>
      /\ \A k \in 1..n : b[k] = <<c, first + gone + s + k>>
      /\ \A k \in 1..s + n : all[k] = <<c, at(k)>>
  OBVIOUS
<1>4. \A k \in 1..n : at(s + k) = first + gone + s + k
  OBVIOUS
<1> HIDE DEF a, b, all, T, at
<1>5. a \o b \in Seq(T) /\ Len(a \o b) = s + n
  BY <1>1, <1>2
<1>6. \A k \in 1..s + n : (a \o b)[k] = all[k]
  <2> SUFFICES ASSUME NEW k \in 1..s + n PROVE (a \o b)[k] = all[k]
    OBVIOUS
  <2>1. CASE k <= s
    <3>1. k \in 1..s /\ (a \o b)[k] = a[k]
      BY <1>1, <1>2, <2>1
    <3> QED BY <1>3, <3>1
  <2>2. CASE ~(k <= s)
    <3>1. k - s \in 1..n /\ s + (k - s) = k
      BY <2>2
    <3>2. (a \o b)[k] = b[k - s]
      BY <1>1, <1>2, <2>2
    <3>3. b[k - s] = <<c, at(s + (k - s))>>
      BY <1>3, <1>4, <3>1
    <3> QED BY <1>3, <3>1, <3>2, <3>3
  <2> QED BY <2>1, <2>2
<1>7. a \o b = all
  <2> DEFINE j == a \o b
  <2>1. j \in Seq(T) /\ Len(j) = s + n /\ \A k \in 1..s + n : j[k] = all[k]
    BY <1>5, <1>6
  <2> HIDE DEF j
  <2>2. j = all
    BY <1>1, <1>2, <2>1
  <2> QED BY <2>2 DEF j
<1> QED BY <1>7 DEF a, b, all, at, Upto, After, Joins

(* One more of what a view shows.                                             *)
LEMMA ShowsOne ==
  ASSUME NEW v, v.first \in Nat, v.seen \in Nat, v.gone \in Nat, NEW n \in Nat, v.seen <= n
  PROVE  Append(Shown(v, n), <<v.child, v.first + v.gone + n + 1>>) = Shown(v, n + 1)
<1> DEFINE at(k) == <<v.child, v.first + k + (IF k <= v.seen THEN 0 ELSE v.gone)>>
           a == [k \in 1..n |-> at(k)]
           T == {<<v.child, k>> : k \in Nat}
<1>1. \A k \in 1..n + 1 : at(k) \in T
  OBVIOUS
<1>2. at(n + 1) = <<v.child, v.first + v.gone + n + 1>>
  OBVIOUS
<1> HIDE DEF at, T
<1>3. a \in Seq(T) /\ Len(a) = n /\ \A k \in 1..n : a[k] = at(k)
  BY <1>1
<1> HIDE DEF a
<1>4. Append(a, at(n + 1)) = [k \in 1..n + 1 |-> at(k)]
  BY <1>1, <1>3
<1> QED BY <1>2, <1>4 DEF Shown, Upto, at, a

(* A child's held events, once it made one more.                              *)
LEMMA HeldNext ==
  ASSUME KeepDone \in Nat \ {0}, NEW m \in Nat, NEW es, es = HeldOf(m)
  PROVE  /\ Held(m) \in Nat /\ Held(m) <= m /\ Len(es) = Held(m)
         /\ View!Kept(es, m + 1) = HeldOf(m + 1)
<1>1. Held(m) \in Nat /\ Held(m) <= m /\ Held(m) <= KeepDone
  BY DEF Held
<1> DEFINE h == Held(m)
<1>2. \A k \in 1..h : m - h + k \in Nat
  BY <1>1
<1>3. es \in Seq(Nat) /\ Len(es) = h /\ \A k \in 1..h : es[k] = m - h + k
  BY <1>1, <1>2 DEF HeldOf
<1>4. CASE m < KeepDone
  <2>1. h = m /\ Held(m + 1) = m + 1
    BY <1>4 DEF Held
  <2>2. View!Kept(es, m + 1) = Append(es, m + 1)
    BY <1>3, <1>4, <2>1 DEF View!Kept
  <2>3. es \in Seq(Nat) /\ Len(es) = m /\ \A k \in 1..m : es[k] = k
    BY <1>3, <2>1
  <2> HIDE DEF h
  <2>4. Append(es, m + 1) = [k \in 1..m + 1 |-> k]
    <3> DEFINE y == Append(es, m + 1)
    <3>1. y \in Seq(Nat) /\ Len(y) = m + 1 /\ \A k \in 1..m + 1 : y[k] = k
      BY <2>3
    <3> HIDE DEF y
    <3>2. y = [k \in 1..m + 1 |-> k]
      BY <3>1
    <3> QED BY <3>2 DEF y
  <2>5. HeldOf(m + 1) = [k \in 1..m + 1 |-> k]
    BY <2>1 DEF HeldOf
  <2> QED BY <1>1, <1>3, <2>2, <2>4, <2>5 DEF h
<1>5. CASE ~(m < KeepDone)
  <2>1. h = KeepDone /\ Held(m + 1) = KeepDone
    BY <1>5 DEF Held
  <2>2. View!Kept(es, m + 1) = Append(Tail(es), m + 1)
    <3>1. ~(Len(es) < KeepDone)
      BY <1>3, <2>1
    <3> QED BY <3>1 DEF View!Kept
  <2> DEFINE r == Tail(es)
  <2>3. r \in Seq(Nat) /\ Len(r) = KeepDone - 1 /\ \A k \in 1..KeepDone - 1 : r[k] = m - KeepDone + k + 1
    <3>1. r \in Seq(Nat) /\ Len(r) = KeepDone - 1 /\ \A k \in 1..KeepDone - 1 : r[k] = es[k + 1]
      <4>1. es \in Seq(Nat) /\ es # <<>> /\ Len(es) = KeepDone
        BY <1>3, <2>1
      <4> QED BY <4>1
    <3> HIDE DEF r
    <3>2. \A k \in 1..KeepDone - 1 : k + 1 \in 1..h /\ es[k + 1] = m - h + (k + 1)
      BY <1>3, <2>1
    <3> QED BY <2>1, <3>1, <3>2
  <2> HIDE DEF r, h
  <2> DEFINE x == [k \in 1..KeepDone |-> m + 1 - KeepDone + k]
  <2>4. x \in Seq(Nat) /\ Len(x) = KeepDone /\ \A k \in 1..KeepDone : x[k] = m + 1 - KeepDone + k
    BY <1>5
  <2> HIDE DEF x
  <2>5. Append(r, m + 1) \in Seq(Nat) /\ Len(Append(r, m + 1)) = KeepDone
    BY <2>3
  <2>6. \A k \in 1..KeepDone : Append(r, m + 1)[k] = x[k]
    BY <2>3, <2>4
  <2> DEFINE y == Append(r, m + 1)
  <2>7. y \in Seq(Nat) /\ Len(y) = KeepDone /\ \A k \in 1..KeepDone : y[k] = x[k]
    BY <2>5, <2>6
  <2> HIDE DEF y
  <2>8. y = x
    BY <2>4, <2>7
  <2>9. x = HeldOf(m + 1)
    BY <2>1 DEF x, HeldOf
  <2> QED BY <1>1, <1>3, <2>1, <2>2, <2>8, <2>9 DEF y, r, h
<1> QED BY <1>4, <1>5

(* An event more of a child, kept and shown.                                  *)
LEMMA KeepsInv ==
  ASSUME KeepDone \in Nat \ {0}, View!Nobody \notin Watched, LooksInv, NEW c \in Watched, View!Keeps(c),
         Live(c), \A d \in Watched : item'[d].state = item[d].state
  PROVE  DOMAIN made' = Watched /\ DOMAIN events' = Watched /\ EventsAre' /\ ViewIs(view)'
<1> DEFINE m == made[c]
           n == m + 1
<1>1. /\ made' = [made EXCEPT ![c] = n] /\ events' = [events EXCEPT ![c] = View!Kept(@, n)]
      /\ m \in Nat /\ events[c] = HeldOf(m)
      /\ DOMAIN made = Watched /\ DOMAIN events = Watched
  BY DEF View!Keeps, LooksInv, EventsAre
<1>2. /\ Held(m) \in Nat /\ Held(m) <= m /\ Len(events[c]) = Held(m)
      /\ View!Kept(events[c], n) = HeldOf(n)
  <2> DEFINE es == events[c]
  <2>1. es = HeldOf(m) /\ m \in Nat
    BY <1>1
  <2> HIDE DEF es, m
  <2>2. /\ Held(m) \in Nat /\ Held(m) <= m /\ Len(es) = Held(m)
        /\ View!Kept(es, n) = HeldOf(n)
    BY <2>1, HeldNext
  <2> QED BY <2>2 DEF es, m
<1>3. EventsAre'
  <2> SUFFICES ASSUME NEW d \in Watched
               PROVE  made'[d] \in Nat /\ (Live(d)' => events'[d] = HeldOf(made'[d]))
    BY DEF EventsAre, HeldOf, Held
  <2>1. CASE d = c
    <3>1. made'[d] = n /\ events'[d] = View!Kept(events[c], n)
      BY <1>1, <2>1
    <3> QED BY <1>1, <1>2, <3>1
  <2>2. CASE d # c
    <3>1. made'[d] = made[d] /\ events'[d] = events[d] /\ Live(d)' = Live(d)
      BY <1>1, <2>2 DEF Live
    <3> QED BY <3>1 DEF LooksInv, EventsAre
  <2> QED BY <2>1, <2>2
<1>4. \A d \in Watched : Live(d)' = Live(d) /\ (d # c => made'[d] = made[d]) /\ made'[c] = n
  BY <1>1 DEF Live
<1>5. CASE view.tapped = c
  <2> DEFINE v == [view EXCEPT !.shown = Append(@, <<c, n>>)]
  <2>1. /\ v.stage = view.stage /\ v.tapped = view.tapped /\ v.child = view.child /\ v.moved = view.moved
        /\ v.seen = view.seen /\ v.first = view.first /\ v.gone = view.gone
        /\ v.shown = Append(view.shown, <<c, n>>)
    OBVIOUS
  <2>2. view' = v
    BY <1>5 DEF View!Keeps
  <2> HIDE DEF v
  <2>3. view.stage # "closed" /\ (view.stage = "mounted" => view.moved) /\ (view.stage = "watching" => view.child = c)
    BY <1>5 DEF LooksInv, ViewIs
  <2>4. ASSUME WatchingIs(view, m), view.child = c PROVE WatchingIs(v, n)
    <3> DEFINE t == m - view.first - view.gone
    <3>1. /\ view.first \in Nat /\ view.seen \in Nat /\ view.gone \in Nat /\ t \in Nat /\ view.seen <= t
          /\ view.shown = Shown(view, t) /\ view.first + view.gone + t + 1 = n
          /\ n - view.first - view.gone = t + 1 /\ view.first + view.gone + view.seen <= n
      BY <1>1, <2>4 DEF WatchingIs
    <3> HIDE DEF t
    <3>2. Append(view.shown, <<c, n>>) = Shown(view, t + 1)
      BY <2>4, <3>1, ShowsOne
    <3>3. Shown(v, t + 1) = Shown(view, t + 1)
      BY <2>1 DEF Shown, Upto
    <3> QED BY <2>1, <3>1, <3>2, <3>3 DEF WatchingIs
  <2>5. ViewIs(view)'
    BY <1>1, <1>4, <2>1, <2>2, <2>3, <2>4 DEF LooksInv, ViewIs
  <2> QED BY <1>1, <1>3, <2>2, <2>5
<1>6. CASE view.tapped # c /\ view.stage = "mounted" /\ view.child = c /\ ~view.moved
  <2>1. MountedIs(view, m)
    BY <1>6 DEF LooksInv, ViewIs
  <2>2. CASE Held(m) = KeepDone
    <3> DEFINE v == [view EXCEPT !.gone = @ + 1]
    <3>1. /\ v.stage = view.stage /\ v.tapped = view.tapped /\ v.child = view.child /\ v.moved = view.moved
          /\ v.seen = view.seen /\ v.first = view.first /\ v.shown = view.shown /\ v.gone = view.gone + 1
      OBVIOUS
    <3>2. view' = v
      BY <1>2, <1>6, <2>2 DEF View!Keeps
    <3> HIDE DEF v
    <3>3. Held(n) = KeepDone
      BY <1>1, <2>2 DEF Held
    <3>4. Shown(v, v.seen) = Shown(view, view.seen)
      BY <2>1, <3>1 DEF Shown, Upto, MountedIs
    <3>5. MountedIs(v, n)
      BY <1>1, <2>1, <2>2, <3>1, <3>3, <3>4 DEF MountedIs
    <3>6. ViewIs(view)'
      BY <1>1, <1>4, <1>6, <3>1, <3>2, <3>5 DEF LooksInv, ViewIs
    <3> QED BY <1>1, <1>3, <3>2, <3>6
  <2>3. CASE Held(m) # KeepDone
    <3>1. view' = view
      BY <1>2, <1>6, <2>3 DEF View!Keeps
    <3>2. m - Held(m) = n - Held(n) /\ Held(m) <= Held(n) /\ Held(n) \in Nat
      BY <1>1, <2>3 DEF Held
    <3>3. MountedIs(view, n)
      BY <1>1, <1>2, <2>1, <3>2 DEF MountedIs
    <3>4. ViewIs(view)'
      BY <1>1, <1>4, <1>6, <3>1, <3>3 DEF LooksInv, ViewIs
    <3> QED BY <1>1, <1>3, <3>4
  <2> QED BY <2>2, <2>3
<1>7. CASE view.tapped # c /\ ~(view.stage = "mounted" /\ view.child = c /\ ~view.moved)
  <2>1. view' = view
    BY <1>7 DEF View!Keeps
  <2>2. ViewIs(view)'
    BY <1>4, <1>7, <2>1 DEF LooksInv, ViewIs
  <2> QED BY <1>1, <1>3, <2>2
<1> QED BY <1>5, <1>6, <1>7

(* What a prune leaves is as it was, and what it forgets is not shown.        *)
LEMMA PruneInv ==
  ASSUME LooksInv, NEW items \in [Watched -> Items], NEW forgotten \in SUBSET Watched,
         \A d \in Watched : items[d].state # "forgotten" => Live(d),
         View!Prune(items, forgotten), UNCHANGED <<made, view>>
  PROVE  item' \in [Watched -> Items] /\ DOMAIN made' = Watched /\ DOMAIN events' = Watched
         /\ EventsAre' /\ ViewIs(view)'
<1>1. /\ item' = [d \in Watched |-> IF d \in forgotten THEN [items[d] EXCEPT !.state = "forgotten"] ELSE items[d]]
      /\ events' = [d \in Watched |-> IF d \in forgotten THEN <<>> ELSE events[d]]
  BY DEF View!Prune
<1>2. \A d \in Watched : [items[d] EXCEPT !.state = "forgotten"] \in Items
                         /\ [items[d] EXCEPT !.state = "forgotten"].state = "forgotten"
  BY DEF Items
<1>3. item' \in [Watched -> Items]
  BY <1>1, <1>2
<1>4. \A d \in Watched : Live(d)' => Live(d) /\ d \notin forgotten
  BY <1>1, <1>2 DEF Live
<1>5. EventsAre'
  <2> SUFFICES ASSUME NEW d \in Watched
               PROVE  made'[d] \in Nat /\ (Live(d)' => events'[d] = HeldOf(made'[d]))
    BY DEF EventsAre, HeldOf, Held
  <2>1. Live(d)' => Live(d) /\ events'[d] = events[d]
    BY <1>1, <1>4
  <2> QED BY <2>1 DEF LooksInv, EventsAre
<1>6. ViewIs(view)'
  BY <1>4 DEF LooksInv, ViewIs
<1> QED BY <1>1, <1>3, <1>5, <1>6 DEF LooksInv

(* Whatever the table of work, a child or the view does next.                 *)
LEMMA LooksNextInv ==
  ASSUME KeepDone \in Nat \ {0}, View!Nobody \notin Watched
  PROVE  LooksInv /\ [View!Next]_(View!viewVars) => LooksInv'
<1> SUFFICES ASSUME LooksInv, [View!Next]_(View!viewVars) PROVE LooksInv'
  OBVIOUS
<1>0. ASSUME UNCHANGED <<made, events, view>>, item' \in [Watched -> Items], ReadAsIs', timer' \in BOOLEAN,
             \A d \in Watched : Live(d)' => Live(d)
      PROVE  LooksInv'
  <2>1. EventsAre'
    BY <1>0 DEF LooksInv, EventsAre
  <2>2. ViewIs(view)'
    BY <1>0 DEF LooksInv, ViewIs
  <2> QED BY <1>0, <2>1, <2>2 DEF LooksInv
<1>1. CASE View!Settled
  BY <1>0, <1>1, NotifyReads DEF View!Settled, LooksInv, Live
<1>2. CASE View!WatchWork
  <2>1. ReadAsIs'
    BY <1>2 DEF View!WatchWork, ReadAsIs, View!List, View!Listed
  <2> QED BY <1>0, <1>2, <2>1 DEF View!WatchWork, LooksInv, Live
<1>3. ASSUME NEW c \in Watched, View!Add(c) \/ View!Update(c) PROVE LooksInv'
  <2>1. item' \in [Watched -> Items] /\ \A d \in Watched : Live(d)' => Live(d)
    BY <1>3 DEF View!Add, View!Update, View!None, View!Quiet, LooksInv, Items, Live
  <2> QED BY <1>0, <1>3, <2>1, NotifyReads DEF View!Add, View!Update
<1>4. ASSUME NEW c \in Watched, View!Drain(c) PROVE LooksInv'
  <2>1. item' \in [Watched -> Items] /\ \A d \in Watched : item'[d].state = item[d].state
             /\ item'[d].line = item[d].line
    BY <1>4 DEF View!Drain, LooksInv, Items
  <2>2. ReadAsIs'
    BY <1>4, <2>1, SameList DEF View!Drain, LooksInv
  <2> QED BY <1>0, <1>4, <2>1, <2>2 DEF View!Drain, LooksInv, Live
<1>5. ASSUME NEW c \in Watched, NEW forgotten \in SUBSET Watched,
             View!Collect(c, forgotten) \/ View!End(c, forgotten)
      PROVE  LooksInv'
  <2> DEFINE collected == [item EXCEPT ![c].told = TRUE]
             ended == [item EXCEPT ![c].state = "ended"]
  <2>1. CASE View!Collect(c, forgotten)
    <3>1. collected \in [Watched -> Items] /\ \A d \in Watched : collected[d].state # "forgotten" => Live(d)
      BY DEF LooksInv, Items, Live
    <3>2. View!Prune(collected, forgotten) /\ UNCHANGED <<made, view>> /\ View!Notify
      BY <2>1 DEF View!Collect
    <3> HIDE DEF collected
    <3> QED BY <3>1, <3>2, PruneInv, NotifyReads DEF LooksInv
  <2>2. CASE View!End(c, forgotten)
    <3>1. ended \in [Watched -> Items] /\ \A d \in Watched : ended[d].state # "forgotten" => Live(d)
      BY <2>2 DEF View!End, LooksInv, Items, Live
    <3>2. View!Prune(ended, forgotten) /\ UNCHANGED <<made, view>> /\ View!Notify
      BY <2>2 DEF View!End
    <3> HIDE DEF ended
    <3> QED BY <3>1, <3>2, PruneInv, NotifyReads DEF LooksInv
  <2> QED BY <1>5, <2>1, <2>2
<1>6. ASSUME NEW c \in Watched, NEW sort \in View!Kinds, View!Record(c, sort) PROVE LooksInv'
  <2>1. View!Keeps(c) /\ item' = [item EXCEPT ![c].line = View!Line(c, sort)]
        /\ IF View!Line(c, sort) # item[c].line THEN View!NotifySoon ELSE UNCHANGED <<timer, read>>
    BY <1>6 DEF View!Record
  <2>2. item' \in [Watched -> Items] /\ \A d \in Watched : item'[d].state = item[d].state
    <3>1. View!Line(c, sort) \in Nat
      BY DEF View!Line, View!Thinking, LooksInv, EventsAre, Items
    <3> QED BY <2>1, <3>1 DEF LooksInv, Items
  <2>3. DOMAIN made' = Watched /\ DOMAIN events' = Watched /\ EventsAre' /\ ViewIs(view)'
    BY <1>6, <2>1, <2>2, KeepsInv DEF View!Record, View!Known, Live
  <2>4. CASE View!Line(c, sort) # item[c].line
    BY <2>1, <2>2, <2>3, <2>4 DEF View!NotifySoon, LooksInv, ReadAsIs
  <2>5. CASE View!Line(c, sort) = item[c].line
    <3>1. \A d \in Watched : item'[d].state = item[d].state /\ item'[d].line = item[d].line
      BY <2>1, <2>5 DEF LooksInv, Items
    <3>2. ReadAsIs'
      BY <2>1, <2>2, <2>5, <3>1, SameList DEF LooksInv
    <3> QED BY <2>1, <2>2, <2>3, <2>5, <3>2 DEF LooksInv
  <2> QED BY <2>4, <2>5
<1>7. ASSUME NEW c \in Watched, View!Say(c) PROVE LooksInv'
  <2>1. View!Keeps(c) /\ UNCHANGED <<item, timer, read>> /\ Live(c)
    BY <1>7 DEF View!Say, Live
  <2>2. DOMAIN made' = Watched /\ DOMAIN events' = Watched /\ EventsAre' /\ ViewIs(view)'
    BY <2>1, KeepsInv
  <2> QED BY <2>1, <2>2 DEF LooksInv, ReadAsIs, View!Watching, View!List, View!Listed
<1>8. ASSUME UNCHANGED <<item, made, events, timer, read>>, ViewIs(view') PROVE LooksInv'
  <2>1. ViewIs(view)'
    BY <1>8 DEF ViewIs, Live, MountedIs, WatchingIs
  <2>2. EventsAre' /\ ReadAsIs'
    BY <1>8 DEF LooksInv, EventsAre, Live, ReadAsIs, View!Watching, View!List, View!Listed
  <2> QED BY <1>8, <2>1, <2>2 DEF LooksInv
<1>9. ASSUME NEW c \in Watched, View!OpenAgent(c) PROVE LooksInv'
  <2> DEFINE drawn == [k \in 1..Len(events[c]) |-> <<c, events[c][k]>>]
             v == [View!Closed EXCEPT !.stage = "mounted", !.child = c, !.seen = Len(events[c]),
                                 !.first = made[c] - Len(events[c]), !.shown = drawn]
  <2>1. /\ v.stage = "mounted" /\ v.child = c /\ v.seen = Len(events[c])
             /\ v.tapped = View!Nobody /\ ~v.moved
        /\ v.first = made[c] - Len(events[c]) /\ v.gone = 0 /\ v.shown = drawn
    <3> HIDE DEF drawn
    <3> QED BY DEF View!Closed
  <2>2. view' = v /\ UNCHANGED <<item, made, events, timer, read>>
    BY <1>9 DEF View!OpenAgent
  <2> HIDE DEF v
  <2>3. ASSUME Live(c) PROVE MountedIs(v, made[c])
    <3> DEFINE m == made[c]
    <3>1. m \in Nat /\ events[c] = HeldOf(m)
      BY <2>3 DEF LooksInv, EventsAre
    <3>2. Held(m) \in Nat /\ Held(m) <= m
      BY <3>1 DEF Held
    <3>3. Len(events[c]) = Held(m) /\ \A k \in 1..Held(m) : events[c][k] = m - Held(m) + k
      BY <3>1, <3>2 DEF HeldOf
    <3> DEFINE h == Held(m)
    <3>4. v.seen = h /\ v.first = m - h /\ v.gone = 0 /\ v.first \in Nat /\ h \in Nat
      BY <2>1, <3>1, <3>2, <3>3
    <3>5. drawn = [k \in 1..h |-> <<c, m - h + k>>]
      BY <3>3
    <3> HIDE DEF h, drawn
    <3>6. Shown(v, h) = [k \in 1..h |-> <<c, m - h + k>>]
      <4>1. \A k \in 1..h : v.first + k + (IF k <= v.seen THEN 0 ELSE v.gone) = m - h + k
        BY <3>1, <3>4
      <4> QED BY <2>1, <4>1 DEF Shown, Upto
    <3> QED BY <2>1, <3>1, <3>4, <3>5, <3>6 DEF MountedIs, h
  <2>4. ViewIs(v)
    BY <2>1, <2>3 DEF ViewIs
  <2> QED BY <1>8, <2>2, <2>4
<1>10. ASSUME NEW c \in Watched, View!OpensAnother(c) PROVE LooksInv'
  <2> DEFINE v == [view EXCEPT !.stage = "mounted", !.child = c, !.moved = TRUE]
  <2>1. v.stage = "mounted" /\ v.child = c /\ v.moved
    BY <1>10 DEF View!OpensAnother
  <2>2. view' = v /\ UNCHANGED <<item, made, events, timer, read>>
    BY <1>10 DEF View!OpensAnother
  <2> HIDE DEF v
  <2>3. ViewIs(v)
    BY <2>1 DEF ViewIs
  <2> QED BY <1>8, <2>2, <2>3
<1>11. CASE View!Effect
  <2> DEFINE c == view.child
             since == SubSeq(events[c], view.seen + 1, Len(events[c]))
             more == [k \in 1..Len(since) |-> <<c, since[k]>>]
             v == [view EXCEPT !.stage = "watching", !.tapped = c, !.shown = @ \o more]
  <2>1. view' = v /\ UNCHANGED <<item, made, events, timer, read>> /\ view.stage = "mounted"
    BY <1>11 DEF View!Effect
  <2>2. v.stage = "watching" /\ v.tapped = c /\ v.child = c /\ v.moved = view.moved
             /\ v.shown = view.shown \o more
    <3> HIDE DEF more
    <3>1. v.stage = "watching" /\ v.tapped = c /\ v.child = c /\ v.moved = view.moved
      BY <2>1
    <3>2. v.shown = view.shown \o more
      OBVIOUS
    <3> QED BY <3>1, <3>2
  <2>3. ASSUME ~view.moved, Live(c) PROVE WatchingIs(v, made[c])
    <3> DEFINE m == made[c]
               h == Held(m)
               s == view.seen
    <3>1. MountedIs(view, m) /\ m \in Nat /\ events[c] = HeldOf(m)
      BY <2>1, <2>3 DEF LooksInv, ViewIs, EventsAre
    <3>2. /\ view.first \in Nat /\ s \in Nat /\ view.gone \in Nat /\ h \in Nat /\ h <= m
          /\ view.first + view.gone = m - h /\ s <= h /\ view.shown = Shown(view, s)
      BY <3>1 DEF MountedIs, Held
    <3>3. Len(events[c]) = h /\ events[c] \in Seq(Int) /\ \A k \in 1..h : events[c][k] = m - h + k
      BY <3>1, <3>2 DEF HeldOf
    <3> HIDE DEF h, m
    <3>4. Len(since) = h - s /\ \A k \in 1..h - s : since[k] = m - h + (s + k)
      <4> DEFINE es == events[c]
                 rest == SubSeq(es, s + 1, h)
      <4>1. es \in Seq(Int) /\ Len(es) = h /\ \A k \in 1..h : es[k] = m - h + k
        BY <3>3
      <4>2. since = rest
        BY <3>3
      <4> HIDE DEF es, since, s
      <4>3. Len(rest) = h - s /\ \A k \in 1..h - s : rest[k] = es[s + k] /\ s + k \in 1..h
        BY <3>2, <4>1
      <4> HIDE DEF rest
      <4> QED BY <4>1, <4>2, <4>3
    <3> HIDE DEF since
    <3>5. more = [k \in 1..h - s |-> <<c, view.first + view.gone + s + k>>]
      BY <3>1, <3>2, <3>4
    <3> HIDE DEF more
    <3>6. v.first = view.first /\ v.seen = s /\ v.gone = view.gone
      BY DEF v
    <3> HIDE DEF v
    <3>7. view.shown = [k \in 1..s |-> <<c, view.first + k + (IF k <= s THEN 0 ELSE view.gone)>>]
      BY <3>2 DEF Shown, Upto
    <3> HIDE DEF c, s
    <3>8. h - s \in Nat /\ s + (h - s) = h /\ m - view.first - view.gone = h
      BY <3>1, <3>2
    <3>9. view.shown \o more = [k \in 1..h |-> <<c, view.first + k + (IF k <= s THEN 0 ELSE view.gone)>>]
      <4> DEFINE f == view.first
                 g == view.gone
                 n == h - s
                 a == Upto(c, f, g, s, s)
                 b == After(c, f + g + s, n)
                 all == Upto(c, f, g, s, s + n)
      <4>1. view.shown = a /\ more = b
        BY <3>5, <3>7 DEF Upto, After
      <4>2. f \in Nat /\ g \in Nat /\ n \in Nat /\ s \in Nat /\ s + n = h
        BY <3>2, <3>8
      <4> HIDE DEF f, g, n
      <4>3. a \o b = all
        <5>1. f \in Nat /\ g \in Nat /\ n \in Nat /\ s \in Nat
          BY <4>2
        <5>2. Joins(c, f, g, s, n)
          BY <5>1, Joined
        <5> QED BY <5>2 DEF Joins
      <4> QED BY <4>1, <4>2, <4>3 DEF f, g, Upto
    <3>10. Shown(v, h) = view.shown \o more
      BY <2>2, <3>6, <3>9 DEF Shown, Upto
    <3>11. v.first \in Nat /\ v.seen \in Nat /\ v.gone \in Nat
      BY <3>2, <3>6
    <3>12. v.first + v.gone + v.seen <= m
      BY <3>1, <3>2, <3>6 DEF m
    <3>13. m - v.first - v.gone = h
      BY <3>6, <3>8
    <3>14. v.shown = Shown(v, m - v.first - v.gone)
      BY <2>2, <3>10, <3>13
    <3>15. WatchingIs(v, m)
      BY <3>11, <3>12, <3>14 DEF WatchingIs
    <3> QED BY <3>15 DEF m
  <2>4. c \in Watched
    BY <2>1 DEF LooksInv, ViewIs
  <2> HIDE DEF v, more
  <2>5. ViewIs(v)
    BY <2>2, <2>3, <2>4 DEF ViewIs
  <2> QED BY <1>8, <2>1, <2>5
<1>12. CASE View!CloseAgent
  <2>1. ViewIs(View!Closed)
    BY ClosedIs DEF ViewIs
  <2> QED BY <1>8, <1>12, <2>1 DEF View!CloseAgent
<1>13. CASE UNCHANGED View!viewVars
  BY <1>8, <1>13 DEF View!viewVars, LooksInv
<1> QED BY <1>1, <1>2, <1>3, <1>4, <1>5, <1>6, <1>7, <1>9, <1>10, <1>11, <1>12, <1>13 DEF View!Next

(* With nothing left to tell, the list the interface holds is the table's;    *)
(* and the view of one child the table lists shows, in order and once, each   *)
(* event held when it was opened and each one made since, but for as many as  *)
(* were let go between its first fold and its watch (core/work.ts, App.tsx    *)
(* AgentViewer).                                                              *)
THEOREM LooksHold ==
  ASSUME KeepDone \in Nat \ {0}, View!Nobody \notin Watched PROVE View!Spec => []View!LookedAtAsItIs
<1>1. LooksInv => View!LookedAtAsItIs
  BY DEF LooksInv, ReadAsIs, ViewIs, WatchingIs, Shown, Upto, View!LookedAtAsItIs, View!Known, Live
<1> QED BY <1>1, NothingViewedInv, LooksNextInv, PTL DEF View!Spec

-----------------------------------------------------------------------------
(* Who watches a session (Observers): for any calls, turns and watchers, each *)
(* sees the state that is so, and the record of a turn is whole.              *)

CONSTANTS Tools, Beside, Clients, MaxTurns
VARIABLES theirTurn, turns, cancelled, call, state, asking, hooksTold, onEditor, spans, asked, logged, attached, overtaken

Obs == INSTANCE Observers WITH turn <- theirTurn, open <- spans, shown <- onEditor, told <- hooksTold, Calls <- Tools

States == {"idle", "running", "requires_action"}
(* What waits when the session is said to: a prompt, or a question the hub    *)
(* knows of; or the turn was cancelled.                                       *)
Waits ==
  state = "requires_action" =>
    \/ \E c \in Obs!Asks : call[c] = "asking"
    \/ asking /\ \E c \in Obs!Asks : call[c] = "questioning"
    \/ cancelled
(* Who watches is told the state, and sees no call as running that is over.   *)
Sees(w) ==
  hooksTold[w] # "none" =>
    /\ hooksTold[w] = state
    /\ \A c \in Tools : call[c] \in {"none", "done"} => onEditor[w][c] \in {"none", "completed"}
(* A prompt the log holds has not been said to have ended.                    *)
LogIs(c) ==
  /\ logged[c] \in {0, 1}
  /\ c \in asked => logged[c] = 0
  /\ call[c] \in {"none", "called"} => logged[c] = 0 /\ c \notin asked
(* What waits is said to, unless something else set the state since.          *)
SaidToWait == \A c \in Obs!Waiting \ overtaken : state = "requires_action"
ObserversInv ==
  /\ DOMAIN call = Obs!Asks /\ DOMAIN hooksTold = Clients /\ DOMAIN logged = Obs!Asks
  /\ DOMAIN onEditor = Clients /\ \A w \in Clients : DOMAIN onEditor[w] = Obs!Asks
  /\ state \in States
  /\ state = "idle" => ~theirTurn
  /\ ~theirTurn => Obs!CallsAreOver /\ spans = {} /\ asked \cap Tools = {}
  /\ Waits /\ SaidToWait
  /\ \A w \in Clients : Sees(w)
  /\ \A c \in Tools : LogIs(c)

(* Nothing was said, and nobody watches.                                      *)
LEMMA NobodyWatchesInv == Obs!Init => ObserversInv
BY DEF Obs!Init, ObserversInv, Obs!Asks, States, Obs!CallsAreOver, Waits, Sees, LogIs, SaidToWait, Obs!Waiting

(* Whatever a turn, a call, a person or a client does next.                   *)
LEMMA ObserversNextInv ==
  ASSUME Tools \cap Beside = {}
  PROVE  ObserversInv /\ [Obs!Next]_(Obs!obVars) => ObserversInv'
<1> SUFFICES ASSUME ObserversInv, [Obs!Next]_(Obs!obVars) PROVE ObserversInv'
  OBVIOUS
<1> USE DEF Obs!Asks, States, Obs!session, Obs!hub, Obs!spans
<1>1. CASE Obs!StartTurn
  BY <1>1 DEF Obs!StartTurn, Obs!SetState, Obs!Watchers, ObserversInv, Obs!CallsAreOver, Waits, Sees, LogIs, SaidToWait, Obs!Waiting
<1>2. CASE Obs!Cancel
  BY <1>2 DEF Obs!Cancel, ObserversInv, Obs!CallsAreOver, Waits, Sees, LogIs, SaidToWait, Obs!Waiting
<1>3. CASE Obs!TurnEnds
  BY <1>3 DEF Obs!TurnEnds, Obs!EndTurn, Obs!SetState, Obs!Watchers, ObserversInv,
       Obs!CallsAreOver, Waits, Sees, LogIs, SaidToWait, Obs!Waiting
<1>4. CASE Obs!TurnThrows
  BY <1>4 DEF Obs!TurnThrows, Obs!EndTurn, ObserversInv, Obs!CallsAreOver, Waits, Sees, LogIs, SaidToWait, Obs!Waiting
<1>5. CASE Obs!Attach
  BY <1>5 DEF Obs!Attach, ObserversInv, Obs!CallsAreOver, Waits, Sees, LogIs, SaidToWait, Obs!Waiting
<1>6. ASSUME NEW c \in Tools, Obs!ToolCall(c) PROVE ObserversInv'
  BY <1>6 DEF Obs!ToolCall, Obs!Moves, Obs!Shows, Obs!Watchers, ObserversInv, Obs!CallsAreOver,
       Waits, Sees, LogIs, SaidToWait, Obs!Waiting
<1>7. ASSUME NEW c \in Tools, Obs!ElicitationRequest(c) PROVE ObserversInv'
  BY <1>7 DEF Obs!ElicitationRequest, Obs!Moves, Obs!SetState, Obs!Watchers, ObserversInv,
       Obs!CallsAreOver, Waits, Sees, LogIs, SaidToWait, Obs!Waiting
<1>8. ASSUME NEW c \in Obs!Asks, Obs!ApprovalRequest(c) PROVE ObserversInv'
  BY <1>8 DEF Obs!ApprovalRequest, Obs!Moves, Obs!HearsRequest, Obs!LogsRequest, Obs!Shows,
       Obs!SetState, Obs!Watchers, ObserversInv, Obs!CallsAreOver, Waits, Sees, LogIs, SaidToWait, Obs!Waiting
<1>9. ASSUME NEW c \in Obs!Asks, Obs!ApprovalDecision(c) PROVE ObserversInv'
  BY <1>9 DEF Obs!ApprovalDecision, Obs!Moves, Obs!HearsDecision, Obs!LogsDecision, Obs!SetState,
       Obs!Watchers, ObserversInv, Obs!CallsAreOver, Waits, Sees, LogIs, SaidToWait, Obs!Waiting
<1>10. ASSUME NEW c \in Obs!Asks, Obs!ToolResult(c) PROVE ObserversInv'
  BY <1>10 DEF Obs!ToolResult, Obs!Moves, Obs!HearsResult, Obs!Heeds, Obs!Shows, Obs!SetState,
       Obs!Watchers, ObserversInv, Obs!CallsAreOver, Waits, Sees, LogIs, SaidToWait, Obs!Waiting
<1>11. ASSUME NEW w \in Clients, Obs!LoadSession(w) PROVE ObserversInv'
  BY <1>11 DEF Obs!LoadSession, Obs!Replayed, ObserversInv, Obs!CallsAreOver, Waits, Sees, LogIs, SaidToWait, Obs!Waiting
<1>12. ASSUME NEW w \in Clients, Obs!Dropped(w) PROVE ObserversInv'
  BY <1>12 DEF Obs!Dropped, ObserversInv, Obs!CallsAreOver, Waits, Sees, LogIs, SaidToWait, Obs!Waiting
<1>13. CASE UNCHANGED Obs!obVars
  BY <1>13 DEF Obs!obVars, ObserversInv, Obs!CallsAreOver, Waits, Sees, LogIs, SaidToWait, Obs!Waiting
<1> QED BY <1>1, <1>2, <1>3, <1>4, <1>5, <1>6, <1>7, <1>8, <1>9, <1>10, <1>11, <1>12, <1>13 DEF Obs!Next

(* What a client was told last is the state; a session said to wait for the   *)
(* person does, and what waits is said to unless an event of something else   *)
(* set the state since; an idle one shows no call as running; and             *)
(* between turns no call's span is open, and each prompt of a turn was said   *)
(* to have ended once (observe/session.ts, acp/updates.ts).                   *)
THEOREM WatchersHold == ASSUME Tools \cap Beside = {} PROVE Obs!Spec => []Obs!ObserversHold
<1>1. ObserversInv => Obs!ObserversHold
  <2> SUFFICES ASSUME ObserversInv PROVE Obs!ObserversHold
    OBVIOUS
  <2>1. Obs!StateIsTrue
    BY DEF ObserversInv, Obs!StateIsTrue, Waits, SaidToWait, Sees, Obs!Watchers, Obs!Waiting, Obs!CallsAreOver, Obs!Asks
  <2>2. Obs!SpansEnd
    BY DEF ObserversInv, Obs!SpansEnd, LogIs
  <2> QED BY <2>1, <2>2 DEF Obs!ObserversHold
<1> QED BY <1>1, NobodyWatchesInv, ObserversNextInv, PTL DEF Obs!Spec

-----------------------------------------------------------------------------
(* A run without anybody there (Headless): for any wakes, each that goes off *)
(* is run once, in order, and none is left behind.                           *)

CONSTANTS RunWakes, MaxLists
VARIABLES runAsked, stage, runGiven, offered, runStatus, runPending, wentOff, fired, woken, heard, hung, code

Hl == INSTANCE Headless WITH Wakes <- RunWakes, asked <- runAsked, given <- runGiven, status <- runStatus,
  pending <- runPending

(* What went off is what was run and then what is still to run; the run       *)
(* closes with nothing left of them, unless it was interrupted.               *)
HeadlessInv ==
  /\ wentOff \in Seq(RunWakes) /\ woken \in Seq(RunWakes) /\ fired \in Seq(RunWakes)
  /\ runPending \subseteq RunWakes /\ hung \in Nat
  /\ wentOff = woken \o fired
  /\ stage \in {"parsing", "opening"} => fired = <<>> /\ runPending = {} /\ runStatus = "none"
  /\ stage \in {"closing", "exited"} /\ hung = 0 /\ runStatus # "threw" => fired = <<>> /\ runPending = {}
  /\ stage = "exited" /\ hung = 0 /\ runStatus # "threw" /\ code = 0 => runStatus \in {"none", "ok"}

(* What was run is the beginning of what went off.                            *)
LEMMA RunInOrder == HeadlessInv => Hl!NoWakeLeftBehind
<1> SUFFICES ASSUME HeadlessInv PROVE Hl!NoWakeLeftBehind
  OBVIOUS
<1>1. Hl!IsPrefix(woken, wentOff)
  <2>1. woken \in Seq(RunWakes) /\ fired \in Seq(RunWakes) /\ wentOff = woken \o fired
    BY DEF HeadlessInv
  <2>2. /\ Len(wentOff) = Len(woken) + Len(fired) /\ Len(woken) \in Nat /\ Len(fired) \in Nat
        /\ DOMAIN woken = 1..Len(woken) /\ DOMAIN wentOff = 1..Len(wentOff)
        /\ \A k \in 1..Len(woken) : wentOff[k] = woken[k]
    BY <2>1
  <2>3. SubSeq(wentOff, 1, Len(woken)) = woken
    BY <2>1, <2>2
  <2>4. QED
    BY <2>2, <2>3 DEF Hl!IsPrefix
<1>2. fired = <<>> => woken = wentOff
  BY DEF HeadlessInv
<1>3. QED
  BY <1>1, <1>2 DEF HeadlessInv, Hl!NoWakeLeftBehind

(* A wake goes off: it is the last of what is to run.                         *)
LEMMA GoesOffInv == ASSUME HeadlessInv, Hl!GoesOff PROVE HeadlessInv'
<1>1. PICK w \in runPending :
       /\ runPending' = runPending \ {w} /\ wentOff' = Append(wentOff, w) /\ fired' = Append(fired, w)
  BY DEF Hl!GoesOff, Hl!Listening
<1>2. w \in RunWakes /\ UNCHANGED <<stage, runStatus, woken, hung, code>> /\ stage \in {"wakes", "waiting", "waking"}
  BY <1>1 DEF Hl!GoesOff, HeadlessInv, Hl!Listening
<1>3. \A p, q \in Seq(RunWakes) : Append(p \o q, w) = p \o Append(q, w)
  BY <1>2
<1>4. wentOff' = woken' \o fired'
  BY <1>1, <1>2, <1>3 DEF HeadlessInv
<1>5. wentOff' \in Seq(RunWakes) /\ fired' \in Seq(RunWakes)
  BY <1>1, <1>2 DEF HeadlessInv
<1>6. QED
  BY <1>1, <1>2, <1>4, <1>5 DEF HeadlessInv

(* The loop runs the oldest that went off, waits, or is over.                 *)
LEMMA WakesLoopInv == ASSUME HeadlessInv, Hl!WakesLoop PROVE HeadlessInv'
<1>1. UNCHANGED <<runStatus, runPending, wentOff, hung, code>> /\ stage = "wakes"
  BY DEF Hl!WakesLoop
<1>2. CASE stage' = "closing" /\ UNCHANGED <<fired, woken>> /\ (hung > 0 \/ Hl!NothingLeft)
  BY <1>1, <1>2 DEF HeadlessInv, Hl!NothingLeft
<1>3. CASE stage' = "waking" /\ fired # <<>> /\ woken' = Append(woken, Head(fired)) /\ fired' = Tail(fired)
  <2>1. \A p, q \in Seq(RunWakes) : q # <<>> => /\ p \o q = Append(p, Head(q)) \o Tail(q)
                                            /\ Head(q) \in RunWakes /\ Tail(q) \in Seq(RunWakes)
    OBVIOUS
  <2>2. woken' \in Seq(RunWakes) /\ fired' \in Seq(RunWakes) /\ wentOff' = woken' \o fired'
    BY <1>1, <1>3, <2>1 DEF HeadlessInv
  <2>3. QED
    BY <1>1, <1>3, <2>2 DEF HeadlessInv
<1>4. CASE stage' = "waiting" /\ UNCHANGED <<fired, woken>>
  BY <1>1, <1>4 DEF HeadlessInv
<1>5. QED
  BY <1>2, <1>3, <1>4 DEF Hl!WakesLoop

(* Whatever the turns, the clock or an interrupt do next.                     *)
LEMMA HeadlessNextInv == HeadlessInv /\ [Hl!Next]_(Hl!hlVars) => HeadlessInv'
<1> SUFFICES ASSUME HeadlessInv, [Hl!Next]_(Hl!hlVars) PROVE HeadlessInv'
  OBVIOUS
<1>1. CASE Hl!EndsAtOnce \/ Hl!WorktreeRefused \/ Hl!SessionNotFound \/ Hl!RunBegins
  BY <1>1 DEF Hl!EndsAtOnce, Hl!WorktreeRefused, Hl!SessionNotFound, Hl!RunBegins, Hl!wakes, HeadlessInv
<1>2. CASE Hl!OpensRuntime
  <2>1. UNCHANGED <<runStatus, wentOff, fired, woken, hung>> /\ stage = "opening" /\ runPending' \subseteq RunWakes
    BY <1>2 DEF Hl!OpensRuntime, HeadlessInv
  <2>2. stage' \in {"command", "turn"} \/ (stage' = "exited" /\ code' = 1 /\ UNCHANGED runPending)
    BY <1>2 DEF Hl!OpensRuntime
  <2>3. QED
    BY <2>1, <2>2 DEF HeadlessInv
<1>3. CASE Hl!TurnSetsWakes
  BY <1>3 DEF Hl!TurnSetsWakes, HeadlessInv
<1>4. CASE Hl!ListOffered \/ Hl!WaitEnds
  BY <1>4 DEF Hl!ListOffered, Hl!WaitEnds, Hl!wakes, HeadlessInv
<1>5. CASE Hl!FirstEnds \/ Hl!WakeEnds
  BY <1>5 DEF Hl!FirstEnds, Hl!WakeEnds, Hl!wakes, HeadlessInv
<1>6. CASE Hl!TurnThrows \/ Hl!Closes
  <2>1. CASE Hl!TurnThrows
    BY <2>1 DEF Hl!TurnThrows, Hl!wakes, HeadlessInv
  <2>2. CASE Hl!Closes
    <3>1. /\ stage = "closing" /\ stage' = "exited" /\ UNCHANGED <<runStatus, runPending, wentOff, fired, woken, hung>>
          /\ hung = 0 /\ code' = 0 => runStatus = "ok"
      BY <2>2 DEF Hl!Closes, Hl!wakes, HeadlessInv
    <3>2. QED
      BY <3>1 DEF HeadlessInv
  <2>3. QED
    BY <1>6, <2>1, <2>2
<1>7. CASE Hl!Interrupt
  BY <1>7 DEF Hl!Interrupt, Hl!wakes, HeadlessInv
<1>8. CASE UNCHANGED Hl!hlVars
  BY <1>8 DEF Hl!hlVars, HeadlessInv
<1>9. QED
  BY <1>1, <1>2, <1>3, <1>4, <1>5, <1>6, <1>7, <1>8, GoesOffInv, WakesLoopInv DEF Hl!Next

(* Of a run without anybody there each wake that goes off is run once and in  *)
(* the order they went off; it ends with none left to run, unless it was      *)
(* interrupted, and its code says whether it went well (cli/run.ts).          *)
THEOREM WakesAreRun == Hl!Spec => []Hl!NoWakeLeftBehind
<1>1. Hl!Init => HeadlessInv
  BY DEF Hl!Init, HeadlessInv
<1>2. QED
  BY <1>1, HeadlessNextInv, RunInOrder, PTL DEF Hl!Spec
=============================================================================
