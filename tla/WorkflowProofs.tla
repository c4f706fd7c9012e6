--------------------------- MODULE WorkflowProofs ---------------------------
(***************************************************************************)
(* The properties of Workflow, for every number of steps, every            *)
(* concurrency and every set of workflow files.                            *)
(*                                                                         *)
(* The properties speak of the log; what the process does next it decides  *)
(* from its memory.  The invariant that carries the proofs says how the    *)
(* two agree (LogFirst), that a step the process holds for running is in   *)
(* its map of work (PlaceInv), that only a stopped process knows cancelled *)
(* steps (AbortInv), that a run not begun has no line (BegunInv), and what *)
(* the first answer to a gate was (WordInv).                               *)
(***************************************************************************)
EXTENDS Workflow, FiniteSetTheorems, TLAPS

PlaceInv ==
  /\ at \in {"off", "closing"} => running = {}
  /\ at # "off" => \A s \in Steps : memory[s] = "running" => s \in running

AbortInv == ~aborted /\ at # "off" => \A s \in Steps : memory[s] # "cancelled"

BegunInv == over = "none" => at = "off" /\ \A s \in Steps : log[s] = "pending"

WordInv ==
  \A g \in flow.gates :
    /\ log[g] = "running" => word[g] = "none"
    /\ log[g] = "ok" => word[g] = "approved"
    /\ word[g] = "approved" => log[g] \in {"waiting", "ok"}
    /\ log[g] = "waiting" => word[g] = IF answers[g] = <<>> THEN "none" ELSE Head(answers[g])

IInv == TypeOK /\ LogFirst /\ PlaceInv /\ AbortInv /\ BegunInv /\ InOrder /\ WordInv /\ VerdictHolds

-----------------------------------------------------------------------------
(* What a step whose line changes may be.                                  *)

\* A step the process has still to settle is not finished in the log either.
LEMMA Unsettled ==
  ASSUME IInv, at # "off", NEW s \in Steps, memory[s] \in {"pending", "running"}
  PROVE  /\ log[s] \in {"pending", "running", "cancelled"}
         /\ memory[s] = "running" => log[s] = "running"
BY DEF IInv, LogFirst

\* The file is one of those considered: its needs are steps.
LEMMA FlowIsAFile == TypeOK => flow \in Files
BY FlowsAssumption DEF TypeOK

\* A pass starts only steps whose needs finished well enough in the log.
LEMMA NeedsAreGood ==
  ASSUME IInv, Scanning, NEW s \in Ahead, ~FailsForNeed(s)
  PROVE  \A n \in flow.needs[s] : n # s /\ log[n] \in GoodFor(s)
<1> SUFFICES ASSUME NEW n \in flow.needs[s] PROVE n # s /\ log[n] \in GoodFor(s)
  OBVIOUS
<1>1. s \in Steps /\ memory[s] = "pending" /\ memory[n] \in Terminal
  BY DEF Ahead, Ready
<1>2. n \in Steps
  BY <1>1, FlowIsAFile DEF IInv, Files
<1>3. at = "scan" /\ ~aborted
  BY DEF Scanning
<1>4. memory[n] # "cancelled"
  BY <1>2, <1>3 DEF IInv, AbortInv
<1>5. log[n] = memory[n]
  BY <1>1, <1>2, <1>3 DEF IInv, LogFirst, Terminal
<1>6. memory[n] = "failed" => s \in flow.tolerant
  BY DEF FailsForNeed, Broken
<1>7. QED
  BY <1>1, <1>4, <1>5, <1>6 DEF Terminal, GoodFor

-----------------------------------------------------------------------------
(* The invariant holds at first.                                           *)

LEMMA PassBegins == 1 \in 1..N+1
BY NAssumption

LEMMA InitInv == Init => IInv
<1> SUFFICES ASSUME Init PROVE IInv
  OBVIOUS
<1> USE NAssumption DEF Init, Blank
<1>1. TypeOK
  <2>1. answers \in [Steps -> Seq({"approved", "rejected"})]
    BY <<>> \in Seq({"approved", "rejected"})
  <2>2. log \in [Steps -> Statuses] /\ memory \in [Steps -> Statuses]
    BY DEF Statuses
  <2>3. QED
    BY <2>1, <2>2, PassBegins DEF TypeOK
<1>2. flow \in Files
  BY <1>1, FlowIsAFile
<1>3. LogFirst /\ PlaceInv /\ AbortInv /\ BegunInv
  BY DEF LogFirst, PlaceInv, AbortInv, BegunInv
<1>4. InOrder
  BY DEF InOrder
<1>5. WordInv
  BY <1>2 DEF WordInv, Files
<1>6. VerdictHolds
  BY DEF VerdictHolds
<1>7. QED
  BY <1>1, <1>3, <1>4, <1>5, <1>6 DEF IInv

-----------------------------------------------------------------------------
(* Each part of the invariant is preserved.                                *)

\* A line keeps the types of what it changes.
LEMMA RecordTypes ==
  ASSUME TypeOK, NEW s \in Steps, NEW st \in Statuses, Record(s, st)
  PROVE  /\ memory' \in [Steps -> Statuses]
         /\ log' \in [Steps -> Statuses]
         /\ answers' \in [Steps -> Seq({"approved", "rejected"})]
BY DEF TypeOK, Record

LEMMA ReplayTypes ==
  ASSUME TypeOK, NEW s \in Steps
  PROVE  Replayed(s) \in Statuses /\ Retried(Replayed(s)) \in Statuses
BY DEF TypeOK, Replayed, Retried, Statuses

LEMMA VerdictType == Verdict \in {"ok", "failed", "waiting", "cancelled"}
BY DEF Verdict

LEMMA TypeOKStep == IInv /\ [Next]_vars => TypeOK'
<1> SUFFICES ASSUME IInv, [Next]_vars PROVE TypeOK'
  OBVIOUS
<1>0. TypeOK
  BY DEF IInv
<1> USE PassBegins DEF logVars, processVars
<1>1. CASE Begin
  BY <1>0, <1>1 DEF Begin, TypeOK, Blank, Statuses
<1>2. CASE Resume
  <2>1. /\ log' \in [Steps -> Statuses] /\ memory' \in [Steps -> Statuses]
    BY <1>2, <1>0, ReplayTypes DEF Resume
  <2>2. answers' \in [Steps -> Seq({"approved", "rejected"})]
    BY <1>2, <1>0 DEF Resume, TypeOK
  <2>3. QED
    BY <2>1, <2>2, <1>0, <1>2 DEF Resume, TypeOK
<1>3. CASE StartNext
  <2>1. PICK s \in Steps : next' = s + 1 /\ (PassesOver(s) \/ Runs(s))
    BY <1>3 DEF StartNext
  <2>2. PICK st \in Statuses : Record(s, st)
    BY <2>1 DEF PassesOver, Runs, Statuses
  <2>3. next' \in 1..N+1
    BY <2>1, NAssumption DEF Steps
  <2>4. running' \in SUBSET Steps /\ word' \in [Steps -> {"none", "approved", "rejected"}]
    BY <2>1, <1>0 DEF PassesOver, Runs, TypeOK
  <2>5. QED
    BY <2>2, <2>3, <2>4, <1>0, <1>3, RecordTypes DEF StartNext, TypeOK
<1>4. CASE EndPass \/ Wake \/ Abort
  BY <1>0, <1>4 DEF EndPass, Wake, Abort, TypeOK
<1>5. CASE End \/ Crash
  <2>1. over' \in {"none", "running", "ok", "failed", "waiting", "cancelled"}
    BY <1>5, <1>0, VerdictType DEF End, Crash, TypeOK
  <2>2. QED
    BY <2>1, <1>5, <1>0 DEF End, Crash, Gone, TypeOK, Blank, Statuses
<1>6. CASE GiveUp
  <2>1. PICK s \in Steps : Record(s, "cancelled")
    BY <1>6 DEF GiveUp
  <2>2. QED
    BY <2>1, <1>6, <1>0, RecordTypes DEF GiveUp, TypeOK, Statuses
<1>7. ASSUME NEW s \in Steps, WorkEnds(s) \/ GateEnds(s) PROVE TypeOK'
  <2>1. PICK st \in Statuses : Record(s, st)
    BY <1>7 DEF WorkEnds, GateEnds, StopsAs, Statuses
  <2>2. word' \in [Steps -> {"none", "approved", "rejected"}]
    BY <1>7, <1>0 DEF WorkEnds, GateEnds, TypeOK
  <2>3. QED
    BY <2>1, <2>2, <1>7, <1>0, RecordTypes DEF WorkEnds, GateEnds, TypeOK
<1>8. ASSUME NEW s \in Steps, Leave(s) PROVE TypeOK'
  BY <1>8, <1>0 DEF Leave, TypeOK
<1>9. ASSUME NEW s \in Steps, Approve(s) PROVE TypeOK'
  <2>1. PICK a \in {"approved", "rejected"} :
          /\ answers' = [answers EXCEPT ![s] = Append(answers[s], a)]
          /\ word' = IF answers[s] = <<>> THEN [word EXCEPT ![s] = a] ELSE word
    BY <1>9 DEF Approve
  <2>2. answers' \in [Steps -> Seq({"approved", "rejected"})]
    BY <2>1, <1>0 DEF TypeOK
  <2>3. word' \in [Steps -> {"none", "approved", "rejected"}]
    BY <2>1, <1>0 DEF TypeOK
  <2>4. QED
    BY <2>2, <2>3, <1>9, <1>0 DEF Approve, TypeOK
<1>10. CASE UNCHANGED vars
  BY <1>10, <1>0 DEF vars, TypeOK
<1>11. QED
  BY <1>1, <1>2, <1>3, <1>4, <1>5, <1>6, <1>7, <1>8, <1>9, <1>10 DEF Next, Loop, Ending, Mishap

\* The engine's line of a step: never of one that finished.
Line(s, st) ==
  /\ UNCHANGED flow /\ at # "off" /\ at' # "off" /\ memory[s] \in {"pending", "running"}
  /\ Record(s, st)
  /\ \/ /\ memory[s] = "pending" /\ st \in {"failed", "skipped", "cancelled"}
        /\ UNCHANGED word /\ (st = "cancelled" => aborted)
     \/ Scanning /\ s \in Ahead /\ Runs(s) /\ st = "running"
     \/ WorkEnds(s) /\ st \in {"ok", "failed", "cancelled"} /\ (st = "cancelled" => aborted)
     \/ GateEnds(s) /\ st \in {"ok", "failed", "waiting", "cancelled"} /\ (st = "cancelled" => aborted)

\* The steps of the engine that write a line.
Writes == StartNext \/ GiveUp \/ \E s \in Steps : WorkEnds(s) \/ GateEnds(s)

LEMMA WritesALine ==
  ASSUME IInv, Writes
  PROVE  \E s \in Steps, st \in Statuses : Line(s, st) /\ UNCHANGED <<over, aborted>>
<1> USE DEF logVars, processVars
<1>1. CASE StartNext
  <2>1. PICK s \in Steps : First(s, Ahead) /\ (PassesOver(s) \/ Runs(s))
    BY <1>1 DEF StartNext
  <2>2. s \in Ahead /\ memory[s] = "pending"
    BY <2>1 DEF First, Ahead, Ready
  <2>3. Scanning /\ at = "scan" /\ at' = at /\ UNCHANGED <<flow, over, aborted>>
    BY <1>1 DEF StartNext, Scanning
  <2>4. CASE PassesOver(s)
    <3>1. PICK st \in {"failed", "skipped"} : Record(s, st)
      BY <2>4 DEF PassesOver
    <3>2. Line(s, st) /\ st \in Statuses
      BY <2>2, <2>3, <2>4, <3>1 DEF Line, PassesOver, Statuses
    <3>3. QED
      BY <3>2, <2>3
  <2>5. CASE Runs(s)
    <3>1. Line(s, "running") /\ "running" \in Statuses
      BY <2>2, <2>3, <2>5 DEF Line, Runs, Statuses
    <3>2. QED
      BY <3>1, <2>3
  <2>6. QED
    BY <2>1, <2>4, <2>5
<1>2. CASE GiveUp
  <2>1. PICK s \in Steps : First(s, Unstarted) /\ Record(s, "cancelled")
    BY <1>2 DEF GiveUp
  <2>2. Line(s, "cancelled") /\ "cancelled" \in Statuses /\ UNCHANGED <<over, aborted>>
    BY <2>1, <1>2 DEF Line, GiveUp, First, Unstarted, Statuses
  <2>3. QED
    BY <2>2
<1>3. ASSUME NEW s \in Steps, WorkEnds(s)
      PROVE \E st \in Statuses : Line(s, st) /\ UNCHANGED <<over, aborted>>
  <2>1. PICK st \in {"ok", "failed", "cancelled"} : Record(s, st) /\ (st = "cancelled" => aborted)
    BY <1>3 DEF WorkEnds, StopsAs
  <2>2. memory[s] = "running" /\ at = "await" /\ at' = at /\ UNCHANGED <<flow, over, aborted>>
    BY <1>3 DEF WorkEnds
  <2>3. Line(s, st) /\ st \in Statuses
    BY <2>1, <2>2, <1>3 DEF Line, Statuses
  <2>4. QED
    BY <2>2, <2>3
<1>4. ASSUME NEW s \in Steps, GateEnds(s)
      PROVE \E st \in Statuses : Line(s, st) /\ UNCHANGED <<over, aborted>>
  <2>1. PICK st \in {"ok", "failed", "waiting", "cancelled"} :
          Record(s, st) /\ (st = "cancelled" => aborted)
    BY <1>4 DEF GateEnds, StopsAs
  <2>2. memory[s] = "running" /\ at = "await" /\ at' = at /\ UNCHANGED <<flow, over, aborted>>
    BY <1>4 DEF GateEnds
  <2>3. Line(s, st) /\ st \in Statuses
    BY <2>1, <2>2, <1>4 DEF Line, Statuses
  <2>4. QED
    BY <2>2, <2>3
<1>5. QED
  BY <1>1, <1>2, <1>3, <1>4 DEF Writes

\* A step of the system writes one line, replays the log, or leaves it as it is.
LEMMA LogSteps ==
  ASSUME IInv, [Next]_vars
  PROVE  \/ Begin
         \/ Resume
         \/ \E s \in Steps, st \in Statuses : Line(s, st) /\ UNCHANGED <<over, aborted>>
         \/ UNCHANGED <<flow, log, over, memory>> /\ at # "off" /\ at' # "off"
         \/ UNCHANGED <<flow, log>> /\ at' = "off" /\ (over' = over \/ (over' = Verdict /\ End))
<1> USE DEF logVars, processVars
<1>1. CASE EndPass \/ Wake \/ Abort
  BY <1>1 DEF EndPass, Wake, Abort
<1>2. CASE End
  <2>1. UNCHANGED <<flow, log>> /\ at' = "off" /\ over' = Verdict
    BY <1>2 DEF End, Gone
  <2>2. QED
    BY <1>2, <2>1
<1>3. CASE Crash
  <2>1. UNCHANGED <<flow, log, over>> /\ at' = "off"
    BY <1>3 DEF Crash, Gone
  <2>2. QED
    BY <2>1
<1>4. ASSUME NEW s \in Steps, Leave(s) \/ Approve(s)
      PROVE  UNCHANGED <<flow, log, over, memory, at>>
  BY <1>4 DEF Leave, Approve
<1>5. UNCHANGED vars => UNCHANGED <<flow, log, over, memory, at>>
  BY DEF vars
<1>6. CASE UNCHANGED <<flow, log, over, memory, at>>
  BY <1>6
<1>7. CASE Writes
  BY <1>7, WritesALine
<1>8. QED
  BY <1>1, <1>2, <1>3, <1>4, <1>5, <1>6, <1>7 DEF Next, Loop, Ending, Mishap, Writes

\* A finished step stays as it finished.
LEMMA FinishedStays ==
  ASSUME IInv, [Next]_vars, NEW s \in Steps, log[s] \in Finished
  PROVE  log'[s] = log[s]
<1>1. CASE Resume
  BY <1>1 DEF Resume, Replayed, IsAnswered, Finished
<1>2. CASE \E t \in Steps, st \in Statuses : Line(t, st)
  <2>1. PICK t \in Steps, st \in Statuses : Line(t, st)
    BY <1>2
  <2>2. t # s
    BY <2>1, Unsettled DEF Line, Finished
  <2>3. QED
    BY <2>1, <2>2 DEF Line, Record, IInv, TypeOK
<1>3. CASE Begin
  BY <1>3 DEF Begin
<1>4. QED
  BY <1>1, <1>2, <1>3, LogSteps

LEMMA LogFirstStep == IInv /\ [Next]_vars => LogFirst'
<1> SUFFICES ASSUME IInv, [Next]_vars, at' # "off", NEW t \in Steps
             PROVE  \/ memory'[t] = log'[t]
                    \/ memory'[t] = "pending" /\ log'[t] \in {"running", "cancelled"}
  BY DEF LogFirst
<1>0. TypeOK /\ LogFirst
  BY DEF IInv
<1>1. CASE Begin
  BY <1>1 DEF Begin, Blank, IInv, BegunInv
<1>2. CASE Resume
  BY <1>2 DEF Resume, Retried, Replayed
<1>3. CASE \E s \in Steps, st \in Statuses : Line(s, st)
  <2>1. PICK s \in Steps, st \in Statuses : Line(s, st)
    BY <1>3
  <2>2. CASE t = s
    BY <2>1, <2>2, <1>0 DEF Line, Record, TypeOK
  <2>3. CASE t # s
    BY <2>1, <2>3, <1>0 DEF Line, Record, TypeOK, LogFirst
  <2>4. QED
    BY <2>2, <2>3
<1>4. CASE UNCHANGED <<flow, log, over, memory>> /\ at # "off"
  BY <1>4, <1>0 DEF LogFirst
<1>5. QED
  BY <1>1, <1>2, <1>3, <1>4, LogSteps

LEMMA PlaceStep == IInv /\ [Next]_vars => PlaceInv'
<1> SUFFICES ASSUME IInv, [Next]_vars PROVE PlaceInv'
  OBVIOUS
<1>0. TypeOK /\ PlaceInv
  BY DEF IInv
<1> USE DEF PlaceInv, logVars, processVars
<1>1. CASE Begin
  BY <1>1, <1>0 DEF Begin, Blank
<1>2. CASE Resume
  BY <1>2, <1>0 DEF Resume, Retried
<1>3. CASE StartNext
  <2>1. PICK s \in Steps : PassesOver(s) \/ Runs(s)
    BY <1>3 DEF StartNext
  <2>2. at = "scan" /\ at' = at
    BY <1>3 DEF StartNext, Scanning
  <2>3. QED
    BY <2>1, <2>2, <1>0 DEF PassesOver, Runs, Record, TypeOK
<1>4. CASE EndPass
  BY <1>4, <1>0 DEF EndPass
<1>5. CASE Wake \/ Abort
  BY <1>5, <1>0 DEF Wake, Abort
<1>6. CASE End \/ Crash
  BY <1>6 DEF End, Crash, Gone
<1>7. CASE GiveUp
  <2>1. PICK s \in Steps : Record(s, "cancelled")
    BY <1>7 DEF GiveUp
  <2>2. QED
    BY <2>1, <1>7, <1>0 DEF GiveUp, Record, TypeOK
<1>8. ASSUME NEW s \in Steps, WorkEnds(s) \/ GateEnds(s) PROVE PlaceInv'
  <2>1. PICK st \in {"ok", "failed", "waiting", "cancelled"} : Record(s, st)
    BY <1>8 DEF WorkEnds, GateEnds, StopsAs
  <2>2. at = "await" /\ at' = at /\ running' = running
    BY <1>8 DEF WorkEnds, GateEnds
  <2>3. QED
    BY <2>1, <2>2, <1>0 DEF Record, TypeOK
<1>9. ASSUME NEW s \in Steps, Leave(s) PROVE PlaceInv'
  BY <1>9, <1>0 DEF Leave
<1>10. ASSUME NEW s \in Steps, Approve(s) PROVE PlaceInv'
  BY <1>10, <1>0 DEF Approve
<1>11. CASE UNCHANGED vars
  BY <1>11, <1>0 DEF vars
<1>12. QED
  BY <1>1, <1>2, <1>3, <1>4, <1>5, <1>6, <1>7, <1>8, <1>9, <1>10, <1>11 DEF Next, Loop, Ending, Mishap

LEMMA AbortStep == IInv /\ [Next]_vars => AbortInv'
<1> SUFFICES ASSUME IInv, [Next]_vars, ~aborted', at' # "off", NEW t \in Steps
             PROVE  memory'[t] # "cancelled"
  BY DEF AbortInv
<1>0. TypeOK /\ AbortInv
  BY DEF IInv
<1> USE DEF logVars, processVars
<1>1. CASE Begin
  BY <1>1 DEF Begin, Blank
<1>2. CASE Resume
  BY <1>2 DEF Resume, Retried
<1>3. CASE \E s \in Steps, st \in Statuses : Line(s, st) /\ UNCHANGED <<over, aborted>>
  <2>1. PICK s \in Steps, st \in Statuses : Line(s, st) /\ UNCHANGED <<over, aborted>>
    BY <1>3
  <2>2. st # "cancelled" /\ at # "off" /\ ~aborted
    BY <2>1 DEF Line
  <2>3. memory' = [memory EXCEPT ![s] = st]
    BY <2>1 DEF Line, Record
  <2>4. QED
    BY <2>2, <2>3, <1>0 DEF TypeOK, AbortInv
<1>4. CASE EndPass \/ Wake \/ Abort
  BY <1>4, <1>0 DEF EndPass, Wake, Abort, AbortInv
<1>5. CASE End \/ Crash
  BY <1>5 DEF End, Crash, Gone
<1>6. ASSUME NEW s \in Steps, Leave(s) \/ Approve(s) PROVE UNCHANGED <<memory, aborted, at>>
  BY <1>6 DEF Leave, Approve
<1>7. CASE UNCHANGED <<memory, aborted, at>>
  BY <1>7, <1>0 DEF AbortInv
<1>8. CASE UNCHANGED vars
  BY <1>8, <1>7 DEF vars
<1>9. CASE Writes
  BY <1>3, <1>9, WritesALine
<1>10. QED
  BY <1>1, <1>2, <1>4, <1>5, <1>6, <1>7, <1>8, <1>9 DEF Next, Loop, Ending, Mishap, Writes

LEMMA BegunStep == IInv /\ [Next]_vars => BegunInv'
<1> SUFFICES ASSUME IInv, [Next]_vars, over' = "none"
             PROVE  at' = "off" /\ \A s \in Steps : log'[s] = "pending"
  BY DEF BegunInv
<1>0. BegunInv
  BY DEF IInv
<1>1. ~Begin
  BY DEF Begin
<1>2. CASE Resume
  BY <1>2, <1>0 DEF Resume
<1>3. CASE \E s \in Steps, st \in Statuses : Line(s, st) /\ UNCHANGED <<over, aborted>>
  BY <1>3, <1>0 DEF Line, BegunInv
<1>4. CASE UNCHANGED <<flow, log, over, memory>> /\ at # "off"
  BY <1>4, <1>0 DEF BegunInv
<1>5. CASE UNCHANGED <<flow, log>> /\ at' = "off" /\ (over' = over \/ (over' = Verdict /\ End))
  BY <1>5, <1>0, VerdictType DEF BegunInv
<1>6. QED
  BY <1>1, <1>2, <1>3, <1>4, <1>5, LogSteps

\* What is good enough for a step to start stays good enough.
LEMMA GoodIsFinished == \A s \in Steps : GoodFor(s) \subseteq Finished
BY DEF GoodFor, Finished

LEMMA InOrderStep == IInv /\ [Next]_vars => InOrder'
<1> SUFFICES ASSUME IInv, [Next]_vars, NEW t \in Steps, log'[t] \in {"running", "ok", "waiting"},
                    NEW n \in flow'.needs[t]
             PROVE  log'[n] \in GoodFor(t)'
  BY DEF InOrder
<1>0. TypeOK /\ InOrder
  BY DEF IInv
<1>1. flow' = flow
  BY LogSteps DEF Begin, Resume, Line
<1>2. n \in Steps /\ n \in flow.needs[t]
  BY <1>0, <1>1, FlowIsAFile DEF Files
<1>3. GoodFor(t)' = GoodFor(t)
  BY <1>1 DEF GoodFor
<1>4. CASE log[n] \in GoodFor(t)
  <2>1. log'[n] = log[n]
    BY <1>2, <1>4, GoodIsFinished, FinishedStays
  <2>2. QED
    BY <2>1, <1>3, <1>4
<1>5. CASE log[t] \in {"running", "ok", "waiting"}
  BY <1>5, <1>0, <1>2, <1>4 DEF InOrder
<1>6. CASE log[t] \notin {"running", "ok", "waiting"}
  <2>1. ~Begin /\ ~Resume /\ log' # log
    BY <1>6 DEF Begin, Resume, Replayed, IsAnswered
  <2>2. PICK s \in Steps, st \in Statuses : Line(s, st)
    BY <2>1, LogSteps
  <2>3. s = t /\ st = log'[t]
    BY <2>2, <1>6, <1>0 DEF Line, Record, TypeOK
  <2>4. ~WorkEnds(s) /\ ~GateEnds(s)
    BY <2>3, <1>6, Unsettled DEF WorkEnds, GateEnds
  <2>5. Scanning /\ s \in Ahead /\ Runs(s)
    BY <2>2, <2>3, <2>4 DEF Line
  <2>6. log[n] \in GoodFor(t)
    BY <2>5, <2>3, <1>2, NeedsAreGood DEF Runs
  <2>7. QED
    BY <2>6, <1>4
<1>7. QED
  BY <1>5, <1>6

LEMMA WordStep == IInv /\ [Next]_vars => WordInv'
<1> SUFFICES ASSUME IInv, [Next]_vars PROVE WordInv'
  OBVIOUS
<1>0. TypeOK /\ WordInv
  BY DEF IInv
<1>F. flow \in Files /\ flow.gates \subseteq Steps
  BY <1>0, FlowIsAFile DEF Files
<1> DEFINE Same(g) == log'[g] = log[g] /\ answers'[g] = answers[g] /\ word'[g] = word[g]
           Kept(g) == /\ log'[g] = "running" => word'[g] = "none"
                      /\ log'[g] = "ok" => word'[g] = "approved"
                      /\ word'[g] = "approved" => log'[g] \in {"waiting", "ok"}
                      /\ log'[g] = "waiting" =>
                           word'[g] = IF answers'[g] = <<>> THEN "none" ELSE Head(answers'[g])
<1>K. ASSUME NEW g \in flow.gates, Same(g) PROVE Kept(g)
  BY <1>K, <1>0 DEF WordInv
<1>A. SUFFICES flow' = flow /\ \A g \in flow.gates : Kept(g)
  BY DEF WordInv
<1> USE DEF logVars, processVars
<1>1. CASE Begin \/ EndPass \/ Wake \/ End \/ Abort \/ Crash
  <2>1. flow' = flow /\ \A g \in flow.gates : Same(g)
    BY <1>1 DEF Begin, EndPass, Wake, End, Abort, Crash
  <2>2. QED
    BY <2>1, <1>K
<1>2. CASE Resume
  <2>1. flow' = flow /\ word' = word
    BY <1>2 DEF Resume
  <2>2. ASSUME NEW g \in flow.gates PROVE Kept(g)
    <3>1. g \in Steps
      BY <1>F
    <3>2. CASE IsAnswered(g)
      <4>1. log[g] = "waiting" /\ answers[g] # <<>> /\ word[g] = Head(answers[g])
        BY <3>2, <1>0 DEF IsAnswered, WordInv
      <4>2. word[g] \in {"approved", "rejected"}
        BY <4>1, <3>1, <1>0 DEF TypeOK
      <4>3. log'[g] = IF word[g] = "approved" THEN "ok" ELSE "failed"
        BY <4>1, <3>1, <3>2, <1>2 DEF Resume, Replayed
      <4>4. QED
        BY <4>2, <4>3, <2>1
    <3>3. CASE ~IsAnswered(g)
      <4>1. Same(g)
        BY <3>1, <3>3, <1>2 DEF Resume, Replayed
      <4>2. QED
        BY <4>1, <1>K
    <3>4. QED
      BY <3>2, <3>3
  <2>3. QED
    BY <2>1, <2>2
<1>3. CASE \E s \in Steps, st \in Statuses : Line(s, st)
  <2>1. PICK s \in Steps, st \in Statuses : Line(s, st)
    BY <1>3
  <2>2. /\ flow' = flow
        /\ log' = [log EXCEPT ![s] = st]
        /\ answers' = [answers EXCEPT ![s] = <<>>]
    BY <2>1 DEF Line, Record
  <2>3. /\ log'[s] = st /\ answers'[s] = <<>>
        /\ \A g \in Steps : g # s => log'[g] = log[g] /\ answers'[g] = answers[g]
    BY <2>2, <1>0 DEF TypeOK
  <2>4. CASE UNCHANGED word /\ memory[s] = "pending" /\ st \in {"failed", "skipped", "cancelled"}
    <3>1. ASSUME NEW g \in flow.gates PROVE Kept(g)
      <4>1. CASE g = s
        <5>1. log[g] \in {"pending", "running", "cancelled"}
          BY <2>1, <2>4, <4>1, Unsettled DEF Line
        <5>2. word[g] # "approved"
          BY <5>1, <1>0 DEF WordInv
        <5>3. QED
          BY <5>2, <2>3, <2>4, <4>1
      <4>2. CASE g # s
        BY <4>2, <2>3, <2>4, <1>F, <1>K
      <4>3. QED
        BY <4>1, <4>2
    <3>2. QED
      BY <3>1, <2>2
  <2>5. CASE Runs(s) /\ st = "running"
    <3>1. word'[s] = "none" /\ \A g \in Steps : g # s => word'[g] = word[g]
      BY <2>5, <1>0 DEF Runs, TypeOK
    <3>2. ASSUME NEW g \in flow.gates PROVE Kept(g)
      BY <3>1, <2>3, <2>5, <1>F, <1>K
    <3>3. QED
      BY <3>2, <2>2
  <2>6. CASE WorkEnds(s)
    <3>1. word' = word /\ s \notin flow.gates
      BY <2>6 DEF WorkEnds
    <3>2. ASSUME NEW g \in flow.gates PROVE Kept(g)
      BY <3>1, <2>3, <1>F, <1>K
    <3>3. QED
      BY <3>2, <2>2
  <2>7. CASE GateEnds(s) /\ s \in flow.gates
    <3>1. memory[s] = "running" /\ log[s] = "running" /\ word[s] = "none"
      <4>1. memory[s] = "running" /\ at # "off"
        BY <2>7 DEF GateEnds
      <4>2. QED
        BY <4>1, <2>7, <1>0, Unsettled DEF WordInv
    <3>2. /\ \/ log'[s] = "ok" /\ word'[s] = "approved"
             \/ log'[s] \in {"failed", "cancelled"} /\ word'[s] = "rejected"
             \/ log'[s] \in {"waiting", "failed", "cancelled"} /\ word'[s] = word[s]
          /\ \A g \in Steps : g # s => word'[g] = word[g]
      BY <2>7, <1>0 DEF GateEnds, Record, StopsAs, TypeOK
    <3>3. ASSUME NEW g \in flow.gates PROVE Kept(g)
      <4>1. CASE g = s
        BY <4>1, <3>1, <3>2, <2>3
      <4>2. CASE g # s
        BY <4>2, <3>2, <2>3, <1>F, <1>K
      <4>3. QED
        BY <4>1, <4>2
    <3>4. QED
      BY <3>3, <2>2
  <2>8. QED
    BY <2>1, <2>4, <2>5, <2>6, <2>7 DEF Line, GateEnds
<1>4. ASSUME NEW s \in Steps, Leave(s) PROVE flow' = flow /\ \A g \in flow.gates : Kept(g)
  <2>1. flow' = flow /\ \A g \in flow.gates : Same(g)
    BY <1>4 DEF Leave
  <2>2. QED
    BY <2>1, <1>K
<1>5. ASSUME NEW s \in Steps, Approve(s) PROVE flow' = flow /\ \A g \in flow.gates : Kept(g)
  <2>1. PICK a \in {"approved", "rejected"} :
          /\ answers' = [answers EXCEPT ![s] = Append(answers[s], a)]
          /\ word' = IF answers[s] = <<>> THEN [word EXCEPT ![s] = a] ELSE word
    BY <1>5 DEF Approve
  <2>2. flow' = flow /\ log' = log /\ log[s] = "waiting"
    BY <1>5 DEF Approve
  <2>3. answers[s] \in Seq({"approved", "rejected"})
    BY <1>0 DEF TypeOK
  <2>4. /\ answers'[s] = Append(answers[s], a)
        /\ answers'[s] # <<>>
        /\ \A g \in Steps : g # s => answers'[g] = answers[g] /\ word'[g] = word[g]
    BY SMTT(40), <2>1, <2>3, <1>0 DEF TypeOK
  <2>5. Head(answers'[s]) = IF answers[s] = <<>> THEN a ELSE Head(answers[s])
    BY <2>3, <2>4
  <2>6. word'[s] = IF answers[s] = <<>> THEN a ELSE word[s]
    BY <2>1, <1>0 DEF TypeOK
  <2>7. ASSUME NEW g \in flow.gates PROVE Kept(g)
    <3>1. CASE g = s
      BY <3>1, <2>2, <2>4, <2>5, <2>6, <1>0 DEF WordInv
    <3>2. CASE g # s
      BY <3>2, <2>2, <2>4, <1>F, <1>K
    <3>3. QED
      BY <3>1, <3>2
  <2>8. QED
    BY <2>2, <2>7
<1>6. CASE UNCHANGED vars
  <2>1. flow' = flow /\ \A g \in flow.gates : Same(g)
    BY <1>6 DEF vars
  <2>2. QED
    BY <2>1, <1>K
<1>7. CASE Writes
  BY <1>3, <1>7, WritesALine
<1>8. QED
  BY <1>1, <1>2, <1>4, <1>5, <1>6, <1>7 DEF Next, Loop, Ending, Mishap, Writes

LEMMA VerdictStep == IInv /\ [Next]_vars => VerdictHolds'
<1> SUFFICES ASSUME IInv, [Next]_vars PROVE VerdictHolds'
  OBVIOUS
<1>0. TypeOK /\ VerdictHolds /\ LogFirst /\ PlaceInv
  BY DEF IInv
<1>1. flow' = flow
  BY LogSteps DEF Begin, Resume, Line
<1>2. \A s \in Steps : GoodFor(s)' = GoodFor(s)
  BY <1>1 DEF GoodFor
<1>3. CASE over' = over
  <2>1. over = "ok" => \A s \in Steps : log'[s] \in GoodFor(s)
    BY <1>0, GoodIsFinished, FinishedStays DEF VerdictHolds
  <2>2. over = "failed" => \A s \in Steps : log'[s] \in Finished
    BY <1>0, FinishedStays DEF VerdictHolds
  <2>3. QED
    BY <2>1, <2>2, <1>2, <1>3 DEF VerdictHolds
<1>4. CASE Begin
  BY <1>4 DEF Begin, VerdictHolds
<1>5. CASE End /\ over' = Verdict
  <2>1. at = "closing" /\ log' = log
    BY <1>5 DEF End
  <2>2. ASSUME NEW s \in Steps, Verdict \in {"ok", "failed"}
        PROVE  log[s] = memory[s] /\ memory[s] \in Finished
    <3>1. memory[s] \notin {"cancelled", "waiting", "pending"}
      BY <2>2 DEF Verdict
    <3>2. memory[s] # "running"
      BY <2>1, <1>0 DEF PlaceInv
    <3>3. memory[s] \in Finished
      BY <3>1, <3>2, <1>0 DEF TypeOK, Statuses, Finished
    <3>4. QED
      BY <3>1, <3>3, <2>1, <1>0 DEF LogFirst
  <2>3. ASSUME NEW s \in Steps, Verdict = "ok" PROVE memory[s] \in GoodFor(s)
    <3>1. memory[s] = "failed" => s \in flow.tolerant
      BY <2>3 DEF Verdict
    <3>2. QED
      BY <3>1, <2>2, <2>3 DEF Finished, GoodFor
  <2>4. QED
    BY <2>1, <2>2, <2>3, <1>2, <1>5 DEF VerdictHolds
<1>6. CASE Resume
  BY <1>6, <1>3 DEF Resume
<1>7. QED
  BY <1>3, <1>4, <1>5, <1>6, LogSteps

-----------------------------------------------------------------------------
(* The theorems.                                                           *)

LEMMA StepInv == IInv /\ [Next]_vars => IInv'
BY TypeOKStep, LogFirstStep, PlaceStep, AbortStep, BegunStep, InOrderStep, WordStep, VerdictStep DEF IInv

\* The process's memory and the log agree as LogFirst says, the map of work holds what runs, and
\* the rest of the invariant, in every state of every run of engine.ts's loop.
THEOREM Inductive == Spec => []IInv
BY InitInv, StepInv, PTL DEF Spec

\* Every variable keeps its type.
THEOREM TypeCorrect == Spec => []TypeOK
BY Inductive, PTL DEF IInv

\* executeWorkflow's "appended to the run log first": no step is at work that the log does not
\* say is running, and a resume finds what the killed process knew.
THEOREM LogIsFirst == Spec => []LogFirst
BY Inductive, PTL DEF IInv

\* "Run workflow steps in dependency order": for every file, whatever was stopped, killed and
\* resumed, a step runs behind needs that finished well enough.
THEOREM OrderHolds == Spec => []InOrder
BY Inductive, PTL DEF IInv

\* A gate opens exactly when the first answer a person gave says so.
THEOREM WordHolds == Spec => []FirstWordStands
<1>1. IInv => FirstWordStands
  BY DEF IInv, WordInv, FirstWordStands
<1>2. QED
  BY <1>1, Inductive, PTL

\* The status executeWorkflow ends a run with tells the truth about its steps, then and later.
THEOREM VerdictIsTrue == Spec => []VerdictHolds
BY Inductive, PTL DEF IInv

\* "Completed steps are not repeated", through every crash and resume.
THEOREM NothingRepeated == Spec => CompletedNotRepeated
<1>1. IInv /\ [Next]_vars => [\A s \in Steps : log[s] \in Finished => log'[s] = log[s]]_vars
  BY FinishedStays
<1>2. QED
  BY <1>1, Inductive, PTL DEF Spec, CompletedNotRepeated

-----------------------------------------------------------------------------
(* At most the configured number of steps run at once.                     *)

LEMMA RunningIsFinite == TypeOK => IsFiniteSet(running)
<1>1. IsFiniteSet(Steps)
  BY ONLY NAssumption, FS_Interval, 1 \in Int, N \in Int DEF Steps
<1>2. QED
  BY ONLY <1>1, FS_Subset DEF TypeOK

LEMMA LimitStep == IInv /\ WithinLimit /\ [Next]_vars => WithinLimit'
<1> SUFFICES ASSUME IInv, WithinLimit, [Next]_vars PROVE WithinLimit'
  OBVIOUS
<1>0. TypeOK /\ IsFiniteSet(running) /\ Cardinality(running) \in Nat
  <2>1. TypeOK /\ IsFiniteSet(running)
    BY RunningIsFinite DEF IInv
  <2>2. QED
    BY <2>1, FS_CardinalityType
<1> USE DEF logVars, processVars
<1>1. CASE running' = running
  BY <1>1 DEF WithinLimit
<1>2. CASE running' = {}
  BY <1>2, FS_EmptySet, LimitAssumption DEF WithinLimit
<1>3. CASE StartNext
  <2>1. PICK s \in Steps : PassesOver(s) \/ Runs(s)
    BY <1>3 DEF StartNext
  <2>2. CASE running' = running \cup {s}
    <3>1. Cardinality(running \cup {s}) <= Cardinality(running) + 1
      BY <1>0, FS_AddElement
    <3>2. Cardinality(running) < Limit
      BY <1>3 DEF StartNext, Scanning, HasRoom
    <3>3. Cardinality(running \cup {s}) \in Nat
      BY <1>0, FS_AddElement, FS_CardinalityType
    <3>4. QED
      BY <2>2, <3>1, <3>2, <3>3, <1>0, LimitAssumption DEF WithinLimit
  <2>3. QED
    BY <2>1, <2>2, <1>1 DEF PassesOver, Runs
<1>4. ASSUME NEW s \in Steps, Leave(s) PROVE WithinLimit'
  <2>1. running' = running \ {s} /\ s \in running
    BY <1>4 DEF Leave
  <2>2. Cardinality(running \ {s}) = Cardinality(running) - 1
    BY <2>1, <1>0, FS_RemoveElement
  <2>3. QED
    BY <2>1, <2>2, <1>0, LimitAssumption DEF WithinLimit
<1>5. CASE End \/ Crash
  BY <1>5, <1>2 DEF End, Crash, Gone
<1>6. CASE Begin \/ Resume \/ EndPass \/ Wake \/ GiveUp \/ Abort
  BY <1>6, <1>1 DEF Begin, Resume, EndPass, Wake, GiveUp, Abort
<1>7. ASSUME NEW s \in Steps, WorkEnds(s) \/ GateEnds(s) \/ Approve(s) PROVE WithinLimit'
  BY <1>7, <1>1 DEF WorkEnds, GateEnds, Approve
<1>8. CASE UNCHANGED vars
  BY <1>8, <1>1 DEF vars
<1>9. QED
  BY <1>3, <1>4, <1>5, <1>6, <1>7, <1>8 DEF Next, Loop, Ending, Mishap

\* "At most the configured number run concurrently".
THEOREM LimitHolds == Spec => []WithinLimit
<1>1. Init => WithinLimit
  BY FS_EmptySet, LimitAssumption DEF Init, WithinLimit
<1>2. QED
  BY <1>1, LimitStep, Inductive, PTL DEF Spec

-----------------------------------------------------------------------------
(* The log of a run is one RunRecord allows.                               *)

LEMMA PromiseInit == Init => Log!Init
BY DEF Init, Log!Init, Blank

LEMMA PromiseStep == IInv /\ [Next]_vars => [Log!Next]_(Log!vars)
<1> SUFFICES ASSUME IInv, [Next]_vars PROVE [Log!Next]_(Log!vars)
  OBVIOUS
<1>0. TypeOK /\ InOrder
  BY DEF IInv
<1>1. CASE UNCHANGED <<flow, log>>
  BY <1>1 DEF Log!vars
<1>2. CASE Begin
  BY <1>2, <1>1 DEF Begin
<1>3. CASE Resume
  <2> DEFINE S  == {s \in Steps : IsAnswered(s)}
             st == [s \in S |-> Replayed(s)]
  <2>1. /\ S \in SUBSET Steps /\ UNCHANGED flow
        /\ \A s \in S : log[s] = "waiting"
    BY <1>3 DEF Resume, IsAnswered
  <2>2. st \in [S -> {"ok", "failed"}]
    BY DEF Replayed
  <2>3. log' = [s \in Steps |-> IF s \in S THEN st[s] ELSE log[s]]
    BY <1>3 DEF Resume, Replayed
  <2>4. Log!Answered(S)
    BY <2>1, <2>2, <2>3 DEF Log!Answered
  <2>5. QED
    BY <2>1, <2>4 DEF Log!Next
<1>4. CASE \E s \in Steps, st \in Statuses : Line(s, st)
  <2>1. PICK s \in Steps, st \in Statuses : Line(s, st)
    BY <1>4
  <2>2. /\ log' = [log EXCEPT ![s] = st] /\ UNCHANGED flow
        /\ log[s] \in {"pending", "running", "cancelled"}
        /\ memory[s] = "running" => log[s] = "running"
    BY <2>1, Unsettled DEF Line, Record
  <2>3. CASE st \in {"failed", "skipped", "cancelled"} /\ log[s] \in {"pending", "running", "cancelled"}
    <3>1. Log!PassOver(s)
      BY <2>2, <2>3 DEF Log!PassOver
    <3>2. QED
      BY <3>1, <2>2 DEF Log!Next
  <2>4. CASE Scanning /\ s \in Ahead /\ Runs(s) /\ st = "running"
    <3>1. \A n \in flow.needs[s] : log[n] \in GoodFor(s)
      BY <2>4, NeedsAreGood DEF Runs
    <3>2. Log!Start(s)
      BY <2>2, <2>4, <3>1 DEF Log!Start, Log!InOrder, Log!GoodFor, GoodFor
    <3>3. QED
      BY <3>2, <2>2 DEF Log!Next
  <2>5. CASE memory[s] = "running" /\ st \in {"ok", "waiting"}
    <3>1. log[s] = "running"
      BY <2>2, <2>5
    <3>2. \A n \in flow.needs[s] : log[n] \in GoodFor(s)
      BY <3>1, <1>0 DEF InOrder
    <3>3. Log!Finish(s)
      BY <2>2, <2>5, <3>1, <3>2 DEF Log!Finish, Log!InOrder, Log!GoodFor, GoodFor
    <3>4. QED
      BY <3>3, <2>2 DEF Log!Next
  <2>6. QED
    BY <2>1, <2>2, <2>3, <2>4, <2>5 DEF Line, WorkEnds, GateEnds
<1>5. QED
  BY <1>1, <1>2, <1>3, <1>4, LogSteps

\* "Record every step transition, and resume an interrupted run at its first unfinished step":
\* what the engine writes, through every stop, crash and resume, is a record RunRecord allows.
THEOREM PromiseKept == Spec => KeepsPromise
BY Inductive, PromiseInit, PromiseStep, PTL DEF Spec, KeepsPromise, Log!Spec

-----------------------------------------------------------------------------
(* The session of an editor (AcpServer): for any prompts, commands, wakes and *)
(* asks, one piece of work runs at a time, and the editor is asked each      *)
(* question once.                                                            *)

CONSTANTS Texts, Listing, Choosers, Sends, Exits, Wakes, Lists, Asks
VARIABLES came, lane, current, turns, sends, work, pending, lists, registered, ask, before, behind, asking, askedBy

Acp == INSTANCE AcpServer

(* What runs is of the work at the head of the lane: its turn, and, if it is  *)
(* a command, what the command reads, applies and sends.                      *)
LaneInv ==
  /\ lane \in Seq(Acp!Prompts \cup Wakes) /\ current \in Acp!Prompts \cup Wakes \cup {Acp!Nothing}
  /\ turns \subseteq {current}
  /\ current = Acp!Nothing => turns = {}
  /\ current \notin Acp!Commands => work = {} /\ ~ sends
  /\ current \in turns /\ current \in Acp!Commands => sends

(* Nothing is asked, and nothing runs.                                        *)
LEMMA NoPromptInv == ASSUME Acp!KindsApart PROVE Acp!Init => LaneInv
<1> SUFFICES ASSUME Acp!Init PROVE LaneInv
  OBVIOUS
<1>1. Acp!Nothing \notin Acp!Commands
  BY DEF Acp!KindsApart, Acp!Commands
<1>2. QED
  BY <1>1 DEF Acp!Init, LaneInv

(* The work at the head of the lane begins.                                   *)
LEMMA BeginInv == ASSUME Acp!KindsApart, LaneInv, Acp!Begin PROVE LaneInv'
<1> DEFINE x == Head(lane)
<1>1. /\ x \in Acp!Prompts \cup Wakes /\ lane' = Tail(lane) /\ lane' \in Seq(Acp!Prompts \cup Wakes)
      /\ current = Acp!Nothing /\ turns = {}
      /\ current' = (IF x \in Wakes /\ ~ registered THEN Acp!Nothing ELSE x)
      /\ turns' = (IF x \in Texts \/ (x \in Wakes /\ registered) THEN turns \cup {x} ELSE turns)
  BY DEF Acp!Begin, Acp!Busy, LaneInv
<1>2. work = {} /\ ~ sends
  BY <1>1 DEF LaneInv, Acp!KindsApart, Acp!Commands
<1> HIDE DEF x
<1>3. CASE x \in Acp!Commands
  <2>1. x \notin Texts /\ x \in Acp!Prompts /\ x \notin Wakes /\ x # Acp!Nothing
    BY <1>3 DEF Acp!Commands, Acp!KindsApart
  <2>2. QED
    BY <1>1, <1>3, <2>1 DEF LaneInv
<1>4. CASE x \notin Acp!Commands
  <2>1. UNCHANGED Acp!host
    BY <1>4 DEF Acp!Begin, x
  <2>2. work' = {} /\ sends' = FALSE
    BY <1>2, <2>1 DEF Acp!host, LaneInv
  <2>3. current' \notin Acp!Commands
    BY <1>1, <1>4 DEF Acp!KindsApart, Acp!Commands
  <2>4. turns' \subseteq {current'} /\ (current' = Acp!Nothing => turns' = {})
    BY <1>1, <1>4 DEF Acp!KindsApart, Acp!Prompts
  <2>5. QED
    BY <1>1, <2>2, <2>3, <2>4 DEF LaneInv
<1>5. QED
  BY <1>3, <1>4

(* Whatever the editor, a person or a turn does next.                         *)
LEMMA EditorsInv == ASSUME Acp!KindsApart PROVE LaneInv /\ [Acp!Next]_(Acp!vars) => LaneInv'
<1> SUFFICES ASSUME LaneInv, [Acp!Next]_(Acp!vars) PROVE LaneInv'
  OBVIOUS
<1>1. CASE Acp!Arrives
  <2>1. UNCHANGED <<current, turns, sends, work>> /\ lane' \in Seq(Acp!Prompts \cup Wakes)
    BY <1>1 DEF Acp!Arrives, Acp!host, LaneInv
  <2>2. QED
    BY <2>1 DEF LaneInv
<1>2. CASE Acp!SentTurn
  BY <1>2 DEF Acp!SentTurn, Acp!host, LaneInv, Acp!KindsApart, Acp!Commands
<1>3. CASE Acp!ListRead
  BY <1>3 DEF Acp!ListRead, LaneInv
<1>4. CASE Acp!Chosen
  <2>1. /\ UNCHANGED <<lane, current, turns>> /\ work # {} /\ (sends' = TRUE \/ UNCHANGED sends)
    BY <1>4 DEF Acp!Chosen
  <2>2. QED
    BY <2>1 DEF LaneInv
<1>5. CASE Acp!Ends
  BY <1>5 DEF Acp!Ends, Acp!Settled, Acp!host, LaneInv, Acp!KindsApart, Acp!Commands
<1>6. CASE Acp!TurnEnds
  BY <1>6 DEF Acp!TurnEnds, LaneInv
<1>7. CASE Acp!AskArrives \/ Acp!EditorAnswers \/ Acp!LooksAgain \/ UNCHANGED Acp!vars
  BY <1>7 DEF Acp!AskArrives, Acp!EditorAnswers, Acp!LooksAgain, Acp!vars, Acp!host, LaneInv
<1>8. QED
  BY <1>1, <1>2, <1>3, <1>4, <1>5, <1>6, <1>7, BeginInv DEF Acp!Next

(* Whatever prompts, commands, choices and wakes come, in whatever order,     *)
(* what runs is of the one at the head of the lane, and nothing it started    *)
(* runs once it is answered (server.ts inLane, host.ts settled).              *)
THEOREM LaneHolds == ASSUME Acp!KindsApart PROVE Acp!Spec => []Acp!OneAtATime
<1>1. LaneInv => Acp!OneAtATime
  BY DEF LaneInv, Acp!OneAtATime, Acp!KindsApart, Acp!Commands
<1>2. QED
  BY <1>1, NoPromptInv, EditorsInv, PTL DEF Acp!Spec

(* An ask that waits is of the turn that runs, which waits for an answer of   *)
(* the editor's; and the one it is behind is with the editor.                 *)
AskInv ==
  /\ DOMAIN ask = Asks /\ DOMAIN behind = Asks /\ DOMAIN askedBy = Asks
  /\ DOMAIN asking = Acp!Prompts \cup Wakes
  /\ before \subseteq Asks
  /\ \A x \in Acp!Prompts \cup Wakes : asking[x] # Acp!Nothing => asking[x] \in before
  /\ \A a \in Asks : ask[a] = "waits" =>
       /\ askedBy[a] \in turns /\ asking[askedBy[a]] # Acp!Nothing
       /\ behind[a] # Acp!Nothing => behind[a] \in before
  /\ \A a \in Asks : ask[a] = "none" => behind[a] = Acp!Nothing

(* A new ask is behind the one its call waits for, or goes to the editor.     *)
LEMMA AskArrivesInv == ASSUME Acp!KindsApart, LaneInv, AskInv, Acp!AskArrives PROVE AskInv' /\ Acp!AsksOnce
<1>1. PICK a \in Asks, t \in turns :
       /\ ask[a] = "none" /\ ask' = [ask EXCEPT ![a] = "waits"] /\ askedBy' = [askedBy EXCEPT ![a] = t]
       /\ IF asking[t] # Acp!Nothing
          THEN behind' = [behind EXCEPT ![a] = asking[t]] /\ UNCHANGED <<before, asking>>
          ELSE before' = before \cup {a} /\ asking' = [asking EXCEPT ![t] = a] /\ UNCHANGED behind
  BY DEF Acp!AskArrives
<1>2. t \in Acp!Prompts \cup Wakes /\ t = current /\ turns' = turns /\ a # Acp!Nothing /\ a \notin {Acp!Nothing}
  BY <1>1 DEF LaneInv, Acp!KindsApart, Acp!AskArrives
<1>3. CASE asking[t] # Acp!Nothing
  <2>1. asking[t] \in before
    BY <1>2, <1>3 DEF AskInv
  <2>2. /\ behind' = [behind EXCEPT ![a] = asking[t]] /\ before' = before /\ asking' = asking
    BY <1>1, <1>3
  <2>3. \A b \in Asks : ask'[b] = "waits" => /\ askedBy'[b] \in turns /\ asking[askedBy'[b]] # Acp!Nothing
                                             /\ behind'[b] # Acp!Nothing => behind'[b] \in before
    BY <1>1, <1>3, <2>1, <2>2 DEF AskInv
  <2>4. \A b \in Asks : ask'[b] = "none" => behind'[b] = Acp!Nothing
    BY <1>1, <2>2 DEF AskInv
  <2>5. QED
    BY <1>1, <1>2, <2>2, <2>3, <2>4 DEF AskInv, Acp!AsksOnce
<1>4. CASE asking[t] = Acp!Nothing
  <2>1. \A b \in Asks : ask[b] # "waits"
    BY <1>2, <1>4 DEF AskInv, LaneInv
  <2>2. /\ before' = before \cup {a} /\ asking' = [asking EXCEPT ![t] = a] /\ behind' = behind
    BY <1>1, <1>4
  <2>3. \A b \in Asks \ {a} : ask'[b] # "waits"
    BY <1>1, <2>1 DEF AskInv
  <2>4. behind[a] = Acp!Nothing /\ ask'[a] = "waits" /\ a \in before'
    BY <1>1, <2>2 DEF AskInv
  <2>5. AskInv'
    BY <1>1, <1>2, <2>2, <2>3, <2>4 DEF AskInv
  <2>6. Acp!AsksOnce
    BY <2>2, <2>3, <2>4 DEF Acp!AsksOnce, AskInv
  <2>7. QED
    BY <2>5, <2>6
<1>5. QED
  BY <1>3, <1>4

(* An answer is given to every ask that waits.                                *)
LEMMA EditorAnswersInv == ASSUME AskInv, Acp!EditorAnswers PROVE AskInv' /\ Acp!AsksOnce
<1>1. PICK a \in before :
       /\ before' = before \ {a} /\ ask' = [b \in Asks |-> IF ask[b] = "waits" THEN "answered" ELSE ask[b]]
       /\ asking' = [x \in DOMAIN asking |-> IF asking[x] = a THEN Acp!Nothing ELSE asking[x]]
  BY DEF Acp!EditorAnswers
<1>2. UNCHANGED <<behind, askedBy, turns>>
  BY DEF Acp!EditorAnswers
<1>3. \A b \in Asks : ask'[b] # "waits" /\ (ask'[b] = "none" => ask[b] = "none")
  BY <1>1
<1>4. \A x \in Acp!Prompts \cup Wakes : asking'[x] # Acp!Nothing => asking'[x] \in before'
  BY <1>1 DEF AskInv
<1>5. QED
  BY <1>1, <1>2, <1>3, <1>4 DEF AskInv, Acp!AsksOnce

(* One that waited behind an ask is put to the editor only once its turn is   *)
(* over: it does not wait any more.                                           *)
LEMMA LooksAgainInv == ASSUME Acp!KindsApart, AskInv, LaneInv, Acp!LooksAgain PROVE AskInv' /\ Acp!AsksOnce
<1>1. PICK a \in Asks :
       /\ behind[a] # Acp!Nothing /\ behind[a] \notin before /\ behind' = [behind EXCEPT ![a] = Acp!Nothing]
       /\ IF Acp!SettledMeanwhile(a) THEN UNCHANGED <<before, asking>>
          ELSE before' = before \cup {a} /\ asking' = [asking EXCEPT ![askedBy[a]] = a]
  BY DEF Acp!LooksAgain
<1>2. UNCHANGED <<ask, askedBy, turns>>
  BY DEF Acp!LooksAgain
<1>3. ask[a] # "waits" /\ a # Acp!Nothing
  BY <1>1 DEF AskInv, Acp!KindsApart
<1>4. \A x \in Acp!Prompts \cup Wakes : asking'[x] # Acp!Nothing => asking'[x] \in before'
  BY <1>1 DEF AskInv
<1>5. /\ DOMAIN behind' = Asks /\ DOMAIN asking' = Acp!Prompts \cup Wakes /\ before \subseteq before' /\ before' \subseteq Asks
      /\ \A x \in Acp!Prompts \cup Wakes : asking[x] # Acp!Nothing => asking'[x] # Acp!Nothing
      /\ \A b \in Asks : behind'[b] = behind[b] \/ behind'[b] = Acp!Nothing
  BY <1>1, <1>3 DEF AskInv
<1>6. AskInv'
  <2>1. turns \subseteq Acp!Prompts \cup Wakes
    <3>1. turns \subseteq {current} /\ current \in Acp!Prompts \cup Wakes \cup {Acp!Nothing} /\ (current = Acp!Nothing => turns = {})
      BY DEF LaneInv
    <3>2. QED
      BY <3>1
  <2>2. QED
    BY <1>2, <1>4, <1>5, <2>1 DEF AskInv
<1>7. Acp!AsksOnce
  BY <1>1, <1>2, <1>3 DEF Acp!AsksOnce, Acp!SettledMeanwhile
<1>8. QED
  BY <1>6, <1>7

(* What a step does with the asks, while it is one piece of work that runs.   *)
LEMMA AskNextInv ==
  ASSUME Acp!KindsApart
  PROVE  LaneInv /\ AskInv /\ [Acp!Next]_(Acp!vars) => AskInv' /\ [Acp!AsksOnce]_(Acp!vars)
<1> SUFFICES ASSUME LaneInv, AskInv, [Acp!Next]_(Acp!vars) PROVE AskInv' /\ [Acp!AsksOnce]_(Acp!vars)
  OBVIOUS
<1>1. CASE Acp!Arrives \/ Acp!Begin \/ Acp!SentTurn \/ Acp!ListRead \/ Acp!Chosen \/ Acp!Ends \/ UNCHANGED Acp!vars
  <2>1. UNCHANGED Acp!editor /\ turns \subseteq turns'
    BY <1>1 DEF Acp!Arrives, Acp!Begin, Acp!SentTurn, Acp!ListRead, Acp!Chosen, Acp!Ends, Acp!vars
  <2>2. QED
    BY <2>1 DEF Acp!editor, AskInv, Acp!AsksOnce
<1>2. CASE Acp!TurnEnds
  <2>1. UNCHANGED <<before, behind, asking, askedBy>>
    BY <1>2 DEF Acp!TurnEnds
  <2>2. ask' = [a \in Asks |-> IF ask[a] = "waits" THEN "cancelled" ELSE ask[a]]
    BY <1>2 DEF Acp!TurnEnds
  <2>3. \A a \in Asks : ask'[a] # "waits" /\ (ask'[a] = "none" => ask[a] = "none")
    BY <2>2
  <2>4. QED
    BY <2>1, <2>2, <2>3 DEF AskInv, Acp!AsksOnce
<1>3. QED
  BY <1>1, <1>2, AskArrivesInv, EditorAnswersInv, LooksAgainInv DEF Acp!Next

(* A call asked by several children is put to the editor once at a time,      *)
(* whatever is answered, cancelled or asked again meanwhile (server.ts        *)
(* askOnce).                                                                  *)
THEOREM AsksHold == ASSUME Acp!KindsApart PROVE Acp!Spec => [][Acp!AsksOnce]_(Acp!vars)
<1>1. Acp!Init => AskInv
  <2> SUFFICES ASSUME Acp!Init PROVE AskInv
    OBVIOUS
  <2>1. /\ ask = [a \in Asks |-> "none"] /\ behind = [a \in Asks |-> Acp!Nothing] /\ before = {}
        /\ asking = [x \in Acp!Prompts \cup Wakes |-> Acp!Nothing] /\ askedBy = [a \in Asks |-> Acp!Nothing]
    BY DEF Acp!Init
  <2>2. QED
    BY <2>1 DEF AskInv
<1>2. LaneInv /\ AskInv /\ [Acp!Next]_(Acp!vars) => LaneInv' /\ AskInv' /\ [Acp!AsksOnce]_(Acp!vars)
  BY EditorsInv, AskNextInv
<1>3. QED
  BY <1>1, <1>2, NoPromptInv, PTL DEF Acp!Spec

-----------------------------------------------------------------------------
(* Delegations to other agents (Delegates): for any calls, moments and       *)
(* updates, every agent is told to end, and a result is all its agent said.  *)

CONSTANTS Calls, Stamps, MaxSaid
VARIABLES stage, how, agent, said, heard, outcome, cut, asked, id, kept, output, given

Del == INSTANCE Delegates WITH running <- kept, aborted <- cut

Words == {"running", "ok", "error", "cancelled"}
Records == [of : Calls, status : Words, response : Seq(Del!Updates)]

DelegationsTyped ==
  /\ stage \in [Calls -> Del!Stages] /\ how \in [Calls -> {"none", "turn", "background"}]
  /\ agent \in [Calls -> {"none", "live", "told", "gone"}]
  /\ said \in [Calls -> Seq(Del!Updates)] /\ heard \in [Calls -> Seq(Del!Updates)]
  /\ outcome \in [Calls -> {"none", "answered", "failed"}]
  /\ id \in [Calls -> Stamps \cup {Del!Before}]
  /\ kept \in [Stamps -> Records \cup {Del!Nobody}] /\ output \in [Stamps -> Seq(Del!Updates)]
  /\ DOMAIN given = Calls

(* Of one delegation: its agent, and that nothing is heard that was not said. *)
EachInv(c) ==
  /\ stage[c] = "none" => how[c] = "none" /\ agent[c] = "none" /\ said[c] = <<>> /\ given[c] = <<>>
  /\ stage[c] # "none" => agent[c] # "none"
  /\ stage[c] \in {"stopping", "ended"} => agent[c] \in {"told", "gone"}
  /\ said[c] = <<>> => heard[c] = <<>>
  /\ Del!InBackground(c) => id[c] \in Stamps

(* A record is of the delegation that has its name.                           *)
OfInv == \A s \in Stamps : kept[s] # Del!Nobody => Del!InBackground(kept[s].of) /\ id[kept[s].of] = s

(* Of a delegation in the background with a name no other has: its record     *)
(* holds what its agent streamed, until it is given, which is the last of it. *)
Only(c) == Del!InBackground(c) /\ \A d \in Calls \ {c} : Del!InBackground(d) => id[d] # id[c]
RecordInv(c) ==
  /\ kept[id[c]] # Del!Nobody =>
       /\ kept[id[c]].of = c /\ output[id[c]] = said[c]
       /\ kept[id[c]].status = "ok" => stage[c] = "ended" /\ kept[id[c]].response = heard[c]
       /\ given[c] = <<>>
  /\ given[c] # <<>> /\ given[c].status = "ok" => stage[c] = "ended" /\ given[c].text = said[c]

DelInv ==
  /\ DelegationsTyped /\ OfInv
  /\ \A c \in Calls : EachInv(c) /\ (Only(c) => RecordInv(c))

(* Nothing is delegated.                                                      *)
LEMMA NoDelegationInv == Del!Init => DelInv
<1> SUFFICES ASSUME Del!Init PROVE DelInv
  OBVIOUS
<1>1. DelegationsTyped
  BY DEF Del!Init, DelegationsTyped, Del!Stages
<1>2. OfInv
  BY DEF Del!Init, OfInv
<1>3. \A c \in Calls : EachInv(c) /\ ~ Del!InBackground(c)
  BY DEF Del!Init, EachInv, Del!InBackground
<1>4. QED
  BY <1>1, <1>2, <1>3 DEF DelInv, Only

(* A step of one delegation that leaves the records alone.                    *)
LEMMA AloneInv ==
  ASSUME DelInv, NEW c \in Calls, DelegationsTyped', UNCHANGED <<Del!records, said, heard>>,
         \A d \in Calls \ {c} : stage'[d] = stage[d] /\ how'[d] = how[d] /\ agent'[d] = agent[d],
         how[c] # "none" => how'[c] = how[c], how'[c] # "background" \/ how'[c] = how[c],
         stage'[c] # "none", agent'[c] # "none",
         stage[c] = "ended" => stage'[c] = "ended",
         stage'[c] \in {"stopping", "ended"} => agent'[c] \in {"told", "gone"}
  PROVE  DelInv'
<1>1. UNCHANGED <<id, kept, output, given, said, heard>>
  BY DEF Del!records
<1>2. \A d \in Calls : Del!InBackground(d)' <=> Del!InBackground(d)
  BY DEF Del!InBackground, DelInv, EachInv
<1>3. OfInv'
  <2>1. ASSUME NEW s \in Stamps, kept[s] # Del!Nobody PROVE kept[s].of \in Calls
    BY <2>1 DEF DelInv, DelegationsTyped, Records
  <2>2. QED
    BY <1>1, <1>2, <2>1 DEF DelInv, OfInv
<1>4. ASSUME NEW d \in Calls PROVE EachInv(d)'
  BY <1>1, <1>2 DEF DelInv, EachInv
<1>5. ASSUME NEW d \in Calls, Only(d)' PROVE RecordInv(d)'
  <2>1. Only(d)
    BY <1>1, <1>2, <1>5 DEF Only
  <2>2. QED
    BY <1>1, <2>1 DEF DelInv, RecordInv
<1>6. QED
  BY <1>3, <1>4, <1>5 DEF DelInv

(* In the turn: a delegation no record is kept of.                            *)
LEMMA DelegatesInv == ASSUME DelInv, NEW c \in Calls, Del!Delegates(c) PROVE DelInv'
<1>1. stage[c] = "none" /\ how[c] = "none"
  BY DEF Del!Delegates, DelInv, EachInv
<1>2. DelegationsTyped'
  BY DEF Del!Delegates, DelInv, DelegationsTyped, Del!Stages, Del!records
<1>3. QED
  BY <1>1, <1>2, AloneInv DEF Del!Delegates, DelInv, DelegationsTyped

(* In the background: a delegation of the same name is no longer the only one.*)
LEMMA BesideInv == ASSUME DelInv, NEW c \in Calls, Del!DelegatesBeside(c) PROVE DelInv'
<1>1. PICK s \in Stamps :
        /\ id' = [id EXCEPT ![c] = s]
        /\ kept' = [kept EXCEPT ![s] = [of |-> c, status |-> "running", response |-> <<>>]]
        /\ output' = [output EXCEPT ![s] = <<>>]
  BY DEF Del!DelegatesBeside, Del!Now
<1>2. /\ stage[c] = "none" /\ how[c] = "none" /\ said[c] = <<>> /\ given[c] = <<>> /\ heard[c] = <<>>
      /\ UNCHANGED <<said, heard, outcome, given>>
      /\ stage' = [stage EXCEPT ![c] = "starting"] /\ how' = [how EXCEPT ![c] = "background"]
      /\ agent' = [agent EXCEPT ![c] = "live"]
  BY DEF Del!DelegatesBeside, DelInv, EachInv
<1> DEFINE r == [of |-> c, status |-> "running", response |-> <<>>]
<1>3. r \in Records /\ r.of = c /\ r.status = "running"
  BY DEF Records, Words
<1> HIDE DEF r
<1>4. DelegationsTyped'
  <2>1. kept' = [kept EXCEPT ![s] = r]
    BY <1>1 DEF r
  <2>2. stage' \in [Calls -> Del!Stages] /\ how' \in [Calls -> {"none", "turn", "background"}]
        /\ agent' \in [Calls -> {"none", "live", "told", "gone"}]
    BY <1>2 DEF DelInv, DelegationsTyped, Del!Stages
  <2>3. id' \in [Calls -> Stamps \cup {Del!Before}] /\ output' \in [Stamps -> Seq(Del!Updates)]
    BY <1>1 DEF DelInv, DelegationsTyped
  <2>4. kept' \in [Stamps -> Records \cup {Del!Nobody}]
    BY <1>3, <2>1 DEF DelInv, DelegationsTyped
  <2>5. QED
    BY <1>2, <2>2, <2>3, <2>4 DEF DelInv, DelegationsTyped
<1>5. /\ \A d \in Calls \ {c} : /\ Del!InBackground(d)' <=> Del!InBackground(d)
                                /\ id'[d] = id[d] /\ stage'[d] = stage[d] /\ how'[d] = how[d] /\ agent'[d] = agent[d]
      /\ Del!InBackground(c)' /\ id'[c] = s /\ kept'[s] = r /\ output'[s] = <<>> /\ stage'[c] = "starting"
      /\ agent'[c] = "live" /\ ~ Del!InBackground(c)
      /\ \A t \in Stamps \ {s} : kept'[t] = kept[t] /\ output'[t] = output[t]
  BY <1>1, <1>2 DEF DelInv, DelegationsTyped, Del!InBackground, r
<1>6. OfInv'
  <2>1. ASSUME NEW t \in Stamps \ {s}, kept[t] # Del!Nobody PROVE kept[t].of \in Calls \ {c}
    BY <1>5, <2>1 DEF DelInv, DelegationsTyped, Records, OfInv
  <2>2. QED
    BY <1>3, <1>5, <2>1 DEF DelInv, OfInv
<1>7. ASSUME NEW d \in Calls PROVE EachInv(d)'
  BY <1>2, <1>5 DEF DelInv, EachInv
<1>8. ASSUME NEW d \in Calls, Only(d)' PROVE RecordInv(d)'
  <2>1. CASE d = c
    BY <1>2, <1>3, <1>5, <2>1 DEF RecordInv
  <2>2. CASE d # c
    <3>1. Only(d) /\ id[d] # s /\ id[d] \in Stamps
      BY <1>5, <1>8, <2>2 DEF Only, DelInv, EachInv
    <3>2. QED
      BY <1>2, <1>5, <2>2, <3>1 DEF DelInv, RecordInv
  <2>3. QED
    BY <2>1, <2>2
<1>9. QED
  BY <1>4, <1>6, <1>7, <1>8 DEF DelInv

(* The agent is heard: under the only one of a name, its own text grows.      *)
LEMMA StreamsInv == ASSUME DelInv, NEW c \in Calls, NEW u \in Del!Updates, Del!Streams(c, u) PROVE DelInv'
<1>1. /\ stage[c] = "prompting" /\ UNCHANGED <<stage, how, agent, outcome, id, kept, given>>
      /\ said' = [said EXCEPT ![c] = Append(said[c], u)]
      /\ heard' = [heard EXCEPT ![c] = IF u = "message" THEN Append(heard[c], u) ELSE heard[c]]
      /\ output' = IF Del!InBackground(c) THEN [output EXCEPT ![id[c]] = Append(output[id[c]], u)] ELSE output
  BY DEF Del!Streams
<1>2. /\ said[c] \in Seq(Del!Updates) /\ heard[c] \in Seq(Del!Updates) /\ Append(said[c], u) \in Seq(Del!Updates)
      /\ Append(heard[c], u) \in Seq(Del!Updates) /\ Append(said[c], u) # <<>>
      /\ Del!InBackground(c) => id[c] \in Stamps /\ Append(output[id[c]], u) \in Seq(Del!Updates)
  <2>1. said[c] \in Seq(Del!Updates) /\ heard[c] \in Seq(Del!Updates)
    BY DEF DelInv, DelegationsTyped
  <2>2. Del!InBackground(c) => id[c] \in Stamps /\ output[id[c]] \in Seq(Del!Updates)
    BY DEF DelInv, DelegationsTyped, EachInv
  <2>3. ASSUME NEW q \in Seq(Del!Updates) PROVE Append(q, u) \in Seq(Del!Updates) /\ Append(q, u) # <<>>
    <3>1. Append(q, u) \in Seq(Del!Updates) /\ Len(Append(q, u)) = Len(q) + 1 /\ Len(q) \in Nat
      OBVIOUS
    <3>2. Len(<<>>) = 0
      OBVIOUS
    <3>3. QED
      BY <3>1, <3>2
  <2>4. QED
    BY <2>1, <2>2, <2>3
<1>3. DelegationsTyped'
  <2>1. said' \in [Calls -> Seq(Del!Updates)] /\ heard' \in [Calls -> Seq(Del!Updates)] /\ output' \in [Stamps -> Seq(Del!Updates)]
    BY <1>1, <1>2 DEF DelInv, DelegationsTyped
  <2>2. QED
    BY <1>1, <2>1 DEF DelInv, DelegationsTyped
<1>4. /\ \A d \in Calls \ {c} : said'[d] = said[d] /\ heard'[d] = heard[d]
      /\ said'[c] = Append(said[c], u)
      /\ \A d \in Calls : Del!InBackground(d)' <=> Del!InBackground(d)
      /\ Del!InBackground(c) => output'[id[c]] = Append(output[id[c]], u)
      /\ \A s \in Stamps : output'[s] = output[s] \/ (Del!InBackground(c) /\ s = id[c])
  BY <1>1, <1>2 DEF DelInv, DelegationsTyped, Del!InBackground
<1>5. OfInv'
  <2>1. ASSUME NEW s \in Stamps, kept[s] # Del!Nobody PROVE kept[s].of \in Calls
    BY <2>1 DEF DelInv, DelegationsTyped, Records
  <2>2. QED
    BY <1>1, <1>4, <2>1 DEF DelInv, OfInv
<1>6. ASSUME NEW d \in Calls PROVE EachInv(d)'
  BY <1>1, <1>2, <1>4 DEF DelInv, EachInv
<1>7. ASSUME NEW d \in Calls, Only(d)' PROVE RecordInv(d)'
  <2>1. Only(d) /\ id[d] \in Stamps /\ RecordInv(d)
    BY <1>1, <1>4, <1>7 DEF Only, DelInv, EachInv
  <2>2. CASE d = c
    BY <1>1, <1>4, <2>1, <2>2 DEF RecordInv, Only
  <2>3. CASE d # c
    <3>1. output'[id[d]] = output[id[d]]
      BY <1>4, <2>1, <2>3 DEF Only
    <3>2. QED
      BY <1>1, <1>4, <2>1, <2>3, <3>1 DEF RecordInv
  <2>4. QED
    BY <2>2, <2>3
<1>8. QED
  BY <1>3, <1>5, <1>6, <1>7 DEF DelInv

(* What settles is of the one that has the name; it says all its agent did.   *)
LEMMA SettlesInv == ASSUME DelInv, NEW c \in Calls, Del!Settles(c) PROVE DelInv'
<1>1. CASE ~ (Del!InBackground(c) /\ kept[id[c]] # Del!Nobody)
  <2>1. /\ UNCHANGED <<how, agent, said, heard, outcome, id, kept, output, given>> /\ stage[c] = "stopping"
        /\ stage' = [stage EXCEPT ![c] = "ended"]
    BY <1>1 DEF Del!Settles
  <2>2. DelegationsTyped'
    BY <2>1 DEF DelInv, DelegationsTyped, Del!Stages
  <2>3. QED
    BY <2>1, <2>2, AloneInv DEF Del!records, DelInv, DelegationsTyped, EachInv
<1>2. CASE Del!InBackground(c) /\ kept[id[c]] # Del!Nobody
  <2> DEFINE s == id[c]
             r == [kept[s] EXCEPT !.status = Del!StatusOf(c),
                                     !.response = IF outcome[c] = "answered" THEN heard[c] ELSE kept[s].response]
  <2>1. /\ s \in Stamps /\ kept[s] \in Records /\ heard[c] \in Seq(Del!Updates) /\ Del!StatusOf(c) \in Words
        /\ Del!StatusOf(c) = "ok" => outcome[c] = "answered"
    BY <1>2 DEF DelInv, DelegationsTyped, EachInv, Del!StatusOf, Words
  <2>2. r \in Records /\ r.of = kept[s].of /\ (r.status = "ok" => r.response = heard[c])
    BY <2>1 DEF Records
  <2>3. kept' = [kept EXCEPT ![s] = r]
    BY <1>2, <2>1 DEF Del!Settles, Records
  <2>4. /\ UNCHANGED <<how, agent, said, heard, outcome, id, output, given>> /\ stage[c] = "stopping"
        /\ stage' = [stage EXCEPT ![c] = "ended"]
    BY DEF Del!Settles
  <2> HIDE DEF r
  <2>5. DelegationsTyped'
    <3>1. kept' \in [Stamps -> Records \cup {Del!Nobody}] /\ stage' \in [Calls -> Del!Stages]
      BY <2>2, <2>3, <2>4 DEF DelInv, DelegationsTyped, Del!Stages
    <3>2. QED
      BY <2>4, <3>1 DEF DelInv, DelegationsTyped
  <2>6. /\ kept'[s] = r /\ \A t \in Stamps \ {s} : kept'[t] = kept[t]
        /\ stage'[c] = "ended" /\ \A d \in Calls \ {c} : stage'[d] = stage[d]
        /\ \A d \in Calls : Del!InBackground(d)' <=> Del!InBackground(d)
    BY <2>1, <2>3, <2>4 DEF DelInv, DelegationsTyped, Del!InBackground
  <2>7. OfInv'
    <3>1. \A t \in Stamps : kept[t] # Del!Nobody => kept[t].of \in Calls
      BY DEF DelInv, DelegationsTyped, Records
    <3>2. QED
      BY <1>2, <2>1, <2>2, <2>4, <2>6, <3>1 DEF DelInv, OfInv
  <2>8. ASSUME NEW d \in Calls PROVE EachInv(d)'
    BY <2>4, <2>6 DEF DelInv, EachInv
  <2>9. ASSUME NEW d \in Calls, Only(d)' PROVE RecordInv(d)'
    <3>1. Only(d) /\ id[d] \in Stamps /\ RecordInv(d)
      BY <2>4, <2>6, <2>9 DEF Only, DelInv, EachInv
    <3>2. CASE d = c
      BY <1>2, <2>2, <2>4, <2>6, <3>1, <3>2 DEF RecordInv
    <3>3. CASE d # c
      <4>1. id[d] # s
        BY <1>2, <3>1, <3>3 DEF Only
      <4>2. QED
        BY <2>4, <2>6, <3>1, <3>3, <4>1 DEF RecordInv
    <3>4. QED
      BY <3>2, <3>3
  <2>10. QED
    BY <2>5, <2>7, <2>8, <2>9 DEF DelInv
<1>3. QED
  BY <1>1, <1>2

(* A record changes to cancelled, or is given and goes.                       *)
LEMMA CancelInv == ASSUME DelInv, NEW s \in Stamps, Del!DelegateCancel(s) PROVE DelInv'
<1> DEFINE r == [kept[s] EXCEPT !.status = "cancelled"]
<1>1. kept[s] # Del!Nobody /\ kept[s] \in Records
  BY DEF Del!DelegateCancel, DelInv, DelegationsTyped
<1>2. /\ UNCHANGED <<stage, how, agent, said, heard, outcome, id, output, given>>
      /\ kept' = [kept EXCEPT ![s] = r]
  BY DEF Del!DelegateCancel
<1>3. r \in Records /\ r.of = kept[s].of /\ r.status = "cancelled"
  BY <1>1 DEF Records, Words
<1> HIDE DEF r
<1>4. DelegationsTyped' /\ kept'[s] = r /\ \A t \in Stamps \ {s} : kept'[t] = kept[t]
  <2>1. kept' \in [Stamps -> Records \cup {Del!Nobody}] /\ kept'[s] = r
        /\ \A t \in Stamps \ {s} : kept'[t] = kept[t]
    BY <1>2, <1>3 DEF DelInv, DelegationsTyped
  <2>2. QED
    BY <1>2, <2>1 DEF DelInv, DelegationsTyped
<1>5. \A d \in Calls : Del!InBackground(d)' <=> Del!InBackground(d)
  BY <1>2 DEF Del!InBackground
<1>6. OfInv'
  <2>1. \A t \in Stamps : kept[t] # Del!Nobody => kept[t].of \in Calls
    BY DEF DelInv, DelegationsTyped, Records
  <2>2. QED
    BY <1>1, <1>2, <1>3, <1>4, <1>5, <2>1 DEF DelInv, OfInv
<1>7. ASSUME NEW d \in Calls PROVE EachInv(d)'
  BY <1>2, <1>5 DEF DelInv, EachInv
<1>8. ASSUME NEW d \in Calls, Only(d)' PROVE RecordInv(d)'
  <2>1. Only(d) /\ id[d] \in Stamps /\ RecordInv(d)
    BY <1>2, <1>5, <1>8 DEF Only, DelInv, EachInv
  <2>2. QED
    BY <1>1, <1>2, <1>3, <1>4, <2>1 DEF RecordInv
<1>9. QED
  BY <1>4, <1>6, <1>7, <1>8 DEF DelInv

(* A result is given, and its record goes.                                    *)
LEMMA ResultInv == ASSUME DelInv, NEW s \in Stamps, Del!DelegateResult(s) PROVE DelInv'
<1> DEFINE c == kept[s].of
           text == IF output[s] # <<>> THEN output[s] ELSE kept[s].response
           g == [status |-> kept[s].status, text |-> text]
<1>1. kept[s] # Del!Nobody /\ kept[s] \in Records /\ c \in Calls /\ Del!InBackground(c) /\ id[c] = s
  BY DEF Del!DelegateResult, DelInv, DelegationsTyped, OfInv, Records
<1>2. /\ UNCHANGED <<stage, how, agent, said, heard, outcome, id>>
      /\ given' = [given EXCEPT ![c] = g]
      /\ kept' = [kept EXCEPT ![s] = Del!Nobody] /\ output' = [output EXCEPT ![s] = <<>>]
  BY DEF Del!DelegateResult
<1>3. g.status = kept[s].status /\ g.text = text
  OBVIOUS
<1>4. Only(c) /\ kept[s].status = "ok" => stage[c] = "ended" /\ text = said[c]
  BY <1>1 DEF DelInv, RecordInv, EachInv
<1> HIDE DEF g, c, text
<1>5. /\ kept'[s] = Del!Nobody /\ given'[c] = g
      /\ \A t \in Stamps \ {s} : kept'[t] = kept[t] /\ output'[t] = output[t]
      /\ \A d \in Calls \ {c} : given'[d] = given[d]
      /\ \A d \in Calls : Del!InBackground(d)' <=> Del!InBackground(d)
  BY <1>1, <1>2 DEF DelInv, DelegationsTyped, Del!InBackground
<1>6. DelegationsTyped'
  <2>1. kept' \in [Stamps -> Records \cup {Del!Nobody}] /\ output' \in [Stamps -> Seq(Del!Updates)] /\ DOMAIN given' = Calls
    BY <1>2 DEF DelInv, DelegationsTyped
  <2>2. QED
    BY <1>2, <2>1 DEF DelInv, DelegationsTyped
<1>7. OfInv'
  <2>1. \A t \in Stamps : kept[t] # Del!Nobody => kept[t].of \in Calls
    BY DEF DelInv, DelegationsTyped, Records
  <2>2. QED
    BY <1>2, <1>5, <2>1 DEF DelInv, OfInv
<1>8. ASSUME NEW d \in Calls PROVE EachInv(d)'
  <2>1. how[c] # "none" /\ stage[c] # "none"
    BY <1>1 DEF Del!InBackground, DelInv, EachInv
  <2>2. QED
    BY <1>2, <1>5, <2>1 DEF DelInv, EachInv
<1>9. ASSUME NEW d \in Calls, Only(d)' PROVE RecordInv(d)'
  <2>1. Only(d) /\ id[d] \in Stamps /\ RecordInv(d)
    BY <1>2, <1>5, <1>9 DEF Only, DelInv, EachInv
  <2>2. CASE d = c
    BY <1>1, <1>2, <1>3, <1>4, <1>5, <2>1, <2>2 DEF RecordInv
  <2>3. CASE d # c
    <3>1. id[d] # s
      BY <1>1, <2>1, <2>3 DEF Only
    <3>2. QED
      BY <1>2, <1>5, <2>1, <2>3, <3>1 DEF RecordInv
  <2>4. QED
    BY <2>2, <2>3
<1>10. QED
  BY <1>6, <1>7, <1>8, <1>9 DEF DelInv

(* The rest changes where a delegation is, and what its agent is told.        *)
LEMMA GoesInv == ASSUME DelInv, NEW c \in Calls,
                        \/ Del!Initialized(c) \/ Del!SessionOpened(c) \/ Del!Answered(c) \/ Del!Refused(c)
                        \/ Del!Late(c) \/ Del!FoundGone(c) \/ Del!AgentExits(c)
                 PROVE  DelInv'
<1>1. /\ stage[c] \in Del!Stages /\ agent[c] \in {"none", "live", "told", "gone"} /\ DOMAIN stage = Calls
      /\ DOMAIN agent = Calls /\ EachInv(c)
  BY DEF DelInv, DelegationsTyped
<1>2. UNCHANGED <<how, Del!records, said, heard>>
  BY DEF Del!Initialized, Del!SessionOpened, Del!Answered, Del!Refused, Del!Late, Del!FoundGone,
       Del!AgentExits, Del!GoesTo
<1>3. PICK to \in Del!Stages, a \in {"live", "told", "gone"} :
        /\ stage' = [stage EXCEPT ![c] = to] \/ (UNCHANGED stage /\ to = stage[c])
        /\ agent' = [agent EXCEPT ![c] = a] \/ (UNCHANGED agent /\ a = agent[c])
        /\ to # "none" /\ (stage[c] = "ended" => to = "ended")
        /\ to \in {"stopping", "ended"} => a \in {"told", "gone"}
  <2>1. CASE Del!Initialized(c) \/ Del!SessionOpened(c)
    BY <1>1, <2>1 DEF Del!Initialized, Del!SessionOpened, Del!Stages
  <2>2. CASE Del!Answered(c) \/ Del!Refused(c) \/ Del!Late(c) \/ Del!FoundGone(c)
    <3>1. Del!Running(c) /\ stage' = [stage EXCEPT ![c] = "stopping"]
          /\ agent' = [agent EXCEPT ![c] = IF agent[c] = "live" THEN "told" ELSE agent[c]]
      BY <2>2 DEF Del!Answered, Del!Refused, Del!Late, Del!FoundGone, Del!GoesTo, Del!Running
    <3>2. agent[c] # "none"
      BY <1>1, <3>1 DEF Del!Running, EachInv
    <3>3. QED
      BY <1>1, <3>1, <3>2 DEF Del!Running, Del!Stages
  <2>3. CASE Del!AgentExits(c)
    <3>1. stage[c] # "none"
      <4>1. agent[c] # "none" /\ agent' = [agent EXCEPT ![c] = "gone"] /\ UNCHANGED stage
        BY <2>3 DEF Del!AgentExits
      <4>2. QED
        BY <1>1, <4>1 DEF EachInv
    <3>2. QED
      BY <1>1, <2>3, <3>1 DEF Del!AgentExits
  <2>4. QED
    BY <2>1, <2>2, <2>3
<1>4. DelegationsTyped'
  <2>0. stage \in [Calls -> Del!Stages] /\ agent \in [Calls -> {"none", "live", "told", "gone"}]
    BY DEF DelInv, DelegationsTyped
  <2>1. stage' \in [Calls -> Del!Stages] /\ agent' \in [Calls -> {"none", "live", "told", "gone"}]
    <3>1. stage' = [stage EXCEPT ![c] = to] \/ UNCHANGED stage
      BY <1>3
    <3>2. agent' = [agent EXCEPT ![c] = a] \/ UNCHANGED agent
      BY <1>3
    <3>3. QED
      BY <2>0, <3>1, <3>2
  <2>2. outcome' \in [Calls -> {"none", "answered", "failed"}]
    <3>1. UNCHANGED outcome \/ \E o \in {"answered", "failed"} : outcome' = [outcome EXCEPT ![c] = o]
      <4>1. CASE Del!Initialized(c) \/ Del!SessionOpened(c) \/ Del!AgentExits(c)
        BY <4>1 DEF Del!Initialized, Del!SessionOpened, Del!AgentExits
      <4>2. CASE Del!Answered(c) \/ Del!Refused(c) \/ Del!Late(c) \/ Del!FoundGone(c)
        BY <4>2 DEF Del!Answered, Del!Refused, Del!Late, Del!FoundGone, Del!GoesTo
      <4>3. QED
        BY <4>1, <4>2
    <3>2. outcome \in [Calls -> {"none", "answered", "failed"}]
      BY DEF DelInv, DelegationsTyped
    <3>3. QED
      BY <3>1, <3>2
  <2>3. QED
    BY <1>2, <2>1, <2>2 DEF DelInv, DelegationsTyped, Del!records
<1>5. QED
  BY <1>1, <1>2, <1>3, <1>4, AloneInv

(* Whatever a delegation, its agent or the model does next.                   *)
LEMMA DelegatesNextInv == DelInv /\ [Del!Next]_(Del!deVars) => DelInv'
<1> SUFFICES ASSUME DelInv, [Del!Next]_(Del!deVars) PROVE DelInv'
  OBVIOUS
<1>1. ASSUME UNCHANGED <<stage, how, agent, said, heard, outcome, Del!records>> PROVE DelInv'
  <2>1. UNCHANGED <<id, kept, output, given>>
    BY <1>1 DEF Del!records
  <2>2. DelegationsTyped' /\ OfInv'
    BY <1>1, <2>1 DEF DelInv, DelegationsTyped, OfInv, Del!InBackground
  <2>3. \A c \in Calls : EachInv(c)' /\ (Only(c)' => RecordInv(c)')
    BY <1>1, <2>1 DEF DelInv, EachInv, Only, RecordInv, Del!InBackground
  <2>4. QED
    BY <2>2, <2>3 DEF DelInv
<1>2. ASSUME NEW c \in Calls, Del!TurnCancelled(c) PROVE DelInv'
  BY <1>1, <1>2 DEF Del!TurnCancelled, Del!Aborts
<1>3. CASE UNCHANGED Del!deVars
  BY <1>1, <1>3 DEF Del!deVars, Del!records
<1>4. QED
  BY <1>2, <1>3, DelegatesInv, BesideInv, StreamsInv, SettlesInv, CancelInv, ResultInv, GoesInv DEF Del!Next

(* A delegation's agent is told to end, or is gone, whenever the delegation   *)
(* is over; and a result reported as done is all its agent streamed, whatever *)
(* ran beside it, unless a second one began at the very same moment           *)
(* (AcpClient.ts, tools/acp.ts).                                              *)
THEOREM DelegationsAlwaysHold == Del!Spec => []Del!DelegationsHold
<1>1. DelInv => Del!DelegationsHold
  <2> SUFFICES ASSUME DelInv PROVE Del!DelegationsHold
    OBVIOUS
  <2>1. Del!NoAgentLeft
    BY DEF DelInv, EachInv, Del!NoAgentLeft
  <2>2. \A c \in Calls : Del!Alone(c) => Only(c)
    BY DEF Del!Alone, Only
  <2>3. Del!ResultIsWhole
    BY <2>2 DEF DelInv, RecordInv, Del!ResultIsWhole
  <2>4. QED
    BY <2>1, <2>3 DEF Del!DelegationsHold
<1>2. QED
  BY <1>1, NoDelegationInv, DelegatesNextInv, PTL DEF Del!Spec

-----------------------------------------------------------------------------
(* The commands of the terminal (Commands): for any messages, what changes    *)
(* the conversation, the files or the session does so between turns.          *)

CONSTANTS Messages, MaxSessions
VARIABLES shown, alive, started, doing, held, queue, fate, overlay, opening, restoring, did

Com == INSTANCE Commands

(* Files are put back, rules changed and the conversation compacted only      *)
(* while the session runs nothing, and a command typed whole changes the      *)
(* model and the configuration only between turns (builtin/index.ts           *)
(* waitForTurn).                                                              *)
THEOREM ChangesAreBetweenTurns == Com!Spec => []Com!ChangesBetweenTurns
<1>1. Com!Init => Com!ChangesBetweenTurns
  BY DEF Com!Init, Com!ChangesBetweenTurns
<1>2. Com!ChangesBetweenTurns /\ [Com!Next]_(Com!comVars) => Com!ChangesBetweenTurns'
  <2> SUFFICES ASSUME Com!ChangesBetweenTurns, [Com!Next]_(Com!comVars) PROVE Com!ChangesBetweenTurns'
    OBVIOUS
  <2>0. ASSUME did' = did PROVE Com!ChangesBetweenTurns'
    BY <2>0 DEF Com!ChangesBetweenTurns
  <2>a. ASSUME NEW op, NEW manner, NEW r, Com!Changed(op, manner, r),
               op \in {"rule", "restore", "revert", "compact"} => doing[r] = "nothing",
               op \in {"model", "config"} /\ manner = "typed" => doing[r] # "turn"
        PROVE Com!ChangesBetweenTurns'
    BY <2>a DEF Com!ChangesBetweenTurns, Com!Changed
  <2>1. CASE Com!Send \/ Com!TurnEnds \/ Com!StopTurn \/ Com!TakeBack \/ Com!CompactionEnds
    BY <2>0, <2>1 DEF Com!Send, Com!TurnEnds, Com!StopTurn, Com!TakeBack, Com!CompactionEnds
  <2>2. CASE Com!Compact
    <3>1. CASE Com!Busy(shown)
      BY <2>0, <2>2, <3>1 DEF Com!Compact
    <3>2. CASE ~ Com!Busy(shown)
      <4>1. Com!Changed("compact", "typed", shown) /\ doing[shown] = "nothing"
        BY <2>2, <3>2 DEF Com!Compact, Com!Busy
      <4> QED BY <2>a, <4>1
    <3> QED BY <3>1, <3>2
  <2>c. Com!Context.on = shown /\ (Com!Running(shown) => Com!Context.ran)
    <3> DEFINE ran == Com!Running(shown)
    <3>1. [on |-> shown, ran |-> ran].on = shown /\ [on |-> shown, ran |-> ran].ran = ran
      <4> HIDE DEF ran
      <4> QED OBVIOUS
    <3> QED BY <3>1 DEF Com!Context
  <2>d. ASSUME NEW op, NEW manner, NEW ctx, Com!Does(op, manner, ctx),
               manner = "typed" => ctx = Com!Context
        PROVE Com!ChangesBetweenTurns'
    <3>1. CASE op = "model"
      <4>1. Com!Changed("model", manner, ctx.on) /\ (manner = "typed" => ~ ctx.ran)
        BY <2>d, <3>1 DEF Com!Does, Com!Model, Com!Effort, Com!Setup, Com!Sets, Com!WaitForTurn
      <4>2. manner = "typed" => doing[ctx.on] # "turn"
        BY <2>c, <2>d, <4>1 DEF Com!Running
      <4> QED BY <2>a, <4>1, <4>2
    <3>2. CASE op = "rule"
      <4>1. Com!Changed("rule", manner, ctx.on) /\ doing[ctx.on] = "nothing"
        BY <2>d, <3>2 DEF Com!Does, Com!SessionRules, Com!Sets, Com!Busy
      <4> QED BY <2>a, <4>1
    <3>3. CASE op = "name"
      <4>1. Com!Changed("name", manner, ctx.on)
        BY <2>d, <3>3 DEF Com!Does, Com!Rename, Com!Color, Com!Flag, Com!Wake, Com!Note, Com!Sets
      <4> QED BY <2>a, <4>1
    <3>4. CASE op = "resume"
      BY <2>0, <2>d, <3>4 DEF Com!Does, Com!Clear, Com!Resume, Com!Fork, Com!Profile
    <3>5. CASE op = "config"
      <4>1. Com!Changed("config", manner, ctx.on) /\ ~ ctx.ran
        BY <2>d, <3>5 DEF Com!Does, Com!Config, Com!WaitForTurn
      <4>2. manner = "typed" => doing[ctx.on] # "turn"
        BY <2>c, <2>d, <4>1 DEF Com!Running
      <4> QED BY <2>a, <4>1, <4>2
    <3>6. CASE op = "agents"
      <4>1. Com!Changed("config", manner, ctx.on) /\ ~ ctx.ran
        BY <2>d, <3>6 DEF Com!Does, Com!Mcp, Com!Agents, Com!WaitForTurn
      <4>2. manner = "typed" => doing[ctx.on] # "turn"
        BY <2>c, <2>d, <4>1 DEF Com!Running
      <4> QED BY <2>a, <4>1, <4>2
    <3>7. CASE op = "restore"
      <4>1. manner = "chosen" /\ (Com!PutsBack("restore", manner, ctx) \/ UNCHANGED did)
        BY <2>d, <3>7 DEF Com!Does, Com!Restore
      <4>2. Com!PutsBack("restore", manner, ctx) => doing[ctx.on] = "nothing"
                 /\ Com!Changed("restore", manner, ctx.on)
        BY DEF Com!PutsBack, Com!Busy
      <4> QED BY <2>0, <2>a, <4>1, <4>2
    <3>8. CASE op = "index"
      <4>1. manner = "chosen"
                 /\ (Com!PutsBack("revert", manner, ctx) \/ Com!Changed("index", manner, ctx.on))
        BY <2>d, <3>8 DEF Com!Does, Com!Act, Com!Commit, Com!Pr, Com!Sets
      <4>2. Com!PutsBack("revert", manner, ctx) => doing[ctx.on] = "nothing"
                 /\ Com!Changed("revert", manner, ctx.on)
        BY DEF Com!PutsBack, Com!Busy
      <4> QED BY <2>a, <4>1, <4>2
    <3> QED BY <2>d, <3>1, <3>2, <3>3, <3>4, <3>5, <3>6, <3>7, <3>8 DEF Com!Does
  <2>3. CASE Com!Typed
    <3>1. PICK op : Com!Does(op, "typed", Com!Context)
      BY <2>3 DEF Com!Typed
    <3> QED BY <2>d, <3>1
  <2>4. CASE Com!Chosen
    <3>1. UNCHANGED did \/ \E list \in overlay : Com!Does(list.op, "chosen", list.ctx)
      BY <2>4 DEF Com!Chosen
    <3>2. ASSUME NEW list \in overlay, Com!Does(list.op, "chosen", list.ctx)
          PROVE  Com!ChangesBetweenTurns'
      BY <2>d, <3>2
    <3> QED BY <2>0, <3>1, <3>2
  <2>5. CASE Com!Listed \/ Com!Opened \/ Com!PutBack
    BY <2>0, <2>5 DEF Com!Listed, Com!Opened, Com!PutBack
  <2>6. CASE UNCHANGED Com!comVars
    BY <2>0, <2>6 DEF Com!comVars
  <2> QED BY <2>1, <2>2, <2>3, <2>4, <2>5, <2>6 DEF Com!Next
<1> QED BY <1>1, <1>2, PTL DEF Com!Spec

-----------------------------------------------------------------------------
(* The asks of calls and the prompts on screen (Prompts), for any calls of a  *)
(* turn and of background children, and any requests for input.               *)

CONSTANTS Nested, Requests
VARIABLES place, turning, stopped, leaving, decisions, rows, prompts, order, seen, escapes, refused, denied, requested, listed

Ui == INSTANCE Prompts WITH at <- place, running <- turning, asks <- requested, over <- listed

Phases == {"none", "pending", "waiting", "running", "denied", "done", "cancelled"}

(* Of every call, its place in the runtime, its row and its prompt go together, *)
(* and an Escape whose answer is on its way is a no already said.             *)
PromptsInv ==
  /\ place \in [Calls -> {"none", "made", "asked", "yes", "no", "runs", "over", "done"}]
  /\ rows \in [Calls -> Phases] /\ prompts \subseteq Calls
  /\ escapes \subseteq refused
  /\ Ui!PromptsAgree /\ Ui!NoIsOfItsPrompt

(* An answer moves only asks that wait, and takes them from the controller.   *)
LEMMA AnswerKept ==
  ASSUME PromptsInv, NEW chosen, NEW allow \in BOOLEAN, Ui!Answer(chosen \cap decisions, allow),
         UNCHANGED <<leaving, rows, prompts>>,
         refused \subseteq refused', escapes' \subseteq refused',
         ~ allow => chosen \cap decisions \subseteq refused'
  PROVE  PromptsInv'
<1> USE DEF PromptsInv
<1>1. /\ place' = [c \in Calls |-> IF c \in chosen \cap decisions /\ place[c] = "asked"
                                    THEN IF allow THEN "yes" ELSE "no" ELSE place[c]]
      /\ decisions' = decisions \ (chosen \cap decisions)
      /\ denied' = IF allow THEN denied ELSE denied \cup (chosen \cap decisions)
  BY DEF Ui!Answer
<1>2. place' \in [Calls -> {"none", "made", "asked", "yes", "no", "runs", "over", "done"}]
  BY <1>1
<1>3. \A c \in Calls : place'[c] = place[c]
                       \/ (c \in chosen \cap decisions /\ place[c] = "asked" /\ place'[c] \in {"yes", "no"})
  BY <1>1
<1>4. Ui!PromptsAgree'
  <2>1. \A c \in Calls : place'[c] = "asked" /\ leaving = "open" => c \in decisions' /\ c \in prompts
    BY <1>1, <1>3 DEF Ui!PromptsAgree
  <2>2. \A c \in prompts : place'[c] \in {"asked", "yes", "no"}
    BY <1>3 DEF Ui!PromptsAgree
  <2> QED BY <2>1, <2>2 DEF Ui!PromptsAgree
<1>5. Ui!NoIsOfItsPrompt'
  BY <1>1 DEF Ui!NoIsOfItsPrompt
<1> QED BY <1>2, <1>4, <1>5

(* One call moves on, with its row and its prompt.                            *)
LEMMA CallKept ==
  ASSUME PromptsInv, NEW c \in Calls, NEW a \in {"made", "asked", "runs", "over", "done"}, NEW r \in Phases,
         place' = [place EXCEPT ![c] = a], rows' = [rows EXCEPT ![c] = r],
         prompts' = IF r = "waiting" THEN prompts \cup {c} ELSE prompts \ {c},
         r = "waiting" <=> a = "asked",
         a = "asked" /\ leaving = "open" => c \in decisions',
         decisions \ {c} \subseteq decisions',
         UNCHANGED <<leaving, escapes, refused, denied>>
  PROVE  PromptsInv'
<1> USE DEF PromptsInv
<1>1. /\ place'[c] = a /\ rows'[c] = r /\ rows' \in [Calls -> Phases]
      /\ place' \in [Calls -> {"none", "made", "asked", "yes", "no", "runs", "over", "done"}]
      /\ \A d \in Calls \ {c} : place'[d] = place[d] /\ rows'[d] = rows[d]
      /\ \A d \in Calls \ {c} : d \in prompts' <=> d \in prompts
      /\ c \in prompts' <=> r = "waiting"
      /\ prompts' \subseteq Calls
  OBVIOUS
<1>2. Ui!PromptsAgree'
  <2>1. \A d \in Calls : place'[d] = "asked" /\ leaving = "open" => d \in decisions' /\ d \in prompts'
    <3> SUFFICES ASSUME NEW d \in Calls, place'[d] = "asked", leaving = "open"
                 PROVE  d \in decisions' /\ d \in prompts'
      OBVIOUS
    <3>1. CASE d = c
      BY <1>1, <3>1
    <3>2. CASE d # c
      BY <1>1, <3>2 DEF Ui!PromptsAgree
    <3> QED BY <3>1, <3>2
  <2>2. \A d \in prompts' : place'[d] \in {"asked", "yes", "no"}
    <3> SUFFICES ASSUME NEW d \in prompts' PROVE place'[d] \in {"asked", "yes", "no"}
      OBVIOUS
    <3>1. CASE d = c
      BY <1>1, <3>1
    <3>2. CASE d # c
      BY <1>1, <3>2 DEF Ui!PromptsAgree
    <3> QED BY <3>1, <3>2
  <2>3. \A d \in Calls : rows'[d] = "waiting" <=> d \in prompts'
    <3> SUFFICES ASSUME NEW d \in Calls PROVE rows'[d] = "waiting" <=> d \in prompts'
      OBVIOUS
    <3>1. CASE d = c
      BY <1>1, <3>1
    <3>2. CASE d # c
      BY <1>1, <3>2 DEF Ui!PromptsAgree
    <3> QED BY <3>1, <3>2
  <2> QED BY <2>1, <2>2, <2>3 DEF Ui!PromptsAgree
<1>3. Ui!NoIsOfItsPrompt'
  BY DEF Ui!NoIsOfItsPrompt
<1> QED BY <1>1, <1>2, <1>3

(* What moves no call, no row and no prompt.                                  *)
LEMMA ScreenKept ==
  ASSUME PromptsInv, UNCHANGED <<place, leaving, decisions, rows, prompts, denied>>,
         refused \subseteq refused', escapes' \subseteq refused'
  PROVE  PromptsInv'
BY DEF PromptsInv, Ui!PromptsAgree, Ui!NoIsOfItsPrompt

(* The screen agrees with the runtime, and a no of the person's reaches only  *)
(* what the person said no to, whatever is asked, decided elsewhere, stopped, *)
(* rendered late or left (controller.ts:168-170, view.ts applyEvent,          *)
(* App.tsx:1141-1144).                                                        *)
THEOREM ScreenAgrees == Ui!Spec => [](Ui!PromptsAgree /\ Ui!NoIsOfItsPrompt)
<1>1. Ui!Init => PromptsInv
  BY DEF Ui!Init, PromptsInv, Ui!PromptsAgree, Ui!NoIsOfItsPrompt, Phases
<1>2. PromptsInv /\ [Ui!Next]_Ui!vars => PromptsInv'
  <2> SUFFICES ASSUME PromptsInv, [Ui!Next]_Ui!vars PROVE PromptsInv'
    OBVIOUS
  <2>0. place \in [Calls -> {"none", "made", "asked", "yes", "no", "runs", "over", "done"}]
        /\ rows \in [Calls -> Phases] /\ prompts \subseteq Calls /\ escapes \subseteq refused
    BY DEF PromptsInv
  <2>1. CASE Ui!TurnStarts \/ Ui!Render \/ Ui!Elicit \/ Ui!Respond
    BY <2>0, <2>1, ScreenKept DEF Ui!TurnStarts, Ui!Render, Ui!Elicit, Ui!Respond, Ui!view, Ui!input
  <2>2. CASE Ui!Escape
    <3>1. UNCHANGED <<place, leaving, decisions, rows, prompts, denied>>
          /\ refused \subseteq refused' /\ escapes' \subseteq refused'
      BY <2>0, <2>2 DEF Ui!Escape, Ui!view
    <3> QED BY <3>1, ScreenKept
  <2>3. ASSUME NEW allow \in BOOLEAN, Ui!Press(allow) PROVE PromptsInv'
    <3> DEFINE chosen == {Ui!Oldest(seen)}
    <3>1. /\ Ui!Answer(chosen \cap decisions, allow) /\ UNCHANGED <<leaving, rows, prompts, escapes>>
          /\ refused' = IF allow THEN refused ELSE refused \cup chosen
      BY <2>3 DEF Ui!Press, Ui!view
    <3> HIDE DEF chosen
    <3> QED BY <2>0, <3>1, AnswerKept
  <2>4. CASE Ui!EscapeAnswers
    <3>1. PICK c \in escapes : escapes' = escapes \ {c} /\ Ui!Answer({c} \cap decisions, FALSE)
      BY <2>4 DEF Ui!EscapeAnswers, Ui!About
    <3>2. UNCHANGED <<leaving, rows, prompts, refused>>
      BY <2>4 DEF Ui!EscapeAnswers, Ui!view
    <3> QED BY <2>0, <3>1, <3>2, AnswerKept
  <2>5. CASE Ui!StopTurn
    <3>1. Ui!Answer(decisions \cap decisions, FALSE)
      BY <2>5 DEF Ui!StopTurn, Ui!Answer
    <3>2. refused' = refused \cup decisions /\ UNCHANGED <<leaving, rows, prompts, escapes>>
      BY <2>5 DEF Ui!StopTurn, Ui!view
    <3> QED BY <2>0, <3>1, <3>2, AnswerKept
  <2>6. ASSUME NEW c \in Calls, Ui!CallMade(c) PROVE PromptsInv'
    <3>1. c \notin prompts
      BY <2>6 DEF Ui!CallMade, PromptsInv, Ui!PromptsAgree
    <3>2. /\ place' = [place EXCEPT ![c] = "made"] /\ rows' = [rows EXCEPT ![c] = "pending"]
          /\ prompts' = prompts \ {c} /\ UNCHANGED <<leaving, decisions, escapes, refused, denied>>
      BY <2>6, <3>1 DEF Ui!CallMade
    <3> QED BY <3>2, CallKept DEF Phases
  <2>7. ASSUME NEW c \in Calls, Ui!Asked(c) PROVE PromptsInv'
    <3>1. /\ place' = [place EXCEPT ![c] = "asked"] /\ rows' = [rows EXCEPT ![c] = "waiting"]
          /\ prompts' = prompts \cup {c} /\ UNCHANGED <<leaving, escapes, refused, denied>>
          /\ decisions' = IF leaving = "open" THEN decisions \cup {c} ELSE decisions
      BY <2>7 DEF Ui!Asked
    <3> QED BY <3>1, CallKept DEF Phases
  <2>8. ASSUME NEW c \in Calls, Ui!Result(c) PROVE PromptsInv'
    <3> DEFINE r == IF rows[c] = "none" THEN "none" ELSE "done"
    <3>1. /\ place' = [place EXCEPT ![c] = "done"] /\ rows' = [rows EXCEPT ![c] = r]
          /\ prompts' = prompts \ {c} /\ UNCHANGED <<leaving, decisions, escapes, refused, denied>>
      BY <2>8 DEF Ui!Result, Ui!Settled
    <3>2. r \in Phases /\ r # "waiting"
      BY DEF Phases
    <3> HIDE DEF r
    <3> QED BY <3>1, <3>2, CallKept
  <2>9. ASSUME NEW c \in Calls, NEW allow \in BOOLEAN, Ui!Decided(c, allow) PROVE PromptsInv'
    <3> DEFINE r == IF rows[c] = "none" THEN "none" ELSE IF allow THEN "running" ELSE "denied"
               a == IF allow THEN "runs" ELSE "over"
    <3>1. /\ place' = [place EXCEPT ![c] = a] /\ rows' = [rows EXCEPT ![c] = r]
          /\ prompts' = prompts \ {c} /\ decisions' = decisions \ {c}
          /\ UNCHANGED <<leaving, escapes, refused, denied>>
      BY <2>9 DEF Ui!Decided
    <3>2. r \in Phases /\ r # "waiting" /\ a \in {"runs", "over"}
      BY DEF Phases
    <3> HIDE DEF r, a
    <3> QED BY <3>1, <3>2, CallKept
  <2>10. CASE Ui!TurnEnds
    <3>1. /\ \A c \in Calls \ Nested : place[c] \in {"none", "done"}
          /\ rows' = [c \in Calls |->
               IF c \notin Nested /\ rows[c] \in {"pending", "running", "waiting"} THEN "cancelled" ELSE rows[c]]
          /\ prompts' = prompts \cap Nested
          /\ UNCHANGED <<place, leaving, decisions, escapes, refused, denied>>
      BY <2>10 DEF Ui!TurnEnds
    <3>2. rows' \in [Calls -> Phases]
      BY <2>0, <3>1 DEF Phases
    <3>3. Ui!PromptsAgree'
      <4>1. \A c \in Calls : place[c] = "asked" /\ leaving = "open" => c \in decisions /\ c \in prompts'
        BY <3>1 DEF PromptsInv, Ui!PromptsAgree
      <4>2. \A c \in prompts' : place[c] \in {"asked", "yes", "no"}
        BY <3>1 DEF PromptsInv, Ui!PromptsAgree
      <4>3. \A c \in Calls : rows'[c] = "waiting" <=> c \in prompts'
        BY <3>1 DEF PromptsInv, Ui!PromptsAgree
      <4> QED BY <3>1, <4>1, <4>2, <4>3 DEF Ui!PromptsAgree
    <3> QED BY <2>0, <3>1, <3>2, <3>3 DEF PromptsInv, Ui!NoIsOfItsPrompt
  <2>11. CASE Ui!SwitchSession
    <3>1. /\ leaving' = "closing" /\ rows' = [c \in Calls |-> "none"] /\ prompts' = {}
          /\ UNCHANGED <<place, escapes, refused, denied>>
      BY <2>11 DEF Ui!SwitchSession
    <3>2. Ui!PromptsAgree' /\ rows' \in [Calls -> Phases]
      BY <3>1 DEF Ui!PromptsAgree, Phases
    <3> QED BY <2>0, <3>1, <3>2 DEF PromptsInv, Ui!NoIsOfItsPrompt
  <2>12. CASE Ui!Closed
    <3>1. leaving' = "closed" /\ UNCHANGED <<place, decisions, rows, prompts, escapes, refused, denied>>
      BY <2>12 DEF Ui!Closed, Ui!view
    <3>2. Ui!PromptsAgree'
      BY <3>1 DEF PromptsInv, Ui!PromptsAgree
    <3> QED BY <2>0, <3>1, <3>2 DEF PromptsInv, Ui!NoIsOfItsPrompt
  <2>13. CASE UNCHANGED Ui!vars
    BY <2>0, <2>13, ScreenKept DEF Ui!vars, Ui!view, Ui!input
  <2> QED BY <2>1, <2>2, <2>3, <2>4, <2>5, <2>6, <2>7, <2>8, <2>9, <2>10, <2>11, <2>12, <2>13 DEF Ui!Next
<1>3. PromptsInv => Ui!PromptsAgree /\ Ui!NoIsOfItsPrompt
  BY DEF PromptsInv
<1> QED BY <1>1, <1>2, <1>3, PTL DEF Ui!Spec
=============================================================================
