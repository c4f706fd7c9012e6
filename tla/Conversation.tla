----------------------------- MODULE Conversation -----------------------------
(***************************************************************************)
(* A session's conversation: the turn engine (src/core/agent.ts), which    *)
(* keeps the messages of the running turn; the runtime                     *)
(* (src/core/runtime/index.ts), which takes them over when the turn        *)
(* returns; the recorder and the log (src/core/transcript), written as the *)
(* turn goes on and read back by a resume, a fork and a rewind; elision    *)
(* and compaction (src/core/context), which rewrite the messages in memory *)
(* and leave a line saying how.  Tokens and texts are abstract: any tail   *)
(* of a conversation may be what fits.  Lines the projection does not read *)
(* (usage, notices, approvals, ends) are left out, so positions count the  *)
(* others only.                                                            *)
(***************************************************************************)
EXTENDS Naturals, SequencesExt

CONSTANTS MaxSteps,  \* agent_loop.max_steps
          CallCounts, \* bound: how many calls a reply may make
          MaxTurns   \* bound: turns, the person's own calls and compactions asked for

ASSUME MaxStepsAssumption == MaxSteps \in Nat \ {0}
ASSUME CallCountsAssumption == CallCounts \subseteq Nat \ {0}
ASSUME MaxTurnsAssumption == MaxTurns \in Nat

VARIABLES
  phase,       \* what the session waits for
  signal,      \* the turn's: "live" or "aborted"
  messages,    \* the runtime's session
  working,     \* the turn's
  fitted,      \* compactNow's own copy, while it waits for the summary
  trigger,     \* why it compacts: "auto", "overflow", "manual", or "none"
  compactable, \* whether this turn may still compact ahead of a step
  elidedAhead, \* whether results shrank ahead of the trigger since the last compaction
  steps,       \* of this turn
  retried,     \* whether this step's request was compacted and sent again
  answered,    \* calls of this step whose results are recorded
  log,         \* the session's file: the lines the projection reads, and checkpoints
  turnStart,   \* the recorder's: where the turn's message is in the log; 0 before any
  turns,       \* started so far
  apart        \* history: what this process's log holds otherwise than its memory: "no", "stubs", "messages"

turnVars == <<signal, working, fitted, trigger, compactable, steps, retried, answered>>
logVars  == <<log, turnStart>>
vars == <<phase, turnVars, messages, elidedAhead, logVars, turns, apart>>

\* "down": no process.  "prompt": the submit hook.  "head": the top of the loop.  "fitting": a step
\* begun.  "compacting": the summary.  "model": the reply.  "stopping": the stop hook.  "batch": the
\* calls.  "results": the post_tool hooks.  "wrapup": a last reply without calls.  "direct", "directed":
\* a call the person made, and its checkpoint.
Phases == {"down", "idle", "prompt", "head", "fitting", "compacting", "model", "stopping",
           "batch", "results", "wrapup", "direct", "directed"}

InTurn == phase \notin {"down", "idle"} /\ trigger # "manual"

-----------------------------------------------------------------------------
(* Messages and lines.  A message knows the line that recorded it.         *)

Message(role, ask, calls) ==
  [role |-> role, ask |-> ask, calls |-> calls, stub |-> FALSE, at |-> 0]

\* What the person asked; what the harness or a hook put in their place.
Prompt     == Message("user", turns, 0)
Harness    == Message("user", 0, 0)
Reply(c)   == Message("assistant", 0, c)
Result(k)  == Message("tool", 0, k)
Summary(a) == Message("summary", a, 0)

MessageLine(m)         == [type |-> "message", message |-> m]
ElisionLine(S)         == [type |-> "elision", stubbed |-> S]
CompactionLine(k, s)   == [type |-> "compaction", replaced |-> k, summary |-> s]

\* A checkpoint names the turn's message as the recorder knows it.  The rest is history: which turn
\* made the change, the conversation before it, and whether the log
\* held that conversation.
CheckpointLine(t) ==
  [type |-> "checkpoint", turn |-> t, of |-> turns, before |-> messages, known |-> apart = "no"]

Stubbed(ms, S) ==
  [i \in DOMAIN ms |-> IF i \in S /\ ms[i].role = "tool" THEN [ms[i] EXCEPT !.stub = TRUE] ELSE ms[i]]

\* The summary in place of the first k messages.
Replaced(ms, k, s) == <<s>> \o SubSeq(ms, k + 1, Len(ms))

\* Mutant: the replayed summary takes the place of one message fewer.
ReplayedOneFewer(ms, line) ==
  CASE line.type = "message"    -> Append(ms, line.message)
    [] line.type = "elision"    -> Stubbed(ms, line.stubbed)
    [] line.type = "compaction" -> Replaced(ms, line.replaced - 1, line.summary)
    [] line.type = "checkpoint" -> ms

\* One line replayed.
Replayed(ms, line) ==
  CASE line.type = "message"    -> Append(ms, line.message)
    [] line.type = "elision"    -> Stubbed(ms, line.stubbed)
    [] line.type = "compaction" -> Replaced(ms, line.replaced, line.summary)
    [] line.type = "checkpoint" -> ms

\* projectMessages(): the conversation a log describes.
Projection(lines) ==
  LET after[n \in 0..Len(lines)] == IF n = 0 THEN <<>> ELSE Replayed(after[n - 1], lines[n])
  IN after[Len(lines)]

-----------------------------------------------------------------------------
(* What fits, and what is cut.                                             *)

Floor(ms) == IF ms # <<>> /\ ms[1].role = "summary" THEN 1 ELSE 0

UserCuts(ms, from) == {k \in from..(Len(ms) - 1) : ms[k + 1].role = "user"}

Cuts(ms, from) == {k \in from..(Len(ms) - 1) : ms[k + 1].role # "tool"}

\* chooseBoundary(): how many messages a summary replaces when the ones after the first `fits` fit; 0
\* when there is nothing to summarize.
Boundary(ms, fits) ==
  LET low == Floor(ms) + 1
      k == IF fits <= low
           THEN Max({0} \cup UserCuts(ms, low))
           ELSE IF UserCuts(ms, fits) # {} THEN Min(UserCuts(ms, fits))
           ELSE IF Cuts(ms, fits) # {} THEN Min(Cuts(ms, fits))
           ELSE Max({0} \cup Cuts(ms, low))
  IN IF k >= low THEN k ELSE 0

Boundaries(ms) == {Boundary(ms, fits) : fits \in 0..Len(ms)}

\* Mutant: a cut inside the turn carries no request.
CarriedNone(ms, k) == 0

\* The request a summary of the first k messages carries, when none of the messages kept is one: the
\* last thing a user message said, or what an earlier summary carried.
Carried(ms, k) ==
  LET said == {i \in 1..k : ms[i].role \in {"user", "summary"}}
  IN IF UserCuts(ms, k) # {} \/ said = {} THEN 0 ELSE ms[Max(said)].ask

\* Results before the cut that can still shrink.
Elidable(ms, k) == {i \in 1..k : ms[i].role = "tool" /\ ~ms[i].stub}

\* The calls of the step's reply.
Calls == working[Len(working) - answered].calls

-----------------------------------------------------------------------------
TypeOK ==
  /\ phase \in Phases
  /\ signal \in {"live", "aborted"}
  /\ trigger \in {"none", "auto", "overflow", "manual"}
  /\ (phase = "compacting") <=> (trigger # "none")
  /\ compactable \in BOOLEAN /\ elidedAhead \in BOOLEAN /\ retried \in BOOLEAN /\ apart \in {"no", "stubs", "messages"}
  /\ steps \in 0..MaxSteps
  /\ answered \in Nat /\ (phase = "results" => answered < Calls)
  /\ turns \in 0..MaxTurns
  /\ turnStart \in 0..Len(log)
  /\ \A ms \in {messages, working, fitted} : \A i \in DOMAIN ms :
       /\ ms[i].role \in {"user", "assistant", "tool", "summary"}
       /\ ms[i].at \in 1..Len(log)

Init ==
  /\ phase = "idle" /\ signal = "live"
  /\ messages = <<>> /\ working = <<>> /\ fitted = <<>>
  /\ trigger = "none" /\ compactable = TRUE /\ elidedAhead = FALSE
  /\ steps = 0 /\ retried = FALSE /\ answered = 0
  /\ log = <<>> /\ turnStart = 0
  /\ turns = 0 /\ apart = "no"

\* What a turn keeps is gone with it.
NoTurn ==
  /\ signal' = "live" /\ working' = <<>> /\ fitted' = <<>> /\ trigger' = "none"
  /\ compactable' = TRUE /\ steps' = 0 /\ retried' = FALSE /\ answered' = 0

TurnOver == phase' = "idle" /\ NoTurn

\* The recorder writes each message as it is emitted; a user message begins a turn.
Recorder(ms) ==
  /\ log' = log \o [i \in DOMAIN ms |-> MessageLine([ms[i] EXCEPT !.at = Len(log) + i])]
  /\ turnStart' = IF ms # <<>> /\ Last(ms).role = "user" THEN Len(log) + Len(ms) ELSE turnStart

\* record(): in the turn's messages, and in the log.
With(ms) == working \o [i \in DOMAIN ms |-> [ms[i] EXCEPT !.at = Len(log) + i]]

Record(ms) == working' = With(ms) /\ Recorder(ms)

\* The turn ends with these messages more, and the runtime takes its messages over.
FinishWith(ms) ==
  /\ TurnOver /\ messages' = With(ms) /\ Recorder(ms)
  /\ UNCHANGED <<elidedAhead, turns, apart>>

Finish == FinishWith(<<>>)

\* What most steps leave alone: everything but the phase and the variables they name.
turnLocals == <<fitted, trigger, compactable, steps, retried, answered>>
session    == <<messages, elidedAhead, turns, apart>>

-----------------------------------------------------------------------------
(* A turn: prompt, steps, calls.                                           *)

StartTurn ==
  /\ phase = "idle" /\ turns < MaxTurns
  /\ phase' = "prompt" /\ working' = messages
  /\ turns' = turns + 1
  /\ UNCHANGED <<signal, turnLocals, messages, elidedAhead, logVars, apart>>

\* The submit hook stops the prompt, or the prompt is recorded.
PromptBlocked == phase = "prompt" /\ Finish

PromptAccepted ==
  /\ phase = "prompt"
  /\ phase' = "head" /\ Record(<<Prompt>>)
  /\ UNCHANGED <<signal, turnLocals, session>>

Cancelled == phase = "head" /\ signal = "aborted" /\ Finish

BeginStep ==
  /\ phase = "head" /\ signal = "live" /\ steps < MaxSteps
  /\ phase' = "fitting" /\ steps' = steps + 1 /\ retried' = FALSE
  /\ UNCHANGED <<signal, working, fitted, trigger, compactable, answered, logVars, session>>

\* Out of steps: the turn ends, or a delegated run is asked for a report first.
OutOfSteps ==
  /\ phase = "head" /\ signal = "live" /\ steps = MaxSteps
  /\ \/ Finish
     \/ /\ phase' = "wrapup" /\ Record(<<Harness>>)
        /\ UNCHANGED <<signal, turnLocals, session>>

\* The report comes, or does not.
WrapUp ==
  /\ phase = "wrapup"
  /\ \/ signal = "live" /\ FinishWith(<<Reply(0)>>)
     \/ Finish

\* elideNow(): the results before a cut become stubs, here and in the log.  Which of them do is a
\* matter of their texts; bound: all of those before the cut, and only the cut varies.
ElideInto(copy, ms) ==
  \E S \in {Elidable(ms, k) : k \in Boundaries(ms) \ {0}} \ {{}} :
    /\ copy = Stubbed(ms, S)
    /\ log' = Append(log, ElisionLine(S)) /\ UNCHANGED turnStart

ElideAhead ==
  /\ phase = "fitting" /\ compactable /\ ~elidedAhead
  /\ elidedAhead' = TRUE
  /\ ElideInto(working', working) \/ UNCHANGED <<working, logVars>>
  /\ UNCHANGED <<phase, signal, turnLocals, messages, turns, apart>>

Send ==
  /\ phase = "fitting"
  /\ phase' = "model"
  /\ UNCHANGED <<signal, working, turnLocals, logVars, session>>

\* The reply calls tools.
ReplyCalls ==
  /\ phase = "model" /\ signal = "live"
  /\ phase' = "batch" /\ answered' = 0
  /\ \E c \in CallCounts : Record(<<Reply(c)>>)
  /\ UNCHANGED <<signal, fitted, trigger, compactable, steps, retried, session>>

\* It calls none: the stop hook is asked.
ReplyEnds ==
  /\ phase = "model" /\ signal = "live"
  /\ phase' = "stopping" /\ Record(<<Reply(0)>>)
  /\ UNCHANGED <<signal, turnLocals, session>>

\* Its calls had no names: it is told so.
ReplyNameless ==
  /\ phase = "model" /\ signal = "live"
  /\ phase' = "head" /\ Record(<<Reply(0), Harness>>)
  /\ UNCHANGED <<signal, turnLocals, session>>

\* The stop hook asks for more, unless the turn was cancelled meanwhile.
StopHook ==
  /\ phase = "stopping"
  /\ \/ Finish
     \/ /\ signal = "live" /\ phase' = "head" /\ Record(<<Harness>>)
        /\ UNCHANGED <<signal, turnLocals, session>>

\* The request failed or was aborted: what was streamed is kept as a reply.
RequestFails ==
  /\ phase = "model"
  /\ FinishWith(<<>>) \/ FinishWith(<<Reply(0)>>)

\* A delegated run that had done something is asked for a report.
RequestFailsForGood ==
  /\ phase = "model" /\ signal = "live" /\ steps > 1
  /\ phase' = "wrapup" /\ Record(<<Harness>>)
  /\ UNCHANGED <<signal, turnLocals, session>>

\* Its calls are settled; if they changed something, their checkpoint is in the log.
Checkpointed ==
  \/ UNCHANGED logVars
  \/ log' = Append(log, CheckpointLine(turnStart)) /\ UNCHANGED turnStart

BatchDone ==
  /\ phase = "batch"
  /\ phase' = "results"
  /\ Checkpointed
  /\ UNCHANGED <<signal, working, turnLocals, session>>

\* Mutant: a cancelled turn records no further result.
RecordResultLive ==
  /\ phase = "results"
  /\ IF signal = "aborted" THEN Finish
     ELSE IF answered + 1 = Calls
     THEN \/ FinishWith(<<Result(answered + 1)>>)
          \/ /\ phase' = "head" /\ Record(<<Result(answered + 1)>>)
             /\ UNCHANGED <<signal, turnLocals, session>>
     ELSE /\ answered' = answered + 1 /\ Record(<<Result(answered + 1)>>)
          /\ UNCHANGED <<phase, signal, fitted, trigger, compactable, steps, retried, session>>

\* One result is recorded; after the last the turn goes on, or ends as cancelled, refused or out of
\* calls.
RecordResult ==
  /\ phase = "results"
  /\ IF answered + 1 = Calls
     THEN \/ FinishWith(<<Result(answered + 1)>>)
          \/ /\ signal = "live" /\ phase' = "head" /\ Record(<<Result(answered + 1)>>)
             /\ UNCHANGED <<signal, turnLocals, session>>
     ELSE /\ answered' = answered + 1 /\ Record(<<Result(answered + 1)>>)
          /\ UNCHANGED <<phase, signal, fitted, trigger, compactable, steps, retried, session>>

\* A call the person makes: its message follows its checkpoint.
StartDirect ==
  /\ phase = "idle" /\ turns < MaxTurns
  /\ phase' = "direct" /\ working' = messages
  /\ turns' = turns + 1
  /\ UNCHANGED <<signal, turnLocals, messages, elidedAhead, logVars, apart>>

DirectSettled ==
  /\ phase = "direct"
  /\ phase' = "directed"
  /\ Checkpointed
  /\ UNCHANGED <<signal, working, turnLocals, session>>

DirectDone == phase = "directed" /\ FinishWith(<<Harness>>)

\* The person cancels.  Only what waits for a signal notices at once.
Cancel ==
  /\ InTurn /\ signal = "live"
  /\ signal' = "aborted"
  /\ UNCHANGED <<phase, working, turnLocals, logVars, session>>

-----------------------------------------------------------------------------
(* Compaction.                                                             *)

Compact(why, ms) ==
  /\ phase' = "compacting" /\ trigger' = why
  /\ ElideInto(fitted', ms) \/ (fitted' = ms /\ UNCHANGED logVars)
  /\ UNCHANGED <<signal, working, compactable, steps, answered, messages, elidedAhead, apart>>

CompactAhead ==
  /\ phase = "fitting" /\ compactable
  /\ Compact("auto", working)
  /\ UNCHANGED <<retried, turns>>

\* The request was refused as too long, the first time.
CompactRefused ==
  /\ phase = "model" /\ signal = "live" /\ ~retried
  /\ retried' = TRUE
  /\ Compact("overflow", working)
  /\ UNCHANGED <<turns>>

CompactAsked ==
  /\ phase = "idle" /\ turns < MaxTurns
  /\ turns' = turns + 1
  /\ Compact("manual", messages)
  /\ UNCHANGED retried

\* What compactNow returned is taken over: by the turn, which sends it, or by the session.
TakeOver(ms) ==
  \/ /\ trigger = "manual"
     /\ TurnOver /\ messages' = ms
     /\ UNCHANGED <<turns, apart>>
  \/ /\ trigger # "manual"
     /\ phase' = "model" /\ trigger' = "none" /\ working' = ms /\ fitted' = <<>>
     /\ UNCHANGED <<signal, steps, retried, answered, messages, turns, apart>>

\* The summary is there, or its request failed and the messages are left out instead.
Summarized ==
  /\ phase = "compacting" /\ signal = "live"
  /\ \E k \in Boundaries(fitted) \ {0} :
       LET summary == [Summary(Carried(fitted, k)) EXCEPT !.at = Len(log) + 1]
       IN /\ log' = Append(log, CompactionLine(k, summary))
          /\ TakeOver(Replaced(fitted, k, summary))
  /\ IF trigger = "auto" THEN compactable' \in BOOLEAN ELSE UNCHANGED compactable
  /\ elidedAhead' = FALSE
  /\ UNCHANGED turnStart

\* What else there was to say stays unsaid: the results that shrank did so in the log only.
Unfitted == apart' = IF fitted # working /\ apart = "no" THEN "stubs" ELSE apart

\* Nothing is left to summarize.  After a refused request that is the end of the turn, which keeps
\* its messages as they were sent.
NothingToSummarize ==
  /\ phase = "compacting" /\ signal = "live" /\ 0 \in Boundaries(fitted)
  /\ \/ /\ trigger # "overflow"
        /\ TakeOver(fitted)
        /\ IF trigger = "auto" THEN compactable' = FALSE ELSE UNCHANGED compactable
        /\ UNCHANGED <<elidedAhead, logVars>>
     \/ /\ trigger = "overflow"
        /\ TurnOver /\ messages' = working /\ Unfitted
        /\ UNCHANGED <<elidedAhead, logVars, turns>>
     \/ /\ trigger = "overflow" /\ steps > 1
        /\ phase' = "wrapup" /\ trigger' = "none" /\ fitted' = <<>>
        /\ Record(<<Harness>>) /\ Unfitted
        /\ UNCHANGED <<signal, compactable, steps, retried, answered, messages, elidedAhead, turns>>

\* The person cancels while the summary is made: ahead of a step the turn ends as cancelled, and
\* after a refused request it throws, so the runtime keeps the messages from before the turn.
SummaryAborted ==
  /\ phase = "compacting" /\ signal = "aborted"
  /\ TurnOver
  /\ \/ trigger = "auto" /\ messages' = working /\ Unfitted
     \/ trigger = "overflow" /\ messages' = messages /\ apart' = "messages"
  /\ UNCHANGED <<elidedAhead, logVars, turns>>

-----------------------------------------------------------------------------
(* The process and the log.                                                *)

\* The process ends, at any moment.
Crash ==
  /\ phase # "down"
  /\ phase' = "down" /\ NoTurn
  /\ messages' = <<>> /\ elidedAhead' = FALSE /\ turnStart' = 0 /\ apart' = "no"
  /\ UNCHANGED <<log, turns>>

\* A session opened on these lines.
Open(lines) ==
  /\ log' = lines /\ messages' = Projection(lines)
  /\ turnStart' = 0 /\ elidedAhead' = FALSE /\ apart' = "no"

Resume ==
  /\ phase = "down"
  /\ phase' = "idle" /\ Open(log)
  /\ UNCHANGED <<turnVars, turns>>

\* fork(): the lines before the turn a checkpoint names.
ForkAt(c) == SubSeq(log, 1, log[c].turn - 1)

\* The checkpoints a conversation can go back to.
Checkpoints == {c \in DOMAIN log : log[c].type = "checkpoint" /\ log[c].turn # 0}

\* The conversation goes back to before the turn of a checkpoint, in a session of its own.
Rewind ==
  /\ phase = "idle"
  /\ \E c \in Checkpoints : Open(ForkAt(c))
  /\ UNCHANGED <<phase, turnVars, turns>>

-----------------------------------------------------------------------------
Answers == ReplyCalls \/ ReplyEnds \/ ReplyNameless

Summaries == Summarized \/ NothingToSummarize

Steps ==
  \/ PromptBlocked \/ PromptAccepted \/ Cancelled \/ BeginStep \/ OutOfSteps \/ WrapUp
  \/ ElideAhead \/ CompactAhead \/ Send \/ StopHook \/ BatchDone \/ RecordResult
  \/ DirectSettled \/ DirectDone

Next ==
  \/ StartTurn \/ StartDirect \/ CompactAsked \/ Cancel
  \/ Steps \/ Answers \/ Summaries \/ SummaryAborted
  \/ RequestFails \/ RequestFailsForGood \/ CompactRefused
  \/ Crash \/ Resume \/ Rewind

Spec == Init /\ [][Next]_vars

-----------------------------------------------------------------------------
(* Properties.                                                             *)

\* What the session would send now.
Current == IF phase = "compacting" THEN fitted ELSE IF InTurn THEN working ELSE messages

Faded(ms) == [i \in DOMAIN ms |-> [ms[i] EXCEPT !.stub = FALSE]]

\* A log gives back the conversation it was written from, at every moment, whatever was compacted,
\* elided, cancelled, forked or cut off: a resume goes on with what the model was sent.  Except after
\* a compaction that came to nothing, which leaves results shrunk in the log only, and after a
\* turn that threw.
SameConversation ==
  phase # "down" =>
    /\ apart = "no" => Current = Projection(log)
    /\ apart = "stubs" => Faded(Current) = Faded(Projection(log))

\* Every call of a reply is answered by the messages that follow it, and nothing answers no call.
Whole(ms) ==
  \A i \in DOMAIN ms :
    /\ \A k \in 1..ms[i].calls :
         ms[i].role = "assistant" =>
           /\ i + k \in DOMAIN ms
           /\ ms[i + k].role = "tool" /\ ms[i + k].calls = k
    /\ ms[i].role = "tool" =>
         /\ ms[i].calls < i
         /\ ms[i - ms[i].calls].role = "assistant" /\ ms[i - ms[i].calls].calls >= ms[i].calls

\* A turn begun on a whole conversation sends no request in which a call has no result or a result
\* no call, whatever was compacted or elided on the way.
RequestsAreWhole == phase \in {"model", "wrapup"} /\ Whole(messages) => Whole(working)

\* However a turn or a compaction ends, it leaves a whole conversation whole.
WholeStaysWhole ==
  [][phase \notin {"down", "idle"} /\ phase' = "idle" /\ Whole(messages) => Whole(messages')]_vars

NamesItsTurn(c) == log[log[c].turn].message.ask = log[c].of

\* A rewind to a checkpoint that names its own turn gives back the conversation exactly as it was
\* before that turn, whatever was said, elided and compacted since.
RewindReturns ==
  \A c \in Checkpoints : NamesItsTurn(c) /\ log[c].known => Projection(ForkAt(c)) = log[c].before

\* The harness spoke in the person's place since the prompt.
Nudged == log[turnStart].message.ask = 0

HasRequest == \E i \in DOMAIN working : working[i].ask = turns

\* Every request of a turn holds what the person asked in it, verbatim, compacted or not, unless the
\* harness spoke since.
RequestIsKept == phase = "model" /\ ~Nudged => HasRequest

\* What the model is asked with: whole, and with what the person asked (core/agent.ts, context/compact.ts).
RequestsHold == RequestsAreWhole /\ RequestIsKept

\* What a resume or a rewind finds: the conversation as it was (core/transcript).
ConversationKept == SameConversation /\ RewindReturns
=============================================================================
