------------------------------ MODULE Commands ------------------------------
(* The slash commands that change the session, as the interface runs them:    *)
(* the context a command is given, the lists it offers, the session it opens  *)
(* in place of the one on the screen, and the messages that wait meanwhile    *)
(* (commands/builtin, tui/app/App.tsx, tui/app/controller.ts).  The person,   *)
(* the turns and compactions that end, the wakes that go off and the sessions *)
(* that open interleave.                                                      *)
(*                                                                            *)
(* Commands that only report are left out, and what is drawn.  Of the context *)
(* a list keeps, the session and whether a turn ran matter.  /setup's models  *)
(* are listed between turns only, as every list of files and commits is.      *)
EXTENDS Naturals, Sequences, FiniteSets

CONSTANTS
  Messages,    \* messages sent, and wakes that go off, each once
  MaxSessions  \* runtimes opened

Sessions == 1..MaxSessions

VARIABLES
  shown,    \* App's runtime: the session on the screen
  alive,    \* the runtimes that are open
  started,  \* how many were opened
  doing,    \* what each runtime runs: nothing, a turn, a compaction
  held,     \* SessionController.held, per runtime
  queue,    \* SessionController.queue, per runtime
  fate,     \* where each message is
  overlay,  \* the list on the screen, with the context its command was given
  opening,  \* sessions being opened: in place of which, and for which command
  restoring, \* the runtimes whose files are being put back
  did       \* the last change a command made, and what the runtime then ran

comVars == <<shown, alive, started, doing, held, queue, fate, overlay, opening, restoring, did>>

Init ==
  /\ shown = 1 /\ alive = {1} /\ started = 1
  /\ doing = [r \in Sessions |-> "nothing"]
  /\ held = [r \in Sessions |-> FALSE]
  /\ queue = [r \in Sessions |-> <<>>]
  /\ fate = [m \in Messages |-> "none"]
  /\ overlay = {} /\ opening = {} /\ restoring = {}
  /\ did = {}

(* controller.running, and the runtime's own look at what it runs.            *)
Running(r) == doing[r] = "turn"
Busy(r) == doing[r] # "nothing"

(* context(): what it says of a turn is what was so when it was made.         *)
Context == [on |-> shown, ran |-> Running(shown)]

Changed(op, how, r) == did' = {[op |-> op, how |-> how, during |-> doing[r]]}

(* submit and sendNext: a message waits behind a turn and behind what holds   *)
(* the session; else it is run, and what the runtime refuses is lost.         *)
Submits(r, m) ==
  IF Running(r) \/ held[r]
  THEN /\ queue' = [queue EXCEPT ![r] = Append(@, m)]
       /\ fate' = [fate EXCEPT ![m] = "queued"] /\ UNCHANGED doing
  ELSE IF Busy(r)
  THEN fate' = [fate EXCEPT ![m] = "refused"] /\ UNCHANGED <<queue, doing>>
  ELSE /\ doing' = [doing EXCEPT ![r] = "turn"]
       /\ fate' = [fate EXCEPT ![m] = "run"] /\ UNCHANGED queue

(* The oldest that waits is sent once nothing holds it, `now` being what the  *)
(* runtime runs then.                                                         *)
SendsNext(r, now, holds) ==
  IF queue[r] = <<>> \/ holds \/ now = "turn"
  THEN doing' = [doing EXCEPT ![r] = now] /\ UNCHANGED <<queue, fate>>
  ELSE IF now = "nothing"
  THEN /\ doing' = [doing EXCEPT ![r] = "turn"]
       /\ queue' = [queue EXCEPT ![r] = Tail(@)]
       /\ fate' = [fate EXCEPT ![Head(queue[r])] = "run"]
  ELSE \* each in its turn: the session compacts
       /\ doing' = [doing EXCEPT ![r] = now]
       /\ queue' = [queue EXCEPT ![r] = <<>>]
       /\ fate' = [m \in Messages |->
                     IF \E i \in DOMAIN queue[r] : queue[r][i] = m THEN "refused" ELSE fate[m]]

(* The person sends a message, a list's choice does, or a wake goes off.      *)
Send ==
  /\ \E m \in Messages : fate[m] = "none" /\ Submits(shown, m)
  /\ UNCHANGED <<shown, alive, started, held, overlay, opening, restoring, did>>

TurnEnds ==
  /\ \E r \in Sessions : Running(r) /\ SendsNext(r, "nothing", held[r])
  /\ UNCHANGED <<shown, alive, started, held, overlay, opening, restoring, did>>

(* stopTurn: what waits goes back to the composer, unsent.                    *)
StopTurn ==
  /\ Running(shown) /\ queue[shown] # <<>>
  /\ fate' = [m \in Messages |->
                IF \E i \in DOMAIN queue[shown] : queue[shown][i] = m THEN "back" ELSE fate[m]]
  /\ queue' = [queue EXCEPT ![shown] = <<>>]
  /\ UNCHANGED <<shown, alive, started, doing, held, overlay, opening, restoring, did>>

(* takeQueued: the last that waits, taken back to edit.                       *)
TakeBack ==
  /\ overlay = {} /\ queue[shown] # <<>>
  /\ LET q == queue[shown] IN
     /\ fate' = [fate EXCEPT ![q[Len(q)]] = "back"]
     /\ queue' = [queue EXCEPT ![shown] = SubSeq(q, 1, Len(q) - 1)]
  /\ UNCHANGED <<shown, alive, started, doing, held, overlay, opening, restoring, did>>

(* /compact: messages are held while it works, and sent once it is done.  One *)
(* asked for while another works is refused by the runtime, and lets go.      *)
Compact ==
  /\ overlay = {} /\ ~ Running(shown)
  /\ IF Busy(shown)
     THEN /\ held' = [held EXCEPT ![shown] = FALSE]
          /\ SendsNext(shown, doing[shown], FALSE) /\ UNCHANGED did
     ELSE /\ held' = [held EXCEPT ![shown] = TRUE]
          /\ doing' = [doing EXCEPT ![shown] = "compaction"]
          /\ Changed("compact", "typed", shown) /\ UNCHANGED <<queue, fate>>
  /\ UNCHANGED <<shown, alive, started, overlay, opening, restoring>>

CompactionEnds ==
  /\ \E r \in Sessions :
       /\ doing[r] = "compaction"
       /\ held' = [held EXCEPT ![r] = FALSE]
       /\ SendsNext(r, "nothing", FALSE)
  /\ UNCHANGED <<shown, alive, started, overlay, opening, restoring, did>>

-----------------------------------------------------------------------------
(* What a command does, given its context: at once where it was typed whole,  *)
(* later where it was chosen: waitForTurn holds it back while a turn runs.    *)
WaitForTurn(ctx) == ctx.ran

(* It sets something of the session, which is told.                           *)
Sets(op, how, ctx) == Changed(op, how, ctx.on) /\ UNCHANGED <<opening, restoring>>

(* switchSession, of the session the context is of, whose turn it looks at;   *)
(* what a setting changes is saved first.                                     *)
Opens(op, how, ctx) ==
  /\ opening' = IF Running(ctx.on) \/ started + Cardinality(opening) >= MaxSessions
                THEN opening
                ELSE opening \cup {[from |-> ctx, op |-> op, listed |-> how = "chosen"]}
  /\ UNCHANGED restoring

(* Its files are put back.                                                    *)
PutsBack(op, how, ctx) ==
  /\ ~ Busy(ctx.on)
  /\ restoring' = restoring \cup {ctx.on}
  /\ Changed(op, how, ctx.on)
  /\ UNCHANGED opening

\* Settings of this session's model.
Model(how, ctx) == ~ WaitForTurn(ctx) /\ Sets("model", how, ctx)
Effort(how, ctx) == ~ WaitForTurn(ctx) /\ Sets("model", how, ctx)
Setup(how, ctx) == how = "chosen" /\ Sets("model", how, ctx)

\* Its rules: the runtime looks at what it runs too.
SessionRules(how, ctx) ==
  how = "typed" /\ ~ WaitForTurn(ctx) /\ ~ Busy(ctx.on) /\ Sets("rule", how, ctx)

\* What it is called, its color, flags, wakes and notes: at any time.
Rename(how, ctx) == how = "typed" /\ Sets("name", how, ctx)
Color(how, ctx) == Sets("name", how, ctx)
Flag(how, ctx) == how = "typed" /\ Sets("name", how, ctx)
Wake(how, ctx) == how = "typed" /\ Sets("name", how, ctx)
Note(how, ctx) == how = "typed" /\ Sets("name", how, ctx)

\* Another session in its place; a fork copies its log first.
Clear(how, ctx) == how = "typed" /\ ~ WaitForTurn(ctx) /\ Opens("resume", how, ctx) /\ UNCHANGED did
Resume(how, ctx) == ~ WaitForTurn(ctx) /\ Opens("resume", how, ctx) /\ UNCHANGED did
Fork(how, ctx) == how = "typed" /\ ~ WaitForTurn(ctx) /\ Opens("resume", how, ctx) /\ UNCHANGED did
Profile(how, ctx) == how = "typed" /\ ~ WaitForTurn(ctx) /\ Opens("resume", how, ctx) /\ UNCHANGED did

\* A setting is saved, and the same session opened again with it.
Config(how, ctx) == ~ WaitForTurn(ctx) /\ Changed("config", how, ctx.on) /\ Opens("config", how, ctx)
Mcp(how, ctx) == how = "typed" /\ ~ WaitForTurn(ctx) /\ Changed("config", how, ctx.on) /\ Opens("resume", how, ctx)
Agents(how, ctx) == ~ WaitForTurn(ctx) /\ Changed("config", how, ctx.on) /\ Opens("resume", how, ctx)

\* The files, the conversation, or the index, from lists made between turns.
Restore(how, ctx) ==
  /\ how = "chosen" /\ ~ ctx.ran
  /\ \/ PutsBack("restore", how, ctx)
     \/ Opens("resume", how, ctx) /\ UNCHANGED did
Act(how, ctx) == how = "chosen" /\ (PutsBack("revert", how, ctx) \/ Sets("index", how, ctx))
Commit(how, ctx) == how = "chosen" /\ Sets("index", how, ctx)
Pr(how, ctx) == how = "chosen" /\ Sets("index", how, ctx)

Does(op, how, ctx) ==
  \/ op = "model" /\ (Model(how, ctx) \/ Effort(how, ctx) \/ Setup(how, ctx))
  \/ op = "rule" /\ SessionRules(how, ctx)
  \/ op = "name" /\ (Rename(how, ctx) \/ Color(how, ctx) \/ Flag(how, ctx) \/ Wake(how, ctx) \/ Note(how, ctx))
  \/ op = "resume" /\ (Clear(how, ctx) \/ Resume(how, ctx) \/ Fork(how, ctx) \/ Profile(how, ctx))
  \/ op = "config" /\ Config(how, ctx)
  \/ op = "agents" /\ (Mcp(how, ctx) \/ Agents(how, ctx))
  \/ op = "restore" /\ Restore(how, ctx)
  \/ op = "index" /\ (Act(how, ctx) \/ Commit(how, ctx) \/ Pr(how, ctx))

(* runCommand, of a command that needs no list.                               *)
Typed ==
  /\ overlay = {}
  /\ \E op \in {"model", "name", "rule", "resume", "config", "agents"} : Does(op, "typed", Context)
  /\ UNCHANGED <<shown, alive, started, doing, held, queue, fate, overlay>>

(* pick: a list is on the screen, and keeps the context of its command.  What *)
(* restores, stages or commits is not listed while a turn runs.               *)
Listed ==
  /\ overlay = {}
  /\ \E op \in {"model", "name", "resume", "config", "agents", "restore", "index"} :
       /\ op \in {"restore", "index"} => ~ Running(shown)
       /\ overlay' = {[op |-> op, ctx |-> Context]}
  /\ UNCHANGED <<shown, alive, started, doing, held, queue, fate, opening, restoring, did>>

(* chooseOverlay: the list closes, and its choice is done; a refusal only     *)
(* says so, and the settings are listed again.                                *)
Chosen ==
  /\ overlay # {}
  /\ \/ overlay' = {} /\ \E list \in overlay : Does(list.op, "chosen", list.ctx)
     \/ /\ overlay' \in {{}, { list \in overlay : list.op = "config" }}
        /\ UNCHANGED <<opening, restoring, did>>
  /\ UNCHANGED <<shown, alive, started, doing, held, queue, fate>>

(* The new session is shown, and the one its command was of is closed; the    *)
(* settings open again, with the context they had.  Or it could not open.     *)
Opened ==
  /\ \E o \in opening :
       /\ opening' = opening \ {o}
       /\ \/ /\ started' = started + 1 /\ shown' = started + 1
             /\ alive' = (alive \cup {started + 1}) \ {o.from.on}
          \/ UNCHANGED <<started, shown, alive>>
       /\ overlay' = IF o.op = "config" /\ o.listed THEN {[op |-> "config", ctx |-> o.from]} ELSE overlay
  /\ UNCHANGED <<doing, held, queue, fate, restoring, did>>

PutBack ==
  /\ \E r \in restoring : restoring' = restoring \ {r}
  /\ UNCHANGED <<shown, alive, started, doing, held, queue, fate, overlay, opening, did>>

Next ==
  \/ Send \/ TurnEnds \/ StopTurn \/ TakeBack \/ Compact \/ CompactionEnds
  \/ Typed \/ Listed \/ Chosen \/ Opened \/ PutBack

Spec == Init /\ [][Next]_comVars

(* Whatever was running when a list was offered, files are put back, rules    *)
(* changed and the conversation compacted only while the session runs         *)
(* nothing; and a command typed whole changes what a turn runs with only      *)
(* between turns (builtin/index.ts waitForTurn, and the runtime's own looks). *)
ChangesBetweenTurns ==
  \A d \in did :
    /\ d.op \in {"rule", "restore", "revert", "compact"} => d.during = "nothing"
    /\ d.op \in {"model", "config"} /\ d.how = "typed" => d.during # "turn"

=============================================================================
