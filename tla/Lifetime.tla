------------------------------- MODULE Lifetime -------------------------------
(* A project's sessions from one process to the next (core/runtime/index.ts,  *)
(* core/verify/handoff.ts, core/catalog/cost.ts): what each has spent, in     *)
(* memory and in its log, and the handoff, one file of the project that each  *)
(* session may leave for the next.  Sessions open, close, crash, continue and *)
(* fork while others run; a background child spends between turns; a handoff  *)
(* is written after a wait for the todo list.                                 *)
(*                                                                            *)
(* A spend is the number of requests, the session's own and its children's;   *)
(* prices and models go the same way and are left out, and so are what a      *)
(* handoff says and a log that cannot be written.  MaxSpent bounds the        *)
(* requests that the logs hold together.                                      *)
EXTENDS Naturals, FiniteSetsExt

CONSTANTS Sessions, MaxSpent

VARIABLES
  stage,     \* where each session is
  mode,      \* what it runs: a turn, a compaction, or nothing
  spent,     \* CostLedger
  log,       \* what its log holds of this
  writing,   \* handoffs it is about to write, by reason
  raced,     \* it wrote a reset while its end was being written
  file,      \* the handoff
  note       \* whose handoff its first prompt carries

ltVars == <<stage, mode, spent, log, writing, raced, file, note>>
kept == <<writing, raced, file, note>>
lives == <<stage, mode>>
told == <<spent, log>>

None == [session |-> "none", reason |-> "none"]
Empty == [own |-> 0, delegated |-> 0]
NewLog == [spent |-> Empty, any |-> FALSE, last |-> "none", since |-> FALSE]
Reasons == {"end", "reset", "drop"}

TypeOK ==
  /\ stage \in [Sessions -> {"none", "open", "closing", "closed"}]
  /\ mode \in [Sessions -> {"none", "turn", "compact"}]
  /\ \A s \in Sessions : writing[s] \subseteq Reasons /\ log[s].last \in {"none"} \cup Reasons
  /\ raced \in [Sessions -> BOOLEAN]

Init ==
  /\ stage = [s \in Sessions |-> "none"]
  /\ mode = [s \in Sessions |-> "none"]
  /\ spent = [s \in Sessions |-> Empty] /\ log = [s \in Sessions |-> NewLog]
  /\ writing = [s \in Sessions |-> {}] /\ raced = [s \in Sessions |-> FALSE]
  /\ file = None /\ note = [s \in Sessions |-> "none"]

-----------------------------------------------------------------------------
(* createRuntime: a new session reads the reset another one left; a continued *)
(* one takes its spend from its log, and a fork from the log it copied.       *)
Opens(s) == stage' = [stage EXCEPT ![s] = "open"] /\ UNCHANGED mode
OpensNew(s) ==
  /\ stage[s] = "none" /\ Opens(s)
  /\ note' = [note EXCEPT ![s] = IF file.reason = "reset" THEN file.session ELSE "none"]
  /\ UNCHANGED <<told, writing, raced, file>>
Continues(s) ==
  /\ stage[s] = "closed" /\ Opens(s)
  /\ spent' = [spent EXCEPT ![s] = log[s].spent]
  /\ UNCHANGED <<log, kept>>
Forks(s, source) ==
  /\ stage[s] = "none" /\ stage[source] # "none" /\ Opens(s)
  /\ log' = [log EXCEPT ![s] = log[source]]
  /\ spent' = [spent EXCEPT ![s] = log[source].spent]
  /\ UNCHANGED kept

(* A turn: its prompt, with the handoff note, and what is said in it.         *)
StartTurn(s) ==
  /\ stage[s] = "open" /\ mode[s] = "none"
  /\ mode' = [mode EXCEPT ![s] = "turn"]
  /\ log' = [log EXCEPT ![s].any = TRUE, ![s].since = TRUE]
  /\ note' = [note EXCEPT ![s] = "none"]
  /\ UNCHANGED <<stage, spent, writing, raced, file>>
Says(s) ==
  /\ mode[s] = "turn"
  /\ log' = [log EXCEPT ![s].since = TRUE]
  /\ UNCHANGED <<lives, spent, kept>>
StartCompact(s) ==
  /\ stage[s] = "open" /\ mode[s] = "none"
  /\ mode' = [mode EXCEPT ![s] = "compact"]
  /\ UNCHANGED <<stage, told, kept>>
Ends(s) ==
  /\ mode[s] # "none"
  /\ mode' = [mode EXCEPT ![s] = "none"]
  /\ UNCHANGED <<stage, told, kept>>

(* A request is accounted for and recorded: by `emit` in a turn or a          *)
(* compaction, by completeOnce and onUsage outside of one.  A background    *)
(* child asks at any time once a turn has begun it.                           *)
Total == MapThenSumSet(LAMBDA s : log[s].spent.own + log[s].spent.delegated, Sessions)
MaySpend == Total < MaxSpent
Account(s, kind) == spent' = [spent EXCEPT ![s][kind] = @ + 1]
Records(s, kind) == log' = [log EXCEPT ![s].spent[kind] = @ + 1]
Usage(s) ==
  /\ mode[s] # "none" /\ MaySpend
  /\ Account(s, "own") /\ Records(s, "own")
  /\ UNCHANGED <<lives, kept>>
CompleteOnce(s) ==
  /\ stage[s] = "open" /\ MaySpend
  /\ Account(s, "own") /\ Records(s, "own")
  /\ UNCHANGED <<lives, kept>>
ChildUsage(s) ==
  /\ stage[s] = "open" /\ log[s].any /\ MaySpend
  /\ Account(s, "delegated") /\ Records(s, "delegated")
  /\ UNCHANGED <<lives, kept>>

-----------------------------------------------------------------------------
(* handoffDue: nothing is left of a session where nothing was said, and a     *)
(* reset is not written over by the session's end unless more was said.       *)
Due(s, reason) ==
  /\ log[s].any
  /\ reason = "end" => log[s].last # "reset" \/ log[s].since

(* writeHandoffNow: looks, reads the todo list, and writes.                   *)
Begins(s, reason) ==
  writing' = IF Due(s, reason) THEN [writing EXCEPT ![s] = @ \cup {reason}] ELSE writing
(* /handoff and a workflow's reset; a compaction that dropped messages.       *)
Handoff(s) ==
  /\ stage[s] = "open" /\ mode[s] = "none"
  /\ Begins(s, "reset")
  /\ UNCHANGED <<lives, told, raced, file, note>>
Drops(s) ==
  /\ mode[s] # "none"
  /\ Begins(s, "drop")
  /\ UNCHANGED <<lives, told, raced, file, note>>
Writes(s, reason) ==
  /\ reason \in writing[s]
  /\ writing' = [writing EXCEPT ![s] = @ \ {reason}]
  /\ file' = [session |-> s, reason |-> reason]
  /\ log' = [log EXCEPT ![s].last = reason, ![s].since = FALSE]
  /\ raced' = [raced EXCEPT ![s] = @ \/ (reason = "reset" /\ "end" \in writing[s])]
  /\ UNCHANGED <<lives, spent, note>>
WriteFails(s, reason) ==
  /\ reason \in writing[s]
  /\ writing' = [writing EXCEPT ![s] = @ \ {reason}]
  /\ UNCHANGED <<lives, told, raced, file, note>>

(* close: the handoff is left; the children have been stopped.                *)
Close(s) ==
  /\ stage[s] = "open" /\ mode[s] = "none"
  /\ stage' = [stage EXCEPT ![s] = "closing"]
  /\ Begins(s, "end")
  /\ UNCHANGED <<mode, told, raced, file, note>>
Gone(s) ==
  /\ stage' = [stage EXCEPT ![s] = "closed"] /\ mode' = [mode EXCEPT ![s] = "none"]
  /\ writing' = [writing EXCEPT ![s] = {}] /\ note' = [note EXCEPT ![s] = "none"]
  /\ UNCHANGED <<told, raced, file>>
Closed(s) == stage[s] = "closing" /\ "end" \notin writing[s] /\ Gone(s)
Crash(s) == stage[s] \in {"open", "closing"} /\ Gone(s)

Next ==
  \E s \in Sessions :
    \/ OpensNew(s) \/ Continues(s) \/ \E source \in Sessions : Forks(s, source)
    \/ StartTurn(s) \/ Says(s) \/ StartCompact(s) \/ Ends(s)
    \/ Usage(s) \/ CompleteOnce(s) \/ ChildUsage(s)
    \/ Handoff(s) \/ Drops(s)
    \/ \E reason \in Reasons : Writes(s, reason)
    \/ \E reason \in Reasons : WriteFails(s, reason)
    \/ Close(s) \/ Closed(s) \/ Crash(s)
Spec == Init /\ [][Next]_ltVars

-----------------------------------------------------------------------------
(* What an open session says it has spent is what its log holds, however it   *)
(* was opened and whatever spent it, so continuing it loses nothing.          *)
SpendIsKept ==
  \A s \in Sessions : stage[s] \in {"open", "closing"} => spent[s] = log[s].spent
(* A reset the person asked for, with nothing said since, is never about to   *)
(* be written over by the end of its session, whatever wrote the file in      *)
(* between; unless it was itself still being written when the session closed. *)
ResetIsKept ==
  \A s \in Sessions :
    /\ file = [session |-> s, reason |-> "reset"] /\ ~log[s].since /\ log[s].any
    /\ ~raced[s]
    => "end" \notin writing[s]
LifetimeHolds == SpendIsKept /\ ResetIsKept
=============================================================================
