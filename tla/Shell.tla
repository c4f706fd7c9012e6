------------------------------- MODULE Shell --------------------------------
(* A command of the model's: run here to its end, run in the terminal an      *)
(* editor lends, or started as a background job (core/tools/command.ts,       *)
(* acp/editor.ts).  The command is a shell with its descendants, in a process *)
(* group of their own; it is stopped by its time limit, by the turn that is   *)
(* cancelled, or, a job, by command_kill.                                     *)
(*                                                                            *)
(* A descendant is piped when it holds the command's output open, quiet when  *)
(* its output goes elsewhere, and away when it left the group with the output *)
(* open.  Output is the numbers 1, 2, ... in the order they were written.     *)
EXTENDS Integers, Sequences, SequencesExt, FiniteSetsExt

CONSTANTS
  Limit,   \* characters of output kept
  MaxOut   \* a bound on what a command writes

VARIABLES
  how,      \* where the command runs: nowhere yet, here, in the editor, as a job
  shell,    \* whether the shell runs
  kids,     \* the descendants that run
  stubborn, \* which of them do not end on SIGTERM
  timer,    \* whether the time limit is still to pass
  grace,    \* whether SIGKILL is still to follow SIGTERM
  stop,     \* what stopped the command, if anything
  told,     \* how the call ended, as the model is told
  runs,     \* how often the command was started
  aborted,  \* whether the turn was cancelled
  total,    \* what was written
  head, tail, unread,  \* what is kept of it, and what a job has to be read
  readTo    \* what was written when the job was last read

shVars == <<how, shell, kids, stubborn, timer, grace, stop, told, runs, aborted, total, head, tail, unread, readTo>>
output == <<total, head, tail, unread, readTo>>
procs == <<shell, kids, stubborn, timer, grace>>

Kinds == {"piped", "quiet", "away"}
InGroup == {"piped", "quiet"}
HoldsOutput == {"piped", "away"}
Half == Limit \div 2

(* The bounds are numbers of characters.                                      *)
BoundsAreNat == Limit \in Nat /\ MaxOut \in Nat

Init ==
  /\ how = "none" /\ shell = "none" /\ kids = {} /\ stubborn = {}
  /\ timer = FALSE /\ grace = FALSE /\ stop = "none" /\ told = "none"
  /\ runs = 0 /\ aborted = FALSE
  /\ total = 0 /\ head = <<>> /\ tail = <<>> /\ unread = <<>> /\ readTo = 0

Runs == how \in {"here", "job"} /\ told = "none"

(* startProcess, for runShellCommand and startBackgroundCommand.              *)
StartsHere(as) ==
  /\ how' = as /\ shell' = "runs" /\ runs' = runs + 1
  /\ stubborn' \in SUBSET ({"shell"} \cup InGroup)
  /\ timer' = (as = "here")
  /\ UNCHANGED <<kids, grace, stop, told, aborted, output>>
Begins == how = "none" /\ told = "none"
RunsHere == Begins /\ ~aborted /\ StartsHere("here")
AbortedFirst ==
  /\ Begins /\ aborted
  /\ told' = "cancelled"
  /\ UNCHANGED <<how, procs, stop, runs, aborted, output>>
CannotStart ==
  /\ Begins
  /\ told' = "error"
  /\ UNCHANGED <<how, procs, stop, runs, aborted, output>>
RunsJob == Begins /\ StartsHere("job")

Forks(k) ==
  /\ shell = "runs" /\ kids' = kids \cup {k}
  /\ UNCHANGED <<how, shell, stubborn, timer, grace, stop, told, runs, aborted, output>>
(* An exit clears the timer that SIGKILL waits for.                           *)
ShellExits ==
  /\ shell = "runs" /\ shell' = "gone" /\ grace' = FALSE
  /\ UNCHANGED <<how, kids, stubborn, timer, stop, told, runs, aborted, output>>
KidExits(k) ==
  /\ k \in kids /\ kids' = kids \ {k}
  /\ UNCHANGED <<how, shell, stubborn, timer, grace, stop, told, runs, aborted, output>>

(* stopProcess: nothing once the shell has exited; else SIGTERM to the group, *)
(* and SIGKILL after a while if the shell is still there.                     *)
StopProcess ==
  IF shell # "runs" THEN UNCHANGED <<shell, kids, grace>>
  ELSE /\ shell' = IF "shell" \in stubborn THEN "runs" ELSE "gone"
       /\ kids' = kids \ (InGroup \ stubborn)
       /\ grace' = ("shell" \in stubborn)
TimesOut ==
  /\ how = "here" /\ told = "none" /\ timer
  /\ timer' = FALSE /\ stop' = IF stop = "cancelled" THEN stop ELSE "timeout"
  /\ StopProcess
  /\ UNCHANGED <<how, stubborn, told, runs, aborted, output>>
Cancelled ==
  /\ ~aborted /\ aborted' = TRUE
  /\ IF how = "here" /\ told = "none" THEN stop' = "cancelled" /\ StopProcess
     ELSE UNCHANGED <<stop, shell, kids, grace>>
  /\ UNCHANGED <<how, stubborn, timer, told, runs, output>>
KillsJob ==
  /\ how = "job" /\ told = "none"
  /\ stop' = "killed" /\ StopProcess
  /\ UNCHANGED <<how, stubborn, timer, told, runs, aborted, output>>
GraceEnds ==
  /\ grace /\ grace' = FALSE
  /\ shell' = "gone" /\ kids' = kids \ InGroup
  /\ UNCHANGED <<how, stubborn, timer, stop, told, runs, aborted, output>>

(* close: the shell has exited and nothing holds its output open.             *)
Closes ==
  /\ Runs /\ shell = "gone" /\ kids \cap HoldsOutput = {}
  /\ told' = IF stop = "none" THEN "exit" ELSE stop
  /\ timer' = FALSE
  /\ UNCHANGED <<how, shell, kids, stubborn, grace, stop, runs, aborted, output>>

(* HeadTailBuffer.push, a chunk at a time, and what a job has unread.         *)
LastOf(s, n) == SubSeq(s, Max({1, Len(s) - n + 1}), Len(s))
FirstOf(s, n) == SubSeq(s, 1, Min({n, Len(s)}))
Rest(s, n) == SubSeq(s, n + 1, Len(s))
Room(n) == Half - n
Writes(n) ==
  LET chunk == [i \in 1..n |-> total + i]
      room == IF Len(head) < Half THEN Room(Len(head)) ELSE 0 IN
  /\ Runs /\ (shell = "runs" \/ kids \cap HoldsOutput # {})
  /\ total + n <= MaxOut /\ total' = total + n
  /\ head' = head \o FirstOf(chunk, room)
  /\ tail' = IF Len(chunk) > room THEN LastOf(tail \o Rest(chunk, room), Half) ELSE tail
  /\ unread' = IF how = "job" THEN LastOf(unread \o chunk, Limit) ELSE unread
  /\ UNCHANGED <<how, procs, stop, told, runs, aborted, readTo>>
(* command_output.                                                            *)
ReadsJob ==
  /\ how = "job" /\ unread' = <<>> /\ readTo' = total
  /\ UNCHANGED <<how, procs, stop, told, runs, aborted, total, head, tail>>

(* runInTerminal: the editor's processes are its own to run and to kill.      *)
EditorStarts ==
  /\ Begins /\ how' = "editor" /\ shell' = "runs" /\ runs' = runs + 1 /\ timer' = TRUE
  /\ UNCHANGED <<kids, stubborn, grace, stop, told, aborted, output>>
EditorTells(how_) ==
  /\ how = "editor" /\ told = "none"
  /\ told' = how_ /\ timer' = FALSE /\ shell' \in {shell, "gone"}
  /\ UNCHANGED <<how, kids, stubborn, grace, stop, runs, aborted, output>>
EditorExits == EditorTells("exit")
EditorTimesOut == timer /\ EditorTells("timeout")
EditorCancelled == aborted /\ EditorTells("cancelled")
(* A failure before the command runs starts it here instead; one after is     *)
(* told, and the command is not run again.                                    *)
EditorFails == EditorTells("error")

Next ==
  \/ RunsHere \/ AbortedFirst \/ CannotStart \/ RunsJob
  \/ \E k \in Kinds : Forks(k) \/ KidExits(k)
  \/ ShellExits \/ TimesOut \/ Cancelled \/ KillsJob \/ GraceEnds \/ Closes
  \/ \E n \in 1..MaxOut : Writes(n)
  \/ ReadsJob
  \/ EditorStarts \/ EditorExits \/ EditorTimesOut \/ EditorCancelled \/ EditorFails

Spec == Init /\ [][Next]_shVars

(* In whatever chunks output arrives, what is kept is its first half and its  *)
(* last half, and what a job has unread is the end of what was written since  *)
(* the last read (command.ts HeadTailBuffer, commandOutputRunner); and a      *)
(* command begun in the editor is never run again here (acp/editor.ts:        *)
(* "the program is never run twice").                                         *)
Written == [i \in 1..total |-> i]
OutputIsKept ==
  /\ head = FirstOf(Written, Half)
  /\ tail = LastOf(Rest(Written, Len(head)), Half)
  /\ how = "job" => unread = LastOf(Rest(Written, readTo), Limit)
  /\ runs <= 1
=============================================================================
