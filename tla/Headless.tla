------------------------------ MODULE Headless ------------------------------
(* One run without the interface: what a command line asks for, the session   *)
(* it names, the prompt or command it runs, the wakes it waits for, the       *)
(* interrupts, and the code it ends with (cli.ts, cli/run.ts, the parts of    *)
(* commands/host.ts and core/wake/table.ts it drives).  Turns, the clock and  *)
(* the person's interrupts interleave.                                        *)
(*                                                                            *)
(* What is printed is left out, and the subcommands, which end at once: "sub" *)
(* stands for them.                                                           *)
EXTENDS Naturals, Sequences, FiniteSets, SequencesExt

CONSTANTS
  Wakes,    \* wakes the run may set, each once
  MaxLists  \* lists a command offers, one after another

VARIABLES
  asked,    \* what the command line asks for
  stage,    \* where the run is
  given,    \* --choose: answers left
  offered,  \* lists offered so far
  status,   \* how the last turn ended
  pending,  \* WakeTable.pending
  wentOff,  \* wakes that went off, in order
  fired,    \* runWakes.fired: heard, and not yet run
  woken,    \* wakes run, in order
  heard,    \* the wait was told
  hung,     \* interrupts so far
  code      \* the exit code, 0 to 2, or 130

hlVars == <<asked, stage, given, offered, status, pending, wentOff, fired, woken, heard, hung, code>>

(* parseArgs: a command line that prints, one that is not understood, a       *)
(* subcommand, or a prompt, which may name a command or a session.            *)
CommandLines ==
  {"version", "unknown", "sub", "none"} \cup
  {"text", "command", "resumes", "worktree"}
Prompted == {"text", "command", "resumes", "worktree"}

Init ==
  /\ asked \in CommandLines /\ stage = "parsing"
  /\ given \in 0..MaxLists /\ offered = 0
  /\ status = "none" /\ pending = {} /\ wentOff = <<>> /\ fired = <<>> /\ woken = <<>>
  /\ heard = FALSE /\ hung = 0 /\ code = 0

wakes == <<pending, wentOff, fired, woken, heard>>

(* runCli: what only prints ends well, an unknown option is usage, and no     *)
(* prompt shows it.                                                           *)
EndsAtOnce ==
  /\ stage = "parsing" /\ asked \notin Prompted
  /\ stage' = "exited"
  /\ \/ asked \in {"version", "none"} /\ code' = 0
     \/ asked = "unknown" /\ code' = 2
     \/ asked = "sub" /\ code' \in 0..2
  /\ UNCHANGED <<asked, given, offered, status, wakes, hung>>

(* The worktree or the session it names is found, or ends the run.            *)
WorktreeRefused ==
  /\ stage = "parsing" /\ asked = "worktree"
  /\ stage' = "exited" /\ code' = 1
  /\ UNCHANGED <<asked, given, offered, status, wakes, hung>>

SessionNotFound ==
  /\ stage = "parsing" /\ asked = "resumes"
  /\ stage' = "exited" /\ code' = 1
  /\ UNCHANGED <<asked, given, offered, status, wakes, hung>>

RunBegins ==
  /\ stage = "parsing" /\ asked \in Prompted
  /\ stage' = "opening"
  /\ UNCHANGED <<asked, given, offered, status, wakes, hung, code>>

(* createRuntime, of a new session or one continued, whose wakes are restored.*)
OpensRuntime ==
  /\ stage = "opening"
  /\ \/ /\ stage' = IF asked = "command" THEN "command" ELSE "turn"
        /\ pending' \in IF asked = "resumes" THEN SUBSET Wakes ELSE {{}}
        /\ UNCHANGED code
     \/ stage' = "exited" /\ code' = 1 /\ UNCHANGED pending
  /\ UNCHANGED <<asked, given, offered, status, wentOff, fired, woken, heard, hung>>

(* A turn, the command or a wake's, sets a wake or cancels one.  One cannot   *)
(* be set twice.                                                              *)
TurnSetsWakes ==
  /\ stage \in {"turn", "command", "waking"}
  /\ \E w \in Wakes :
       \/ /\ w \notin pending /\ ~ Contains(wentOff, w) /\ pending' = pending \cup {w}
       \/ w \in pending /\ pending' = pending \ {w}
  /\ UNCHANGED <<asked, stage, given, offered, status, wentOff, fired, woken, heard, hung, code>>

(* WakeTable.check fires what is due, only once somebody listens: the run     *)
(* listens from its wakes on.                                                 *)
Listening == stage \in {"wakes", "waiting", "waking"}
GoesOff ==
  /\ Listening
  /\ \E w \in pending :
       /\ pending' = pending \ {w}
       /\ wentOff' = Append(wentOff, w)
       /\ fired' = IF stage \in {"wakes", "waiting", "waking"} THEN Append(fired, w) ELSE fired
       /\ heard' = (stage = "waiting")
  /\ UNCHANGED <<asked, stage, given, offered, status, woken, hung, code>>

(* offer, where nothing can be sent later: a list takes the next answer given *)
(* in advance, unless only the person may answer it; with none it is closed.  *)
ListOffered ==
  /\ stage = "command" /\ offered < MaxLists
  /\ offered' = offered + 1
  /\ given' \in {given, IF given > 0 THEN given - 1 ELSE given}
  /\ UNCHANGED <<asked, stage, status, wakes, hung, code>>

(* The prompt's turn, or the command and what it started, is over; its wakes  *)
(* come next.                                                                 *)
FirstEnds ==
  /\ stage \in {"turn", "command"}
  /\ status' \in IF hung > 0 THEN {"cancelled", "ok", "error"} ELSE {"ok", "error"}
  /\ stage' = "wakes"
  /\ UNCHANGED <<asked, given, offered, wakes, hung, code>>

(* A turn that throws, rather than ends in error, ends the run with it.       *)
TurnThrows ==
  /\ stage \in {"turn", "command", "waking"}
  /\ stage' = "exited" /\ code' = 1 /\ status' = "threw"
  /\ UNCHANGED <<asked, given, offered, wakes, hung>>

(* runWakes: what was heard is run, oldest first; with nothing heard and      *)
(* nothing pending it is over; an interrupt ends it.                          *)
NothingPending == pending = {}
NothingLeft == fired = <<>> /\ pending = {}
WakesLoop ==
  /\ stage = "wakes"
  /\ \/ /\ hung > 0 \/ NothingLeft
        /\ stage' = "closing" /\ UNCHANGED <<fired, woken>>
     \/ /\ hung = 0 /\ ~ NothingLeft /\ fired # <<>>
        /\ woken' = Append(woken, Head(fired)) /\ fired' = Tail(fired)
        /\ stage' = "waking"
     \/ /\ hung = 0 /\ ~ NothingLeft /\ fired = <<>>
        /\ stage' = "waiting" /\ UNCHANGED <<fired, woken>>
  /\ heard' = FALSE
  /\ UNCHANGED <<asked, given, offered, status, pending, wentOff, hung, code>>

WakeEnds ==
  /\ stage = "waking"
  /\ stage' = "wakes"
  /\ status' \in IF hung > 0 THEN {"cancelled", "ok", "error"} ELSE {"ok", "error"}
  /\ UNCHANGED <<asked, given, offered, wakes, hung, code>>

(* The wait ends as a wake is heard, once a second while none is pending, and *)
(* at an interrupt.                                                           *)
WaitEnds ==
  /\ stage = "waiting" /\ (heard \/ NothingPending \/ hung > 0)
  /\ stage' = "wakes"
  /\ UNCHANGED <<asked, given, offered, status, wakes, hung, code>>

(* The session is closed, and the outcome told.                               *)
Closes ==
  /\ stage = "closing"
  /\ stage' = "exited"
  /\ code' = IF hung > 0 \/ status = "cancelled" THEN 130 ELSE IF status = "ok" THEN 0 ELSE 1
  /\ UNCHANGED <<asked, given, offered, status, wakes, hung>>

(* The first interrupt stops the turn, a second one leaves.                   *)
Interrupt ==
  /\ stage \notin {"parsing", "exited"} /\ hung < 2
  /\ hung' = hung + 1
  /\ IF hung = 1 THEN stage' = "exited" /\ code' = 130 ELSE UNCHANGED <<stage, code>>
  /\ UNCHANGED <<asked, given, offered, status, wakes>>

Next ==
  \/ EndsAtOnce \/ WorktreeRefused \/ SessionNotFound \/ RunBegins
  \/ OpensRuntime \/ TurnSetsWakes \/ GoesOff \/ ListOffered \/ FirstEnds
  \/ TurnThrows
  \/ WakesLoop \/ WakeEnds \/ WaitEnds \/ Closes \/ Interrupt

Spec == Init /\ [][Next]_hlVars

(* A run that ends of itself has run every wake that went off, each once and  *)
(* in the order they did, and leaves none pending; one that says it ended     *)
(* well did (run.ts runWakes, cli.ts runCli).                                 *)
NoWakeLeftBehind ==
  /\ IsPrefix(woken, wentOff)
  /\ stage = "exited" /\ hung = 0 /\ status # "threw" =>
       /\ woken = wentOff /\ pending = {}
       /\ code = 0 => status \in {"none", "ok"}
=============================================================================
