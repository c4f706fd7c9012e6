------------------------------- MODULE Prompts -------------------------------
(* Calls that ask, from the runtime to the screen and back: the controller's  *)
(* pending decisions (tui/app/controller.ts), the rows and prompts of the     *)
(* view (tui/state/view.ts), the keys that answer (tui/app/App.tsx), and the  *)
(* requests for input put over the composer (tui/app/elicit.ts,               *)
(* core/runtime/elicit.ts).  The turn, a background child, the keys, the      *)
(* render, the delayed Escape and a switch of session interleave.             *)
(*                                                                            *)
(* Of a row its phase is kept, and of a decision yes or no; what they show,   *)
(* grants for a fan-out and feedback are left out.  A call asks once, so the  *)
(* list of prompts is the set of those up, in the order the calls asked in.   *)
EXTENDS Naturals, Sequences, FiniteSetsExt

CONSTANTS
  Calls,      \* calls that may ask, each once
  Nested,     \* those of a background child: they outlive the turn
  Requests    \* requests for input, each once

Nobody == "nobody"

VARIABLES
  at,         \* how far each call is, in the runtime
  running,    \* a turn runs
  stopped,    \* and was stopped
  leaving,    \* the session was left: open, closing, closed
  decisions,  \* the asks the controller holds the answer of
  rows,       \* the view: the phase of each call's row
  prompts,    \* the prompts that are up, of which the oldest is shown
  order,      \* the calls, as they asked
  seen,       \* the prompts as last rendered: what a key is about
  escapes,    \* Escape was pressed on these, and its answer is on its way
  refused,    \* the calls the person said no to, by a key or by stopping
  denied,     \* the calls a no of the person's reached
  asks,       \* Elicitations.waiting
  over        \* the request in the list over the composer

view == <<rows, prompts, order>>
input == <<asks, over>>
vars == <<at, running, stopped, leaving, decisions, view, seen, escapes, refused, denied, input>>

Init ==
  /\ at = [c \in Calls |-> "none"] /\ running = FALSE /\ stopped = FALSE /\ leaving = "open"
  /\ decisions = {} /\ rows = [c \in Calls |-> "none"] /\ prompts = {} /\ order = <<>> /\ seen = {}
  /\ escapes = {} /\ refused = {} /\ denied = {}
  /\ asks = {} /\ over = Nobody

Oldest(ps) == order[Min({i \in DOMAIN order : order[i] \in ps})]

(* submit: a turn starts; its calls and those of its child appear as rows.    *)
TurnStarts ==
  /\ ~ running /\ leaving = "open" /\ \E c \in Calls \ Nested : at[c] = "none"
  /\ running' = TRUE /\ stopped' = FALSE
  /\ UNCHANGED <<at, leaving, decisions, view, seen, escapes, refused, denied, input>>

Live(c) == IF c \in Nested THEN leaving # "closed" ELSE running /\ ~ stopped

CallMade(c) ==
  /\ Live(c) /\ at[c] = "none" /\ (running \/ leaving = "closing")
  /\ at' = [at EXCEPT ![c] = "made"]
  /\ rows' = [rows EXCEPT ![c] = "pending"]
  /\ UNCHANGED <<running, stopped, leaving, decisions, prompts, order, seen, escapes, refused, denied, input>>

(* approval_request, at the controller and at the view.  A session that was   *)
(* left still has its own controller, which no key reaches.                   *)
Asked(c) ==
  /\ Live(c) /\ at[c] = "made"
  /\ at' = [at EXCEPT ![c] = "asked"]
  /\ decisions' = IF leaving = "open" THEN decisions \cup {c} ELSE decisions
  /\ rows' = [rows EXCEPT ![c] = "waiting"]
  /\ prompts' = prompts \cup {c} /\ order' = Append(order, c)
  /\ UNCHANGED <<running, stopped, leaving, seen, escapes, refused, denied, input>>

(* approval_decision: the person's answer, or a grant made elsewhere.         *)
Decided(c, allow) ==
  /\ \/ at[c] = (IF allow THEN "yes" ELSE "no")
     \/ at[c] = "asked" /\ allow
  /\ at' = [at EXCEPT ![c] = IF allow THEN "runs" ELSE "over"]
  /\ decisions' = decisions \ {c}
  /\ rows' = [rows EXCEPT ![c] = IF rows[c] = "none" THEN "none" ELSE IF allow THEN "running" ELSE "denied"]
  /\ prompts' = prompts \ {c}
  /\ UNCHANGED <<running, stopped, leaving, order, seen, escapes, refused, denied, input>>

(* tool_result: of a call that ran, was denied, or was cut off by a stop or   *)
(* by its session closing.                                                    *)
SettledRow(c) == [r |-> [rows EXCEPT ![c] = IF rows[c] = "none" THEN "none" ELSE "done"], p |-> prompts]
Settled(c) == [r |-> [rows EXCEPT ![c] = IF rows[c] = "none" THEN "none" ELSE "done"], p |-> prompts \ {c}]

CutOff(c) ==
  /\ at[c] \in {"made", "asked", "yes", "no"}
  /\ IF c \in Nested THEN leaving = "closing" ELSE stopped
Result(c) ==
  /\ at[c] \in {"runs", "over"} \/ (at[c] = "made" /\ Live(c)) \/ CutOff(c)
  /\ at' = [at EXCEPT ![c] = "done"]
  /\ rows' = Settled(c).r /\ prompts' = Settled(c).p
  /\ UNCHANGED <<running, stopped, leaving, decisions, order, seen, escapes, refused, denied, input>>

(* answer: only a decision the controller still holds is given.               *)
Answer(given, allow) ==
  /\ at' = [c \in Calls |-> IF c \in given /\ at[c] = "asked" THEN IF allow THEN "yes" ELSE "no" ELSE at[c]]
  /\ decisions' = decisions \ given
  /\ denied' = IF allow THEN denied ELSE denied \cup given

(* A key on the prompt last rendered: yes, no, or Escape, which says no once  *)
(* its badge was seen.                                                        *)
Press(allow) ==
  /\ seen # {}
  /\ refused' = IF allow THEN refused ELSE refused \cup {Oldest(seen)}
  /\ Answer({Oldest(seen)} \cap decisions, allow)
  /\ UNCHANGED <<running, stopped, leaving, view, seen, escapes, input>>

Escape ==
  /\ seen # {} /\ Oldest(seen) \notin escapes
  /\ escapes' = escapes \cup {Oldest(seen)} /\ refused' = refused \cup {Oldest(seen)}
  /\ UNCHANGED <<at, running, stopped, leaving, decisions, view, seen, denied, input>>

About(c) == {c}
EscapeAnswers ==
  /\ \E c \in escapes :
       /\ escapes' = escapes \ {c}
       /\ Answer(About(c) \cap decisions, FALSE)
  /\ UNCHANGED <<running, stopped, leaving, view, seen, refused, input>>

Render ==
  /\ seen # prompts
  /\ seen' = prompts
  /\ UNCHANGED <<at, running, stopped, leaving, decisions, view, escapes, refused, denied, input>>

(* cancel: every ask held is answered no, and every request is cancelled.     *)
StopTurn ==
  /\ running /\ ~ stopped
  /\ stopped' = TRUE
  /\ refused' = refused \cup decisions
  /\ Answer(decisions, FALSE)
  /\ asks' = {}
  /\ UNCHANGED <<running, leaving, view, seen, escapes, over>>

(* turn_end: what is still open of the turn's own did not finish; a           *)
(* background child may still be asking.                                      *)
TurnEnds ==
  /\ running /\ asks = {}
  /\ \A c \in Calls \ Nested : at[c] \in {"none", "done"}
  /\ running' = FALSE
  /\ rows' = [c \in Calls |->
       IF c \notin Nested /\ rows[c] \in {"pending", "running", "waiting"} THEN "cancelled" ELSE rows[c]]
  /\ prompts' = prompts \cap Nested
  /\ UNCHANGED <<at, stopped, leaving, decisions, order, seen, escapes, refused, denied, input>>

(* A request for input: over the composer, in place of any list there.        *)
Elicit ==
  /\ running /\ ~ stopped
  /\ \E r \in Requests \ asks : r # over /\ over' = r /\ asks' = asks \cup {r}
  /\ UNCHANGED <<at, running, stopped, leaving, decisions, view, seen, escapes, refused, denied>>

(* The person answers it, or Escape cancels it: heard once.                   *)
Respond ==
  /\ over # Nobody /\ prompts = {}
  /\ asks' = asks \ {over} /\ over' = Nobody
  /\ UNCHANGED <<at, running, stopped, leaving, decisions, view, seen, escapes, refused, denied>>

(* switchSession: another session is loaded with a controller of its own,     *)
(* then the one left is closed, whose child may ask until it hears so.        *)
SwitchSession ==
  /\ ~ running /\ leaving = "open"
  /\ leaving' = "closing"
  /\ decisions' = {}
  /\ rows' = [c \in Calls |-> "none"] /\ prompts' = {}
  /\ UNCHANGED <<at, running, stopped, order, seen, escapes, refused, denied, input>>

Closed ==
  /\ leaving = "closing" /\ \A c \in Nested : at[c] \in {"none", "done"}
  /\ leaving' = "closed"
  /\ UNCHANGED <<at, running, stopped, decisions, view, seen, escapes, refused, denied, input>>

Next ==
  \/ TurnStarts \/ TurnEnds \/ StopTurn
  \/ \E c \in Calls : CallMade(c) \/ Asked(c) \/ Result(c)
  \/ \E c \in Calls, allow \in BOOLEAN : Decided(c, allow)
  \/ \E allow \in BOOLEAN : Press(allow)
  \/ Escape \/ EscapeAnswers \/ Render
  \/ Elicit \/ Respond
  \/ SwitchSession \/ Closed

Spec == Init /\ [][Next]_vars

(* The screen agrees with the runtime: every ask a turn or a child waits on   *)
(* has its prompt and an answer the controller can give, a prompt is up only  *)
(* while its ask waits or was just answered, and a row says "waiting" exactly *)
(* while its prompt is up, across stops, ends of turns and switches           *)
(* (controller.ts:168-170, view.ts applyEvent).                               *)
PromptsAgree ==
  /\ \A c \in Calls : at[c] = "asked" /\ leaving = "open" => c \in decisions /\ c \in prompts
  /\ \A c \in prompts : at[c] \in {"asked", "yes", "no"}
  /\ \A c \in Calls : rows[c] = "waiting" <=> c \in prompts

(* A no reaches only a call the person said no to: a key pressed on a prompt  *)
(* that was decided before the key was read, or before Escape's delay ran     *)
(* out, answers nothing in its place (App.tsx:1141-1144, controller.ts:213).  *)
NoIsOfItsPrompt == denied \subseteq refused
=============================================================================
