------------------------------ MODULE Observers ------------------------------
(* Those who watch a session and do not take part in it: the clients of the   *)
(* observer socket (tui/observer.ts), who are told what state the session is  *)
(* in and what its calls do (acp/updates.ts), and the session's own spans and *)
(* log (core/observe/session.ts).  Both hear every event of a turn, and those *)
(* of a background child, which asks after the turn that started it has       *)
(* ended.  Clients come and go, and the interface may change to another       *)
(* session.                                                                   *)
(*                                                                            *)
(* The text of updates and log lines is left out, and so are spans that begin *)
(* and end in one step, and what a child of a session just left still asks.   *)
EXTENDS Naturals, FiniteSets

CONSTANTS
  Calls,      \* the calls of the session's turns
  Beside,     \* what a background child asks
  Clients,    \* clients of the socket
  MaxTurns    \* a bound on the turns

VARIABLES
  turn,       \* a turn runs
  turns,
  cancelled,  \* it was cancelled
  call,       \* where each call is
  state,      \* what the hub says of the session
  asking,     \* the hub's flag: a question waits
  told,       \* what each client was told last; "none" does not watch
  shown,      \* what each client was told of each call
  open,       \* calls with a span that has not ended
  asked,      \* prompts the log holds as waiting
  logged,     \* how often the log said how a prompt ended
  attached,   \* another session has been attached
  overtaken   \* what waited when an event of something else set the state

session == <<turn, turns, cancelled, call, attached>>
hub == <<state, asking, told, shown, overtaken>>
spans == <<open, asked, logged>>
obVars == <<session, hub, spans>>

Asks == Calls \cup Beside
Watchers == {w \in Clients : told[w] # "none"}
Waiting == {c \in Asks : call[c] \in {"asking", "questioning"}}

TypeOK ==
  /\ turn \in BOOLEAN /\ turns \in 0..MaxTurns /\ cancelled \in BOOLEAN
  /\ call \in [Asks -> {"none", "called", "asking", "decided", "questioning", "done"}]
  /\ state \in {"idle", "running", "requires_action"} /\ asking \in BOOLEAN
  /\ told \in [Clients -> {"none", "idle", "running", "requires_action"}]
  /\ shown \in [Clients -> [Asks -> {"none", "in_progress", "pending", "completed"}]]
  /\ open \subseteq Calls /\ asked \subseteq Asks /\ logged \in [Asks -> Nat]
  /\ attached \in BOOLEAN /\ overtaken \subseteq Asks

Init ==
  /\ turn = FALSE /\ turns = 0 /\ cancelled = FALSE /\ attached = FALSE
  /\ call = [c \in Asks |-> "none"]
  /\ state = "idle" /\ asking = FALSE
  /\ told = [w \in Clients |-> "none"]
  /\ shown = [w \in Clients |-> [c \in Asks |-> "none"]]
  /\ open = {} /\ asked = {} /\ logged = [c \in Asks |-> 0] /\ overtaken = {}

(* ObserverHub.event: with nobody watching, only what changes the state is    *)
(* looked at.                                                                 *)
Heeds(event) ==
  \/ Watchers # {}
  \/ event \in {"turn_start", "turn_end", "approval_request", "approval_decision", "elicitation_request"}
  \/ asking /\ event = "tool_result"

(* setState, by an event of what is given: whatever else waits is not looked  *)
(* at.                                                                        *)
SetState(next, of) ==
  /\ state' = next
  /\ overtaken' = IF next = "requires_action" THEN {} ELSE Waiting \ of
  /\ told' = [w \in Clients |-> IF w \in Watchers THEN next ELSE "none"]
(* UpdateMapper.map, for everyone who watches.                                *)
Shows(c, status) ==
  shown' = [w \in Clients |-> IF w \in Watchers THEN [shown[w] EXCEPT ![c] = status] ELSE shown[w]]
Moves(c, stage) == call' = [call EXCEPT ![c] = stage] /\ UNCHANGED <<turn, turns, cancelled, attached>>

(* What the hub makes of each event.                                          *)
HearsRequest(c) == SetState("requires_action", {c}) /\ Shows(c, "pending") /\ UNCHANGED asking
HearsDecision(c) ==
  /\ IF state = "requires_action" THEN SetState("running", {c}) ELSE UNCHANGED <<state, told, overtaken>>
  /\ UNCHANGED <<asking, shown>>
HearsResult(c) ==
  IF ~Heeds("tool_result") THEN UNCHANGED hub
  ELSE /\ Shows(c, "completed")
       /\ asking' = FALSE
       /\ IF asking THEN SetState("running", {c}) ELSE UNCHANGED <<state, told, overtaken>>

(* SessionObservation.event for prompts.                                      *)
LogsRequest(c) == asked' = asked \cup {c} /\ UNCHANGED <<open, logged>>
LogsDecision(c) ==
  /\ asked' = asked \ {c}
  /\ logged' = IF c \in asked THEN [logged EXCEPT ![c] = @ + 1] ELSE logged
  /\ UNCHANGED open

-----------------------------------------------------------------------------
(* A turn and its calls.                                                      *)
StartTurn ==
  /\ ~turn /\ turns < MaxTurns
  /\ turn' = TRUE /\ turns' = turns + 1 /\ cancelled' = FALSE
  /\ SetState("running", {})
  /\ UNCHANGED <<call, attached, asking, shown, spans>>

ToolCall(c) ==
  /\ turn /\ call[c] = "none"
  /\ Moves(c, "called")
  /\ open' = open \cup {c}
  /\ Shows(c, "in_progress")
  /\ UNCHANGED <<state, asking, told, overtaken, asked, logged>>

(* A prompt of the turn, or of a child that runs beside it.                   *)
ApprovalRequest(c) ==
  /\ \/ c \in Calls /\ call[c] = "called" /\ ~cancelled
     \/ c \in Beside /\ call[c] = "none" /\ turns > 0
  /\ Moves(c, "asking")
  /\ HearsRequest(c) /\ LogsRequest(c)

(* It is answered, or settled by a grant; or a rule decides, unasked.         *)
ApprovalDecision(c) ==
  /\ \/ call[c] = "asking"
     \/ c \in Calls /\ call[c] = "called"
  /\ Moves(c, "decided")
  /\ HearsDecision(c) /\ LogsDecision(c)

(* A tool, or the MCP server it calls, puts a question to the person.         *)
ElicitationRequest(c) ==
  /\ c \in Calls /\ call[c] = "decided" /\ ~cancelled
  /\ Moves(c, "questioning")
  /\ asking' = TRUE /\ SetState("requires_action", {c})
  /\ UNCHANGED <<shown, spans>>

(* A call's result; a cancelled turn's prompts end with one and no decision.  *)
ToolResult(c) ==
  /\ \/ call[c] = "decided"
     \/ c \in Calls /\ call[c] \in {"called", "questioning"}
     \/ c \in Calls /\ call[c] = "asking" /\ cancelled
  /\ Moves(c, "done")
  /\ open' = open \ {c}
  /\ HearsResult(c)
  /\ UNCHANGED <<asked, logged>>

Cancel ==
  /\ turn /\ ~cancelled
  /\ cancelled' = TRUE
  /\ UNCHANGED <<turn, turns, call, attached, hub, spans>>

(* endTurn: the turn's span ends, and with it those of its calls; a prompt    *)
(* nobody answered is said.                                                   *)
EndTurn ==
  /\ open' = {} /\ asked' = {}
  /\ logged' = [c \in Asks |-> IF c \in asked THEN logged[c] + 1 ELSE logged[c]]
CallsAreOver == \A c \in Calls : call[c] \in {"none", "done"}
TurnEnds ==
  /\ turn /\ CallsAreOver
  /\ turn' = FALSE
  /\ asking' = FALSE /\ SetState("idle", {})
  /\ EndTurn
  /\ UNCHANGED <<turns, cancelled, call, attached, shown>>
(* It broke off: no event says so.                                            *)
TurnThrows ==
  /\ turn /\ CallsAreOver
  /\ turn' = FALSE
  /\ EndTurn
  /\ UNCHANGED <<turns, cancelled, call, attached, hub>>

-----------------------------------------------------------------------------
(* session/load: what was said is replayed, and the state follows.  The turn  *)
(* under way is not replayed.                                                 *)
Replayed(c) == IF ~turn /\ c \in Calls /\ call[c] = "done" THEN "completed" ELSE "none"
LoadSession(w) ==
  /\ told' = [told EXCEPT ![w] = state]
  /\ shown' = [shown EXCEPT ![w] = [c \in Asks |-> Replayed(c)]]
  /\ UNCHANGED <<session, state, asking, overtaken, spans>>
(* A client that closed, or fell behind.                                      *)
Dropped(w) ==
  /\ w \in Watchers
  /\ told' = [told EXCEPT ![w] = "none"]
  /\ UNCHANGED <<session, state, asking, shown, overtaken, spans>>

(* attach: those who watched are told, and watch no longer.                   *)
Attach ==
  /\ ~turn /\ ~attached
  /\ attached' = TRUE
  /\ state' = "idle" /\ told' = [w \in Clients |-> "none"]
  /\ call' = [c \in Asks |-> "none"] /\ cancelled' = FALSE /\ turns' = 0
  /\ open' = {} /\ asked' = {} /\ logged' = [c \in Asks |-> 0] /\ overtaken' = {}
  /\ UNCHANGED <<turn, asking, shown>>

Next ==
  \/ StartTurn \/ Cancel \/ TurnEnds \/ TurnThrows \/ Attach
  \/ \E c \in Calls : ToolCall(c) \/ ElicitationRequest(c)
  \/ \E c \in Asks : ApprovalRequest(c) \/ ApprovalDecision(c) \/ ToolResult(c)
  \/ \E w \in Clients : LoadSession(w) \/ Dropped(w)
Spec == Init /\ [][Next]_obVars

-----------------------------------------------------------------------------
(* What a client was told last is the state; a session said to wait for the   *)
(* person does, whether or not anyone watched while it got there, and one     *)
(* with a prompt or a question waiting is said to, unless an event of         *)
(* something else set the state since: of two that wait, the second is not    *)
(* told once the first is answered (observer.ts:170-179), nor is a child's    *)
(* across a turn's start or end.  A cancelled turn may still be said to       *)
(* wait.  An idle session runs nothing and shows no call as running.          *)
StateIsTrue ==
  /\ \A w \in Watchers : told[w] = state
  /\ state = "requires_action" => Waiting # {} \/ cancelled
  /\ \A c \in Waiting \ overtaken : state = "requires_action"
  /\ state = "idle" =>
       ~turn /\ \A w \in Watchers, c \in Calls : shown[w][c] \in {"none", "completed"}
(* Between turns no call's span is open, and each prompt of a turn was said   *)
(* to have ended once, answered or not.                                       *)
SpansEnd ==
  ~turn => /\ open = {}
           /\ \A c \in Calls : logged[c] <= 1
           /\ asked \cap Calls = {}
ObserversHold == StateIsTrue /\ SpansEnd
=============================================================================
