----------------------------- MODULE Terminals ------------------------------
(* JamCLI's interface in a pseudo-terminal, driven by another agent over MCP  *)
(* (mcp/server.ts, mcp/terminal.ts, terminal/terminal.ts).  The server learns *)
(* what the interface does from its observer, a moment after.  Keys meant for *)
(* a prompt only the person answers are not sent: the person is asked through *)
(* the host, and their answer is typed.  A host of the later revision asks    *)
(* when the call returns, and makes it again with the answer.                 *)
(*                                                                            *)
(* Calls run side by side.  The screen is left out, and its recording; the    *)
(* interface takes what is typed as it will.                                  *)
EXTENDS Naturals, Sequences

CONSTANTS
  Terminals,   \* terminals, each started once
  Calls,       \* terminal_type and terminal_keys calls
  Prompts,     \* the tools the interface asks about
  PersonOnly,  \* those that always ask
  MaxUpdates,  \* a bound on the observer's updates not yet read
  MaxPrompts   \* a bound on the prompts a terminal puts up

VARIABLES
  proc,        \* the interface of each terminal: none yet, live or gone
  prompt,      \* the tool its prompt is about
  asked,       \* how many prompts it put up
  updates,     \* the observer's updates on their way
  state,       \* what it is doing, as the server last heard
  terminals,   \* the terminals the server answers for
  call,        \* the calls
  left         \* the host closed standard input

tmVars == <<proc, prompt, asked, updates, state, terminals, call, left>>

Nothing == "nothing"
Doing(s) == [state |-> s, tool |-> Nothing]
Asks(p) == [state |-> "requires_action", tool |-> p]
(* A call: its terminal, what the person answered it and about which tool,    *)
(* how often its host made it again, and what it typed: what, what the server *)
(* then knew, and in which making.                                            *)
NoCall == [stage |-> "none", typed |-> <<>>]

Init ==
  /\ proc = [t \in Terminals |-> "none"] /\ prompt = [t \in Terminals |-> Nothing]
  /\ asked = [t \in Terminals |-> 0] /\ updates = [t \in Terminals |-> <<>>]
  /\ state = [t \in Terminals |-> Doing("starting")]
  /\ terminals = {} /\ call = [c \in Calls |-> NoCall] /\ left = FALSE

Live(t) == proc[t] = "live"
PersonWaits(t) == state[t].state = "requires_action" /\ state[t].tool \in PersonOnly
Exited(t) == state[t].state = "exited"
TypeOK ==
  /\ proc \in [Terminals -> {"none", "live", "gone"}] /\ terminals \subseteq Terminals
  /\ state \in [Terminals -> [state : {"starting", "idle", "running", "requires_action", "exited"}, tool : Prompts \cup {Nothing}]]
  /\ prompt \in [Terminals -> Prompts \cup {Nothing}] /\ left \in BOOLEAN

-----------------------------------------------------------------------------
(* The interface: a turn runs and ends, prompts come up and go, it leaves.    *)
Tells(t, update) ==
  /\ Live(t) /\ Len(updates[t]) < MaxUpdates
  /\ updates' = [updates EXCEPT ![t] = Append(@, update)]
PutsUp(t, p) ==
  /\ prompt[t] = Nothing /\ asked[t] < MaxPrompts /\ Tells(t, Asks(p))
  /\ prompt' = [prompt EXCEPT ![t] = p] /\ asked' = [asked EXCEPT ![t] = @ + 1]
  /\ UNCHANGED <<proc, state, terminals, call, left>>
TakesDown(t) ==
  /\ prompt[t] # Nothing /\ Tells(t, Doing("running"))
  /\ prompt' = [prompt EXCEPT ![t] = Nothing]
  /\ UNCHANGED <<proc, asked, state, terminals, call, left>>
TurnEnds(t) ==
  /\ prompt[t] = Nothing /\ Tells(t, Doing("idle"))
  /\ UNCHANGED <<proc, prompt, asked, state, terminals, call, left>>
Leaves(t) ==
  /\ Live(t)
  /\ proc' = [proc EXCEPT ![t] = "gone"] /\ prompt' = [prompt EXCEPT ![t] = Nothing]
  /\ UNCHANGED <<asked, updates, state, terminals, call, left>>
(* The server hears of the end, and of each update it can read, which may be  *)
(* after the end.  With no observer, or one that had nothing to say, the      *)
(* interface counts as idle.                                                  *)
HearsExit(t) ==
  /\ proc[t] = "gone" /\ ~Exited(t) /\ state' = [state EXCEPT ![t].state = "exited"]
  /\ UNCHANGED <<proc, prompt, asked, updates, terminals, call, left>>
Hears(t) ==
  /\ updates[t] # <<>>
  /\ state' = [state EXCEPT ![t] = Head(updates[t])] /\ updates' = [updates EXCEPT ![t] = Tail(@)]
  /\ UNCHANGED <<proc, prompt, asked, terminals, call, left>>
Observed(t) ==
  /\ proc[t] # "none" /\ state[t].state = "starting" /\ state' = [state EXCEPT ![t] = Doing("idle")]
  /\ UNCHANGED <<proc, prompt, asked, updates, terminals, call, left>>

-----------------------------------------------------------------------------
(* The calls.  terminal_start, and terminal_stop, which kills the interface.  *)
Start(t) ==
  /\ ~left /\ proc[t] = "none"
  /\ proc' = [proc EXCEPT ![t] = "live"] /\ terminals' = terminals \cup {t}
  /\ UNCHANGED <<prompt, asked, updates, state, call, left>>
Killed(gone) ==
  /\ proc' = [t \in Terminals |-> IF t \in gone THEN "gone" ELSE proc[t]]
  /\ prompt' = [t \in Terminals |-> IF t \in gone THEN Nothing ELSE prompt[t]]
  /\ updates' = [t \in Terminals |-> IF t \in gone THEN <<>> ELSE updates[t]]
Stop(t) ==
  /\ ~left /\ t \in terminals /\ terminals' = terminals \ {t} /\ Killed({t})
  /\ UNCHANGED <<asked, state, call, left>>
(* The host leaves: every terminal is closed.                                 *)
HostLeaves ==
  /\ ~left /\ left' = TRUE /\ Killed(terminals)
  /\ UNCHANGED <<asked, state, terminals, call>>

Typed(c, what) == Append(call[c].typed, [what |-> what, waits |-> PersonWaits(call[c].terminal), again |-> call[c].again])
Retry(c) == call[c].answer.tool # Nothing
Becomes(c, stage) == call' = [call EXCEPT ![c].stage = stage]
Types(c, what) == call' = [call EXCEPT ![c].stage = "settles", ![c].typed = Typed(c, what)]
AnswerOf(allow) == IF allow THEN "allow" ELSE "deny"
(* input: an interface that has left is sent nothing.  One that waits on the  *)
(* person has them asked, unless this is the retry that brings their answer   *)
(* about that tool, which is typed.  Otherwise what the call is for is typed, *)
(* if it is no retry.                                                         *)
Refused(c) == Exited(call[c].terminal) /\ Becomes(c, "done")
ForThePerson(c) ==
  LET tool == state[call[c].terminal].tool IN
  /\ PersonWaits(call[c].terminal)
  /\ IF call[c].answer.tool = tool THEN Types(c, AnswerOf(call[c].answer.allow))
     ELSE call' = [call EXCEPT ![c].stage = "asks", ![c].tool = tool]
Sent(c) ==
  /\ ~Exited(call[c].terminal) /\ ~PersonWaits(call[c].terminal)
  /\ IF Retry(c) THEN Becomes(c, "settles") ELSE Types(c, call[c].kind)
Input(c) == Refused(c) \/ ForThePerson(c) \/ Sent(c)
(* terminal_type types its text, in a retry too, and 100 ms later its Enter   *)
(* by way of input, unless the person is waited on; terminal_keys, and text   *)
(* without an Enter, go by way of input at once.                              *)
Fresh(kind, t) ==
  [stage |-> "begins", kind |-> kind, terminal |-> t, answer |-> [tool |-> Nothing, allow |-> FALSE], tool |-> Nothing,
   again |-> 0, typed |-> <<>>]
Makes(c, kind, t) ==
  /\ ~left /\ call[c].stage = "none" /\ t \in terminals
  /\ call' = [call EXCEPT ![c] = Fresh(kind, t)]
  /\ UNCHANGED <<proc, prompt, asked, updates, state, terminals, left>>
TypesApart(c) ==
  LET t == call[c].terminal IN
  call[c].kind = "enter" /\ ~PersonWaits(t) /\ ~Exited(t)
Runs(c) ==
  /\ call[c].stage = "begins"
  /\ IF TypesApart(c) THEN call' = [call EXCEPT ![c].stage = "sleeps", ![c].typed = Typed(c, "text")] ELSE Input(c)
  /\ UNCHANGED <<proc, prompt, asked, updates, state, terminals, left>>
Wakes(c) ==
  /\ call[c].stage = "sleeps" /\ Input(c)
  /\ UNCHANGED <<proc, prompt, asked, updates, state, terminals, left>>
(* The person answers, or their host cannot ask, which is a no.  A host that  *)
(* asks while the call waits has the answer typed where it waited: whatever   *)
(* the interface shows by then.                                               *)
Answers(c, allow) ==
  /\ call[c].stage = "asks"
  /\ call' = [call EXCEPT ![c].stage = "settles", ![c].answer = [tool |-> call[c].tool, allow |-> allow],
                          ![c].typed = Typed(c, AnswerOf(allow))]
  /\ UNCHANGED <<proc, prompt, asked, updates, state, terminals, left>>
(* A host of the later revision makes the call again, if the terminal is      *)
(* still there.                                                               *)
AnswersLater(c, allow) ==
  /\ ~left /\ call[c].stage = "asks"
  /\ call' = [call EXCEPT ![c].stage = IF call[c].terminal \in terminals THEN "begins" ELSE "done",
                          ![c].answer = [tool |-> call[c].tool, allow |-> allow], ![c].again = @ + 1]
  /\ UNCHANGED <<proc, prompt, asked, updates, state, terminals, left>>
(* The screen has been still for a moment, or the wait is over.               *)
Settles(c) ==
  /\ call[c].stage = "settles" /\ call' = [call EXCEPT ![c].stage = "done"]
  /\ UNCHANGED <<proc, prompt, asked, updates, state, terminals, left>>

Next ==
  \/ HostLeaves
  \/ \E t \in Terminals :
       \/ Start(t) \/ Stop(t) \/ TakesDown(t) \/ TurnEnds(t) \/ Leaves(t) \/ HearsExit(t) \/ Hears(t) \/ Observed(t)
       \/ \E p \in Prompts : PutsUp(t, p)
       \/ \E c \in Calls, kind \in {"keys", "enter"} : Makes(c, kind, t)
  \/ \E c \in Calls :
       \/ Runs(c) \/ Wakes(c) \/ Settles(c)
       \/ \E allow \in BOOLEAN : Answers(c, allow) \/ AnswersLater(c, allow)
Spec == Init /\ [][Next]_tmVars

-----------------------------------------------------------------------------
(* What a call types while the server knows that the person is waited on is   *)
(* only their answer, given to that call, about the tool it asked them about; *)
(* and a call types its own keys or its Enter at most once, and no more once  *)
(* the person was asked in it, whichever way its host asks, and whatever      *)
(* another call did to the terminal meanwhile.  Of the text before an Enter   *)
(* that is not so: it is typed again each time a host makes the call again    *)
(* (mcp/server.ts:338-341, against 120 and 301), and only then.               *)
Own == {"keys", "enter"}
KeysAreNotAnswers ==
  \A c \in Calls : LET typed == call[c].typed IN
    /\ \A k \in 1..Len(typed) :
         /\ typed[k].what \in Own \cup {"text"} => ~typed[k].waits
         /\ typed[k].what \in {"allow", "deny"} => call[c].answer = [tool |-> call[c].tool, allow |-> typed[k].what = "allow"]
    /\ \A k \in 1..Len(typed) : typed[k].what \in Own => k = Len(typed) /\ ~Retry(c)
    /\ \A j, k \in 1..Len(typed) :
         j < k /\ typed[j].what = "text" /\ typed[k].what = "text" => typed[j].again < typed[k].again
=============================================================================
