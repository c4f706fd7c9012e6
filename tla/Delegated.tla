------------------------------ MODULE Delegated ------------------------------
(* A session that another agent drives over MCP: the prompts it runs later    *)
(* (core/wake/table.ts), the questions it waits on (mcp/session.ts) and the   *)
(* calls of the MCP server that answer them or put them to the person         *)
(* (mcp/server.ts).  One handler runs to its next await at a time; the turn,  *)
(* the children it left in the background, the calls of the host, the clock   *)
(* and a crash of the process interleave.                                     *)
(*                                                                            *)
(* A call's arguments, the output between two reports and what a question     *)
(* says are left out; of a question it matters whether it is the person's.    *)
EXTENDS Naturals, Sequences, FiniteSets, SequencesExt

CONSTANTS
  Wakes,        \* the wakes that may be set, each once
  Timers,       \* those that wait for a time; the others wait for flags
  MaxPending,   \* WAKE_LIMITS.pending
  Asks,         \* the calls that may ask for approval, each once
  Background,   \* those of children that outlive the turn that started them
  Lists,        \* the lists that commands may offer, each once
  Personal,     \* the asks and lists that only the person answers
  Calls         \* the calls the host may have open at once

Nothing == "nothing"

VARIABLES
  open,      \* how far the session is from closed
  turn,      \* what runs: a prompt, a command, the answer to a list, a wake
  worked,    \* a turn has run since the session opened, so children may be left
  asks,      \* approvals: the calls waiting, oldest first
  list,      \* the list a command left waiting
  answered,  \* who answered each question
  told,      \* the questions put to the person, each with the answers given to them
  calls,     \* where each call of the host stands, and the question it is about
  queue,     \* wakes: those that went off and wait for their turn
  pending,   \* the wake table in memory
  due,       \* the wakes whose time has come or whose flags are up
  log,       \* the last thing the session log says of each wake
  runs       \* how often each wake has run as a turn

vars == <<open, turn, worked, asks, list, answered, told, calls, queue, pending, due, log, runs>>

table == <<pending, due, log>>
questions == <<asks, list, answered>>

Questions == Asks \cup Lists
Idle == [at |-> "idle", about |-> Nothing]

(* What only the person answers.                                              *)
Theirs(q) == q \in Personal

(* waiting(): the oldest call that waits, else the list.                      *)
Waiting(as, l) == IF as # <<>> THEN Head(as) ELSE l

Init ==
  /\ open = "open" /\ turn = "none" /\ worked = FALSE
  /\ asks = <<>> /\ list = Nothing
  /\ answered = [q \in Questions |-> "unasked"] /\ told = {}
  /\ calls = [c \in Calls |-> Idle]
  /\ queue = <<>> /\ pending = {} /\ due = {}
  /\ log = [w \in Wakes |-> "unset"] /\ runs = [w \in Wakes |-> 0]

-----------------------------------------------------------------------------
(* Turns and wakes.                                                           *)

(* wakeNext: the oldest wake that went off starts, unless a turn runs or      *)
(* something waits.  `t` is the turn there would be without it.               *)
WakeNext(t, as, l, q) ==
  IF t # "none" \/ as # <<>> \/ l # Nothing \/ q = <<>>
  THEN turn' = t /\ queue' = q /\ UNCHANGED <<runs, worked>>
  ELSE /\ turn' = "wake" /\ queue' = Tail(q) /\ worked' = TRUE
       /\ runs' = [runs EXCEPT ![Head(q)] = @ + 1]

(* send: refused while a turn runs, and while a list waits, unless it answers *)
(* the list.  It does not look at whose the list is.                          *)
MaySend(kind) ==
  /\ turn = "none"
  /\ list # Nothing => kind = "choose"

Start(kind) ==
  /\ MaySend(kind)
  /\ turn' = kind /\ worked' = TRUE
  /\ UNCHANGED <<queue, runs>>

(* session_send: a prompt or a command line, from a call of the host, which   *)
(* then attends to the session.                                               *)
Send(c) ==
  /\ open = "open" /\ calls[c] = Idle
  /\ \E kind \in {"prompt", "command"} : Start(kind)
  /\ calls' = [calls EXCEPT ![c] = [at |-> "attending", about |-> Nothing]]
  /\ UNCHANGED <<open, questions, told, table>>

(* `/choose` sent as text: the command takes the list and answers it.         *)
SendChoice(c) ==
  /\ open = "open" /\ calls[c] = Idle /\ list # Nothing
  /\ Start("choose")
  /\ answered' = [answered EXCEPT ![list] = "agent"] /\ list' = Nothing
  /\ calls' = [calls EXCEPT ![c] = [at |-> "attending", about |-> Nothing]]
  /\ UNCHANGED <<open, asks, told, table>>

(* A command offers a list and leaves it; other input waits for its answer.   *)
CommandOffers ==
  /\ turn \in {"command", "choose"} /\ open # "closed" /\ list = Nothing
  /\ \E l \in Lists :
       /\ answered[l] = "unasked"
       /\ list' = l /\ answered' = [answered EXCEPT ![l] = "waiting"]
  /\ UNCHANGED <<open, turn, worked, asks, told, calls, queue, table, runs>>

(* A call of the turn, or of a child it left, asks: onEvent.                  *)
AskArrives ==
  /\ open = "open"
  /\ \E q \in Asks :
       /\ answered[q] = "unasked"
       /\ IF q \in Background THEN worked ELSE turn \in {"prompt", "command", "wake"}
       /\ asks' = Append(asks, q) /\ answered' = [answered EXCEPT ![q] = "waiting"]
  /\ UNCHANGED <<open, turn, worked, list, told, calls, queue, table, runs>>

(* A grant made meanwhile settles a call: it no longer waits, wherever it     *)
(* stands in the queue.  Only what no rule can cover is the person's.         *)
AskSettled ==
  /\ \E q \in Asks \ Personal :
       /\ answered[q] = "waiting"
       /\ asks' = SelectSeq(asks, LAMBDA a : a # q)
       /\ answered' = [answered EXCEPT ![q] = "settled"]
  /\ UNCHANGED <<open, turn, worked, list, told, calls, queue, table, runs>>

(* A child is stopped while it asks: nobody waits for the answer any more,    *)
(* but the prompt at its parent is not withdrawn.                             *)
ChildStopped ==
  /\ \E q \in Background :
       answered[q] = "waiting" /\ answered' = [answered EXCEPT ![q] = "stopped"]
  /\ UNCHANGED <<open, turn, worked, asks, list, told, calls, queue, table, runs>>

(* The turn ends once its own calls are answered, and the next wake starts.   *)
TurnEnds ==
  /\ turn # "none"
  /\ \A i \in 1..Len(asks) : asks[i] \in Background
  /\ WakeNext("none", asks, list, queue)
  /\ UNCHANGED <<open, questions, told, calls, table>>

-----------------------------------------------------------------------------
(* The wake table.                                                            *)

(* set, by the turn or by the person's command.                               *)
SetWake ==
  /\ open = "open" /\ turn # "none" /\ Cardinality(pending) < MaxPending
  /\ \E w \in Wakes :
       /\ log[w] = "unset"
       /\ pending' = pending \cup {w} /\ log' = [log EXCEPT ![w] = "set"]
  /\ UNCHANGED <<open, turn, worked, questions, told, calls, queue, due, runs>>

(* cancel: what is pending only; a wake that went off is not.                 *)
CancelWake ==
  /\ open = "open" /\ turn # "none"
  /\ \E w \in pending :
       pending' = pending \ {w} /\ log' = [log EXCEPT ![w] = "cancel"]
  /\ UNCHANGED <<open, turn, worked, questions, told, calls, queue, due, runs>>

(* The clock passes a timer, another session raises or lowers a flag.         *)
ClockOrBoard ==
  /\ \E w \in Wakes :
       \/ log[w] = "set" /\ w \notin due /\ due' = due \cup {w}
       \/ w \in due \ Timers /\ due' = due \ {w}
  /\ UNCHANGED <<open, turn, worked, questions, told, calls, queue, pending, log, runs>>

(* What check() writes of a wake as it goes off; and were it not to.          *)
FiredUnwritten(l, ws) == l
Fired(l, ws) == [w \in Wakes |-> IF w \in ws THEN "fire" ELSE l[w]]

(* check: everything due goes off, in some order, the first of them *)
(* starting at once when nothing holds it.                                    *)
Check ==
  /\ open = "open" /\ pending \cap due # {}
  /\ LET fired == pending \cap due
     IN /\ pending' = pending \ fired
        /\ log' = Fired(log, fired)
        /\ \E order \in SetToSeqs(fired) : WakeNext(turn, asks, list, queue \o order)
  /\ UNCHANGED <<open, questions, told, calls, due>>

-----------------------------------------------------------------------------
(* The host's calls.                                                          *)

(* session_state.                                                             *)
State(c) ==
  /\ open = "open" /\ calls[c] = Idle
  /\ calls' = [calls EXCEPT ![c] = [at |-> "attending", about |-> Nothing]]
  /\ UNCHANGED <<open, turn, worked, questions, told, queue, table, runs>>

(* decide: the answer is the oldest waiting call's, whoever it was meant for. *)
Decide(by) ==
  /\ asks' = Tail(asks)
  /\ answered' = [answered EXCEPT ![Head(asks)] = IF @ = "waiting" THEN by ELSE @]

(* session_answer: what waits and is not the person's.                        *)
Answer(c) ==
  /\ open = "open" /\ calls[c] = Idle
  /\ LET q == Waiting(asks, list)
     IN /\ q # Nothing /\ ~Theirs(q)
        /\ \/ q \in Asks /\ Decide("agent") /\ UNCHANGED <<list, turn, worked, queue, runs>>
           \/ /\ q \in Lists /\ Start("choose")
              /\ answered' = [answered EXCEPT ![q] = "agent"]
              /\ list' = Nothing /\ UNCHANGED asks
  /\ calls' = [calls EXCEPT ![c] = [at |-> "attending", about |-> Nothing]]
  /\ UNCHANGED <<open, told, table>>

(* applyPersonAnswer: an approval answers the oldest waiting call; a list is  *)
(* answered by a /choose, which send refuses while a turn runs.               *)
Apply(q) ==
  \/ /\ q \in Asks /\ asks # <<>>
     /\ Decide("person") /\ UNCHANGED <<list, turn, worked, queue, runs>>
  \/ /\ \/ q \in Asks /\ asks = <<>>
        \/ q \in Lists /\ ~MaySend("choose")
     /\ UNCHANGED <<questions, turn, worked, queue, runs>>
  \/ /\ q \in Lists /\ Start("choose")
     /\ answered' = IF list = Nothing THEN answered ELSE [answered EXCEPT ![list] = "person"]
     /\ list' = Nothing /\ UNCHANGED asks

(* The loop of attend, once settle returns: the turn ended, something waits,  *)
(* or the wait ran out.  What is the person's is put to them: by a request    *)
(* to their host, or, where the host asks between two calls, by ending this   *)
(* one with the question.  A call that brings the answer back applies it to   *)
(* the question it names, if that one still waits.                            *)
Attend(c) ==
  /\ calls[c].at = "attending"
  /\ LET q == Waiting(asks, list)
     IN \/ /\ ~Theirs(q)
           /\ calls' = [calls EXCEPT ![c] = Idle]
           /\ UNCHANGED <<open, turn, worked, questions, told, queue, table, runs>>
        \/ /\ Theirs(q) /\ calls[c].about # q
           /\ \E way \in {"asking", "away"} : calls' = [calls EXCEPT ![c] = [at |-> way, about |-> q]]
           /\ told' = told \cup {q}
           /\ UNCHANGED <<open, turn, worked, questions, queue, table, runs>>
        \/ /\ Theirs(q) /\ calls[c].about = q
           /\ Apply(q)
           /\ \E next \in {Idle, [at |-> "attending", about |-> Nothing]} : calls' = [calls EXCEPT ![c] = next]
           /\ UNCHANGED <<open, told, table>>

(* The person answered the host's request: the answer is applied, and the     *)
(* call returns or attends again.                                             *)
PersonAnswers(c) ==
  /\ calls[c].at = "asking"
  /\ Apply(calls[c].about)
  /\ \E next \in {Idle, [at |-> "attending", about |-> Nothing]} : calls' = [calls EXCEPT ![c] = next]
  /\ UNCHANGED <<open, told, table>>

(* The host repeats the call with the person's answer, unless the session was *)
(* stopped meanwhile.                                                         *)
Retry(c) ==
  /\ calls[c].at = "away"
  /\ calls' = [calls EXCEPT ![c] = IF open = "open" THEN [at |-> "attending", about |-> calls[c].about] ELSE Idle]
  /\ UNCHANGED <<open, turn, worked, questions, told, queue, table, runs>>

-----------------------------------------------------------------------------
(* The end of the session, and of the process.                                *)

Stopped(as, a) == [q \in Questions |-> IF a[q] = "waiting" /\ q \in ToSet(as) THEN "stopped" ELSE a[q]]

(* session_stop, or the host going away: no wake is heard any more, those     *)
(* that went off are dropped, and every waiting call is answered no.          *)
Stop ==
  /\ open = "open" /\ open' = "closing"
  /\ queue' = <<>> /\ asks' = <<>> /\ answered' = Stopped(asks, answered)
  /\ UNCHANGED <<turn, worked, list, told, calls, table, runs>>

(* close goes on once the turn has ended: the runtime closes.                 *)
Closed ==
  /\ open = "closing" /\ turn = "none" /\ open' = "closed"
  /\ UNCHANGED <<turn, worked, questions, told, calls, queue, table, runs>>

(* The process dies; what was in memory is gone, the log and the board stay.  *)
Crash ==
  /\ open # "crashed" /\ open' = "crashed"
  /\ turn' = "none" /\ worked' = FALSE /\ queue' = <<>>
  /\ asks' = <<>> /\ list' = Nothing
  /\ answered' = [q \in Questions |-> IF answered[q] = "waiting" THEN "stopped" ELSE answered[q]]
  /\ calls' = [c \in Calls |-> Idle] /\ pending' = {}
  /\ UNCHANGED <<told, due, log, runs>>

(* What restore() finds ahead of it in the log: a wake that was only set; and *)
(* were it to take a fired one for set.                                       *)
Ahead(l) == {w \in Wakes : l[w] = "set"}

(* session_start with resume: restore() reads the wakes back from the log; a  *)
(* timer that came due meanwhile is recorded as missed.                       *)
Resume ==
  /\ open \in {"crashed", "closed"} /\ turn = "none" /\ \A c \in Calls : calls[c] = Idle
  /\ open' = "open" /\ worked' = FALSE
  /\ LET ahead == Ahead(log)
         missed == ahead \cap Timers \cap due
     IN /\ pending' = ahead \ missed
        /\ log' = [w \in Wakes |-> IF w \in missed THEN "missed" ELSE log[w]]
  /\ list' = Nothing
  /\ answered' = [q \in Questions |-> IF answered[q] = "waiting" THEN "stopped" ELSE answered[q]]
  /\ UNCHANGED <<turn, asks, told, calls, queue, due, runs>>

Next ==
  \/ CommandOffers \/ AskArrives \/ AskSettled \/ ChildStopped \/ TurnEnds
  \/ SetWake \/ CancelWake \/ ClockOrBoard \/ Check
  \/ \E c \in Calls : Send(c) \/ SendChoice(c) \/ State(c) \/ Answer(c) \/ Attend(c) \/ PersonAnswers(c) \/ Retry(c)
  \/ Stop \/ Closed \/ Crash \/ Resume

Spec == Init /\ [][Next]_vars

-----------------------------------------------------------------------------

TypeOK ==
  /\ open \in {"open", "closing", "closed", "crashed"}
  /\ turn \in {"none", "prompt", "command", "choose", "wake"} /\ worked \in BOOLEAN
  /\ asks \in Seq(Asks) /\ list \in Lists \cup {Nothing}
  /\ answered \in [Questions -> {"unasked", "waiting", "agent", "person", "settled", "stopped"}]
  /\ told \subseteq Personal
  /\ calls \in [Calls -> [at : {"idle", "attending", "asking", "away"}, about : Personal \cup {Nothing}]]
  /\ queue \in Seq(Wakes) /\ pending \subseteq Wakes /\ due \subseteq Wakes
  /\ log \in [Wakes -> {"unset", "set", "cancel", "fire", "missed"}]
  /\ runs \in [Wakes -> Nat]

(* A wake runs at most once, whatever crashes between going off and running,  *)
(* and never once it was cancelled or reported as missed.                     *)
WakesRunOnce ==
  \A w \in Wakes :
    /\ runs[w] <= 1
    /\ runs[w] = 1 \/ w \in ToSet(queue) => log[w] = "fire"
    /\ w \in ToSet(queue) => runs[w] = 0

(* What an open session has pending is what its log says it has, also after a *)
(* resume: none is forgotten, none comes back.                                *)
TableAsLogged == open = "open" => pending = {w \in Wakes : log[w] = "set"}

(* While a list waits, nothing runs but the command that offered it: no       *)
(* prompt and no wake closes it unanswered.                                   *)
NothingUnderAList == list # Nothing => turn \in {"none", "command", "choose"}
=============================================================================
