----------------------------- MODULE Delegates ------------------------------
(* Delegations to other agents over the Agent Client Protocol                 *)
(* (services/AcpClient.ts, core/tools/acp.ts).  A delegation starts an agent  *)
(* as a process, opens a session in it and puts one prompt to it, each within *)
(* a time limit and only while the agent lives; whatever came of it the agent *)
(* is told to end.  In the background it is kept under a name made of the     *)
(* time it began at, where the model asks for its status, its result, or its  *)
(* end.                                                                       *)
(*                                                                            *)
(* What an agent streams is a list of updates, each a piece of its answer or  *)
(* of its thinking.                                                           *)
EXTENDS Naturals, Sequences, SequencesExt, FiniteSets

CONSTANTS
  Calls,    \* calls to delegate
  Stamps,   \* the moments at which they may begin
  MaxSaid   \* a bound on what an agent streams

VARIABLES
  stage,    \* where each delegation is
  how,      \* how it was asked for, in the turn or in the background
  agent,    \* its agent's process
  said,     \* what the agent streamed while its prompt was listened to
  heard,    \* of that, what the client collected as the answer
  outcome,  \* how the delegation went
  aborted,  \* whether its signal is aborted
  asked,    \* whether its agent was asked to cancel the prompt
  id,       \* the name of a background delegation
  running,  \* what is known of the delegations in the background
  output,   \* the text collected for each of them
  given     \* what delegate_result gave of a delegation

deVars == <<stage, how, agent, said, heard, outcome, aborted, asked, id, running, output, given>>
records == <<id, running, output, given>>

Updates == {"message", "thought"}
Stages == {"none", "starting", "opening", "prompting", "stopping", "ended"}
Nobody == <<>>
Before == 0

TypeOK ==
  /\ stage \in [Calls -> Stages] /\ how \in [Calls -> {"none", "turn", "background"}]
  /\ agent \in [Calls -> {"none", "live", "told", "gone"}]
  /\ said \in [Calls -> Seq(Updates)] /\ heard \in [Calls -> Seq(Updates)]
  /\ outcome \in [Calls -> {"none", "answered", "failed"}]
  /\ aborted \in [Calls -> BOOLEAN] /\ asked \in [Calls -> BOOLEAN]
  /\ id \in [Calls -> Stamps \cup {Before}]
  /\ \A s \in Stamps : running[s] # Nobody => running[s].of \in Calls

Init ==
  /\ stage = [c \in Calls |-> "none"] /\ how = [c \in Calls |-> "none"]
  /\ agent = [c \in Calls |-> "none"]
  /\ said = [c \in Calls |-> <<>>] /\ heard = [c \in Calls |-> <<>>]
  /\ outcome = [c \in Calls |-> "none"]
  /\ aborted = [c \in Calls |-> FALSE] /\ asked = [c \in Calls |-> FALSE]
  /\ id = [c \in Calls |-> Before]
  /\ running = [s \in Stamps |-> Nobody] /\ output = [s \in Stamps |-> <<>>]
  /\ given = [c \in Calls |-> <<>>]

Running(c) == stage[c] \in {"starting", "opening", "prompting"}
InBackground(c) == how[c] = "background"
(* Time does not go back: a delegation begins no earlier than the others.     *)
Now == {s \in Stamps : \A c \in Calls : id[c] <= s}

(* delegate, in the turn: AcpClient.start spawns the agent.                   *)
Delegates(c) ==
  /\ stage[c] = "none"
  /\ stage' = [stage EXCEPT ![c] = "starting"]
  /\ how' = [how EXCEPT ![c] = "turn"]
  /\ agent' = [agent EXCEPT ![c] = "live"]
  /\ UNCHANGED <<said, heard, outcome, aborted, asked, records>>

(* delegate, in the background: its record takes the place of one of the same *)
(* name.                                                                      *)
DelegatesBeside(c) ==
  /\ stage[c] = "none"
  /\ stage' = [stage EXCEPT ![c] = "starting"]
  /\ how' = [how EXCEPT ![c] = "background"]
  /\ agent' = [agent EXCEPT ![c] = "live"]
  /\ \E s \in Now :
       /\ id' = [id EXCEPT ![c] = s]
       /\ running' = [running EXCEPT ![s] = [of |-> c, status |-> "running", response |-> <<>>]]
       /\ output' = [output EXCEPT ![s] = <<>>]
  /\ UNCHANGED <<said, heard, outcome, aborted, asked, given>>

(* The agent answers the step the client waits on.                            *)
Initialized(c) ==
  /\ stage[c] = "starting" /\ agent[c] = "live"
  /\ stage' = [stage EXCEPT ![c] = "opening"]
  /\ UNCHANGED <<how, agent, said, heard, outcome, aborted, asked, records>>
SessionOpened(c) ==
  /\ stage[c] = "opening" /\ agent[c] = "live"
  /\ stage' = [stage EXCEPT ![c] = "prompting"]
  /\ UNCHANGED <<how, agent, said, heard, outcome, aborted, asked, records>>

(* onUpdate: pieces of the answer are collected; in the background the text   *)
(* of every update is, and under a name that was given out it begins anew.    *)
Streams(c, u) ==
  /\ stage[c] = "prompting" /\ agent[c] = "live" /\ Len(said[c]) < MaxSaid
  /\ said' = [said EXCEPT ![c] = Append(@, u)]
  /\ heard' = [heard EXCEPT ![c] = IF u = "message" THEN Append(@, u) ELSE @]
  /\ output' = IF InBackground(c) THEN [output EXCEPT ![id[c]] = Append(@, u)] ELSE output
  /\ UNCHANGED <<stage, how, agent, outcome, aborted, asked, id, running, given>>

(* What the client makes of the prompt's end: AcpClient.stop follows, then    *)
(* the delegation is settled.                                                 *)
GoesTo(c, o) ==
  /\ stage' = [stage EXCEPT ![c] = "stopping"]
  /\ outcome' = [outcome EXCEPT ![c] = o]
  /\ agent' = [agent EXCEPT ![c] = IF @ = "live" THEN "told" ELSE @]
  /\ UNCHANGED <<how, said, heard, aborted, asked, records>>
Answered(c) == stage[c] = "prompting" /\ agent[c] = "live" /\ GoesTo(c, "answered")
Refused(c) == Running(c) /\ agent[c] = "live" /\ GoesTo(c, "failed")

(* within: the time limit of the step passes, or the agent is gone.           *)
Late(c) == Running(c) /\ GoesTo(c, "failed")
FoundGone(c) == Running(c) /\ agent[c] = "gone" /\ GoesTo(c, "failed")

(* The agent ends: on SIGTERM, or of itself.                                  *)
AgentExits(c) ==
  /\ agent[c] \in {"live", "told"}
  /\ agent' = [agent EXCEPT ![c] = "gone"]
  /\ UNCHANGED <<stage, how, said, heard, outcome, aborted, asked, records>>

(* What the record of a background delegation, or the one that took its name, *)
(* says once it has settled.                                                  *)
StatusOf(c) ==
  IF outcome[c] = "answered" THEN "ok" ELSE IF aborted[c] THEN "cancelled" ELSE "error"

(* The agent exited, or two seconds passed: the delegation is settled.        *)
Settles(c) ==
  /\ stage[c] = "stopping"
  /\ stage' = [stage EXCEPT ![c] = "ended"]
  /\ running' =
       IF InBackground(c) /\ running[id[c]] # Nobody
       THEN [running EXCEPT
               ![id[c]].status = StatusOf(c),
               ![id[c]].response = IF outcome[c] = "answered" THEN heard[c] ELSE @]
       ELSE running
  /\ UNCHANGED <<how, agent, said, heard, outcome, aborted, asked, id, output, given>>

(* The turn is cancelled, or delegate_cancel aborts: the agent is asked to    *)
(* cancel only while its prompt is listened to.                               *)
Aborts(c) ==
  /\ aborted' = [aborted EXCEPT ![c] = TRUE]
  /\ asked' = [asked EXCEPT ![c] = @ \/ (stage[c] = "prompting" /\ ~aborted[c])]
TurnCancelled(c) ==
  /\ how[c] = "turn" /\ Running(c) /\ ~aborted[c]
  /\ Aborts(c)
  /\ UNCHANGED <<stage, how, agent, said, heard, outcome, records>>
DelegateCancel(s) ==
  /\ running[s] # Nobody
  /\ Aborts(running[s].of)
  /\ running' = [running EXCEPT ![s].status = "cancelled"]
  /\ UNCHANGED <<stage, how, agent, said, heard, outcome, id, output, given>>

(* delegate_result, of one that no longer runs: its record goes.              *)
DelegateResult(s) ==
  /\ running[s] # Nobody /\ running[s].status # "running"
  /\ LET c == running[s].of
         text == IF output[s] # <<>> THEN output[s] ELSE running[s].response
     IN given' = [given EXCEPT ![c] = [status |-> running[s].status, text |-> text]]
  /\ running' = [running EXCEPT ![s] = Nobody]
  /\ output' = [output EXCEPT ![s] = <<>>]
  /\ UNCHANGED <<stage, how, agent, said, heard, outcome, aborted, asked, id>>

Next ==
  \/ \E c \in Calls :
       \/ Delegates(c) \/ DelegatesBeside(c) \/ Initialized(c) \/ SessionOpened(c)
       \/ \E u \in Updates : Streams(c, u)
       \/ Answered(c) \/ Refused(c) \/ Late(c) \/ FoundGone(c) \/ AgentExits(c)
       \/ Settles(c) \/ TurnCancelled(c)
  \/ \E s \in Stamps : DelegateCancel(s) \/ DelegateResult(s)

Spec == Init /\ [][Next]_deVars

(* The background delegations that have their name to themselves.             *)
Alone(c) == InBackground(c) /\ \A d \in Calls \ {c} : id[d] # id[c]

(* However a delegation went, over or on its way there, its agent was told to *)
(* end or is gone; and the result of one that was reported as done is all its *)
(* agent streamed, whatever else ran beside it and whenever it was asked for, *)
(* unless a second one began at the very same moment.                         *)
NoAgentLeft == \A c \in Calls : stage[c] \in {"stopping", "ended"} => agent[c] \in {"told", "gone"}
ResultIsWhole ==
  \A c \in Calls : Alone(c) /\ given[c] # <<>> /\ given[c].status = "ok" => given[c].text = said[c]
DelegationsHold == NoAgentLeft /\ ResultIsWhole

=============================================================================
