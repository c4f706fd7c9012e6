------------------------------ MODULE Runtime ------------------------------
(* One session of core/runtime/index.ts: the model it runs on and what the    *)
(* provider says of it, the mode, what a turn narrows and offers, and the     *)
(* agent rebuilt whenever one of them changes.  A turn keeps the agent it     *)
(* began with; the editor's protocol changes the mode and the model while     *)
(* it runs, and every await of run() lets them in.                            *)
(*                                                                            *)
(* Signed reasoning is a sequence of the prefixes it was written under: a     *)
(* time is how many blocks there were.  How it thinks, which rebuilds the     *)
(* agent as an answer about the model does, hooks, gates, notices and the     *)
(* calls of a turn are left out.                                              *)
EXTENDS Naturals, Sequences, FiniteSets

CONSTANTS
  Models,
  Unconfigured,  \* models whose provider has no key
  Small,         \* models whose window has no room for the extended tools
  Modes,
  MaxSwitches,   \* bound: switches before a person's last, or a turn's own
  MaxSteps       \* bound: replies with reasoning

None == [none |-> TRUE]

VARIABLES
  phase,    \* "idle", or what run() or compact() waits for; "stuck" once its end threw
  choice,   \* the model, and a number that tells one switch from the next
  info,     \* what is known of a model: whose it is, and whether its provider said so
  asked,    \* the choices their providers are still asked about
  awaited,  \* the answer that run() or compact() waits for
  restore,  \* the model to go back to when the turn ends
  chosen,   \* the model that the person chose, but for during a turn with its own
  mode, before,
  narrowed, \* a command or a skill narrowed the turn's tools
  offer,    \* tools offered for this turn only
  loaded,   \* tools held back until they were searched for, or their first call
  tools,    \* the tools and the prompt, as last built from the settings
  agent,    \* the agent for later turns
  turn,     \* the running turn's agent, whether it is that one, and has its tools
  blocks,   \* the reasoning written: the prefix of each block
  since,    \* the time that new agents replay reasoning from
  disturbed \* the prompt or the tools changed while a turn ran

vars == <<phase, choice, info, asked, awaited, restore, chosen, mode, before, narrowed, offer, loaded,
          tools, agent, turn, blocks, since, disturbed>>

-----------------------------------------------------------------------------
(* Building an agent.                                                         *)

(* lookup: the catalog's own entry, until the provider answered.              *)
Lookup(ref) == [of |-> ref, said |-> FALSE]

(* decideTiers: a window that is only guessed holds nothing back.             *)
Held == info.said /\ info.of \in Small

(* createToolSet and buildPrompt, from the settings as they are.              *)
Offered == [mode |-> mode, narrowed |-> narrowed, offer |-> offer, loaded |-> loaded, held |-> Held]
Assembled == [tools |-> Offered, model |-> choice.ref]

(* buildAgent: from the prompt and tools last built.                          *)
Built == [prefix |-> tools, model |-> choice.ref, info |-> info, since |-> since]

(* A new agent while a turn runs is not the turn's.                           *)
BuildAgent ==
  /\ agent' = Built'
  /\ turn' = IF turn = None THEN None ELSE [turn EXCEPT !.same = FALSE]

ReassembleInTime ==
  /\ tools' = Assembled'
  /\ UNCHANGED since
  /\ agent' = Built'
  /\ turn' = IF turn = None THEN None ELSE [turn EXCEPT !.same = FALSE, !.shares = FALSE]
  /\ disturbed' = (disturbed \/ turn # None)
Reassemble ==
  /\ tools' = Assembled'
  /\ since' = Len(blocks)
  /\ agent' = Built'
  /\ turn' = IF turn = None THEN None ELSE [turn EXCEPT !.same = FALSE, !.shares = FALSE]
  /\ disturbed' = (disturbed \/ turn # None)

-----------------------------------------------------------------------------
(* The model.                                                                 *)

Configured(ref) == ref \notin Unconfigured

(* switchModel, but for the rebuild: the choice is another even when its ref  *)
(* is not, and its provider is asked.                                         *)
SwitchTo(ref) ==
  /\ choice' = [ref |-> ref, n |-> choice.n + 1]
  /\ info' = Lookup(ref)
  /\ asked' = asked \cup {choice'}

NoSwitch == UNCHANGED <<choice, info, asked>>

SetModel(ref) ==
  /\ choice.n <= MaxSwitches /\ Configured(ref)
  /\ SwitchTo(ref)
  /\ chosen' = IF restore = None THEN ref ELSE chosen
  /\ UNCHANGED <<phase, awaited, restore, mode, before, narrowed, offer, loaded, blocks>>
  /\ Reassemble

(* The provider answers, or cannot be asked.  An answer that a switch         *)
(* overtook says nothing of the model in use.                                 *)
Taken(c) == IF c = choice THEN [of |-> c.ref, said |-> TRUE] ELSE info

Answered(c) ==
  /\ c \in asked /\ asked' = asked \ {c}
  /\ \E fails \in BOOLEAN : info' = IF fails THEN info ELSE Taken(c)
  /\ UNCHANGED <<phase, choice, awaited, restore, chosen, mode, before, narrowed, offer, loaded, blocks>>
  /\ IF info' = info THEN UNCHANGED <<tools, agent, turn, since, disturbed>>
     ELSE IF Held' # tools.tools.held THEN Reassemble
     ELSE UNCHANGED <<tools, since, disturbed>> /\ BuildAgent

-----------------------------------------------------------------------------
(* The mode, at any time.                                                     *)

SwitchMode(m) ==
  /\ m # mode /\ mode' = m
  /\ before' = IF m = "plan" THEN mode ELSE "none"
  /\ UNCHANGED <<phase, choice, info, asked, awaited, restore, chosen, narrowed, offer, loaded, blocks>>
  /\ Reassemble

(* exit_plan_mode, approved, in a turn: back to the mode before.              *)
ExitPlanMode ==
  /\ phase = "turn" /\ mode = "plan"
  /\ SwitchMode(IF before = "none" THEN "default" ELSE before)

-----------------------------------------------------------------------------
(* A turn.                                                                    *)

(* run: what a custom command asks for is set up first, and one whose model   *)
(* cannot be used goes on without it; then the provider's answer is awaited.  *)
Run(named, narrows, offers) ==
  /\ phase = "idle" /\ phase' = "readying"
  /\ IF named # None /\ Configured(named.ref)
     THEN choice.n < MaxSwitches /\ SwitchTo(named.ref) /\ restore' = choice
     ELSE NoSwitch /\ UNCHANGED restore
  /\ awaited' = choice'
  /\ narrowed' = narrows /\ offer' = offers
  /\ UNCHANGED <<chosen, mode, before, loaded, blocks>>
  /\ IF choice' # choice \/ narrows \/ offers THEN Reassemble
     ELSE UNCHANGED <<tools, agent, turn, since, disturbed>>

(* The end of run(), however it came to it: what the turn narrowed and was    *)
(* offered is let go, and the session's model taken back.  That throws when   *)
(* the session began on a model without a provider, and running stays set.    *)
LetGo == narrowed' = FALSE /\ offer' = FALSE

Finally ==
  LET back == restore # None /\ Configured(restore.ref)
      throws == restore # None /\ ~back
  IN /\ phase' = IF throws THEN "stuck" ELSE "idle"
     /\ LetGo /\ restore' = None /\ awaited' = None
     /\ IF back THEN SwitchTo(restore.ref) ELSE NoSwitch
     /\ UNCHANGED <<chosen, mode, before, loaded, blocks, disturbed>>
     /\ turn' = None
     /\ IF narrowed \/ offer \/ back
        THEN tools' = Assembled' /\ since' = Len(blocks) /\ agent' = Built'
        ELSE UNCHANGED <<tools, since, agent>>

(* The model is ready; without a provider the turn is over.                   *)
Ready ==
  /\ phase = "readying" /\ awaited \notin asked
  /\ IF Configured(choice.ref)
     THEN /\ phase' = "preparing"
          /\ UNCHANGED <<choice, info, asked, awaited, restore, chosen, mode, before, narrowed, offer, loaded,
                         tools, agent, turn, blocks, since, disturbed>>
     ELSE Finally

(* The references are expanded: the turn takes the agent as it is by then.    *)
Begin ==
  /\ phase = "preparing" /\ phase' = "turn"
  /\ turn' = [agent |-> agent, same |-> TRUE, shares |-> TRUE]
  /\ UNCHANGED <<choice, info, asked, awaited, restore, chosen, mode, before, narrowed, offer, loaded,
                 tools, agent, blocks, since, disturbed>>

(* The references cannot be expanded, or the turn's agent throws, or ends.    *)
End == phase \in {"preparing", "turn"} /\ Finally

(* A reply with reasoning.                                                    *)
Step ==
  /\ phase = "turn" /\ Len(blocks) < MaxSteps
  /\ blocks' = Append(blocks, turn.agent.prefix)
  /\ UNCHANGED <<phase, choice, info, asked, awaited, restore, chosen, mode, before, narrowed, offer, loaded,
                 tools, agent, turn, since, disturbed>>

(* load and afterCall: a tool held back joins the tools last built, in place, *)
(* and so those of every agent that has them.                                 *)
Load ==
  /\ phase = "turn" /\ ~loaded /\ loaded' = TRUE
  /\ tools' = [tools EXCEPT !.tools.loaded = TRUE]
  /\ agent' = [agent EXCEPT !.prefix.tools.loaded = TRUE]
  /\ turn' = IF turn.shares THEN [turn EXCEPT !.agent.prefix.tools.loaded = TRUE] ELSE turn
  /\ disturbed' = TRUE
  /\ UNCHANGED <<phase, choice, info, asked, awaited, restore, chosen, mode, before, narrowed, offer, blocks, since>>

(* A skill narrows the running turn; nothing is rebuilt.                      *)
SkillNarrows ==
  /\ phase = "turn" /\ narrowed' = TRUE
  /\ UNCHANGED <<phase, choice, info, asked, awaited, restore, chosen, mode, before, offer, loaded,
                 tools, agent, turn, blocks, since, disturbed>>

(* The turn's agent elides or compacts, and moves its own time; a compaction  *)
(* moves the session's too.                                                   *)
Elide ==
  /\ phase = "turn"
  /\ turn' = [turn EXCEPT !.agent.since = Len(blocks)]
  /\ agent' = IF turn.same THEN [agent EXCEPT !.since = Len(blocks)] ELSE agent
  /\ since' \in {since, Len(blocks)}
  /\ UNCHANGED <<phase, choice, info, asked, awaited, restore, chosen, mode, before, narrowed, offer, loaded,
                 tools, blocks, disturbed>>

(* /compact, which waits for the model too.                                   *)
Compact ==
  /\ phase = "idle" /\ phase' = "compacting" /\ awaited' = choice
  /\ UNCHANGED <<choice, info, asked, restore, chosen, mode, before, narrowed, offer, loaded,
                 tools, agent, turn, blocks, since, disturbed>>

Compacted ==
  /\ phase = "compacting" /\ awaited \notin asked
  /\ phase' = "idle" /\ awaited' = None
  /\ since' \in {since, Len(blocks)}
  /\ agent' = [agent EXCEPT !.since = IF since' = since THEN @ ELSE Len(blocks)]
  /\ UNCHANGED <<choice, info, asked, restore, chosen, mode, before, narrowed, offer, loaded, tools, turn, blocks,
                 disturbed>>

-----------------------------------------------------------------------------

Init ==
  /\ phase = "idle" /\ turn = None /\ awaited = None /\ restore = None
  /\ \E ref \in Models : choice = [ref |-> ref, n |-> 0] /\ info = Lookup(ref) /\ chosen = ref
  /\ asked = {choice}
  /\ mode \in Modes /\ before = "none" 
  /\ narrowed = FALSE /\ offer = FALSE /\ loaded = FALSE
  /\ tools = Assembled /\ blocks = <<>> /\ since = 0 /\ agent = Built /\ disturbed = FALSE

Next ==
  \/ \E ref \in Models : SetModel(ref)
  \/ \E c \in asked : Answered(c)
  \/ \E m \in Modes : SwitchMode(m)
  \/ ExitPlanMode
  \/ \E named \in {None} \cup [ref : Models], narrows, offers \in BOOLEAN : Run(named, narrows, offers)
  \/ Ready \/ Begin \/ End \/ Step \/ Load \/ SkillNarrows \/ Elide \/ Compact \/ Compacted

Spec == Init /\ [][Next]_vars

-----------------------------------------------------------------------------

Choices == [ref : Models, n : 0..(MaxSwitches + 2)]
ToolSets == [mode : Modes, narrowed : BOOLEAN, offer : BOOLEAN, loaded : BOOLEAN, held : BOOLEAN]
Prefixes == [tools : ToolSets, model : Models]
Infos == [of : Models, said : BOOLEAN]
Agents == [prefix : Prefixes, model : Models, info : Infos, since : 0..MaxSteps]

TypeOK ==
  /\ phase \in {"idle", "readying", "preparing", "turn", "compacting", "stuck"}
  /\ choice \in Choices /\ info \in Infos /\ asked \subseteq Choices
  /\ awaited \in Choices \cup {None} /\ restore \in Choices \cup {None} /\ chosen \in Models
  /\ mode \in Modes /\ before \in Modes \cup {"none"}
  /\ narrowed \in BOOLEAN /\ offer \in BOOLEAN /\ loaded \in BOOLEAN
  /\ tools \in Prefixes /\ agent \in Agents /\ since \in 0..MaxSteps
  /\ turn = None <=> phase # "turn"
  /\ turn # None => turn.agent \in Agents /\ (turn.same => turn.agent = agent) /\ (turn.same => turn.shares)
  /\ blocks \in Seq(Prefixes) /\ Len(blocks) <= MaxSteps

(* Between turns the session is as its settings say, whatever changed while   *)
(* a turn ran and in whatever order: the next turn has an agent built from     *)
(* them as they are, and no narrowing, offer or model of a turn stays behind.  *)
SettlesBack ==
  /\ phase = "idle" => tools = Assembled /\ agent = [Built EXCEPT !.since = agent.since] /\ choice.ref = chosen
  /\ phase \in {"idle", "stuck"} => ~narrowed /\ ~offer

(* Requests are sized by what is known of the model that they go to, though   *)
(* answers about models switched away from still arrive.                      *)
SizedForItsModel ==
  /\ info.of = choice.ref
  /\ agent.info.of = agent.model
  /\ turn # None => turn.agent.info.of = turn.agent.model

(* Reasoning is replayed only under the prompt and tools that it was written  *)
(* under (core/providers/types.ts:59-65).                                     *)
ReasoningHolds ==
  turn # None => \A i \in DOMAIN blocks : i > turn.agent.since => blocks[i] = turn.agent.prefix

(* It is while they change between turns only: every rebuild moves the time   *)
(* that reasoning is replayed from.                                           *)
ReasoningHoldsBetweenTurns == ~disturbed => ReasoningHolds
=============================================================================
