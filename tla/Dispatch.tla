------------------------------ MODULE Dispatch ------------------------------
(***************************************************************************)
(* One step's batch of tool calls (src/core/tools/dispatch.ts,             *)
(* executeBatch): hooks, decisions, approval prompts, grants, the fan-out  *)
(* question, the step's checkpoint, the per-turn cap, a person's denial    *)
(* and the turn's cancellation.                                            *)
(*                                                                         *)
(* JavaScript runs a continuation to the end, so one action is the code    *)
(* between two awaits.  Phases "loop", "decide" and "launch" are points    *)
(* inside such a continuation: the surroundings (a cancel, a mode switch,  *)
(* a grant made by another run) act only while the batch is Suspended.     *)
(***************************************************************************)
EXTENDS Integers, FiniteSets

CONSTANTS N,            \* calls the model made in the step
          Cap,          \* calls the turn may still run; Cap >= N stands for no cap
          Classes,      \* policy classes the step's calls are drawn from
          Policies,     \* what rules and the mode may say of a call
          HookVerdicts, \* what the pre_tool hooks may say of a call
          Rewrites      \* what may be said of a call whose arguments a hook replaced

ASSUME NAssumption == N \in Nat
ASSUME CapAssumption == Cap \in Nat
ASSUME ClassesAssumption == Classes \subseteq {"read", "state", "network", "write", "delegate"}
ASSUME PoliciesAssumption == Policies \subseteq {"allow", "ask_mode", "ask_rule", "deny"}
ASSUME HookAssumption == HookVerdicts \subseteq {"pass", "allow", "ask", "deny"}
ASSUME RewritesAssumption == Rewrites \subseteq {"allow", "ask_mode", "ask_rule", "deny"}

Calls == 1..N
Statuses == {"ok", "error", "denied", "cancelled"}
\* How a person refuses: bare, with feedback for the model, or asking it to go on.
Denials == {"bare", "feedback", "proceed"}

VARIABLES
  class,     \* [Calls -> Classes]: dispatcher.policyClass of each call's tool
  policy,    \* [Calls -> Policies]: what dispatcher.decide says of each call now
  hook,      \* [Calls -> HookVerdicts \cup {"unrun"}]: the hooked map
  signal,    \* ctx.signal: the turn is live, or was aborted
  phase,     \* where the batch is, see above
  kind,      \* what is being put together: one call, a run of reads, or a fan-out
  i,         \* the loop's index
  last,      \* the last call of the group being put together; i - 1 when empty
  runnable,  \* calls cleared to run, not started yet
  stopped,   \* why the rest of the step does not run, or "no"
  denial,    \* what the batch reports of a person's denial
  ran,       \* calls executed; ctx.remaining - ran are left
  capped,    \* calls not run for the cap
  checkpoint, \* the step's: none was needed yet, being taken, or taken
  executed,  \* calls given to dispatcher.execute
  running,   \* those not back yet
  said,      \* [Calls -> Statuses \cup {"none"}]: the tool_result event last emitted for a call
  times,     \* [Calls -> Nat]: how many were emitted for it
  results,   \* [Calls -> Statuses \cup {"none"}]: the array the batch returns
  audit      \* [Calls -> ...]: the approval_decision event recorded of each call

policyVars == <<class, policy, hook, signal>>
loopVars   == <<phase, kind, i, last, runnable>>
stopVars   == <<stopped, denial>>
countVars  == <<ran, capped, checkpoint>>
toolVars   == <<executed, running>>
resultVars == <<said, times, results, audit>>
vars == <<policyVars, loopVars, stopVars, countVars, toolVars, resultVars>>

-----------------------------------------------------------------------------
(* Decisions.                                                              *)

\* A hook's verdict as one more rule source, deny first: a hook allowing answers only what the
\* mode alone would have asked.
Denies(p, c) == hook[c] = "deny" \/ p[c] = "deny"
Asks(p, c) ==
  hook[c] = "ask" \/ p[c] = "ask_rule" \/ (p[c] = "ask_mode" /\ hook[c] # "allow")
DecideBy(p, c) == IF Denies(p, c) THEN "deny" ELSE IF Asks(p, c) THEN "ask" ELSE "allow"

Decide(c) == DecideBy(policy, c)

\* Mutant: a read joins the group whatever rules and hooks say.
ReadOnlyUndecided(c) == class[c] = "read"

ReadOnly(c)  == class[c] = "read" /\ Decide(c) = "allow"

Delegates(c) == class[c] = "delegate"

Changes(c)   == class[c] \notin {"read", "state", "network"}
Recorded(c)  == class[c] \notin {"read", "state"}

\* What a grant covering the calls of C makes of the policy: an allow rule beats no deny.
Granted(p, C) == [c \in Calls |-> IF c \in C /\ p[c] # "deny" THEN "allow" ELSE p[c]]

-----------------------------------------------------------------------------
(* Results.                                                                *)

\* Emit a result for each call of C and put it in the array.
AnswerAll(C, s) ==
  /\ said' = [c \in Calls |-> IF c \in C THEN s ELSE said[c]]
  /\ times' = [c \in Calls |-> IF c \in C THEN times[c] + 1 ELSE times[c]]
  /\ results' = [c \in Calls |-> IF c \in C THEN s ELSE results[c]]

Remaining == Cap - ran

-----------------------------------------------------------------------------
TypeOK ==
  /\ class \in [Calls -> Classes]
  /\ policy \in [Calls -> {"allow", "ask_mode", "ask_rule", "deny"}]
  /\ hook \in [Calls -> HookVerdicts \cup {"unrun"}]
  /\ signal \in {"live", "aborted"}
  /\ phase \in {"loop", "gather", "decide", "ask", "launch", "preflight",
                "checkpoint", "perform", "after", "done"}
  /\ kind \in {"one", "reads", "delegates"}
  /\ i \in 1..N+1
  /\ last \in 0..N
  /\ runnable \in SUBSET Calls
  /\ stopped \in {"no", "denied", "cancelled"}
  /\ denial \in Denials \cup {"none"}
  /\ ran \in Nat
  /\ capped \in 0..N
  /\ checkpoint \in {"none", "taking", "taken"}
  /\ executed \in SUBSET Calls
  /\ running \in SUBSET Calls
  /\ said \in [Calls -> Statuses \cup {"none"}]
  /\ times \in [Calls -> Nat]
  /\ results \in [Calls -> Statuses \cup {"none"}]
  /\ audit \in [Calls -> {"none", "allow", "deny", "user_deny"}]

Init ==
  /\ class \in [Calls -> Classes]
  /\ policy \in [Calls -> Policies]
  /\ hook = [c \in Calls |-> "unrun"]
  /\ signal \in {"live", "aborted"}
  /\ phase = "loop"
  /\ kind = "one"
  /\ i = 1
  /\ last = 0
  /\ runnable = {}
  /\ stopped = "no"
  /\ denial = "none"
  /\ ran = 0
  /\ capped = 0
  /\ checkpoint = "none"
  /\ executed = {}
  /\ running = {}
  /\ said = [c \in Calls |-> "none"]
  /\ times = [c \in Calls |-> 0]
  /\ results = [c \in Calls |-> "none"]
  /\ audit = [c \in Calls |-> "none"]

-----------------------------------------------------------------------------
(* The head of the loop.                                                   *)

\* An earlier denial or a cancel answers the call instead of dropping it.
SkipStopped ==
  /\ phase = "loop" /\ i <= N
  /\ stopped # "no" \/ signal = "aborted"
  /\ stopped' = IF stopped = "no" THEN "cancelled" ELSE stopped
  /\ AnswerAll({i}, "cancelled")
  /\ i' = i + 1
  /\ UNCHANGED <<policyVars, phase, kind, last, runnable, denial, countVars, toolVars, audit>>

SkipCapped ==
  /\ phase = "loop" /\ i <= N
  /\ stopped = "no" /\ signal = "live"
  /\ Remaining <= 0
  /\ AnswerAll({i}, "cancelled")
  /\ capped' = capped + 1
  /\ i' = i + 1
  /\ UNCHANGED <<policyVars, phase, kind, last, runnable, stopVars, ran, checkpoint, toolVars, audit>>

BeginCall ==
  /\ phase = "loop" /\ i <= N
  /\ stopped = "no" /\ signal = "live"
  /\ Remaining > 0
  /\ phase' = "gather" /\ kind' = "one" /\ last' = i - 1
  /\ UNCHANGED <<policyVars, i, runnable, stopVars, countVars, toolVars, resultVars>>

\* Every call is past: settle the checkpoint, if there is one, and return.
LeaveLoop ==
  /\ phase = "loop" /\ i = N + 1
  /\ phase' = IF checkpoint = "none" THEN "done" ELSE "after"
  /\ UNCHANGED <<policyVars, kind, i, last, runnable, stopVars, countVars, toolVars, resultVars>>

-----------------------------------------------------------------------------
(* Putting a group together: announce() awaits the hooks of call last + 1. *)

\* The hooks answered, once per call; arguments they replaced are judged afresh.
HooksAnswer ==
  /\ phase = "gather" /\ last < N
  /\ hook[last + 1] = "unrun"
  /\ \E v \in HookVerdicts : hook' = [hook EXCEPT ![last + 1] = v]
  /\ \E p \in Rewrites \cup {policy[last + 1]} : policy' = [policy EXCEPT ![last + 1] = p]
  /\ UNCHANGED <<class, signal, loopVars, stopVars, countVars, toolVars, resultVars>>

\* The first call tells what is being put together: reads, a fan-out, or a call on its own.
Classify ==
  /\ phase = "gather" /\ kind = "one"
  /\ hook[i] # "unrun"
  /\ \/ /\ ReadOnly(i)
        /\ kind' = "reads"
        /\ UNCHANGED <<phase, last>>
     \/ /\ ~ReadOnly(i) /\ Delegates(i)
        /\ kind' = "delegates"
        /\ UNCHANGED <<phase, last>>
     \/ /\ ~ReadOnly(i) /\ ~Delegates(i)
        /\ phase' = "decide" /\ last' = i
        /\ UNCHANGED kind
  /\ UNCHANGED <<policyVars, i, runnable, stopVars, countVars, toolVars, resultVars>>

Fits(c) == (kind = "reads" /\ ReadOnly(c)) \/ (kind = "delegates" /\ Delegates(c))

GroupFull == last = N \/ last - i + 1 >= Remaining

JoinGroup ==
  /\ phase = "gather" /\ kind # "one"
  /\ ~GroupFull
  /\ hook[last + 1] # "unrun"
  /\ Fits(last + 1)
  /\ last' = last + 1
  /\ UNCHANGED <<policyVars, phase, kind, i, runnable, stopVars, countVars, toolVars, resultVars>>

GroupClosed ==
  /\ phase = "gather" /\ kind # "one"
  /\ ~GroupFull => hook[last + 1] # "unrun" /\ ~Fits(last + 1)

\* A run of reads starts together; none left (the mode changed meanwhile) goes round again.
StartReads ==
  /\ GroupClosed /\ kind = "reads"
  /\ phase' = "perform"
  /\ executed' = executed \cup (i..last)
  /\ running' = i..last
  /\ i' = last + 1
  /\ runnable' = {}
  /\ UNCHANGED <<policyVars, kind, last, stopVars, countVars, resultVars>>

DecideFanOut ==
  /\ GroupClosed /\ kind = "delegates"
  /\ phase' = "decide"
  /\ UNCHANGED <<policyVars, kind, i, last, runnable, stopVars, countVars, toolVars, resultVars>>

-----------------------------------------------------------------------------
(* settleDecision() for call i, on its own or as the next of a fan-out.     *)

\* Mutant: a fan-out goes on being decided after a person's denial.
ProceedPastDenial(fate, stop) ==
  /\ stopped' = stop
  /\ runnable' = IF fate = "run" THEN runnable \cup {i} ELSE runnable
  /\ i' = IF fate = "cancelled" THEN i ELSE i + 1
  /\ phase' = IF stop # "cancelled" /\ i # last THEN "decide"
              ELSE IF runnable' = {} THEN "loop" ELSE "launch"
  /\ UNCHANGED <<class, hook, signal, kind, last, countVars, toolVars>>

\* What follows the fate of call i: the next of the fan-out, the start of what may run, the loop.
Proceed(fate, stop) ==
  /\ stopped' = stop
  /\ runnable' = IF fate = "run" THEN runnable \cup {i} ELSE runnable
  /\ i' = IF fate = "cancelled" THEN i ELSE i + 1
  /\ phase' = IF stop = "no" /\ i # last THEN "decide"
              ELSE IF runnable' = {} THEN "loop" ELSE "launch"
  /\ UNCHANGED <<class, hook, signal, kind, last, countVars, toolVars>>

RunIt          == Proceed("run", stopped) /\ UNCHANGED <<denial, said, times, results>>
CancelIt       == Proceed("cancelled", "cancelled") /\ UNCHANGED <<denial, resultVars>>
RefuseIt(stop) == AnswerAll({i}, "denied") /\ Proceed("settled", stop)

\* A rule, the mode or a hook says no: the rest of the step goes on.
DeniedByPolicy ==
  /\ phase = "decide" /\ Decide(i) = "deny"
  /\ RefuseIt(stopped)
  /\ audit' = [audit EXCEPT ![i] = "deny"]
  /\ UNCHANGED <<policy, denial>>

AllowedByPolicy ==
  /\ phase = "decide" /\ Decide(i) = "allow"
  /\ RunIt
  /\ audit' = IF Recorded(i) THEN [audit EXCEPT ![i] = "allow"] ELSE audit
  /\ UNCHANGED policy

\* waitForDecision(): nobody is asked once the turn was cancelled.
AskPerson ==
  /\ phase = "decide" /\ Decide(i) = "ask"
  /\ \/ /\ signal = "aborted"
        /\ CancelIt
        /\ UNCHANGED policy
     \/ /\ signal = "live"
        /\ phase' = "ask"
        /\ UNCHANGED <<policyVars, kind, i, last, runnable, stopVars, countVars, toolVars, resultVars>>

Waiting == phase = "ask" /\ signal = "live"

AnsweredYes ==
  /\ Waiting
  /\ \E a \in {"once", "scope"}, C \in SUBSET Calls :
        policy' = IF a = "scope" THEN Granted(policy, C) ELSE policy
  /\ RunIt
  /\ audit' = [audit EXCEPT ![i] = "allow"]

\* A surface that cannot ask says no for this call only.
AnsweredByNobody ==
  /\ Waiting
  /\ RefuseIt(stopped)
  /\ audit' = [audit EXCEPT ![i] = "deny"]
  /\ UNCHANGED <<policy, denial>>

\* A person saying no takes the rest of the step back.
AnsweredNo ==
  /\ Waiting
  /\ denial' \in Denials
  /\ RefuseIt("denied")
  /\ audit' = [audit EXCEPT ![i] = "user_deny"]
  /\ UNCHANGED policy

AskCancelled ==
  /\ phase = "ask" /\ signal = "aborted"
  /\ CancelIt
  /\ UNCHANGED policy

-----------------------------------------------------------------------------
(* Starting what was cleared.                                              *)

Start ==
  /\ phase' = "perform"
  /\ executed' = executed \cup runnable
  /\ running' = runnable
  /\ runnable' = {}

\* changeAhead(): the step's checkpoint comes before its first change, once.
ChangeAhead ==
  \/ /\ checkpoint = "none" /\ \E c \in runnable : Changes(c)
     /\ checkpoint' = "taking"
     /\ phase' = "checkpoint"
     /\ UNCHANGED <<runnable, toolVars>>
  \/ /\ checkpoint # "none" \/ \A c \in runnable : ~Changes(c)
     /\ Start
     /\ UNCHANGED checkpoint

\* Mutant: the members of a fan-out that does not start get no result.
DropFanOutSilently ==
  /\ runnable' = {}
  /\ phase' = "loop"
  /\ UNCHANGED <<checkpoint, toolVars, said, times, results>>

\* The fan-out, or what is left of it, does not start.
DropFanOut ==
  /\ AnswerAll(runnable, "cancelled")
  /\ runnable' = {}
  /\ phase' = "loop"
  /\ UNCHANGED <<checkpoint, toolVars>>

Launch ==
  /\ phase = "launch"
  /\ ChangeAhead
  /\ UNCHANGED <<policyVars, kind, i, last, stopVars, ran, capped, resultVars>>

\* preflight(): the fan-out names rules its children will need, and they would ask.
AskNeeds ==
  /\ phase = "launch" /\ kind = "delegates" /\ stopped = "no"
  /\ \/ /\ signal = "aborted"
        /\ stopped' = "cancelled"
        /\ DropFanOut
     \/ /\ signal = "live"
        /\ phase' = "preflight"
        /\ UNCHANGED <<runnable, stopped, checkpoint, toolVars, said, times, results>>
  /\ UNCHANGED <<policyVars, kind, i, last, denial, ran, capped, audit>>

NeedsAnswered ==
  /\ phase = "preflight" /\ signal = "live"
  /\ \E a \in {"once", "scope", "refuse", "proceed"}, C \in SUBSET Calls :
        policy' = IF a = "scope" THEN Granted(policy, C) ELSE policy
  /\ ChangeAhead
  /\ UNCHANGED <<class, hook, signal, kind, i, last, stopVars, ran, capped, resultVars>>

NeedsRefused ==
  /\ phase = "preflight" /\ signal = "live"
  /\ denial' \in {"bare", "feedback"}
  /\ stopped' = "denied"
  /\ DropFanOut
  /\ UNCHANGED <<policyVars, kind, i, last, ran, capped, audit>>

NeedsCancelled ==
  /\ phase = "preflight" /\ signal = "aborted"
  /\ stopped' = "cancelled"
  /\ DropFanOut
  /\ UNCHANGED <<policyVars, kind, i, last, denial, ran, capped, audit>>

\* Mutant: a checkpoint given up with the turn never comes back.
CheckpointTakenLive ==
  /\ phase = "checkpoint" /\ signal = "live"
  /\ checkpoint' = "taken"
  /\ Start
  /\ UNCHANGED <<policyVars, kind, i, last, stopVars, ran, capped, resultVars>>

\* beforeChange() is back, taken or failed: the calls start, whatever happened meanwhile.
CheckpointTaken ==
  /\ phase = "checkpoint"
  /\ checkpoint' = "taken"
  /\ Start
  /\ UNCHANGED <<policyVars, kind, i, last, stopVars, ran, capped, resultVars>>

-----------------------------------------------------------------------------
(* perform() and the end.                                                  *)

\* A tool returns, throws, or reports that it was cancelled, alone or with the turn.
ToolEnds(c) ==
  /\ phase = "perform" /\ c \in running
  /\ \E s \in {"ok", "error", "cancelled"} : said' = [said EXCEPT ![c] = s]
  /\ times' = [times EXCEPT ![c] = @ + 1]
  /\ running' = running \ {c}
  /\ UNCHANGED <<policyVars, loopVars, stopVars, countVars, executed, results, audit>>

\* Mutant: a group counts as one call.
GroupDoneAsOne ==
  /\ phase = "perform" /\ running = {}
  /\ LET group == {c \in executed : results[c] = "none"}
     IN results' = [c \in Calls |-> IF c \in group THEN said[c] ELSE results[c]]
  /\ ran' = ran + 1
  /\ phase' = "loop"
  /\ UNCHANGED <<policyVars, kind, i, last, runnable, stopVars, capped, checkpoint, toolVars, said, times, audit>>

\* Promise.all: the group's results go into the array, and count against the cap.
GroupDone ==
  /\ phase = "perform" /\ running = {}
  /\ LET group == {c \in executed : results[c] = "none"}
     IN /\ results' = [c \in Calls |-> IF c \in group THEN said[c] ELSE results[c]]
        /\ ran' = ran + Cardinality(group)
  /\ phase' = "loop"
  /\ UNCHANGED <<policyVars, kind, i, last, runnable, stopVars, capped, checkpoint, toolVars, said, times, audit>>

\* afterChange() settled the checkpoint.
Settled ==
  /\ phase = "after"
  /\ phase' = "done"
  /\ UNCHANGED <<policyVars, kind, i, last, runnable, stopVars, countVars, toolVars, resultVars>>

-----------------------------------------------------------------------------
(* The surroundings, while the batch is suspended at an await.             *)

Suspended == phase \in {"gather", "ask", "preflight", "checkpoint", "perform", "after"}

\* The person, a surface or a time limit aborts the turn's signal.
Abort ==
  /\ Suspended /\ signal = "live"
  /\ signal' = "aborted"
  /\ UNCHANGED <<class, policy, hook, loopVars, stopVars, countVars, toolVars, resultVars>>

\* The person switches modes: every class but reads and the plan may be decided anew, and
\* a waiting prompt is not told.
SwitchMode ==
  /\ Suspended
  /\ \E k \in Classes \ {"read", "state"}, p \in Policies \ {"ask_rule"} :
        policy' = [c \in Calls |-> IF class[c] = k /\ policy[c] # "ask_rule" THEN p ELSE policy[c]]
  /\ UNCHANGED <<class, hook, signal, loopVars, stopVars, countVars, toolVars, resultVars>>

\* A run that shares the engine, a child or a background task, is granted a rule; a waiting
\* prompt whose call it now allows is settled with it.
GrantElsewhere ==
  /\ Suspended
  /\ \E C \in SUBSET Calls :
       LET settles == phase = "ask" /\ signal = "live" /\ DecideBy(Granted(policy, C), i) = "allow"
       IN /\ policy' = Granted(policy, C)
          /\ \/ settles /\ RunIt /\ audit' = [audit EXCEPT ![i] = "allow"]
             \/ /\ ~settles
                /\ UNCHANGED <<class, hook, signal, loopVars, stopVars, countVars, toolVars, resultVars>>

-----------------------------------------------------------------------------
HeadStep    == SkipStopped \/ SkipCapped \/ BeginCall \/ LeaveLoop
GatherStep  == HooksAnswer \/ Classify \/ JoinGroup \/ StartReads \/ DecideFanOut
DecideStep  == DeniedByPolicy \/ AllowedByPolicy \/ AskPerson \/ AskCancelled
LaunchStep  == Launch \/ AskNeeds \/ NeedsCancelled \/ CheckpointTaken
PerformStep == (\E c \in Calls : ToolEnds(c)) \/ GroupDone \/ Settled

\* What the program does on its own: code, hooks, the checkpoint, tools.
Program == HeadStep \/ GatherStep \/ DecideStep \/ LaunchStep \/ PerformStep

\* What people and other runs do.
Person      == AnsweredYes \/ AnsweredByNobody \/ AnsweredNo \/ NeedsAnswered \/ NeedsRefused
Environment == Abort \/ SwitchMode \/ GrantElsewhere

\* The batch has returned.
Returned == phase = "done" /\ UNCHANGED vars

Next == Program \/ Person \/ Environment \/ Returned

Spec == Init /\ [][Next]_vars

\* Hooks and tools come back (a time limit holds both), and the code between awaits runs.
\* Nothing makes a person answer, cancel or switch modes.
FairSpec == Spec /\ WF_vars(Program)

-----------------------------------------------------------------------------
(* Properties.                                                             *)

\* Every call gets exactly one result, however the batch went: never a second tool_result, and
\* the array the batch returns says what was announced (executeBatch's doc comment).
OneResultEach ==
  /\ \A c \in Calls : times[c] <= 1
  /\ phase = "done" => \A c \in Calls : times[c] = 1 /\ said[c] = results[c]

\* No call runs undecided: an executed call was allowed by an approval recorded before it
\* started, or is a read, or a change to the agent's own plan, that its hooks, the rules and the
\* mode allow.  A denied call is never executed ("the call is not executed").
DecidedBeforeRun ==
  \A c \in executed :
    \/ audit[c] = "allow"
    \/ class[c] \in {"read", "state"} /\ audit[c] = "none" /\ Decide(c) = "allow"

\* Once a person refused a call, nothing the model asked for after it in the step is executed.
DenialTakesBackTheRest ==
  \A d \in Calls : audit[d] = "user_deny" => \A c \in executed : c < d

\* The turn's cap on executed calls holds, whatever ran together, and what the batch tells the
\* turn engine of it is so: it ran as many as executed, and said it capped some only when the
\* cap was used up.
CapHolds ==
  /\ Cardinality(executed) <= Cap
  /\ phase = "done" => /\ ran = Cardinality(executed)
                       /\ capped > 0 => ran = Cap

\* Calls that change something run one at a time in the order given: a call starts only when
\* each earlier one was answered or runs beside it, and only reads, or a fan-out, run together.
OrderKept ==
  /\ \A c \in executed, b \in Calls : b < c => b \in executed \/ times[b] = 1
  /\ \A b, c \in running : b # c => class[b] = class[c] /\ class[b] \in {"read", "delegate"}

\* Nothing that may change files runs before the step's checkpoint was taken.
CheckpointFirst ==
  (\E c \in executed : class[c] \in {"write", "delegate"}) => checkpoint = "taken"

\* What runs was decided before it, in its turn, and on a checkpoint when it may change files:
\* the three things the loop looks at in different places, before different awaits.
RunsInTurn == DecidedBeforeRun /\ OrderKept /\ CheckpointFirst

\* Nobody is asked anything once the turn was cancelled: a prompt up at that moment comes down,
\* and none goes up after it.
NoPromptAfterCancel ==
  [][signal = "aborted" /\ phase' \in {"ask", "preflight"} => phase' = phase]_vars

\* A batch ends when its prompts are all answered, and when the turn is cancelled, whoever was
\* asked and never answers.
AnsweredBatchEnds ==
  []<>(phase \notin {"ask", "preflight"} \/ signal = "aborted") => <>(phase = "done")

\* Implements the promise of HonestBatch.
Batch == INSTANCE HonestBatch
           WITH said <- said,
                closed <- phase = "done"
KeepsPromise == Batch!Spec

-----------------------------------------------------------------------------
(* The inductive invariant behind the theorems of DispatchProofs.          *)

\* The loop's index and the group being put together.
IndexInv ==
  /\ capped < i
  /\ phase = "gather" => i <= N /\ last >= i - 1 /\ Remaining > 0
  /\ phase = "gather" /\ kind = "delegates" => class[i] = "delegate"
  /\ phase = "gather" /\ kind = "one" => last = i - 1
  /\ phase \in {"decide", "ask"} => i <= last
  /\ phase \in {"after", "done"} => i = N + 1

\* A call is ahead of the index, cleared, running, or answered.
PlaceInv ==
  /\ \A c \in Calls : c >= i => /\ times[c] = 0
                               /\ c \notin executed \cup runnable
                               /\ audit[c] = "none"
  /\ \A c \in Calls : c < i => times[c] = IF c \in runnable \cup running THEN 0 ELSE 1
  /\ running \subseteq executed
  /\ runnable \cap executed = {}
  /\ phase # "perform" => running = {}
  /\ phase \notin {"decide", "ask", "launch", "preflight", "checkpoint"} => runnable = {}

\* The array lags the announcements only while a group runs.
ArrayInv ==
  \A c \in Calls :
    /\ times[c] = 0 <=> said[c] = "none"
    /\ results[c] = said[c] \/ (results[c] = "none" /\ phase = "perform" /\ c \in executed)

\* What is put together or cleared was decided.
ClearedInv ==
  /\ phase \in {"gather", "decide", "ask"} => \A c \in i..last : hook[c] # "unrun"
  /\ phase = "gather" /\ kind = "reads" => \A c \in i..last : ReadOnly(c)
  /\ \A c \in executed \cup runnable :
       \/ audit[c] = "allow"
       \/ /\ class[c] \in {"read", "state"} /\ audit[c] = "none"
          /\ Decide(c) = "allow" /\ hook[c] # "unrun"

\* After a person's denial the batch only starts what was cleared before it.
DenialInv ==
  /\ phase \in {"gather", "decide", "ask", "preflight"} => stopped = "no"
  /\ \A d \in Calls : audit[d] = "user_deny" =>
       /\ stopped = "denied"
       /\ \A c \in executed \cup runnable : c < d

CheckpointInv ==
  /\ phase = "checkpoint" <=> checkpoint = "taking"
  /\ CheckpointFirst

\* What is cleared comes after what ran, and only a fan-out clears, or a run of reads runs,
\* more than one call at a time.
GroupInv ==
  /\ \A b \in runnable, c \in executed : c < b
  /\ phase = "gather" /\ kind = "delegates" => \A c \in i..last : class[c] = "delegate"
  /\ phase \in {"decide", "ask"} =>
       \/ kind = "one" /\ runnable = {} /\ i = last
       \/ \A c \in runnable \cup (i..last) : class[c] = "delegate"
  /\ \A b, c \in runnable : b # c => class[b] = "delegate"
  /\ \A b, c \in running : b # c => class[b] = class[c] /\ class[b] \in {"read", "delegate"}

\* What ran is counted once its group is done, and what is put together or cleared fits in what
\* is left of the cap, so the cap is exactly used up when it answers a call.
Counted == executed \ {c \in executed : results[c] = "none"}
CapInv ==
  /\ ran = Cardinality(Counted)
  /\ phase = "perform" => Cardinality(executed) <= Cap
  /\ phase = "gather" /\ kind # "one" => last - i + 1 <= Remaining
  /\ phase \in {"decide", "ask"} => Cardinality(runnable) + (last - i + 1) <= Remaining
  /\ phase \in {"launch", "preflight", "checkpoint"} => Cardinality(runnable) <= Remaining
  /\ ran <= Cap
  /\ capped > 0 => ran = Cap /\ phase \in {"loop", "after", "done"}

IInv == TypeOK /\ IndexInv /\ PlaceInv /\ ArrayInv /\ ClearedInv /\ DenialInv /\ CheckpointInv
=============================================================================
