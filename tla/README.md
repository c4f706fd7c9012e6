# JamCLI in TLA+

Specifications of the parts of JamCLI (`src/`) whose correctness depends on order: what runs
beside what, what is cancelled, killed or resumed in the middle, what two processes do to one
file, and what a log still says afterwards. Paths below are relative to the repository's `src/`;
`spec.md` is `openspec/specs/jamcli/spec.md`.

`PROJECT.json` lists the components, the runs, the source lines of every definition, the mutants
each property was seen to fail on, the finding, the hazards and the theorems. A helper that stands
for lines inside those of the operation it helps is mapped with that operation. A definition
preceded by `Mutant:` is such a mutant, a plausible slip in the code; no specification uses it.

## 1. The system

JamCLI is a coding agent: one process, JavaScript's single thread, many awaits. Between two
awaits nothing interrupts the code, so **one action is the code between two awaits**, and what
people, other runs, processes and timers do may come at each await. What several processes share
(logs, the sessions index, settings, lockfiles, crontabs, git) is read and written in steps of
its own, between which the others run.

| Component | State it keeps | Operations | Talks to | Module |
| --- | --- | --- | --- | --- |
| Turn engine, context, transcript (`core/agent.ts`, `core/context`, `core/transcript`) | messages of the turn and the session, an append-only log | a prompt, steps of request, calls and results, compaction, elision, resume, fork, rewind | providers, dispatch, hooks | `Conversation` |
| Tool dispatch (`core/tools/dispatch.ts`) | a batch: index, cleared calls, denial, cap, checkpoint, results | hooks, decisions, prompts, groups of reads, fan-outs | permission engine, person, tools, checkpoints | `Dispatch` |
| Permission engine and approvals (`core/permissions`, `dispatch.ts` WaitingAsks, `runtime/children.ts`) | rules by source, mode, a narrowing, prompts waiting | decide, grant, switch mode, answer | dispatch of a session and its children, settings | `Approvals` |
| Work table and what fills it (`core/work.ts`, `tools/task.ts`, `tools/command.ts`) | lines of jobs, tasks and calls; each task's record | start, end, collect, drain, stop, prune | turn engine, children's runtimes, processes | `Work`, `WorkView` |
| Workflows (`core/workflows`) | a run's log; a process's memory of it; schedules | run, resume, approve, stop, schedule | runtimes, the operating system | `Workflow`, `Schedules` |
| Providers (`core/providers`, `core/catalog`) | learnt refusals, a reply so far, facts about models | stream, complete, retry, put a request together | the network | `Provider`, `Wire`, `Catalog` |
| Runtime (`core/runtime`) | model, mode, tools, the agent, reasoning replayed | run, compact, switch model and mode, close | everything | `Runtime`, `Lifetime` |
| Checkpoints and git (`core/git`) | trees and refs, worktrees, the index | take, settle, restore, review, commit | dispatch, transcript, the person | `Checkpoints`, `Worktrees`, `Review` |
| Verification (`core/verify`) | ledger of gates by tree, denials of a stop | gates after edits and at stops | hooks, checkpoints, todo list | `Verification`, `Todos` |
| Language servers (`core/lsp`, JSON-RPC) | a process, documents sent, answers waited for | ask, restart, close | tools, verification | `Languages` |
| Tools of files, shell and web (`core/tools`) | anchors shown, output kept, pages kept | read, edit, patch, run, fetch | the disk, an editor, processes | `Files`, `Shell`, `Web` |
| Wakes and delegated sessions (`core/wake`, `src/mcp`) | wakes in memory and in the log, questions, calls | set, fire, answer, stop, drive a terminal | a host over MCP | `Delegated`, `Terminals` |
| MCP and ACP clients (`services`) | connections, sign-ins, delegations | connect, call, delegate, cancel | servers, other agents | `McpClient`, `Delegates` |
| ACP server (`src/acp`), observers | a lane of prompts and wakes, asks, spans | prompt, cancel, ask, watch | an editor, a socket's clients | `AcpServer`, `Observers` |
| Interface (`src/tui`, `src/commands`), runs without it (`cli`) | composer, queue, prompts on screen, lists | type, recall, send, answer, run a command | the runtime, the person | `Composer`, `Prompts`, `Commands`, `Headless` |
| Configuration, hooks, plugins, sessions index | layered files, trust, lockfiles, index lines | read, write, agree, install, record | other processes | `Config`, `Hooks`, `Plugins`, `Sessions` |
| Not modelled | | | | section 7 |

What is hard here, and which property is about it:

- **Everything that waits can be cancelled or answered otherwise.** A prompt comes down by an
  answer, an abort or a grant made for another call (`AnsweredBatchEnds`, `NoAskLeftBehind`,
  `PromptsAreAnswered`); a request is aborted between any two events (`SilentAfterAbort`,
  `RequestsEnd`); a language server is silent or dies (`WaitsEnd`).
- **Something decided is acted on later.** Calls of a fan-out are decided one by one and start
  together (`DenialTakesBackTheRest`); rules, modes and narrowings change meanwhile
  (`NothingPastADeny`, `EnginesAgree`); a diagnostic or a gate speaks of the text or the tree of
  when it was asked for (`AnswersAreOfTheirText`, `RowsAreOfTheirTree`); facts about models age
  (`RequestsAccepted`).
- **Work outlives the step that started it** and is told of, collected, stopped and forgotten
  through different doors (`ToldOnce`, `SlotsHold`, `StoppedWorkEnds`, `NewsArrives`).
- **The process can end anywhere.** A workflow resumes (`CompletedNotRepeated`,
  `FinishesInTheEnd`), a session resumes (`ConversationKept`, `WakesRunOnce`), what was typed
  comes back (`NothingTypedIsLost`), a plugin half installed is not loaded (`OnlyWhatWasAgreed`).
- **The same thing is kept twice.** The conversation is in memory and in the log, and positions
  taken in one are used in the other (`ConversationKept`); a run has its log and a process's
  memory (`KeepsPromise` of `Workflow`); a reply is its events and what was made of them
  (`GivenAsSent`); what is watched is a copy (`WatchedAsItIs`).
- **Several processes write one file and take no lock** (`KeptAsDone`, `OnlyWhatWasAgreed`).

## 2. The modules checked and proved on their own

### Dispatch (implements HonestBatch)

One call of `executeBatch`. `phase` is the await the batch is at; `i` the loop's index, `last`
the end of the group being put together, `runnable` the calls cleared and not started,
`executed` and `running` the calls given to their tools. `said` and `times` are the
`tool_result` events, `results` the array returned. A call is its policy class (`class`), what
rules and mode say of it (`policy`) and what its hooks said (`hook`); `DecideBy` combines the
last two as `decide` does. The actions follow the loop: `SkipStopped` and `SkipCapped` answer
without running; `BeginCall` to `Classify`, `JoinGroup`, `DecideFanOut` put a call or a group
together; `AskPerson` and the `Answered...` actions are the prompt; `AskNeeds` the question
before a fan-out; `Launch`, `CheckpointTaken`, `StartReads`, `ToolEnds`, `GroupDone`, `Settled`
the run. `Abort`, `SwitchMode` and `GrantElsewhere` are what the rest of the program does at an
await (`Suspended`). `HonestBatch` is the promise of spec.md's *Honest Tool Batches*: every call
is answered once, and the batch returns with none missing; `KeepsPromise` is the refinement.
Left out: the prompts of children asked through this batch (`Approvals`), what verification adds
to a result, the audit's wording.

### Approvals

First the decision of a call: `Rule`s by source, the mode, what a command or a skill narrowed;
a rule's glob is the set of what it matches. Then the prompts: each run (a session, a child) asks
of one call at a time (`ask`), on the session's surface; `AllowOnce`, `AllowAndGrant`, `Deny`,
`GrantNeeds` are the person's answers, each with everything it settles for the others;
`AddRule`, `RemoveRule`, `SetMode`, `Narrow` and `Widen` change what decides. `EnginesAgree`: what a
child may do unasked its session may, and a tool that is not offered has every call refused.
`NothingPastADeny`: nothing runs unasked past a deny, a narrowing or plan mode, not even when
another run's grant settles it. `NoAskLeftBehind`: a rule added leaves no ask waiting that its
own run would now let run, and an answer none that asks the same. `NarrowingOnlyNarrows` says
the rest. Left out: how a
command's text is taken apart (`permissions/command.ts`) and paths are matched, the settings
files (`Config`).

### Work

Jobs, background tasks and the children a step waits for. For each piece of work: how far its
process or run is (`run`), the task's own record (`status`), its line in the table (`entry`,
`outcome`, `told`), how often the model was told of its end (`news`), and whether it was given its
result once it had ended (`given`). `End`, `Collect`, `DrainEnded`, `Stop` and `Pruned` are the
table's operations; `StartJob`, `StartTask` and `StartCall` the tools'; `TaskResult`, `WaitForTask`
and `WaitEnds` the waits of `task_result`; `TaskBack`, `TaskThrows`, `CallBack`, `JobCloses` and
`JobFails` the ends; `StartTurn`, `ModelAnswers`, `StepDone`, `CancelTurn` and `Close` the turn's
and the session's. `ShellExits`, `ChildHeld` and `TurnHeld` are a command whose shell is gone while
a descendant holds its output open: no signal reaches that one, and it may be held for good, so
`StoppedWorkEnds` and `NewsArrives` say that work ends, and news arrives, *or is held*. `ToldOnce`
relates the two ways of telling an end: an end is news once at most, and not at all once its result
was collected; a stopped child's result read before its run closed is not collected, and is told
again (section 6).
Left out: what the person says to a child, activity lines (`WorkView`), buffers (`Shell`), the
children a child's own step waits for.

### Workflow (implements RunRecord)

One run of a workflow: `log` and `answers` are what the run's file says (the last line of each
step and the approvals since), `memory`, `running`, `at` and `next` are the process, which may
be gone. `StartNext` is one turn of the pass over the steps, `EndPass` and `Wake` the loop's end
and wait, `WorkEnds`, `GateEnds` and `Leave` a step's end, its line and its leaving the map,
`GiveUp` and `End` the run's end. `Resume` replays the log; `Crash` ends the process between any
two lines; `Approve` is `recordApproval`, by any process. `RunRecord` is what a reader of the log
may rely on; `KeepsPromise` is the refinement. Left out: what a step runs, templates, conditions'
values, files that change between resumes, two processes on one run.

### Conversation

One session's messages, in the places that keep them: `messages` (the runtime's), `working` (the
turn's), `fitted` (a compaction's own, while it waits for the summary) and `log`. A message has
a role, what the person asked in it, the number of calls of a reply or the place of a result,
whether it is a stub, and (as history) the line that recorded it. `Replayed` and `Projection` are
`projectMessages`; `Boundary` is `chooseBoundary` for any tail of the messages that may fit, so
tokens need no numbers; `Carried` is what a summary keeps of the request. The turn's actions
follow `turn()`: `PromptAccepted`, `BeginStep`, `ElideAhead`, `CompactAhead`, `Send`, the reply's
four ends, `BatchDone` and `RecordResult` for each result, since a hook is awaited between two of
them. `Cancel` is possible at each of these; `Crash` too, and then `Resume`; `Rewind` forks the
log before the turn a checkpoint names and goes on in the fork.

`apart` is history: it says when this process's log and memory are known to differ: after a
compaction that elided and then came to nothing (`"stubs"`), and after a turn that threw
(`"messages"`). `SameConversation` says that they differ in no other case and in no other way;
`RewindReturns` what a rewind gives back; together they are `ConversationKept`. `RequestsHold` is
`RequestsAreWhole` (calls and results stand in pairs) and `RequestIsKept` (the person's request
is in every request of its turn, verbatim). Left out: usage and notices in the log, the files a
checkpoint restores, a turn whose prompt is empty, an agent without tools or provider, a change
between turns that the person asked for, log lines cut short (`Sessions`), two processes on one
session (`Sessions`).

### Provider

The requests one client makes of one endpoint: a turn's stream and the completions beside it.
`at` is the await each request is at (a refusal's body and a reply's are read behind an await of
their own), `body` the features it carries, `attempt` and `second` its retries (`http.ts`) and its
being sent again without a feature that was refused, `dropped` what the client has learnt to leave
out (`openai-compat.ts`, `anthropic.ts`): usage, effort, the cache's marks, or Chat Completions as a
whole (`"protocol"`, `responsesOnly`), after which it asks the Responses API. `Forms` are what a reply comes
as and is read as; `events` is what was streamed, `blocks`, `calls` and `ends` what was made of it.
Each event is one action. An event of Chat Completions may leave out its place or its name, and
then counts for place 0; `GivenAsSent` says that whatever comes mixed, each call with a name is
given as all that was said of it, as long as the pieces tell the calls apart (`ToldApart`), and that
a reply is read in the form it was asked in. `SilentAfterAbort` says that nothing is sent after an
abort, from any of the waits between attempts; `RequestsEnd` that retries and lessons end, with the
span. Left out: what the texts say, the wording of errors, usage numbers.

### Checkpoints

The working copy, the log's records, a step with its pending checkpoint, and the person's change
or restore, in a repository (trees) or not (copies of files). Every git command is a step between
which an editor, a background child or a turn may write. `ChangesComeBack` is `RestoreReturns`
(a restore puts back what its step changed and touches nothing else, whatever the person changed
since) and `ChangesCanBeUndone` (in a repository the record of every change holds all it changed).
`EditsAreBackedUp` is the finding of section 6.

### Verification

Gates over the turns of a session: `copy` is what the working copy holds, `tree` what the last
changing step left, `rows` the ledger. A step's calls run (`Writes`, `RunsGate`, `CallRefused`),
the checkpoint is settled (`StepEnds`), each call's hooks run (`RecordsDiagnostics`,
`RecordsOwnRun`, `RunsStatic`); at a stop the tiers not known to pass run (`StopLooks`,
`GateEnds`). `Elsewhere` is another writer, `Resume` another process. `DoneIsChecked`: a turn
that ends well on a changed copy has, for each tier of the project's gates, a passing row on the
tree it leaves or the person's no; `RowsAreOfTheirTree`: a row of the harness says what its gate
found on the tree it names, unless checkpoints were off or others wrote meanwhile.

### Languages

One language server of `LspManager`: `servers` are all processes started, each with the client,
the documents sent and the messages on their way; `asks` the callers' waits; `close` how far the
manager's `close()` is. What a promise's settling sets off runs before anything else (`Continue`
comes first). `AnswersAreOfTheirText`: an answer is about the text that its ask sent, whatever came between;
`ServersHold`: until the close, a process that runs is the manager's entry or one whose start timed
out (`TimedOut`), and of the processes started before the close none is left but those. Nothing in
the code stops a server whose start timed out, and none that an ask starts while `close()` runs
(section 6). Reports are delivered and waited for, and `WaitsEnd` ends those waits too; that a
report is about the text just sent is not claimed, since a report names no text.
Left out: frames, contents, requests that servers make.

## 3. The components of MCParts

Twenty-six smaller modules are specifications like the others, each with its own `Init` and
`Next`, and are checked side by side in two runs: `MCParts` holds a pool of variables `v1`...`v18`
and a constant-valued `part`; a behaviour (`PartsSpec`) picks one part at the start, its module is instantiated
over the pool, and the unused variables stay 0 (`Composer` is extended, and its variables stay as
they begin in the other parts). The state spaces add up and never multiply. Every
part but `Delegated` may rest (`Rests`), so a deadlock is looked for in `Delegated` only. The
properties of the two runs are conjunctions, one conjunct a part, named in each comment; each
part's actions were seen to fire in a run of that part alone, where each conjunct was checked too.

| Module | What is in it | Its property |
| --- | --- | --- |
| `Composer` | keys, recall, queue, drafts on disk, sessions opened, the process's end | `NothingTypedIsLost`: nothing is, but in the four ways its comment names, two of them against `recall.ts:5-8` |
| `Prompts` | asks from runtime to screen: rows, prompts rendered, keys, Escape's delay, lists for input, a session left | `PromptsAgree`, `NoIsOfItsPrompt` |
| `AcpServer` | an editor's prompts, commands, lists, wakes and asks: one lane, identical asks share one question | `AsksOnce`, `OneAtATime` |
| `Commands` | slash commands: what may run when, lists left up, sessions opened in place, messages held | `ChangesBetweenTurns` |
| `Headless` | a run without a person: first turn, wakes, interrupts, exit code | `NoWakeLeftBehind` |
| `Observers` | watchers' state, calls and spans of a session, told of one prompt for all | `ObserversHold` |
| `WorkView` | the work table's watchers and the view of one child's kept events, the oldest let go | `LookedAtAsItIs` |
| `Terminals` | the interface driven over a pseudo-terminal; a prompt only the person answers | `KeysAreNotAnswers` |
| `Delegated` | wakes, questions and calls of a session a host drives over MCP, with crash and resume | `WakesRunOnce`, `TableAsLogged`, `NothingUnderAList` |
| `Runtime` | models, modes, tools and agents around the awaits of `run()`; reasoning replayed | `SettlesBack`, `SizedForItsModel`, `ReasoningHoldsBetweenTurns` |
| `McpClient` | connections shared, lost, closed; sign-ins | `ConnectedOnce` |
| `Delegates` | delegations to other agents, in the turn and beside it | `DelegationsHold` |
| `Web` | fetches, redirects, the cache | `FetchesHold` |
| `Catalog` | where facts about a model come from, how old they get, when they are asked again, the request they size | `RequestsAccepted` |
| `Wire` | a conversation as messages of each API: calls with their arguments and results, reasoning, the cache mark | `RequestsAreWhole` |
| `Schedules` | crontab, launchd, Windows tasks and their failing commands, the git hook | `SchedulesAsSet` |
| `Sessions` | logs read as they are appended to, the shared index rewritten | `ReadAndListedAsWritten` |
| `Lifetime` | spend and handoff from one session to the next | `LifetimeHolds` |
| `Files` | reads, anchored edits, whole writes, patches, by two agents and an editor | `EditsLandWhereRead` |
| `Review` | /diff's list and what is done with an entry, commits | `NothingDroppedIsGone` |
| `Worktrees` | a named worktree of several processes, an isolated child's own, with what git ignores | `WorkIsKept` |
| `Todos` | one list written by several agents and stamped by the harness | `StampsAreEarned` |
| `Shell` | a command here, in an editor, as a job: its output, stop and ends | `OutputIsKept` |
| `Hooks` | trust of a project's hooks, on and off, and the verdict of an event | `HooksHold` |
| `Config` | layers, the commands and grants that write them, `mcp.json` | `ConfigHolds` |
| `Plugins` | install, update, removal, verification and load by two processes that may die, over a lockfile the repository may commit | `LoadsAgreed` |

Histories (`lost`, `raced`, `clobbered`, `excused`, `late`, `switched`, `uncounted`, `assumed`, `crossed`, ...) record what
the code is known not to keep (section 6), so that each property says that nothing is lost in any
other way.

## 4. The runs

| Run | What it shows | Distinct states |
| --- | --- | --- |
| `dispatch` | Three calls, a cap of two: a group with something before or after it, a fan-out refused in the middle, a cap reached inside a group, hooks that ask or replace arguments. What runs was decided and in its turn (`RunsInTurn`: order, decisions, the checkpoint first), the cap and a denial hold, `HonestBatch` is refined, and a batch whose prompts come down ends. | 1,980,550 |
| `work` | Two pieces of work for one slot, a table that keeps one ended line: each started, stopped, held, waited for and collected in any order. | 49,194 |
| `workflow` | Every workflow of three steps with acyclic needs and at most one of: tolerant, gate, condition; two at a time; stops, crashes and resumes without bound. Three steps give a chain, a join and a fork. | 340,854 |
| `conversation` | Two turns, calls of the person or compactions asked for, two steps each, two calls a reply. Two turns let what one did be compacted, rewound or resumed in the other; a second step lets a cut fall inside a turn; a second call lets a cancel or a crash part the results. | 1,340,511 |
| `provider` | A stream and a completion beside it that share a client, four features that may be refused, three dialects (four forms of a reply), three attempts, three events a reply. The second request is the one that starts before the first has learnt; three events let pieces of two calls come mixed, or a name after a piece. | 1,059,019 |
| `approvals` | A session and a child, five calls, two rules of seven besides what is granted. Two runs ask alike or not; two rules of two sources contradict each other. | 310,258 |
| `checkpoints` | Two files, two records, a step of two calls, one edit of others, in a repository or not. A second record makes a restore of a restore. | 6,694,560 |
| `checkpoints_files` | The finding. | |
| `verification` | Two turns, three steps, a good and a bad copy, two gates of which one is slow, a stop denied at most once, another writer. The same tree comes back, so a row may be found. | 15,442,156 |
| `languages` | Two asks of any kind, an edit, two starts, a death. The second ask overtakes the first, the edit makes an answer stale, the second start follows a death or a failed start. | 654,737 |
| `surfaces` | Thirteen parts of section 3: `Composer` to `Web`. | 5,621,203 |
| `storage` | The other thirteen. | 3,868,455 |

**Bounds.** `N`, `Cap`, `Limit`, `MaxChildren`, `Keep`, `MaxSteps`, `MaxAttempts`, `NoReason`,
`MaxStopDenials`, `MaxPending` and `MaxRedirects` are the program's own parameters at small values
(`Keep = 1` stands for 20 ended lines). `MaxAnswers`, `MaxTurns`, `CallCounts`, `MaxEvents`,
`MaxWork`, `MaxElsewhere`, `MaxEdits`, `MaxServers`, `MaxDeaths`, `MaxRecords` and `MaxCalls` are bounds of the models; `Flows`,
`Made`, `Ruled`, `Lists` and `Needed` choose the inputs. `Dispatch.cfg` takes three of the policy
classes, two policies and two verdicts of hooks; the theorems hold for all of them. An elision in
`Conversation` stubs every result before its cut, for each cut, rather than each subset of them:
the positions are what replay could get wrong. The parts' bounds stand where `MCParts`
instantiates them: among them conversations of four messages in `Wire` (a call, its result and a
message before and after), three events of a child in `WorkView`, of which two are kept, three turns to a
model and two days of its facts in `Catalog`, three items in `Worktrees` of which one is ignored, three
commands or changes of the lockfile in `Plugins`, one call of
the host at a time in `Delegated`, two connections in `McpClient` (one lost, one made again), one
process in `Config` with a person's hand beside it, two processes everywhere else, one list at a
time in `AcpServer`, three kinds of model in `Catalog`. The parts whose property is also proved for
every value of their constants (section 5) take the least that lets the hazard happen: two models
in `Runtime`, of which one is unconfigured and the other small, two files of settings in `Config`,
a session and one hook of the user's in `Hooks`, two subjects in `Review`.

**Symmetry** is used in runs that check no liveness: of files in `Checkpoints`, of the names of calls
and of servers in `surfaces`, and of processes and of sessions in `storage`. No part of those
runs tells these names apart.

**Fairness.** In `Dispatch`, only the program's own steps: hooks and tools have time limits, and
the code between awaits runs; no person has to answer, which is why `AnsweredBatchEnds` assumes
that prompts come down. In `Work`, the model answers, a step's calls are finitely many and a wait
has its seconds (strong fairness of `StepDone` or its being held, since a call may be made at each moment before), a
child's steps are bounded, and the shell of a stopped job is killed; that the output of a command closes is
not assumed (`core/tools/command.ts:113,129,290`), and a job that nobody stops need not end.
In `Workflow`, the loop goes on, work ends, and somebody answers and resumes (strong fairness of
`Approve` while no process runs, because runs come and go); `FinishesInTheEnd` moreover assumes
that stops and crashes cease. In `Provider`, a request's own steps: its stream has a time limit
between two events, and retries are counted. In `Languages`, the callers' steps, the timers and
the exit of a process that was killed; nothing is assumed of a server, which may be silent for
good. The other modules state no liveness.

**Deadlock** is checked except in `languages` and `verification`, where the bounds are used up and
nothing is left to do; elsewhere a batch that has returned and a session whose work is over repeat
their last state explicitly (`Returned`, `Over`).

Type invariants (`TypeOK`) are stated in eighteen modules and listed in no run: `TypeCorrect` proves those of
`Dispatch`, `Workflow` and `Verification`, and the inductive invariants of the other proofs hold
the types that their arguments need; a value of another type fails the properties checked.

## 5. What is proved

For every value of the constants that the modules' named assumptions allow: any number of calls,
turns, steps, works, rules, requests, events, asks, servers, crashes. Nothing is assumed about fairness. Eight modules hold proofs.

| Module | Theorems | Their run's property |
| --- | --- | --- |
| `DispatchProofs` | `Inductive`, `TypeCorrect`, `InTurn`, `HonestResults`, `NothingRunsUndecided`, `OrderHolds`, `ChangesAreUndoable`, `DenialHolds`, `CapIsKept`, `CancelSilencesPrompts`, `PromiseKept`; of `Worktrees`: `WorkHolds`; of `Shell`: `OutputHolds`; of `Checkpoints`: `StoreInvariant`, `ComesBack`; of `Files`: `EditsLand` | `RunsInTurn`, `DenialTakesBackTheRest`, `CapHolds`, `KeepsPromise`, `ChangesComeBack`; parts of `KeptAsDone` |
| `ApprovalsProofs` | `DenyWins`, `GrantsTakeNothing`, `DenyHolds`, `ChildrenWithinTheirSession`, `NarrowingHolds`, `AsksAreHeard`; of `MCParts`: `WakesOfHostsRunOnce`, `WatchersSeeWhatIs`, `AgreedAlways`, `SettlesBackAlways`, `TurnsOneAtATime`, `PromptsAlwaysAnswered` | `NothingPastADeny`, `EnginesAgree`, `NarrowingOnlyNarrows`, `NoAskLeftBehind`; `WakesRunOnce`, `WatchedAsItIs`, `OnlyWhatWasAgreed`, `SettlesBack`, `OneAtATime`, `PromptsAreAnswered` |
| `WorkProofs` | `ToldOnceHolds`, `ForgottenHolds`, `SlotsHoldAlways`, `OneStoryHolds`, `EndStandsAlways`, `StoppedIsNotDoneHolds`; of `Delegated`: `HostInvariant`, `WakesHold`; of `WorkView`: `LooksHold`; of `Observers`: `WatchersHold`; of `Headless`: `WakesAreRun` | `ToldOnce`, `SlotsHold`; `WakesRunOnce`; parts of `WatchedAsItIs` and `OneAtATime` |
| `WorkflowProofs` | `TypeCorrect`, `LogIsFirst`, `OrderHolds`, `WordHolds`, `VerdictIsTrue`, `NothingRepeated`, `LimitHolds`, `PromiseKept`; of `AcpServer`: `LaneHolds`, `AsksHold`; of `Delegates`: `DelegationsAlwaysHold`; of `Commands`: `ChangesAreBetweenTurns`; of `Prompts`: `ScreenAgrees` | `VerdictHolds`, `CompletedNotRepeated`, `KeepsPromise`; parts of `OneAtATime`, `PromptsAreAnswered` and `AnswersAreTheirOwn` |
| `ConversationProofs` | `Inductive`, `KeptHolds`, `RequestsAlwaysHold`, `WholeHolds`; of `Web`: `PagesHold`; of `Todos`: `StampInvariant`, `StampsHold` | `ConversationKept`, `RequestsHold`, `WholeStaysWhole`; parts of `AnswersAreTheirOwn` and `KeptAsDone` |
| `ProviderProofs` | `Inductive`, `GivenHolds`, `SilentHolds`, `AttemptsBounded`; of `Runtime`: `SessionInvariant`, `SettlesAlways`; of `Lifetime`: `LifetimesHold` | `GivenAsSent`, `SilentAfterAbort`; `SettlesBack`, part of `KeptAsDone` |
| `VerificationProofs` | `Invariant`, `TypeCorrect`, `RowsHold`, `DoneHolds`; of `Plugins`: `PluginInvariant`, `LoadsHold`; of `Terminals`: `KeysInvariant`, `KeysHold`; of `Review`: `DroppedIsKept`; of `Hooks`: `HooksRunAsAgreed`; of `Schedules`: `SchedulesHold`; of `Config`: `ConfigAlwaysHolds` | `RowsAreOfTheirTree`, `DoneIsChecked`; parts of `OnlyWhatWasAgreed`, `WatchedAsItIs` and `KeptAsDone` |
| `LanguagesProofs` | `Inductive`, `AnswersHold`, `ServersAreEnded`; of `McpClient`: `ServersInvariant`, `ConnectedHolds`; of `Catalog`: `FactsHold`; of `Composer`: `NothingLost` | `AnswersAreOfTheirText`, `ServersHold`, `NothingTypedIsLost`; parts of `AnswersAreTheirOwn` and `RequestsAccepted` |

**Dispatch.** `OneResultEach` alone is not inductive: it does not say where a call without a
result is. `IInv` adds that a call is ahead of the index, cleared, running or answered
(`PlaceInv`), that the array lags behind the announced results only while a group runs
(`ArrayInv`), that what is being put together or was cleared was decided (`ClearedInv`), that
after a denial only calls before it were cleared (`DenialInv`), and where the index stands in each
phase (`IndexInv`); `GroupInv` orders a group's calls and `CapInv` counts them against the cap.
One lemma per part shows that each step keeps it; the refinement follows step by step from
`PlaceInv` and `ArrayInv`.

**Approvals.** `DenyWins` and `GrantsTakeNothing` are lemmas of the decision as an operator, for any
rules; `DenyHolds`, `ChildrenWithinTheirSession` and `NarrowingHolds` carry them over every step.
That every ask is heard of rests on a run asking about one call at a time (`OneAsk`): an answer
settles runs, and were there two asks in one, it would settle the other with it.

**Work.** The argument is made one piece of work at a time: `StepOfOne` says of every action that
each work is started by it, lives on or ends by it, and each of the three keeps `LifeInv`, which
ties a work's line in the table to its run, its record and what the model was told. That a line's
end and a record's agree needs the first of these: otherwise an end could find a line that is not
running and be dropped. What is told afterwards needs the result's giving (`given`) tied to the
line's end: a result given of a run not yet closed is none the table knows, and is told again
(section 6). The slots are the one thing works share (`SlotInv`).

**Workflow.** A lemma classifies every step by what it writes to the log (one line, a replay, or
nothing); most of the invariant's parts follow from it. The strengthening says that the map of
work is what the process marked running, that only a loop that is over closes, what an abort
leaves, and that answers are recorded of waiting steps only.

**Conversation.** `Projection` is a recursive function of the log. What such a function is at
every number needs an induction, and the library's induction theorems take an operator as a
parameter, which the provers here cannot instantiate; the proofs use the least counterexample
instead (`LeastNat`: a set of naturals that is not empty has a least member, from the library's
well-foundedness of `<` on `Nat`). Two functions that tell the same lines could first differ at
some line, and do not (`ToldOnce`), so a log with one line more tells one thing more
(`OneLineMore`) and a fork what its own lines tell. On this stand three parts. `PastPart` (of
`PastInv` and `LinesInv`): what memory holds is what the log tells, a position of a message in one is its position in the
other, and each checkpoint's line is followed only by lines that leave what was before it.
`WholeInv`: messages are whole but for the calls of a last reply still owed (`Owing`), and every
cut that `chooseBoundary` may make falls where nothing is owed. `KeptInv`: the last of what the
person asked stands among the messages or in a summary that carried it (`LastSaid`). Each is a
lemma per action; `KeptHolds` also needs that a rewind is made from a line that is still there
after the elisions since.

**Provider.** What a client has put together of a reply is related to the whole of its stream:
a place holds every event that said it, whichever call the event was of (`PiecesInv`), and that is a
call with all its pieces exactly when places tell the calls apart (`ToldApart`); whole calls come
once each (`WholeInv`). An event is put to a place no matter what came before (`PutTo`).
A reply is read in the form it was asked for because a request without the protocol was made by
what was already learned (`FormInv`), and what is learned stays; attempts are counted (`CountInv`).

**Verification.** `TreeInv` says that the tree is what the copy holds between steps and what the
step's checkpoint holds within one, and that the running gate runs on it; `StopInv` that what a
stop has looked at passed on the tree or was refused; `PartsInv` has the types they rest on. The
rows alone are not inductive: a row is written by a gate that began steps earlier.

**Checkpoints** (in `DispatchProofs`, which extends both modules: a step's checkpoint is taken by
its dispatch). `Own` says of every change under way that what it touched and nobody else did was, before,
as its checkpoint has it, and that the rest still is: with it nothing is lost when the change is
recorded. A restore's list, once previewed, is what its record changed and is not as it was
(`ListInv`), and the copy is what the restore began with but for what it put back so far
(`PlaceInv`); both leave out what others wrote meanwhile, which `RacedRestore` shows any writer
keeps. Neither property is inductive without these, since the list is used two steps after it
was made.

**Wakes** (an instance in `WorkProofs`, beside the other work that outlives a turn). That a wake
runs at most once is not inductive: `QueueInv` says that every wake in the queue went off by the
log, did not run yet and is there once, so the one that starts is new; `TableAsLogged` says that
what is due was only set by the log, so going off brings none twice. What a call, an ask or an
answer does leaves all of it alone (`NothingOfWakes`), but for starting a turn, which it does only
to answer the list that waits.

**Runtime** (an instance in `ProviderProofs`, whose requests its agents make). `ToolsInv` says the
tools last built are what the settings say but for what a skill narrowed since, which the turn's
end notices by `narrowed` and rebuilds; `ChosenInv` that a turn with a model of its own has the
person's to go back to, so the end restores it or, when that model has no provider, is stuck;
`ReasonInv` that reasoning past any of the three times (the session's, the next agent's, the
turn's) was written under the tools as last built. A rebuild keeps all of it (`RebuildInv`) whatever
changed the settings.

**Languages.** Everything on its way between a client and a server carries the text that its ask
sent (`TextInv`); the manager's entry is the one live server whose start did not time out
(`EntryInv`): no other start can put itself there while it lives, so the deletion by name in
`manager.ts:104` takes away none but its own; what `close()` saw was that one, and what it stops it stops for good
(`CloseInv`). Processes whose start timed out are outside, and left running (section 6). Each action is related to what it may
do to one server (it evolves, or is left alone), so the parts are proved over that relation.

**MCP client** (an instance in `LanguagesProofs`, beside the other servers of a session).
`OneEach` ties every connection that is being made to the entry its server waits for, and every open one to
the manager's: a second could only be made while both entries are empty. `FromOwnSignIn` says that
tokens were redeemed with a code that came back to that sign-in's own page; it also holds of the
tokens a connection read when it began, which it stores again when it is made.

**Plugins** (an instance in `VerificationProofs`, like the others below that are of what a person agrees to). An install writes the
lockfile several steps after the person agreed, and a session turns an entry off several steps
after it read it: `EntriesAgreed` says of what each process is about to write, as of the entries of a lockfile that
JamCLI wrote and of the consents on file, that its permissions were agreed to, or taken for agreed to from an entry
that was there (`assumed`). Entries the repository wrote may say anything: what keeps them from
loading is the consent alone. `Looked` is what a start has found of the
scopes it is past, as long as nobody wrote under it. A process may die at each step, and leaves no
more than was agreed to.

**Terminals** (an instance in `VerificationProofs`). `TypedWell` is of one call: until it settles it has
typed nothing but its text, once for each time the call was made (`OnceEachMaking`), and an answer it carries is about the tool last asked about. That a
call handles another prompt, goes and comes back needs both, since the prompt may be another by
the time the answer comes.

**Todos** (an instance in `ConversationProofs`, whose turns write the list). What an agent read
before it waits is as good as what the file holds (`HeldEarned`), for the tree of then: a list
written late may bring back an older stamp and never an unearned one.

**Worktrees** (an instance in `DispatchProofs`, whose calls are what children are for). A look at a
worktree is two looks, at its commits and at its files, before it is taken away; `OwnTree` says,
by where the child is, that what a look did not see was written after the run (`late`), left
with the branch (`switched`), not counted (`uncounted`) or ignored by git. Before the run there is nothing in the worktree (`Untouched`). It
takes that no child has the name people share; `MCParts` assumes it of its own names.

**Shell** (an instance in `DispatchProofs`). Output is numbered, so what is kept of it is a run of
numbers, `Run(a, b)`; `JoinRun`, `FirstOfRun`, `RestOfRun` and `LastOfRun` say what the buffer's
operators make of one. The head takes until it is full what the tail begins after, so a chunk
that fills the one and starts the other is the case that matters (`WritesInv`).

**ACP server** (an instance in `WorkflowProofs`). `LaneInv`: turns, lists that are read and choices
that are applied are of what the lane runs; a command's turn is one it sent. `AskInv` builds on
it: all asks that wait are of the one turn, which waits for an answer of the editor's (`asking`), so
a second question can only be one the first's answer left open, and by then its turn is over.
`KindsApart` says that prompts, wakes and asks have names of their own.

**Delegates** (an instance in `WorkflowProofs`). A record is of the delegation that has its name
(`OfInv`); of one that shares its name with no other the record holds what the agent streamed, and
once it is settled as done nothing more comes (`RecordInv`). Names are moments, so two that begin at
one share a name, and the second takes the record of the first: the theorem says nothing of them.

**Headless** (an instance in `WorkProofs`, beside the other wakes). What went off is what was run and then what waits,
`wentOff = woken \o fired`, and a run that closes without an interrupt has looked at both and at
what is pending, with nothing able to set another in between.

**Commands** (an instance in `WorkflowProofs`). `ChangesBetweenTurns` is inductive as it stands, since it
speaks of what was done and of what ran at that moment. What the proof has to show is, command by
command, that the session looked at is the one acted on, typed or chosen later on a list that was
put up for another (`Context`).

**Review, hooks** (instances in `VerificationProofs`). `ListIs` says of what a revert is about to drop
that a hunk is as it was read, and that everything else of it is held in a checkpoint or in git,
or was written meanwhile (`raced`). What may be trusted (`Trustworthy`) is what was agreed to and
the user's own; it holds of what a write is about to put into the trust file, of what a session
loaded and of the handlers it runs, which is why what the files become meanwhile does no harm.
The verdict is made as results come, so that what each adds is one lemma (`MergedHolds`) and no
induction over the results is needed: the strongest stays so or gives way, and of equals the first.
Sessions must not be called as the person is (`OnlySessions`).

**WorkView, observers** (instances in `WorkProofs`, whose table is watched). `ViewIs` follows a view from its
mounting, when it has read what was kept but does not listen yet, to its listening. What it shows is cut in two
by what was let go between (`gone`), which is what it skips; `EventsAre` says which events are kept. It says nothing of
a view that was moved to another child (section 6). `WatchersHold` takes that no name is of a
call and of a question beside it; `Waits` says what a session that asks for something waits for,
and `LogIs` that a prompt is recorded as ended when it is, once.

**Web, schedules** (instances in `ConversationProofs` and `VerificationProofs`). The cache is a sequence that is cut, joined
and appended to; `Parts` and the lemmas after it say that each leaves every URL in it once. A fetch's
place is of the host it was asked for through all its redirects. A crontab is read and written in
two steps, so `ReadAsIs` says that what a process read differs from it by lines crossed since only;
with it nothing is started that was not set, but what an overlap or a failed command left
(`OnlyWhatWasSetRuns`).

**Config** (an instance in `VerificationProofs`). What a process is about to write holds every rule its
file had but those it takes back, and a migration's file all that is left of the older one
(`Written`); the older one is emptied only after. A file may be broken by hand between a command's read and its
write (`raced`); that a command writes over what it found unreadable happens to `mcp.json` alone
(`OnlyMcpClobbered`, section 6).

**Lifetime** (an instance in `ProviderProofs`). Totals are what the log says of each request as it
was priced then; `FileIsLast` says that the handoff in the file is the last of its session, and
`BegunBefore` that nobody writes one for a session that never began.

**Files** (an instance in `DispatchProofs`, whose calls edit). A text is a function of
regions, so the regions an edit changes are those where the planned text differs from the one it
was planned on; `GoodPlans` says that each was meant and named. A plan
carries the text it was made from, so it stays good whatever others write before it lands; what they
wrote then is lost (section 6).

**Catalog** (an instance in `LanguagesProofs`). A fact stands for the source it came from
(`FromWhoSays`), whether it was asked for now, kept in memory or kept on disk, so what a request
sets is what a source that knows the model says it takes. `AgesInv` (an answer's time on file is
that of its giving) and `FreshInv` are about how old facts are when a request is sized by them.

**Composer** (`LanguagesProofs` extends it). `NothingTypedIsLost` counts the draft file of the
session that is shown, which the next key overwrites, so it is not inductive. `WordsInv` leaves that
file out: a word is in the composer, behind the walk, among the prompts, in the file of a session that
ended, or excused. Three parts keep it: what a walk shows was recorded, so showing something else loses
nothing (`WalkInv`); what is to be on disk is what the composer would lose, and is there once the timer
went (`DraftInv`); and no file lies where a session is yet to open, so a new session's name is free
(`LaterInv`). The last needs drafts to be adopted by the session that opens
(`tui/app/App.tsx:766-790`); adopted by the one that ended, its own draft would stay on disk for good.

**Prompts** (an instance in `WorkflowProofs`). `PromptsAgree` and `NoIsOfItsPrompt` are inductive once an
Escape whose answer is on its way is known for a no already said (`PromptsInv`). The prompts are a set and
the order the calls asked in, since a filtered sequence is opaque to the provers; a call asks once, so
nothing is lost by it.

**Hypotheses.** Theorems about instances carry what they need of the constants: that kinds of names
do not overlap (`KindsApart`, `LinesApart`, `OnlySessions`, `Nobody` is no child, `Beside` no call),
that bounds are numbers (`Bounded`, `AreNumbers`, `BoundsAreNat`, `Lifetime`), that rules are written to
layers there are. `PartsAssumption` of `MCParts` states the same of the values it takes, so TLC
evaluates them, and the theorems about `MCParts` rest on it.

**MCParts.** Each of its properties is a conjunction, one conjunct a part. `ApprovalsProofs`,
the shortest of the modules of proofs, extends `MCParts` and instantiates the four modules that hold the theorems about those parts, with the
values that `MCParts` gives the parts and, for the other parameters of those modules, any values
that satisfy what they assume (the prover checks that they do). A component then stands there twice, as the part and as the instance
of the theorem, over the same values and variables; one lemma a part (`DelegatedAlone`, ...) shows by
expanding both that they begin and move alike, and that `PartsSpec`, which moves one part, moves it
as that part's own specification does (`PartStays`). So what holds of the component for any values
holds of the part in the run. Of `NothingTypedIsLost` there is one part only, which `NothingLost`
states.

**Only model-checked.** All liveness (`AnsweredBatchEnds`, `StoppedWorkEnds`, `NewsArrives`,
`FinishesInTheEnd`, `RequestsEnd`, `WaitsEnd`), which this prover does not reach. Of the ten safety
properties of `MCParts`' two runs, three conjuncts, and so the three properties as wholes: in
`RequestsAccepted` that of `Wire`, in `KeptAsDone` that of `Sessions`, in `AnswersAreTheirOwn` the
number of bytes that `Web` keeps. What `SelectSeq`, `FlattenSeq`, folds and sums compute needs an
induction over data, which is out of reach; the other conjuncts of the three are proved
(`FactsHold`; `LifetimesHold`, `EditsLand`, `DroppedIsKept`, `WorkHolds`, `StampsHold`,
`OutputHolds`; `ConnectedHolds`, `DelegationsAlwaysHold`, `PagesHold`). Nothing that was proved is
recursive by a `RECURSIVE` declaration: such modules have no proofs here.

## 6. Where the code and its documents differ, and what was seen

The finding is the counterexample of the run `checkpoints_files`: outside a repository one
checkpoint is taken for a step and names its first changing call only, so what the step's later
calls edit is not backed up (`core/tools/dispatch.ts:428`; spec.md:1669-1671).

Seen while modelling, kept out of the runs or recorded there as history. Not every entry is a
fault; each is something a reader of the code might not expect.

- **Conversation.** A cancel during the compaction that follows a refused request is thrown out of
  the turn; the runtime keeps the conversation of before it, the log has the turn
  (`core/agent.ts:349-352`). A process that ends between a reply and its results leaves a reply
  without results, and the resumed session sends it so (`core/transcript/read.ts:28`). A call the
  person makes is recorded after its checkpoint, which names the turn before; a rewind goes back
  too far (`core/transcript/recorder.ts:227`). A compaction inside a turn in which a stop hook or
  the harness spoke carries that message as the request (`core/context/compact.ts:171`). A log line cut
  short joins the next and both are dropped (`core/transcript/log.ts:142`).
- **Dispatch, work.** A turn cancelled while its checkpoint is taken, or while a fan-out waits for
  its other prompts, starts the calls already cleared (`core/tools/dispatch.ts:428`; spec.md:1287).
  What is said to a child after its last step is accepted and never read (`core/work.ts:178`); the
  abort listener of a child's start comes after an await (`core/tools/task.ts:179`); a child may start things
  while the session closes (`core/runtime/index.ts:955`). The result of a stopped child, read before
  its run closed, does not mark the child told (`core/tools/task.ts:239,302`; `core/work.ts:215`):
  its end comes again as news, against `core/work.ts:209-210` and "told once per job"
  (spec.md:1449). A stopped command whose descendant holds its output runs for ever in the table:
  its shell's exit clears the kill (`core/tools/command.ts:113,129`), and only `close` ends it (290).
- **Workflows.** A pass that only fails or skips steps ends the loop although a step listed
  earlier is now ready; the run ends `waiting` with nothing to approve
  (`core/workflows/engine.ts:221`). `resume` and `approve` do not ask whether a process still
  executes the run (`cli/workflow.ts:120`). A runner's abort listener is set after an await
  (`core/workflows/runners.ts:50`). Crontab edits take no lock; launchd and Windows names use
  the project's base name only (`core/workflows/triggers.ts:68,214`). A failed `launchctl unload`
  is swallowed and the file removed (189-193): the agent is reported gone, runs on, and is no
  longer listed.
- **Approvals.** A grant at the prompt of a configured ask rule never takes effect
  (`core/permissions/engine.ts:58`; spec.md:1385). Rule lists are edited without a lock
  (`core/permissions/grants.ts:44`). Waiting calls are not decided again when the mode changes or
  a rule goes. A late answer to an ask already settled settles others
  (`core/tools/dispatch.ts:355-358`).
- **Verification.** Between a gate of the model's own and an edit in one step, the row is of the
  edited tree (`core/verify/middleware.ts:49-50,78`). A cancelled turn still starts its gates
  (`core/runtime/index.ts:556`). Two edits after a refused gate ask twice. A language server that
  says nothing counts as passed (`core/runtime/index.ts:330`).
- **Languages.** A start that timed out at `initialize` leaves its process
  (`core/lsp/manager.ts:104`); an ask during or after the close starts a server nobody stops; a
  signal already aborted goes unnoticed (`core/protocols/jsonrpc/connection.ts:67`).
- **Providers.** A call's arguments go to the Messages API as JSON text, where an object is meant
  (`core/agent.ts:679`; `core/providers/anthropic.ts:181`; spec.md:861-864). Pieces of calls that
  come without an index all count for place 0, so those of several calls mix
  (`core/providers/openai-compat.ts:485`; `anthropic.ts:302,315`). A request refused for what
  another request has just learned is thrown and not sent again (`openai-compat.ts:250-264`), and
  a reply is read in the form learned by then, not in the form it was asked for (193).
  A call whose arguments cannot be parsed is not sent back as made
  (`core/agent.ts:676-682`; spec.md:864). Call ids repeat between turns (`core/agent.ts:705`). The
  second request of `completeWithinCap` asks for twice the cap (`core/catalog/index.ts:190-198`).
  A model known to always think from the provider's API only is sent thinking disabled. A failed
  `/api/show` of Ollama is remembered (`core/providers/ollama.ts:159-167`). A failed refresh of
  the directory is not tried again in the session.
- **Runtime.** A session that began on a model without a key and runs a command naming another
  throws at the turn's end and stays busy (`core/runtime/index.ts:880`). A rebuild in mid-turn
  moves the time reasoning is replayed from (`core/runtime/index.ts:494`). A model switched to
  during a turn with its own is undone at its end. `cancel()` before the turn's agent runs is lost
  (`core/runtime/index.ts:890`); a compaction asked for cannot be cancelled (751); a failing step
  of the close skips the later ones (953-962). A handoff reset being written at the close may be
  overwritten (586-596).
- **Checkpoints.** `/undo` twice offers the same checkpoint; after a revert of `/diff` it undoes
  the revert. File names are read without `-z` (`core/git/checkpoints.ts:198-207`). What a
  background child changes after the settle is in no checkpoint. A restore that failed half-way
  leaves no record (`core/runtime/checkpoints.ts:124`).
- **Delegated sessions and wakes.** `/choose` answers a list put to the person
  (`mcp/session.ts:97`; spec.md:2143). A decision does not look for queued wakes
  (`mcp/session.ts:129`). Late answers go to what waits first (`mcp/server.ts:85-93`). The prompt of a background
  child that was stopped stays. A forked log carries the source's wakes; queued wakes are lost at
  a crash.
- **Terminals, web.** Two calls at once both ask about one prompt, and the second's answer is typed
  at whatever is up by then (`mcp/server.ts:298`); the text of `terminal_type` is typed again each time the call is
  made again, its Enter is not (`mcp/server.ts:338-341`, against 120 and 301). A page put twice in the cache is counted twice (`core/tools/web/index.ts:39-40`;
  spec.md:1892-1894).
- **MCP and other agents.** A connection made during the close stays open
  (`services/McpManager.ts:240-285`); a dead one is never made again; tokens refreshed after a
  logout are saved (`core/mcp/oauth.ts`). A cancel during an agent's start or `newSession` is not
  heard (`services/AcpClient.ts:122-124`); one whose agent then ends normally becomes `ok`
  (`core/tools/acp.ts:79-84`); two of one millisecond share a record; nothing stops them at close.
- **Interface.** The draft behind a walk is dropped when another session opens
  (`tui/app/App.tsx:708,1200`), and when the process ends while a recalled prompt is edited
  (`App.tsx:739`), though "nothing but a send may take" it (`tui/app/recall.ts:5-8`); messages queued during a compaction go to the closed session if
  another opens meanwhile (`tui/app/controller.ts:104-116`); a list offered while another is up
  replaces it without its being dismissed (`commands/host.ts`, `tui/app/elicit.ts`); a prompt
  unmounts the composer; a child of a session just left may put up a prompt no key answers; a view
  skips as many events as were let go between its first fold and its watch (`tui/app/App.tsx:307`,
  against "so none is missed", 306), and opening one child's view over another's keeps the other's
  state (`tui/app/App.tsx:1384`, against the comment at 292-293).
- **ACP server, observers.** Prompts queued behind `/exit` run on the closed controller
  (`acp/server.ts:136`); loading a session that is open replaces its entry without stopping it. A
  decision of one of two prompts, or a result while a question waits, reports `running`
  (`tui/observer.ts:170-179`, against 49); a turn that throws emits no end.
- **Review, worktrees.** What `/diff` and `/commit` listed is acted on later; reverting a whole
  file drops what was written after its checkpoint. A child that leaves its branch loses its
  commits with the branch; a failing `rev-list` counts as none (`core/git/worktrees.ts:102`); files
  git ignores are not looked at (103) and go with `--force` (109), though the worktree is to be
  taken away "when the child changed nothing" (`core/runtime/children.ts:158-161`); a run that throws leaves a
  worktree nobody reports (`core/runtime/children.ts:163`).
- **Headless.** The status of an error is overwritten by the last wake's; wakes are lost at an
  interrupt; a second interrupt exits without closing.
- **Files several processes write.** The sessions index, settings, trust, lockfiles and todo lists
  are read, changed and written without a lock: what another wrote between is lost. The sessions
  index loses a line appended while it is rewritten (`core/transcript/sessions.ts:109-113`, against
  72-75), and a newer version's lines too. `mcp add` writes over a file it could not read, the
  rules of its tools block with it (`cli/mcp.ts:31-40`). Two processes may take one
  session name (`core/runtime/extras.ts:70`).
- **Files, shell, hooks, plugins.** Edits race between read and write; a patch may be applied in
  part when a write fails. Stopping a process does nothing once its shell has exited, and the
  shell's exit clears the kill that was to follow, so descendants may run on (`core/tools/command.ts`). A hook's
  `enabled` and scope are outside the digest (`core/hooks/commands.ts:70-72`): turning one on asks
  nothing again, against "editing them asks again" (docs/hooks.md:53-56). An entry of a lockfile,
  which a repository may commit, is taken for a consent, and install and update record one nobody
  gave (`core/plugins/store.ts:71-75,99`; `lock.ts:99-103`), against "stores nothing without
  consent" (docs/plugins.md:43) and "proves nothing on its own" (51-52). An install writes back the lockfile it read before the consent;
  both scopes share a version's directory.

Hazards that exist and were dropped from the list for its limit are among these
(`cli/workflow.ts:120`, `core/runtime/index.ts:494` and `:880`, `core/runtime/model.ts:164`,
`core/lsp/manager.ts:104`).

## 7. Not modelled

| Part | Why |
| --- | --- |
| `core/permissions/command.ts`, globs, paths | text: how a command is taken apart; `Approvals` has what a rule matches as a set |
| `core/config/credentials.ts`, `keys.ts`, `cli/auth.ts`, validation | reading and decoding of files |
| `core/tools/search.ts`, `plan.ts`, `registry.ts`, `web/providers.ts`, `core/git/pr.ts` | no state of their own, or one request after another |
| context estimates, reflection, agents, skills, rules, redaction | functions of texts; `Conversation` takes any tail that may fit |
| sandbox, telemetry export, audit | handed to the operating system or written beside the program |
| workflow steps and conditions | outcomes and choices in `Workflow` |
| rendering, completion, the mouse, styles, formats of output | nothing is decided there |
| onboarding, evaluation, testing helpers, the rest of the command line | arguments to calls that are modelled |

## 8. The plan

Done: the modules of sections 2 and 3, every safety property of the eight modules with proofs, of
`Checkpoints`, and of twenty-four parts, six of the parts' combined properties as wholes (section 5).
Eight modules may hold proofs and the project's files are as many as it keeps, so what comes next
goes into modules there are:

1. **The last parts**: `Sessions` and `Wire` with queues as functions of places
   instead of `SelectSeq`, folds and `FlattenSeq`, which the provers know by no law, and the bytes of
   `Web`; then the three properties that wait for them, as the other six.
2. The type invariants of `Work`, `Approvals`, `Provider` and `Conversation`, as theorems beside
   `TypeCorrect`.
3. Two processes on one workflow run and on one session's conversation, composed from
   `Workflow` and from `Conversation` with `Sessions`.
