------------------------------ MODULE MCParts ------------------------------
(* The components that are checked each alone, in two runs.  A behaviour is   *)
(* one part's: part names it, the pool v1, v2, ... holds its variables (those *)
(* of Composer are its own) and nothing else moves, so a run explores the     *)
(* parts side by side and each property speaks of its own parts.  The cfg     *)
(* files say which parts a run takes; the bounds of each are given where it   *)
(* is instantiated, those of Composer in the cfg files.                       *)
EXTENDS FiniteSets, Composer

CONSTANTS Parts, a1, a2, b1, c1, c2, f1, f2, f3, l1, m1, m2, n1, p1, p2, r1, r2, s1, s2, t1, w1, w2, w3

VARIABLES part, v1, v2, v3, v4, v5, v6, v7, v8, v9, v10, v11, v12, v13, v14, v15, v16, v17, v18

pool == <<v1, v2, v3, v4, v5, v6, v7, v8, v9, v10, v11, v12, v13, v14, v15, v16, v17, v18>>
partVars == <<part, typingVars, pool>>

Adaptive == [style |-> "adaptive", always |-> FALSE, effort |-> TRUE, thinks |-> TRUE, maxOutput |-> 40000]
Budgeted == [style |-> "budget", always |-> FALSE, effort |-> FALSE, thinks |-> TRUE, maxOutput |-> 40000]
KnownModels == {Adaptive, [Adaptive EXCEPT !.always = TRUE],
                [Budgeted EXCEPT !.maxOutput = 1500, !.thinks = FALSE]}
Pages == {"a", "b", "c", "x"}
HostOf == [u \in Pages |-> IF u = "x" THEN "there" ELSE "here"]
SizeOf == [u \in Pages |-> IF u = "b" THEN 2 ELSE 1]
RedirectsOf == [u \in Pages |-> CASE u = "a" -> {"b", "x"} [] u = "b" -> {"c"} [] OTHER -> {}]
SameBase == [p \in {"a", "b"} |-> "same"]
SomeReleases == {[version |-> 1, files |-> 1, perms |-> {}], [version |-> 1, files |-> 2, perms |-> {"net"}]}

Prompting == INSTANCE Prompts WITH Calls <- {m1, m2, n1}, Nested <- {n1}, Requests <- {r1, r2},
  at <- v1, running <- v2, stopped <- v3, leaving <- v4, decisions <- v5, rows <- v6,
  prompts <- v7, seen <- v8, escapes <- v9, refused <- v10, denied <- v11, asks <- v12, over <- v13,
  order <- v14
Editor == INSTANCE AcpServer WITH Texts <- {t1}, Listing <- {n1}, Choosers <- {m1}, Sends <- {m2},
  Exits <- {r1}, Wakes <- {w1}, Lists <- {l1}, Asks <- {a1, a2}, came <- v1, lane <- v2,
  current <- v3, turns <- v4, sends <- v5, work <- v6, pending <- v7, lists <- v8,
  registered <- v9, ask <- v10, before <- v11, behind <- v12, asking <- v13, askedBy <- v14
Commanding == INSTANCE Commands WITH Messages <- {m1, m2}, MaxSessions <- 2, shown <- v1,
  alive <- v2, started <- v3, doing <- v4, held <- v5, queue <- v6, fate <- v7, overlay <- v8,
  opening <- v9, restoring <- v10, did <- v11
Unattended == INSTANCE Headless WITH Wakes <- {w1, w2, w3}, MaxLists <- 2, asked <- v1,
  stage <- v2, given <- v3, offered <- v4, status <- v5, pending <- v6, wentOff <- v7, fired <- v8,
  woken <- v9, heard <- v10, hung <- v11, code <- v12
Observing == INSTANCE Observers WITH Calls <- {m1, m2}, Beside <- {b1}, Clients <- {w1},
  MaxTurns <- 2, turn <- v1, turns <- v2, cancelled <- v3, call <- v4, state <- v5, asking <- v6,
  told <- v7, shown <- v8, open <- v9, asked <- v10, logged <- v11, attached <- v12, overtaken <- v13
Viewing == INSTANCE WorkView WITH Children <- {c1, c2}, Keep <- 2, MaxEvents <- 3, item <- v1,
  made <- v2, events <- v3, timer <- v4, read <- v5, view <- v6
Driving == INSTANCE Terminals WITH Terminals <- {t1}, Calls <- {c1, c2}, Prompts <- {p1, p2},
  PersonOnly <- {p1}, MaxUpdates <- 2, MaxPrompts <- 2, proc <- v1, prompt <- v2, asked <- v3,
  updates <- v4, state <- v5, terminals <- v6, call <- v7, left <- v8
Hosting == INSTANCE Delegated WITH Wakes <- {w1, w2}, Timers <- {w1}, MaxPending <- 2,
  Asks <- {a1, b1}, Background <- {b1}, Lists <- {l1}, Personal <- {a1, l1}, Calls <- {m1},
  open <- v1, turn <- v2, worked <- v3, asks <- v4, list <- v5, answered <- v6, told <- v7,
  calls <- v8, queue <- v9, pending <- v10, due <- v11, log <- v12, runs <- v13
Turning == INSTANCE Runtime WITH Models <- {m1, n1}, Unconfigured <- {n1}, Small <- {m1},
  Modes <- {"default", "plan"}, MaxSwitches <- 1, MaxSteps <- 1, phase <- v1, choice <- v2,
  info <- v3, asked <- v4, awaited <- v5, restore <- v6, chosen <- v7, mode <- v8, before <- v9,
  narrowed <- v10, offer <- v11, loaded <- v12, tools <- v13, agent <- v14, turn <- v15,
  blocks <- v16, since <- v17, disturbed <- v18
Connecting == INSTANCE McpClient WITH Servers <- {s1, s2}, Remote <- {s1, s2}, Calls <- {m1},
  MaxMade <- 2, MaxLogins <- 2, made <- v1, connections <- v2, connecting <- v3, task <- v4,
  offers <- v5, closed <- v6, tokens <- v7, login <- v8
Delegating == INSTANCE Delegates WITH Calls <- {c1, c2}, Stamps <- {1, 2}, MaxSaid <- 1,
  stage <- v1, how <- v2, agent <- v3, said <- v4, heard <- v5, outcome <- v6, aborted <- v7,
  asked <- v8, id <- v9, running <- v10, output <- v11, given <- v12
Cataloguing == INSTANCE Catalog WITH Sessions <- {s1, s2}, Models <- KnownModels,
  Configured <- {0}, Day <- 2, Hour <- 1, MaxTime <- 2, MaxTurns <- 3, family <- v1, truth <- v2,
  says <- v3, configured <- v4, now <- v5, cached <- v6, dirFile <- v7, loaded <- v8,
  dirFailed <- v9, asking <- v10, refreshing <- v11, shown <- v12, known <- v13, opened <- v14,
  given <- v15, age <- v16, turns <- v17
Sending == INSTANCE Wire WITH Apis <- {"messages", "chat", "responses", "native"}, MaxBlocks <- 2,
  MaxLength <- 4, api <- v1, conv <- v2, since <- v3, step <- v4
Fetching == INSTANCE Web WITH Fetches <- {f1, f2, f3}, Urls <- Pages, Host <- HostOf,
  Size <- SizeOf, Redirects <- RedirectsOf, Lifetime <- 1, MaxBytes <- 2, MaxRedirects <- 2,
  MaxTime <- 2, stage <- v1, asked <- v2, at <- v3, hops <- v4, given <- v5, cache <- v6,
  bytes <- v7, now <- v8
Scheduling == INSTANCE Schedules WITH Procs <- {p1, p2}, Projects <- {"a", "b"}, Base <- SameBase,
  Workflows <- {"w"}, Times <- {1}, Others <- {n1}, platform <- v1, table <- v2, held <- v3,
  agents <- v4, files <- v5, hook <- v6, due <- v7, touched <- v8, crossed <- v9
Logs == INSTANCE Sessions WITH Procs <- {p1, p2}, Ids <- {m1, m2}, Names <- {"a"}, Earlier <- 105,
  MaxPieces <- 2, MaxLines <- 2, open <- v1, log <- v2, rec <- v3, index <- v4, stale <- v5,
  told <- v6, raced <- v7
Spending == INSTANCE Lifetime WITH Sessions <- {s1, s2}, MaxSpent <- 1, stage <- v1, mode <- v2,
  spent <- v3, log <- v4, writing <- v5, raced <- v6, file <- v7, note <- v8
Editing == INSTANCE Files WITH Agents <- {a1, a2}, Paths <- {f1, f2}, Size <- 2,
  Patches <- {<<f1>>, <<f1, f2>>}, MaxWrites <- 2, disk <- v1, shown <- v2, call <- v3,
  writes <- v4, lost <- v5, astray <- v6
Reviewing == INSTANCE Review WITH Pieces <- {m1, f1}, Whole <- {f1}, MaxEdits <- 2, work <- v1,
  index <- v2, head <- v3, edits <- v4, list <- v5, undone <- v6, held <- v7, raced <- v8,
  plan <- v9
Branching == INSTANCE Worktrees WITH People <- {p1, p2}, Children <- {c1}, Items <- {m1, m2, b1},
  Ignored <- {b1}, tree <- v1, opener <- v2, lost <- v3, late <- v4, switched <- v5, uncounted <- v6
TodoLists == INSTANCE Todos WITH Agents <- {a1, a2}, Items <- {m1}, MaxTree <- 3, file <- v1,
  held <- v2, tree <- v3, passed <- v4, stamped <- v5, wasDone <- v6
Running == INSTANCE Shell WITH Limit <- 4, MaxOut <- 6, how <- v1, shell <- v2, kids <- v3,
  stubborn <- v4, timer <- v5, grace <- v6, stop <- v7, told <- v8, runs <- v9, aborted <- v10,
  total <- v11, head <- v12, tail <- v13, unread <- v14, readTo <- v15
Hooking == INSTANCE Hooks WITH Sessions <- {m1}, MaxVersions <- 2, UserHooks <- 1, version <- v1,
  trusted <- v2, writing <- v3, session <- v4, event <- v5, agreed <- v6, ran <- v7, on <- v8
Settings == INSTANCE Config WITH Procs <- {w1}, Rules <- {r1}, MaxValue <- 2,
  Changing <- {"project", "local"}, file <- v1, legacy <- v2, op <- v3, env <- v4,
  inForce <- v5, raced <- v6, clobbered <- v7, mcpOk <- v8
Installing == INSTANCE Plugins WITH Procs <- {p1, p2}, Releases <- SomeReleases, MaxRuns <- 3,
  lock <- v1, consent <- v2, dirs <- v3, run <- v4, agreed <- v5, loaded <- v6, runs <- v7,
  assumed <- v8

(* The names that no part of a run tells apart: of Surfaces.cfg and of         *)
(* Storage.cfg.  Neither run checks liveness.                                 *)
SurfacesSymmetry == Permutations({c1, c2}) \cup Permutations({s1, s2})
StorageSymmetry == Permutations({p1, p2}) \cup Permutations({s1, s2})

(* What the theorems about the parts take for granted of their constants.     *)
ASSUME PartsAssumption ==
  /\ Editor!KindsApart /\ Running!BoundsAreNat /\ Branching!Shared \notin {c1}
  /\ Scheduling!LinesApart /\ Cataloguing!AreNumbers /\ Hooking!OnlySessions /\ Editing!Bounded
  /\ Viewing!Nobody \notin {c1, c2} /\ {m1, m2} \cap {b1} = {}
  /\ {"project", "local"} \subseteq Settings!Files

InComposer == part = "composer"
InPrompts == part = "prompts"
InEditor == part = "editor"
InCommands == part = "commands"
InHeadless == part = "headless"
InObservers == part = "observers"
InWorkView == part = "workView"
InTerminals == part = "terminals"
InDelegated == part = "delegated"
InRuntime == part = "runtime"
InServers == part = "servers"
InDelegates == part = "delegates"
InCatalog == part = "catalog"
InWire == part = "wire"
InWeb == part = "web"
InSchedules == part = "schedules"
InSessions == part = "sessions"
InLifetime == part = "lifetime"
InFiles == part = "files"
InReview == part = "review"
InWorktrees == part = "worktrees"
InTodos == part = "todos"
InShell == part = "shell"
InHooks == part = "hooks"
InConfig == part = "config"
InPlugins == part = "plugins"

Unused4 == v5 = 0 /\ v6 = 0 /\ v7 = 0 /\ v8 = 0 /\ v9 = 0 /\ v10 = 0 /\ v11 = 0 /\ v12 = 0 /\ v13 = 0 /\ v14 = 0
  /\ v15 = 0 /\ v16 = 0 /\ v17 = 0 /\ v18 = 0
Alone4 == UNCHANGED <<part, typingVars, v5, v6, v7, v8, v9, v10, v11, v12, v13, v14, v15, v16, v17, v18>>
Unused5 == v6 = 0 /\ v7 = 0 /\ v8 = 0 /\ v9 = 0 /\ v10 = 0 /\ v11 = 0 /\ v12 = 0 /\ v13 = 0 /\ v14 = 0
  /\ v15 = 0 /\ v16 = 0 /\ v17 = 0 /\ v18 = 0
Alone5 == UNCHANGED <<part, typingVars, v6, v7, v8, v9, v10, v11, v12, v13, v14, v15, v16, v17, v18>>
Unused6 == v7 = 0 /\ v8 = 0 /\ v9 = 0 /\ v10 = 0 /\ v11 = 0 /\ v12 = 0 /\ v13 = 0 /\ v14 = 0 /\ v15 = 0
  /\ v16 = 0 /\ v17 = 0 /\ v18 = 0
Alone6 == UNCHANGED <<part, typingVars, v7, v8, v9, v10, v11, v12, v13, v14, v15, v16, v17, v18>>
Unused7 == v8 = 0 /\ v9 = 0 /\ v10 = 0 /\ v11 = 0 /\ v12 = 0 /\ v13 = 0 /\ v14 = 0 /\ v15 = 0 /\ v16 = 0
  /\ v17 = 0 /\ v18 = 0
Alone7 == UNCHANGED <<part, typingVars, v8, v9, v10, v11, v12, v13, v14, v15, v16, v17, v18>>
Unused8 == v9 = 0 /\ v10 = 0 /\ v11 = 0 /\ v12 = 0 /\ v13 = 0 /\ v14 = 0 /\ v15 = 0 /\ v16 = 0 /\ v17 = 0
  /\ v18 = 0
Alone8 == UNCHANGED <<part, typingVars, v9, v10, v11, v12, v13, v14, v15, v16, v17, v18>>
Unused9 == v10 = 0 /\ v11 = 0 /\ v12 = 0 /\ v13 = 0 /\ v14 = 0 /\ v15 = 0 /\ v16 = 0 /\ v17 = 0 /\ v18 = 0
Alone9 == UNCHANGED <<part, typingVars, v10, v11, v12, v13, v14, v15, v16, v17, v18>>
Unused11 == v12 = 0 /\ v13 = 0 /\ v14 = 0 /\ v15 = 0 /\ v16 = 0 /\ v17 = 0 /\ v18 = 0
Alone11 == UNCHANGED <<part, typingVars, v12, v13, v14, v15, v16, v17, v18>>
Unused12 == v13 = 0 /\ v14 = 0 /\ v15 = 0 /\ v16 = 0 /\ v17 = 0 /\ v18 = 0
Alone12 == UNCHANGED <<part, typingVars, v13, v14, v15, v16, v17, v18>>
Unused13 == v14 = 0 /\ v15 = 0 /\ v16 = 0 /\ v17 = 0 /\ v18 = 0
Alone13 == UNCHANGED <<part, typingVars, v14, v15, v16, v17, v18>>
Unused14 == v15 = 0 /\ v16 = 0 /\ v17 = 0 /\ v18 = 0
Alone14 == UNCHANGED <<part, typingVars, v15, v16, v17, v18>>
Unused17 == v18 = 0
Alone17 == UNCHANGED <<part, typingVars, v18>>
Unused15 == v16 = 0 /\ v17 = 0 /\ v18 = 0
Alone15 == UNCHANGED <<part, typingVars, v16, v17, v18>>
Unused18 == TRUE
Alone18 == UNCHANGED <<part, typingVars>>

PartsInit ==
  /\ TypingInit
  /\ part \in Parts
  /\ InComposer => v1 = 0 /\ v2 = 0 /\ v3 = 0 /\ v4 = 0 /\ Unused4
  /\ InPrompts => Prompting!Init /\ Unused14
  /\ InEditor => Editor!Init /\ Unused14
  /\ InCommands => Commanding!Init /\ Unused11
  /\ InHeadless => Unattended!Init /\ Unused12
  /\ InObservers => Observing!Init /\ Unused13
  /\ InWorkView => Viewing!Init /\ Unused6
  /\ InTerminals => Driving!Init /\ Unused8
  /\ InDelegated => Hosting!Init /\ Unused13
  /\ InRuntime => Turning!Init /\ Unused18
  /\ InServers => Connecting!Init /\ Unused8
  /\ InDelegates => Delegating!Init /\ Unused12
  /\ InCatalog => Cataloguing!Init /\ Unused17
  /\ InWire => Sending!Init /\ Unused4
  /\ InWeb => Fetching!Init /\ Unused8
  /\ InSchedules => Scheduling!Init /\ Unused9
  /\ InSessions => Logs!Init /\ Unused7
  /\ InLifetime => Spending!Init /\ Unused8
  /\ InFiles => Editing!Init /\ Unused6
  /\ InReview => Reviewing!Init /\ Unused9
  /\ InWorktrees => Branching!Init /\ Unused6
  /\ InTodos => TodoLists!Init /\ Unused6
  /\ InShell => Running!Init /\ Unused15
  /\ InHooks => Hooking!Init /\ Unused8
  /\ InConfig => Settings!Init /\ Unused8
  /\ InPlugins => Installing!Init /\ Unused8

(* All but a delegated session's host may come to rest. *)
Rests == ~InDelegated /\ UNCHANGED partVars

PartsNext ==
  \/ InComposer /\ TypingNext /\ UNCHANGED <<part, pool>>
  \/ InPrompts /\ Prompting!Next /\ Alone14
  \/ InEditor /\ Editor!Next /\ Alone14
  \/ InCommands /\ Commanding!Next /\ Alone11
  \/ InHeadless /\ Unattended!Next /\ Alone12
  \/ InObservers /\ Observing!Next /\ Alone13
  \/ InWorkView /\ Viewing!Next /\ Alone6
  \/ InTerminals /\ Driving!Next /\ Alone8
  \/ InDelegated /\ Hosting!Next /\ Alone13
  \/ InRuntime /\ Turning!Next /\ Alone18
  \/ InServers /\ Connecting!Next /\ Alone8
  \/ InDelegates /\ Delegating!Next /\ Alone12
  \/ InCatalog /\ Cataloguing!Next /\ Alone17
  \/ InWire /\ Sending!Next /\ Alone4
  \/ InWeb /\ Fetching!Next /\ Alone8
  \/ InSchedules /\ Scheduling!Next /\ Alone9
  \/ InSessions /\ Logs!Next /\ Alone7
  \/ InLifetime /\ Spending!Next /\ Alone8
  \/ InFiles /\ Editing!Next /\ Alone6
  \/ InReview /\ Reviewing!Next /\ Alone9
  \/ InWorktrees /\ Branching!Next /\ Alone6
  \/ InTodos /\ TodoLists!Next /\ Alone6
  \/ InShell /\ Running!Next /\ Alone15
  \/ InHooks /\ Hooking!Next /\ Alone8
  \/ InConfig /\ Settings!Next /\ Alone8
  \/ InPlugins /\ Installing!Next /\ Alone8
  \/ Rests

PartsSpec == PartsInit /\ [][PartsNext]_partVars

-----------------------------------------------------------------------------
(* The prompt on screen is the one a key answers and the call it names, and   *)
(* an editor is asked each question once (tui/state/view.ts, acp/server.ts).  *)
PromptsAreAnswered ==
  /\ [](InPrompts => Prompting!PromptsAgree /\ Prompting!NoIsOfItsPrompt)
  /\ [][InEditor => Editor!AsksOnce]_partVars

(* One turn at a time: of the editor's prompts and wakes, of the terminal's   *)
(* messages and commands, and of a run without anybody there, which leaves no *)
(* wake behind (acp/server.ts, controller.ts, cli/run.ts).                    *)
OneAtATime ==
  /\ InEditor => Editor!OneAtATime
  /\ InCommands => Commanding!ChangesBetweenTurns
  /\ InHeadless => Unattended!NoWakeLeftBehind

(* Who watches sees what is so, as far as it does: a state set for one prompt *)
(* is told of all (observer.ts), a view of a child skips as many events as    *)
(* are let go before it watches (App.tsx AgentViewer), and keys typed into a  *)
(* terminal answer no other prompt than the one read, though text may be      *)
(* typed again with each making of its call (mcp/server.ts and terminal.ts).  *)
WatchedAsItIs ==
  /\ InObservers => Observing!ObserversHold
  /\ InWorkView => Viewing!LookedAtAsItIs
  /\ InTerminals => Driving!KeysAreNotAnswers

(* A wake runs as a turn once whatever crashes, the table is what the log     *)
(* says, and nothing runs while a list waits (mcp/session.ts, wake/table.ts). *)
WakesRunOnce == InDelegated => Hosting!WakesRunOnce /\ Hosting!TableAsLogged /\ Hosting!NothingUnderAList

(* A turn with a model or tools of its own leaves the session's as they were, *)
(* the window is the model's, and reasoning is replayed to who wrote it       *)
(* (core/runtime/index.ts run, switchModel, reassemble).                      *)
SettlesBack ==
  InRuntime => Turning!SettlesBack /\ Turning!SizedForItsModel /\ Turning!ReasoningHoldsBetweenTurns

(* One connection a server, each delegated agent told to end and its result   *)
(* its own, a page fetched from where it was allowed and no longer than it    *)
(* keeps (McpManager.ts, tools/acp.ts, tools/web).                            *)
AnswersAreTheirOwn ==
  /\ InServers => Connecting!ConnectedOnce
  /\ InDelegates => Delegating!DelegationsHold
  /\ InWeb => Fetching!FetchesHold

(* A provider is sent what its model takes, on nothing it said a day ago, and *)
(* a conversation whole and in the form it takes, but for the arguments of    *)
(* calls in the Messages API (core/catalog, core/providers).                  *)
RequestsAccepted ==
  /\ InCatalog => Cataloguing!RequestsAccepted
  /\ InWire => Sending!RequestsAreWhole

(* What was done is what is kept: lines of a log and of the index, an edit at *)
(* the text it was read from, a change taken back, a worktree's commits, a    *)
(* todo's stamp, a command's output, a session's totals.                      *)
KeptAsDone ==
  /\ InSessions => Logs!ReadAndListedAsWritten
  /\ InLifetime => Spending!LifetimeHolds
  /\ InFiles => Editing!EditsLandWhereRead
  /\ InReview => Reviewing!NothingDroppedIsGone
  /\ InWorktrees => Branching!WorkIsKept
  /\ InTodos => TodoLists!StampsAreEarned
  /\ InShell => Running!OutputIsKept

(* What is in force is what was agreed to or set: a hook of a text that was   *)
(* agreed to, on or off; a plugin within what was agreed to, or taken from an *)
(* entry of the repository's for agreed to; the setting of the highest layer  *)
(* that can be read; a schedule that was set.  And what was put in force      *)
(* stays: a rule, a schedule, but for the overlapping edits, the broken files *)
(* and the failed commands those modules name (core/hooks, core/plugins,      *)
(* core/config, core/workflows).                                              *)
OnlyWhatWasAgreed ==
  /\ InHooks => Hooking!HooksHold
  /\ InConfig => Settings!ConfigHolds
  /\ InPlugins => Installing!LoadsAgreed
  /\ InSchedules => Scheduling!SchedulesAsSet
=============================================================================
