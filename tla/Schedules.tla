------------------------------ MODULE Schedules ------------------------------
(* What starts a workflow without a person (core/workflows/triggers.ts): a    *)
(* schedule kept by the operating system, in the user's crontab, as a launchd *)
(* agent, or as a Windows task, and a script in git's hooks.  All of them are *)
(* shared: the crontab with the user and with other processes, the agents and *)
(* tasks, named by a project's base name, with other projects.  A crontab is  *)
(* read and written back by two commands, and others may edit it in between.  *)
(*                                                                            *)
(* A schedule is a project, a workflow and a time; how each system writes it  *)
(* is left out, and a time it cannot express, which is refused at once.       *)
EXTENDS FiniteSets, Functions

CONSTANTS
  Procs,      \* processes that edit the crontab
  Projects,
  Base,       \* the base name of each project
  Workflows, Times,
  Others      \* the user's own lines

VARIABLES
  platform,
  table,      \* the crontab
  held,       \* what each process read and what it does to it
  agents,     \* what launchd or the task scheduler runs, by label
  files,      \* the files that describe them
  hook,       \* what git's hook is
  due,        \* schedules asked for and not taken back
  touched,    \* the projects and workflows whose labels were asked about
  crossed     \* lines written while another edit of the crontab was under way,
              \* and agents that a failed command left running

others == <<hook, due, touched, crossed>>
scVars == <<platform, table, held, agents, files, hook, due, touched, crossed>>

Entries == [project : Projects, workflow : Workflows, time : Times]
(* The user's own lines are none of ours.                                      *)
LinesApart == Others \cap Entries = {}
Idle == [stage |-> "none"]
Label(project, workflow) == <<Base[project], workflow>>
LabelOf(e) == Label(e.project, e.workflow)
Is(e, project, workflow) == e.project = project /\ e.workflow = workflow

TypeOK ==
  /\ platform \in {"cron", "launchd", "windows"}
  /\ table \subseteq Entries \cup Others /\ agents \subseteq Entries /\ files \subseteq Entries
  /\ hook \in {"none", "theirs"} \cup Workflows
  /\ due \subseteq Entries /\ crossed \subseteq Entries \cup Others

Init ==
  /\ platform \in {"cron", "launchd", "windows"}
  /\ table = Others /\ held = [p \in Procs |-> Idle]
  /\ agents = {} /\ files = {}
  /\ hook \in {"none", "theirs"}
  /\ due = {} /\ touched = {} /\ crossed = {}

(* editCrontab: this workflow's line of this project is taken out, and the    *)
(* new one, if any, put in.                                                   *)
EditCrontab(text, project, workflow, new) ==
  {e \in text : e \in Others \/ ~Is(e, project, workflow)} \cup new

Asked(project, workflow, new) ==
  /\ due' = {e \in due : ~Is(e, project, workflow)} \cup new
  /\ touched' = IF platform = "cron" THEN {} ELSE touched \cup {<<project, workflow>>}
Changed(next) == (table \ next) \cup (next \ table)
Crosses(p, next) ==
  crossed' = IF \E q \in Procs \ {p} : held[q] # Idle THEN crossed \cup Changed(next) ELSE crossed

(* scheduleWorkflow and unscheduleWorkflow read the crontab ...               *)
Reads(p, project, workflow, new) ==
  /\ platform = "cron" /\ held[p] = Idle
  /\ held' = [held EXCEPT ![p] =
       [stage |-> "read", text |-> table, project |-> project, workflow |-> workflow, new |-> new]]
  /\ UNCHANGED <<platform, table, agents, files, others>>
(* ... and write it; what would not change is not written.                    *)
Writes(p) ==
  /\ held[p] # Idle
  /\ LET h == held[p]
         next == EditCrontab(h.text, h.project, h.workflow, h.new)
     IN /\ table' = IF h.new = {} /\ next = h.text THEN table ELSE next
        /\ Asked(h.project, h.workflow, h.new)
        /\ Crosses(p, table')
  /\ held' = [held EXCEPT ![p] = Idle]
  /\ UNCHANGED <<platform, agents, files, hook>>
(* The crontab command failed, or the process ended.                          *)
Drops(p) ==
  /\ held[p] # Idle
  /\ held' = [held EXCEPT ![p] = Idle]
  /\ UNCHANGED <<platform, table, agents, files, others>>

(* The user edits the crontab.                                                *)
UserEdits(line) ==
  /\ platform = "cron"
  /\ table' = IF line \in table THEN table \ {line} ELSE table \cup {line}
  /\ crossed' = IF \E q \in Procs : held[q] # Idle THEN crossed \cup {line} ELSE crossed \ {line}
  /\ due' = due
  /\ UNCHANGED <<platform, held, agents, files, hook, touched>>

(* launchd and Windows: the file is written, then the agent or task made, and *)
(* that may fail.  A label belongs to whoever wrote it last.                  *)
SameFile(e, f) ==
  IF platform = "launchd" THEN LabelOf(e) = LabelOf(f) ELSE Is(e, f.project, f.workflow)
LeavesRunning(project, workflow) ==
  crossed' = crossed \cup {a \in agents : Is(a, project, workflow)}
Registers(e) ==
  /\ platform # "cron"
  /\ files' = {f \in files : ~SameFile(f, e)} \cup {e}
  /\ \/ /\ agents' = {a \in agents : LabelOf(a) # LabelOf(e)} \cup {e}
        /\ Asked(e.project, e.workflow, {e})
        /\ crossed' = crossed
     \/ /\ agents' = agents
        /\ Asked(e.project, e.workflow, {})
        /\ LeavesRunning(e.project, e.workflow)
  /\ UNCHANGED <<platform, table, held, hook>>
(* launchd's file goes although its agent could not be unloaded, which then   *)
(* runs on; a task that cannot be deleted leaves its file.                    *)
Unregisters(project, workflow) ==
  LET label == Label(project, workflow)
      rest == {a \in agents : LabelOf(a) # label}
  IN /\ platform # "cron"
     /\ \/ /\ platform = "launchd" /\ \E f \in files : LabelOf(f) = label
           /\ files' = {f \in files : LabelOf(f) # label}
           /\ \/ agents' = rest /\ crossed' = crossed
              \/ agents' = agents /\ LeavesRunning(project, workflow)
        \/ /\ platform = "windows" /\ rest # agents
           /\ files' = {f \in files : ~Is(f, project, workflow)} /\ agents' = rest
           /\ crossed' = crossed
     /\ Asked(project, workflow, {})
     /\ UNCHANGED <<platform, table, held, hook>>

(* installGitHook and removeGitHook: only a script that bears JamCLI's mark   *)
(* is written over or removed.                                                *)
InstallGitHook(workflow) ==
  /\ hook # "theirs"
  /\ hook' = workflow
  /\ UNCHANGED <<platform, table, held, agents, files, due, touched, crossed>>
RemoveGitHook ==
  /\ hook \in Workflows
  /\ hook' = "none"
  /\ UNCHANGED <<platform, table, held, agents, files, due, touched, crossed>>

Schedule(p, e) == Reads(p, e.project, e.workflow, {e})
Next ==
  \/ \E p \in Procs :
       \/ \E e \in Entries : Schedule(p, e)
       \/ \E project \in Projects, workflow \in Workflows : Reads(p, project, workflow, {})
       \/ Writes(p) \/ Drops(p)
  \/ \E line \in Others : UserEdits(line)
  \/ \E e \in Entries : Registers(e)
  \/ \E project \in Projects, workflow \in Workflows : Unregisters(project, workflow)
  \/ \E workflow \in Workflows : InstallGitHook(workflow)
  \/ RemoveGitHook
Spec == Init /\ [][Next]_scVars

-----------------------------------------------------------------------------
(* listSchedules.                                                             *)
Listed(project) ==
  IF platform = "cron" THEN {e \in table \ Others : e.project = project}
  ELSE IF platform = "launchd" THEN {e \in files : Base[e.project] = Base[project]}
  ELSE {e \in files : e.project = project}
Alone(e) ==
  ~\E q \in Projects \ {e.project} : Base[q] = Base[e.project] /\ <<q, e.workflow>> \in touched
(* A schedule asked for stays until it is taken back, and is listed: whatever *)
(* the user and other projects put beside it, unless they edited the crontab  *)
(* at the same time or are of the same name; and nothing else is started, but *)
(* what such an edit or a failed command left.                                *)
SchedulesStay ==
  \A e \in due :
    /\ platform = "cron" /\ e \notin crossed => e \in table /\ e \in Listed(e.project)
    /\ platform # "cron" /\ Alone(e) => e \in agents /\ e \in Listed(e.project)
OnlyWhatWasSetRuns == (table \cup agents) \ Others \subseteq due \cup crossed
SchedulesAsSet == SchedulesStay /\ OnlyWhatWasSetRuns
=============================================================================
