------------------------------- MODULE Config -------------------------------
(* The configuration's files: how they are layered, how a value or a rule is  *)
(* written into one of them, and how the legacy tool settings are migrated    *)
(* (core/config/load.ts, cli/config.ts, cli/mcp.ts, core/permissions/config.ts *)
(* and grants.ts).  Every command is a process of its own and none takes a lock:  *)
(* each reads a file, works out its whole new text and writes it.  The person *)
(* edits any of them by hand.                                                 *)
(*                                                                            *)
(* A file holds one value, which may be unset (0), and a list of rules; or it *)
(* is broken, being no JSON.  What counts of a rule is that it is in force.   *)
(* Of mcp.json counts its tools block, and that the servers are written to it. *)
EXTENDS Integers

CONSTANTS
  Procs,     \* processes: sessions and commands
  Rules,     \* permission rules
  Changing,  \* the files that change, by hand or by a command
  MaxValue   \* a bound on the values of the one setting

VARIABLES
  file,     \* each file's content
  legacy,   \* the rules the tools block of mcp.json amounts to
  op,       \* what each process is doing
  env,      \* the value an environment variable sets, 0 for none
  inForce,  \* the rules the person put in force and has not taken back
  raced,    \* those a write lost that overlapped another, or a broken file hides
  clobbered, \* the files overwritten although they could not be read
  mcpOk     \* whether mcp.json can be read

cfVars == <<file, legacy, op, env, inForce, raced, clobbered, mcpOk>>
files == <<file, legacy, inForce, raced, clobbered, mcpOk>>

Scopes == <<"user", "project", "local">>
Files == {Scopes[i] : i \in 1..3}
Empty == [ok |-> TRUE, value |-> 0, rules |-> {}]
Idle == [at |-> "idle", file |-> "user", base |-> Empty, next |-> Empty, took |-> {}, mcp |-> {}]

Init ==
  /\ file = [f \in Files |-> Empty]
  /\ legacy = Rules
  /\ inForce = legacy /\ raced = {}
  /\ op = [w \in Procs |-> Idle]
  /\ env \in {0, MaxValue}
  /\ clobbered = {} /\ mcpOk = TRUE

OfMcp == IF mcpOk THEN legacy ELSE {}
Held(fs, leg) == leg \cup UNION {fs[f].rules : f \in {g \in Files : fs[g].ok}}

(* A command reads its file and is refused when it cannot be read.            *)
Readable(f) == file[f].ok
Reads(w, f, next, took) ==
  /\ op[w].at = "idle" /\ Readable(f)
  /\ op' = [op EXCEPT ![w] = [at |-> "writes", file |-> f, base |-> file[f], next |-> next,
                              took |-> took, mcp |-> {}]]
  /\ UNCHANGED <<files, env>>
Sets(w, f, v) == Reads(w, f, [file[f] EXCEPT !.ok = TRUE, !.value = v], {})
Unsets(w, f) == file[f].value # 0 /\ Reads(w, f, [file[f] EXCEPT !.ok = TRUE, !.value = 0], {})
(* editRuleList: a grant is added to a list of the file, or taken out.        *)
Grants(w, f, r) == Reads(w, f, [file[f] EXCEPT !.ok = TRUE, !.rules = @ \cup {r}], {})
TakesBack(w, f, r) == r \in file[f].rules /\ Reads(w, f, [file[f] EXCEPT !.ok = TRUE, !.rules = @ \ {r}], {r})

(* writeFile: the whole text.  What another wrote since the reading is gone,  *)
(* and a file that was broken since is not looked at again.                   *)
Put(w) ==
  LET o == op[w]
      after == [file EXCEPT ![o.file] = o.next] IN
  /\ file' = after
  /\ raced' = IF file[o.file] = o.base THEN raced ELSE raced \cup (inForce \ Held(after, OfMcp))
  /\ inForce' = (inForce \cup (o.next.rules \ o.base.rules)) \ (o.took \ Held(after, OfMcp))
  /\ clobbered' = IF o.base.ok THEN clobbered ELSE clobbered \cup {o.file}
Writes(w) ==
  /\ op[w].at = "writes"
  /\ Put(w)
  /\ op' = [op EXCEPT ![w] = Idle]
  /\ UNCHANGED <<legacy, env, mcpOk>>

(* migrate: the rules are added to the project's file, and only then is the   *)
(* block taken out of mcp.json; the process may end in between.               *)
Migrates(w) ==
  /\ op[w].at = "idle" /\ Readable("project") /\ mcpOk /\ legacy # {}
  /\ op' = [op EXCEPT ![w] = [at |-> "migrates", file |-> "project", base |-> file["project"],
                              next |-> [file["project"] EXCEPT !.ok = TRUE, !.rules = @ \cup legacy], took |-> {},
                              mcp |-> legacy]]
  /\ UNCHANGED <<files, env>>
MigratesConfig(w) ==
  /\ op[w].at = "migrates"
  /\ Put(w)
  /\ op' = [op EXCEPT ![w].at = "clears"]
  /\ UNCHANGED <<legacy, env, mcpOk>>
Cleared(w) == {}
ClearsLegacy(w) ==
  /\ op[w].at = "clears"
  /\ legacy' = Cleared(w) /\ mcpOk' = TRUE
  /\ op' = [op EXCEPT ![w] = Idle]
  /\ raced' = IF file["project"] = op[w].next /\ OfMcp = op[w].mcp THEN raced
              ELSE raced \cup (inForce \ Held(file, legacy'))
  /\ UNCHANGED <<file, inForce, clobbered, env>>

(* jamcli mcp add and remove: mcp.json is read, as an empty one when it       *)
(* cannot be, and written back whole with the servers changed.                *)
ReadsMcp(w) ==
  /\ op[w].at = "idle"
  /\ op' = [op EXCEPT ![w] = [Idle EXCEPT !.at = "adds", !.base = [Empty EXCEPT !.ok = mcpOk], !.mcp = OfMcp]]
  /\ UNCHANGED <<files, env>>
WritesMcp(w) ==
  /\ op[w].at = "adds"
  /\ legacy' = op[w].mcp /\ mcpOk' = TRUE
  /\ op' = [op EXCEPT ![w] = Idle]
  /\ raced' = IF mcpOk /\ legacy = op[w].mcp THEN raced ELSE raced \cup (inForce \ Held(file, legacy'))
  /\ clobbered' = IF op[w].base.ok THEN clobbered ELSE clobbered \cup {"mcp"}
  /\ UNCHANGED <<file, inForce, env>>
(* The process is killed.                                                     *)
Dies(w) ==
  /\ op[w].at # "idle"
  /\ op' = [op EXCEPT ![w] = Idle]
  /\ UNCHANGED <<files, env>>

(* The person edits a file by hand, and may leave it broken for a while.      *)
Breaks(f) ==
  /\ file[f].ok
  /\ file' = [file EXCEPT ![f].ok = FALSE]
  /\ raced' = raced \cup (inForce \ Held(file', OfMcp))
  /\ UNCHANGED <<legacy, inForce, clobbered, op, env, mcpOk>>
Mends(f) ==
  /\ ~file[f].ok
  /\ file' = [file EXCEPT ![f].ok = TRUE]
  /\ raced' = raced \ Held(file', OfMcp)
  /\ UNCHANGED <<legacy, inForce, clobbered, op, env, mcpOk>>
BreaksMcp ==
  /\ mcpOk /\ mcpOk' = FALSE
  /\ raced' = raced \cup (inForce \ Held(file, {}))
  /\ UNCHANGED <<file, legacy, inForce, clobbered, op, env>>
MendsMcp ==
  /\ ~mcpOk /\ mcpOk' = TRUE
  /\ raced' = raced \ Held(file, legacy)
  /\ UNCHANGED <<file, legacy, inForce, clobbered, op, env>>

(* loadConfig: the layers that can be read, lowest first, the environment's   *)
(* on top.  mergeLayer: a value replaces the one below it and is recorded     *)
(* with its layer; rules add up.                                              *)
NameOf == <<"user", "project", "local", "env">>
Layer(i) == IF i = 4 THEN [Empty EXCEPT !.value = env] ELSE file[Scopes[i]]
MergeLayer(merged, i) ==
  [merged EXCEPT !.value = IF Layer(i).value = 0 THEN @ ELSE Layer(i).value,
                 !.from = IF Layer(i).value = 0 THEN @ ELSE NameOf[i]]
Load(merged, i) == IF Layer(i).ok THEN MergeLayer(merged, i) ELSE merged
LoadConfig == Load(Load(Load(Load([value |-> 0, from |-> "none"], 1), 2), 3), 4)

Next ==
  \/ \E w \in Procs, f \in Changing, v \in 1..MaxValue : Sets(w, f, v)
  \/ \E w \in Procs, f \in Changing : Unsets(w, f)
  \/ \E w \in Procs, f \in Changing, r \in Rules : Grants(w, f, r) \/ TakesBack(w, f, r)
  \/ \E w \in Procs : Writes(w) \/ Migrates(w) \/ MigratesConfig(w) \/ ClearsLegacy(w) \/ Dies(w)
       \/ ReadsMcp(w) \/ WritesMcp(w)
  \/ \E f \in Changing : Breaks(f) \/ Mends(f)
  \/ BreaksMcp \/ MendsMcp

Spec == Init /\ [][Next]_cfVars

(* A rule the person put in force stays in force until they take it back,     *)
(* through every step of a migration and wherever it is cut off, but while    *)
(* its file is broken, once a write overlapped another, and once mcp.json was *)
(* written over that could not be read (cli/config.ts migrate, cli/mcp.ts     *)
(* readMcpConfig); no configuration file a command found unreadable is        *)
(* overwritten by it, and of all files only mcp.json is; and what a session   *)
(* loads is of the highest layer that sets it, and says so (load.ts           *)
(* loadConfig).                                                               *)
RulesStayInForce == inForce \ raced \subseteq Held(file, OfMcp)
OnlyMcpClobbered == clobbered \subseteq {"mcp"}
Setting == {i \in 1..4 : Layer(i).ok /\ Layer(i).value # 0}
LoadedByLayer ==
  IF Setting = {} THEN LoadConfig = [value |-> 0, from |-> "none"]
  ELSE LET top == CHOOSE i \in Setting : \A j \in Setting : j <= i
       IN LoadConfig = [value |-> Layer(top).value, from |-> NameOf[top]]
ConfigHolds == RulesStayInForce /\ OnlyMcpClobbered /\ LoadedByLayer

=============================================================================
