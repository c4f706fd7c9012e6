---------------------------- MODULE Verification ----------------------------
(* The project's own gates over the turns of a session: core/verify on the    *)
(* hook bus, the ledger keyed by tree, and the tree that SessionCheckpoints   *)
(* says the last changing step left.  A step's calls run one after another,   *)
(* then the checkpoint is settled, then every call's post_tool hooks run; at  *)
(* a stop the gates that have not passed on the tree run.                     *)
(*                                                                            *)
(* A tree stands for what the working copy holds, so a step that restores     *)
(* what was there gets the same tree, as git's do.  Checkpoints without git,  *)
(* whose trees are never the same, todo stamps and what the model reads of a  *)
(* gate are left out.                                                         *)
EXTENDS Naturals, FiniteSets, Sequences

CONSTANTS
  Trees,       \* what the working copy can hold
  Begun,       \* what it holds at first
  Gates,       \* the gates of the project, in the order that detectGates lists them
  TierOf,      \* the tier of each
  Passes,      \* the trees that each passes on
  Slow,        \* gates that take longer than AFTER_EDIT_BOUND_MS
  Edits,       \* kinds of edits: "edit", and "served", of a file a language server handles
  MaxStopDenials,
  MaxSteps,    \* maxSteps of a turn
  MaxTurns, MaxWork, MaxCalls,  \* bounds: turns and steps of a session, calls of a step
  MaxElsewhere \* bound: changes of the working copy by others

NoTree == "no tree"
NoGate == [name |-> "no gate"]
Names == {Gates[i] : i \in DOMAIN Gates}
Tiers == <<"T1", "T2">>
NotEnded == [how |-> "none"]
Unlooked == [T1 |-> "open", T2 |-> "open"]

ASSUME VerificationAssumption ==
  /\ Begun \in Trees /\ NoTree \notin Trees
  /\ Gates \in Seq(Names)
  /\ TierOf \in [Names -> {"T1", "T2"}]
  /\ Passes \in [Names -> SUBSET Trees]
  /\ Slow \subseteq Names /\ Edits \subseteq {"edit", "served"}
  /\ {MaxStopDenials, MaxSteps, MaxTurns, MaxWork, MaxCalls, MaxElsewhere} \subseteq Nat

VARIABLES
  copy,      \* what the working copy holds
  tree,      \* lastTree: what the last changing step left
  changed,   \* changedThisTurn
  failed,    \* checkpoints are off for the session
  taken,     \* the checkpoint of the running step, until it is settled
  phase,     \* "idle", "model", "calls", "after" a step, "stop", or "gate"
  calls,     \* the step's calls: what each was, its status, and what a gate saw
  next,      \* the call whose hooks run next, or the tier that the stop looks at next
  gate,      \* the gate that the harness runs, on which tree, and for what
  rows,      \* the ledger, with what each run saw and who ran it
  denials,
  stopped,   \* what became of each tier at this stop: known to pass, or its gate's status
  aborted,   \* the turn was cancelled
  turns, steps, worked, elsewhere,
  since,     \* others changed the working copy since the tree was taken
  ended      \* how the last turn ended

vars == <<copy, tree, changed, failed, taken, phase, calls, next, gate, rows, denials, stopped,
          aborted, turns, steps, worked, elsewhere, since, ended>>

copyVars == <<copy, tree, changed, failed, taken, since>>
counts == <<turns, steps, worked, elsewhere>>
stopVars == <<denials, stopped, ended>>

Statuses == {"passed", "failed", "skipped"}
Outcomes == {"ok", "warned", "refused", "cancelled", "limit"}

-----------------------------------------------------------------------------
(* The ledger.                                                                *)

Has(t, tier) == \E r \in rows : r.tree = t /\ r.tier = tier /\ r.status # "skipped"
Passed(t, tier) == \E r \in rows : r.tree = t /\ r.tier = tier /\ r.status = "passed"

(* lastDuration: known once the gate ran to its end.                          *)
TookTooLong(g) == g \in Slow /\ \E r \in rows : r.name = g /\ r.status # "skipped"

(* The gates of a tier, of which the harness runs the first.                  *)
HasGate(tier) == \E i \in DOMAIN Gates : TierOf[Gates[i]] = tier
First(tier) ==
  Gates[CHOOSE i \in DOMAIN Gates : TierOf[Gates[i]] = tier /\ \A j \in 1..(i - 1) : TierOf[Gates[j]] # tier]

Row(g, t, status, saw, by) ==
  [tier |-> TierOf[g], name |-> g, tree |-> t, status |-> status, by |-> by,
   saw |-> IF status = "skipped" THEN NoTree ELSE saw, shared |-> status # "skipped" /\ (since \/ failed)]

Verdict(g, saw) == IF saw \in Passes[g] THEN "passed" ELSE "failed"

-----------------------------------------------------------------------------
(* A turn.                                                                    *)

StartTurn ==
  /\ phase = "idle" /\ turns < MaxTurns
  /\ phase' = "model" /\ turns' = turns + 1 /\ steps' = 0
  /\ changed' = FALSE /\ denials' = 0 /\ aborted' = FALSE /\ ended' = NotEnded
  /\ UNCHANGED <<copy, tree, failed, taken, calls, next, gate, rows, stopped, worked, elsewhere, since>>

Finish(how) ==
  /\ phase' = "idle"
  /\ ended' = [how |-> how, tree |-> tree, changed |-> changed, stopped |-> stopped, cut |-> aborted,
               shared |-> since \/ failed]
  /\ calls' = <<>> /\ next' = 1 /\ gate' = NoGate /\ stopped' = Unlooked

(* The model answers with calls, with none, or the steps are used up.         *)
StepBegins ==
  /\ phase = "model" /\ ~aborted /\ steps < MaxSteps
  /\ phase' = "calls" /\ calls' = <<>> /\ steps' = steps + 1
  /\ worked < MaxWork /\ worked' = worked + 1
  /\ UNCHANGED <<copyVars, next, gate, rows, stopVars, aborted, turns, elsewhere>>

CutShort ==
  /\ phase = "model" /\ (aborted \/ steps = MaxSteps)
  /\ Finish(IF aborted THEN "cancelled" ELSE "limit")
  /\ UNCHANGED <<copyVars, rows, denials, aborted, counts>>

ModelStops ==
  /\ phase = "model" /\ ~aborted /\ steps < MaxSteps
  /\ phase' = "stop" /\ next' = 1 /\ stopped' = Unlooked /\ steps' = steps + 1
  /\ UNCHANGED <<copyVars, calls, gate, rows, denials, aborted, turns, worked, elsewhere, ended>>

-----------------------------------------------------------------------------
(* A step's calls.  Before the first that may change something a checkpoint   *)
(* is taken, and one that cannot be turns checkpoints off.                    *)

ChangeAhead ==
  \/ (taken # NoTree \/ failed) /\ UNCHANGED <<taken, failed>>
  \/ taken = NoTree /\ ~failed /\ taken' = copy /\ UNCHANGED failed
  \/ taken = NoTree /\ ~failed /\ failed' = TRUE /\ UNCHANGED taken

CallEnds(call) == calls' = Append(calls, call)

MayCall == phase = "calls" /\ Len(calls) < MaxCalls /\ ~aborted

(* An edit, or a command that writes.                                         *)
Writes(kind, t) ==
  /\ MayCall /\ ChangeAhead
  /\ copy' = t
  /\ CallEnds([kind |-> kind, status |-> "passed", saw |-> NoTree])
  /\ UNCHANGED <<tree, changed, phase, next, gate, rows, stopVars, aborted, counts, since>>

(* The model runs a gate itself.                                              *)
RunsGate(g) ==
  /\ MayCall /\ ChangeAhead
  /\ CallEnds([kind |-> g, status |-> Verdict(g, copy), saw |-> copy])
  /\ UNCHANGED <<copy, tree, changed, phase, next, gate, rows, stopVars, aborted, counts, since>>

(* A call that was denied, or that failed.                                    *)
CallRefused(kind) ==
  /\ MayCall
  /\ CallEnds([kind |-> kind, status |-> "skipped", saw |-> NoTree])
  /\ UNCHANGED <<copyVars, phase, next, gate, rows, stopVars, aborted, counts>>

(* SessionCheckpoints.settle: a step that changed nothing leaves no tree.     *)
SettleBefore ==
  IF taken = NoTree \/ taken = copy THEN UNCHANGED <<tree, changed, failed, since>>
  ELSE \/ tree' = taken /\ changed' = TRUE /\ since' = FALSE /\ UNCHANGED failed
       \/ failed' = TRUE /\ UNCHANGED <<tree, changed, since>>
Settle ==
  IF taken = NoTree \/ taken = copy THEN UNCHANGED <<tree, changed, failed, since>>
  ELSE \/ tree' = copy /\ changed' = TRUE /\ since' = FALSE /\ UNCHANGED failed
       \/ failed' = TRUE /\ UNCHANGED <<tree, changed, since>>

StepEnds ==
  /\ phase = "calls" /\ (calls # <<>> \/ aborted)
  /\ Settle
  /\ taken' = NoTree /\ phase' = "after" /\ next' = 1
  /\ UNCHANGED <<copy, calls, gate, rows, stopVars, aborted, counts>>

-----------------------------------------------------------------------------
(* post_tool: the language server's verdict, then the gate after an edit.     *)

AfterHook == phase = "after" /\ next <= Len(calls)
Edited(call) == call.kind \in Edits /\ call.status = "passed"

(* The language server's row, ahead of M4, which then runs nothing: what it   *)
(* says makes no difference here, and silence counts as no errors.            *)
RecordsDiagnostics ==
  /\ AfterHook /\ Edited(calls[next]) /\ calls[next].kind = "served" /\ tree # NoTree
  /\ rows' = rows \cup {[tier |-> "T0", name |-> "lsp", tree |-> tree, status |-> "passed", saw |-> NoTree,
                         by |-> "server", shared |-> FALSE]}
  /\ next' = next + 1
  /\ UNCHANGED <<copyVars, phase, calls, gate, stopVars, aborted, counts>>

(* M4 on the model's own run of a gate.                                       *)
RecordsOwnRun ==
  /\ AfterHook /\ calls[next].kind \in Names /\ tree # NoTree
  /\ rows' = rows \cup {Row(calls[next].kind, tree, calls[next].status, calls[next].saw, "model")}
  /\ next' = next + 1
  /\ UNCHANGED <<copyVars, phase, calls, gate, stopVars, aborted, counts>>

(* Whether M4 has a static gate to run after this call.                       *)
NeedsStatic(call) ==
  /\ tree # NoTree /\ changed /\ Edited(call) /\ call.kind = "edit"
  /\ ~Has(tree, "T0") /\ ~Has(tree, "T1")
  /\ HasGate("T1")

(* The harness runs a gate: on the tree known when it starts.                 *)
Runs(g, why) ==
  /\ phase' = "gate"
  /\ gate' = [name |-> g, tree |-> tree, why |-> why]

RunsStatic ==
  /\ AfterHook /\ NeedsStatic(calls[next])
  /\ next' = next + 1
  /\ IF TookTooLong(First("T1"))
     THEN rows' = rows \cup {Row(First("T1"), tree, "skipped", NoTree, "harness")} /\ UNCHANGED <<phase, gate>>
     ELSE Runs(First("T1"), "edit") /\ UNCHANGED rows
  /\ UNCHANGED <<copyVars, calls, stopVars, aborted, counts>>

RunsNothing ==
  /\ AfterHook /\ ~NeedsStatic(calls[next])
  /\ tree = NoTree \/ (calls[next].kind \notin Names /\ ~(Edited(calls[next]) /\ calls[next].kind = "served"))
  /\ next' = next + 1
  /\ UNCHANGED <<copyVars, phase, calls, gate, rows, stopVars, aborted, counts>>

(* A denial without a word to the model ends the turn.                        *)
NextStep ==
  /\ phase = "after" /\ next > Len(calls)
  /\ \/ aborted /\ Finish("cancelled")
     \/ ~aborted /\ (\E i \in DOMAIN calls : calls[i].status = "skipped") /\ Finish("refused")
     \/ ~aborted /\ phase' = "model" /\ calls' = <<>> /\ next' = 1 /\ UNCHANGED <<ended, gate, stopped>>
  /\ UNCHANGED <<copyVars, rows, denials, aborted, counts>>

-----------------------------------------------------------------------------
(* stop: M5 looks at one tier after the other.                                *)

StopKnowsRan(tier) == Has(tree, tier)
StopKnows(tier) == Passed(tree, tier)

StopLooks ==
  /\ phase = "stop" /\ changed /\ next <= Len(Tiers)
  /\ LET tier == Tiers[next] IN
       IF ~HasGate(tier) THEN next' = next + 1 /\ UNCHANGED <<stopped, phase, gate>>
       ELSE IF StopKnows(tier)
       THEN next' = next + 1 /\ stopped' = [stopped EXCEPT ![tier] = "known"]
            /\ UNCHANGED <<phase, gate>>
       ELSE Runs(First(tier), "stop") /\ UNCHANGED <<next, stopped>>
  /\ UNCHANGED <<copyVars, calls, rows, denials, aborted, counts, ended>>

(* Nothing of M5's keeps the turn, but another stop hook may.                 *)
StopAllowed ==
  /\ phase = "stop" /\ (~changed \/ next > Len(Tiers))
  /\ \/ Finish("ok")
     \/ /\ ~aborted /\ phase' = "model" /\ next' = 1
        /\ UNCHANGED <<calls, gate, stopped, ended>>
  /\ UNCHANGED <<copyVars, rows, denials, aborted, counts>>

-----------------------------------------------------------------------------
(* A gate ends: with its verdict, or refused or cancelled, which is a skip.   *)

GateRecorded(status) ==
  rows' = rows \cup {Row(gate.name, gate.tree, status, copy, "harness")}

AfterEditEnds(status) ==
  /\ phase = "gate" /\ gate.why = "edit"
  /\ GateRecorded(status)
  /\ phase' = "after" /\ gate' = NoGate
  /\ UNCHANGED <<next, stopVars, calls>>

AtStopEnds(status) ==
  /\ phase = "gate" /\ gate.why = "stop"
  /\ GateRecorded(status)
  /\ \/ /\ status # "failed"
        /\ phase' = "stop" /\ next' = next + 1 /\ gate' = NoGate
        /\ stopped' = [stopped EXCEPT ![Tiers[next]] = status]
        /\ UNCHANGED <<denials, ended, calls>>
     \/ /\ status = "failed" /\ denials < MaxStopDenials
        /\ denials' = denials + 1
        /\ IF aborted THEN Finish("ok")
           ELSE /\ phase' = "model" /\ gate' = NoGate /\ next' = 1 /\ UNCHANGED <<stopped, ended, calls>>
     \/ /\ status = "failed" /\ denials >= MaxStopDenials
        /\ Finish("warned") /\ UNCHANGED denials

Ends(status) == AfterEditEnds(status) \/ AtStopEnds(status)

GateEnds ==
  /\ phase = "gate" /\ (Ends(Verdict(gate.name, copy)) \/ Ends("skipped"))
  /\ UNCHANGED <<copyVars, aborted, counts>>

(* cancel: the signal, and the gate that runs now.                            *)
Cancel ==
  /\ phase \notin {"idle"} /\ ~aborted /\ aborted' = TRUE
  /\ IF phase = "gate" THEN Ends("skipped")
     ELSE UNCHANGED <<phase, gate, rows, next, stopVars, calls>>
  /\ UNCHANGED <<copyVars, counts>>

-----------------------------------------------------------------------------
(* What is not the turn's: the person, a job or a child changes the working   *)
(* copy, and the session is closed and resumed from its log.                  *)

Elsewhere(t) ==
  /\ t # copy /\ copy' = t /\ since' = TRUE
  /\ elsewhere < MaxElsewhere /\ elsewhere' = elsewhere + 1
  /\ UNCHANGED <<tree, changed, failed, taken, phase, calls, next, gate, rows, stopVars, aborted, turns, steps, worked>>

Resume ==
  /\ phase = "idle" /\ turns < MaxTurns
  /\ tree' = NoTree /\ changed' = FALSE /\ failed' = FALSE
  /\ UNCHANGED <<copy, taken, phase, calls, next, gate, rows, stopVars, aborted, counts, since>>

-----------------------------------------------------------------------------
Init ==
  /\ copy = Begun /\ tree = NoTree /\ changed = FALSE /\ failed = FALSE /\ taken = NoTree
  /\ phase = "idle" /\ calls = <<>> /\ next = 1 /\ gate = NoGate
  /\ rows = {} /\ denials = 0 /\ stopped = Unlooked /\ aborted = FALSE
  /\ turns = 0 /\ steps = 0 /\ worked = 0 /\ elsewhere = 0 /\ since = FALSE
  /\ ended = NotEnded

Next ==
  \/ StartTurn \/ StepBegins \/ CutShort \/ ModelStops
  \/ \E t \in Trees : Writes("command", t) \/ Elsewhere(t) \/ \E kind \in Edits : Writes(kind, t)
  \/ \E g \in Names : RunsGate(g) \/ CallRefused(g)
  \/ CallRefused("edit")
  \/ StepEnds \/ RecordsDiagnostics \/ RecordsOwnRun \/ RunsStatic \/ RunsNothing \/ NextStep
  \/ StopLooks \/ StopAllowed \/ GateEnds \/ Cancel \/ Resume

Spec == Init /\ [][Next]_vars

-----------------------------------------------------------------------------
(* Properties.                                                                *)

TreesOrNone == Trees \cup {NoTree}
Calls == [kind : Names \cup Edits \cup {"edit", "command"}, status : Statuses, saw : TreesOrNone]
Rows == [tier : {"T0", "T1", "T2"}, name : Names \cup {"lsp"}, tree : Trees, status : Statuses,
         by : {"model", "harness", "server"}, saw : TreesOrNone, shared : BOOLEAN]
Looks == [{"T1", "T2"} -> Statuses \cup {"open", "known"}]
Endings == [how : Outcomes, tree : TreesOrNone, changed : BOOLEAN, stopped : Looks, cut : BOOLEAN, shared : BOOLEAN]

(* Type invariant.                                                            *)
TypeOK ==
  /\ copy \in Trees /\ tree \in TreesOrNone /\ taken \in TreesOrNone
  /\ changed \in BOOLEAN /\ failed \in BOOLEAN /\ aborted \in BOOLEAN /\ since \in BOOLEAN
  /\ phase \in {"idle", "model", "calls", "after", "stop", "gate"}
  /\ calls \in Seq(Calls)
  /\ next \in Nat \ {0} /\ denials \in Nat
  /\ turns \in Nat /\ steps \in Nat /\ worked \in Nat /\ elsewhere \in Nat
  /\ gate \in {NoGate} \cup [name : Names, tree : Trees, why : {"edit", "stop"}]
  /\ rows \subseteq Rows
  /\ stopped \in Looks
  /\ ended \in {NotEnded} \cup Endings

(* A turn that ends well on a changed copy has, for each tier of the          *)
(* project's gates, a passing row on the tree it leaves, or the person's no.  *)
DoneIsChecked ==
  ended.how = "ok" /\ ended.changed /\ ~ended.cut =>
    \A i \in DOMAIN Tiers : HasGate(Tiers[i]) =>
      \/ Passed(ended.tree, Tiers[i])
      \/ ended.stopped[Tiers[i]] = "skipped"

(* A row of a gate that the harness ran says what the gate found on the tree  *)
(* that it names, unless checkpoints were off or others wrote meanwhile.      *)
RowsAreOfTheirTree ==
  \A r \in rows : r.by = "harness" /\ r.status # "skipped" /\ ~r.shared => r.saw = r.tree

-----------------------------------------------------------------------------
(* Gates to check it on.                                                      *)

Two == <<"typecheck", "test">>
TierOfGate == [g \in Names |-> IF g = "test" THEN "T2" ELSE "T1"]
(* What is bad has no style that lint finds, but wrong types and tests.       *)
PassesGate == [g \in Names |-> IF g = "lint" THEN {"good", "bad"} ELSE {"good"}]
=============================================================================
