---------------------------- MODULE Checkpoints ----------------------------
(* The checkpoints of one session (core/git/checkpoints.ts and                *)
(* core/runtime/checkpoints.ts): one taken before a step's first change and   *)
(* recorded once the step is done, a person's change taken between two of     *)
(* them, and the restore of any that the log holds.  In a repository a        *)
(* checkpoint is a tree of the whole working copy; outside one it is a copy   *)
(* of the files that the step's first changing call names.                    *)
(*                                                                            *)
(* Every git command is a step of its own between which the person's editor,  *)
(* a child left in the background and, since busy() is asked only at the      *)
(* start of a restore, a turn may change the working copy.  Ignored files,    *)
(* which no tree holds, are left out.                                         *)
EXTENDS Naturals, Sequences, FiniteSets, TLC

CONSTANTS
  Paths, Contents,
  MaxRecords,   \* checkpoints in the log
  MaxCalls,     \* changing calls of one step
  MaxEdits      \* changes made by others, in all

ASSUME CheckpointsAssumption == MaxRecords \in Nat /\ MaxCalls \in Nat /\ MaxEdits \in Nat

Absent == "absent"
Trees == [Paths -> Contents \cup {Absent}]
None == [at |-> "none"]

VARIABLES
  repo,     \* the project is in a repository
  wc,       \* the working copy
  records,  \* the checkpoints that the log holds
  turn,     \* a turn runs
  step,     \* the step that changes something, with its pending checkpoint
  op,       \* the person's change or restore under withCheckpoint
  off,      \* a checkpoint of a step failed, and they are off
  edits,    \* how often others changed the working copy
  whole     \* every change that finished is one that its record takes back

storeVars == <<repo, wc, records, turn, step, op, off, edits, whole>>

StoreInit ==
  /\ repo \in BOOLEAN /\ wc \in Trees /\ records = <<>>
  /\ turn = FALSE /\ step = None /\ op = None
  /\ off = FALSE /\ edits = 0 /\ whole = TRUE

-----------------------------------------------------------------------------
(* The store.                                                                 *)

Differ(a, b) == {p \in Paths : a[p] # b[p]}

(* What a restore may touch: in a repository what the step changed, outside   *)
(* one the files it backed up; and were it the whole tree.                    *)
ScopeOfTree(r) == Paths
Scope(r) == IF repo THEN Differ(r.before, r.after) ELSE r.files

(* take: a commit of the working copy, or a copy of the files named; nothing  *)
(* outside a repository when none is.                                         *)
Taken(files) == repo \/ files # {}

(* What preview finds to change: those in scope that are not as the           *)
(* checkpoint found them.                                                     *)
ToRestore(r) == Scope(r) \cap Differ(wc, r.before)

(* settle and record: a commit of the working copy as it is now.  In a        *)
(* repository a change that left none is not recorded.                        *)
Recordable(change) == Taken(change.files) /\ (repo => change.before # wc)

(* What a change did to files nobody else touched meanwhile, and its record   *)
(* does not bring back.                                                       *)
Lost(change) ==
  LET r == [before |-> change.before, after |-> wc, files |-> change.files]
  IN {p \in change.touched \ change.outside :
        /\ wc[p] # change.was[p]
        /\ ~(Recordable(change) /\ p \in Scope(r) /\ r.before[p] = change.was[p])}

Record(change) ==
  /\ whole' = (whole /\ Lost(change) = {})
  /\ records' = IF Recordable(change)
                THEN Append(records, [before |-> change.before, after |-> wc, files |-> change.files])
                ELSE records

(* A change under way: what was taken before it, what it has touched, the     *)
(* calls of a step, and what a restore puts back.                             *)
Begun(at, files, of) ==
  [at |-> at, before |-> wc, files |-> files, was |-> wc, touched |-> {}, outside |-> {},
   calls |-> 0, of |-> of, list |-> {}]

Touch(change, ps) ==
  [change EXCEPT !.touched = @ \cup ps, !.was = [p \in Paths |-> IF p \in ps \ change.touched THEN wc[p] ELSE @[p]]]

Raced(change, ps) == IF change = None THEN None ELSE [change EXCEPT !.outside = @ \cup ps]

-----------------------------------------------------------------------------
(* A turn's steps.                                                            *)

TurnStarts ==
  /\ ~turn /\ turn' = TRUE
  /\ UNCHANGED <<repo, wc, records, step, op, off, edits, whole>>

TurnEnds ==
  /\ turn /\ step = None /\ turn' = FALSE
  /\ UNCHANGED <<repo, wc, records, step, op, off, edits, whole>>

(* changeAhead: the checkpoint before the step's first changing call, which   *)
(* names one file, or none when it is a command.  The step goes on without    *)
(* one when it fails, and from then on there are no more.                     *)
Take ==
  /\ turn /\ step = None /\ Len(records) < MaxRecords
  /\ \E files \in {{}} \cup {{p} : p \in Paths} : \E fails \in BOOLEAN :
       /\ fails => ~off
       /\ off' = (off \/ fails)
       /\ step' = Begun(IF off' THEN "unguarded" ELSE "changing", files, None)
  /\ UNCHANGED <<repo, wc, records, turn, op, edits, whole>>

(* A call of the step changes a file: an edit, or a command, of which only a  *)
(* repository can tell what it changes.                                       *)
Change ==
  /\ step # None /\ step.calls < MaxCalls
  /\ \E p \in Paths, c \in Contents \cup {Absent}, edit \in BOOLEAN :
       /\ step.calls = 0 => edit = (step.files # {}) /\ step.files \subseteq {p}
       /\ wc' = [wc EXCEPT ![p] = c]
       /\ LET next == [step EXCEPT !.calls = @ + 1]
          IN step' = IF repo \/ edit THEN Touch(next, {p}) ELSE next
       /\ op' = Raced(op, {p})
  /\ UNCHANGED <<repo, records, turn, off, edits, whole>>

(* afterChange, cancelled turns included: what the step did, recorded, unless *)
(* git fails.                                                                 *)
Settle ==
  /\ step # None /\ step' = None
  /\ \E fails \in BOOLEAN :
       /\ fails => step.at = "changing" /\ repo
       /\ off' = (off \/ fails)
       /\ IF step.at = "changing" /\ ~fails THEN Record(step) ELSE UNCHANGED <<records, whole>>
  /\ UNCHANGED <<repo, wc, turn, op, edits>>

-----------------------------------------------------------------------------
(* The person's changes.                                                      *)

(* withCheckpoint refuses while a turn runs, which it asks once, at its start. *)
(* A revert of /diff names no files, and works in a repository only.          *)
Revert ==
  /\ repo /\ ~turn /\ op = None /\ Len(records) < MaxRecords
  /\ op' = Begun("reverting", {}, None)
  /\ UNCHANGED <<repo, wc, records, turn, step, off, edits, whole>>

Reverted ==
  /\ op.at = "reverting"
  /\ \E p \in Paths, c \in Contents \cup {Absent} :
       /\ wc' = [wc EXCEPT ![p] = c]
       /\ op' = [Touch(op, {p}) EXCEPT !.at = "changed"]
       /\ step' = Raced(step, {p})
  /\ UNCHANGED <<repo, records, turn, off, edits, whole>>

(* restore: a checkpoint of what it replaces, then preview's list of files,   *)
(* then what must be written and last what must go.                           *)
Restore ==
  /\ ~turn /\ op = None /\ Len(records) < MaxRecords
  /\ \E n \in DOMAIN records :
       op' = Begun("taken", records[n].files, records[n])
  /\ UNCHANGED <<repo, wc, records, turn, step, off, edits, whole>>

Preview ==
  /\ op.at = "taken"
  /\ op' = [op EXCEPT !.at = "previewed", !.list = ToRestore(op.of)]
  /\ UNCHANGED <<repo, wc, records, turn, step, off, edits, whole>>

Put(ps) ==
  /\ wc' = [p \in Paths |-> IF p \in ps THEN op.of.before[p] ELSE wc[p]]
  /\ step' = Raced(step, ps)

Write ==
  /\ op.at = "previewed"
  /\ LET ps == {p \in op.list : op.of.before[p] # Absent}
     IN Put(ps) /\ op' = [Touch(op, ps) EXCEPT !.at = "written"]
  /\ UNCHANGED <<repo, records, turn, off, edits, whole>>

Remove ==
  /\ op.at = "written"
  /\ LET ps == {p \in op.list : op.of.before[p] = Absent}
     IN Put(ps) /\ op' = [Touch(op, ps) EXCEPT !.at = "changed"]
  /\ UNCHANGED <<repo, records, turn, off, edits, whole>>

SettleChange ==
  /\ op.at = "changed" /\ op' = None
  /\ Record(op)
  /\ UNCHANGED <<repo, wc, turn, step, off, edits>>

(* A git command, or a copy, fails: nothing is recorded, of what was already  *)
(* written neither.                                                           *)
ChangeFails ==
  /\ op # None /\ op' = None
  /\ UNCHANGED <<repo, wc, records, turn, step, off, edits, whole>>

-----------------------------------------------------------------------------

(* The person's editor, or a child in the background.                         *)
Edit ==
  /\ edits < MaxEdits /\ edits' = edits + 1
  /\ \E p \in Paths, c \in Contents \cup {Absent} :
       /\ c # wc[p]
       /\ wc' = [wc EXCEPT ![p] = c]
       /\ step' = Raced(step, {p}) /\ op' = Raced(op, {p})
  /\ UNCHANGED <<repo, records, turn, off, whole>>

(* The process ends; a resumed session has the log's checkpoints.             *)
Restart ==
  /\ turn' = FALSE /\ step' = None /\ op' = None /\ off' = FALSE
  /\ UNCHANGED <<repo, wc, records, edits, whole>>

StoreNext ==
  \/ TurnStarts \/ TurnEnds \/ Take \/ Change \/ Settle
  \/ Revert \/ Reverted \/ Restore \/ Preview \/ Write \/ Remove \/ SettleChange \/ ChangeFails
  \/ Edit \/ Restart

StoreSpec == StoreInit /\ [][StoreNext]_storeVars

-----------------------------------------------------------------------------

StoreTypeOK ==
  /\ repo \in BOOLEAN /\ turn \in BOOLEAN /\ off \in BOOLEAN
  /\ wc \in Trees /\ edits \in 0..MaxEdits /\ whole \in BOOLEAN
  /\ \A n \in DOMAIN records :
       records[n].before \in Trees /\ records[n].after \in Trees /\ records[n].files \subseteq Paths
  /\ step.at \in {"none", "changing", "unguarded"}
  /\ op.at \in {"none", "reverting", "taken", "previewed", "written", "changed"}

(* A restore puts back what its step changed and touches nothing else: what   *)
(* the person changed since stays, whatever else runs meanwhile.              *)
RestoreReturns ==
  op.at = "changed" /\ op.of # None =>
    \A p \in Paths \ op.outside :
      wc[p] = IF p \in (IF repo THEN Differ(op.of.before, op.of.after) ELSE op.of.files)
              THEN op.of.before[p] ELSE op.before[p]

(* In a repository every step, revert and restore that finished can be taken  *)
(* back whole: its record holds all it changed, as it was before.             *)
ChangesCanBeUndone == repo => whole

(* What checkpoints are for (runtime/checkpoints.ts, core/checkpoints).       *)
ChangesComeBack == RestoreReturns /\ ChangesCanBeUndone

(* Outside a repository every file that the edits of a step changed was       *)
(* backed up first (openspec/specs/jamcli/spec.md:1669-1671).                 *)
EditsAreBackedUp == ~repo => whole

\* Names of files are alike.
Symmetry == Permutations(Paths)
=============================================================================
