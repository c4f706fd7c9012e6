------------------------------- MODULE Review -------------------------------
(* A person's changes in git: the list /diff shows and what is done with one  *)
(* of its entries, and the commit /commit and git_commit make                 *)
(* (core/git/review.ts, commit.ts, core/tools/git.ts, with the lists of       *)
(* commands/builtin).  Turns, jobs and editors go on changing the files       *)
(* between what is read, what is chosen and what is done.                     *)
(*                                                                            *)
(* A piece is a hunk, or a file that is handled whole: a binary or untracked  *)
(* one.  What it holds is the number of the edit that made it.                *)
EXTENDS Naturals, FiniteSets

CONSTANTS
  Pieces,  \* hunks and whole files
  Whole,   \* those that are files handled whole
  MaxEdits \* a bound on the edits

VARIABLES
  work,    \* what the working copy holds of each piece
  index,   \* what the index holds
  head,    \* what the last commit holds
  edits,   \* edits so far
  list,    \* the list shown: its stage, and the changes it read
  undone,  \* what reverts dropped from the working copy
  held,    \* what some checkpoint holds
  raced,   \* what was written to a whole file between a checkpoint and its revert
  plan     \* the commit offered: its stage, and whether everything is staged first

rvVars == <<work, index, head, edits, list, undone, held, raced, plan>>
copy == <<work, index, head>>
record == <<undone, held, raced>>

Nothing == [p \in Pieces |-> 0]
NoList == [at |-> "closed", from |-> Nothing, to |-> Nothing, base |-> Nothing, staged |-> Nothing, piece |-> CHOOSE p \in Pieces : TRUE]
NoPlan == [at |-> "none", all |-> FALSE]

Init ==
  /\ work = Nothing /\ index = Nothing /\ head = Nothing
  /\ edits = 0 /\ list = NoList
  /\ undone = {} /\ held = {} /\ raced = {}
  /\ plan = NoPlan

(* A turn, a job or the person's editor.                                      *)
Edits(p) ==
  /\ edits < MaxEdits
  /\ edits' = edits + 1
  /\ work' = [work EXCEPT ![p] = edits + 1]
  /\ raced' = IF list.at = "reverts" /\ p \in Whole THEN raced \cup {edits + 1} ELSE raced
  /\ UNCHANGED <<index, head, list, undone, held, plan>>

(* readChanges: the two diffs are two runs of git.                            *)
ReadsUnstaged ==
  /\ list.at = "closed"
  /\ list' = [list EXCEPT !.at = "reads", !.from = index, !.to = work]
  /\ UNCHANGED <<copy, edits, record, plan>>
ReadsStaged ==
  /\ list.at = "reads"
  /\ list' = [list EXCEPT !.at = "shown", !.base = head, !.staged = index]
  /\ UNCHANGED <<copy, edits, record, plan>>
ClosesList ==
  /\ list.at = "shown"
  /\ list' = NoList
  /\ UNCHANGED <<copy, edits, record, plan>>

(* act, once it is done: the list is read again.                              *)
ReadAgain == list' = NoList

(* git apply takes a hunk only where what it changes is still there; a whole  *)
(* file is added as it is now.                                                *)
Stages(p) ==
  /\ list.at = "shown" /\ list.from[p] # list.to[p]
  /\ index' = IF p \in Whole THEN [index EXCEPT ![p] = work[p]]
              ELSE IF index[p] = list.from[p] THEN [index EXCEPT ![p] = list.to[p]] ELSE index
  /\ ReadAgain
  /\ UNCHANGED <<work, head, edits, record, plan>>
Unstages(p) ==
  /\ list.at = "shown" /\ list.base[p] # list.staged[p]
  /\ index' = IF p \in Whole THEN [index EXCEPT ![p] = head[p]]
              ELSE IF index[p] = list.staged[p] THEN [index EXCEPT ![p] = list.base[p]] ELSE index
  /\ ReadAgain
  /\ UNCHANGED <<work, head, edits, record, plan>>

(* A revert is made under a checkpoint of the working copy: the one is taken, *)
(* then the other is run.                                                     *)
ChecksPoint(p) ==
  /\ list.at = "shown" /\ list.from[p] # list.to[p]
  /\ list' = [list EXCEPT !.at = "reverts", !.piece = p]
  /\ held' = held \cup {work[q] : q \in Pieces}
  /\ UNCHANGED <<copy, edits, undone, raced, plan>>
Fits(p) == p \in Whole \/ work[p] = list.to[p]
Reverts ==
  LET p == list.piece IN
  /\ list.at = "reverts"
  /\ IF Fits(p)
       THEN /\ work' = [work EXCEPT ![p] = IF p \in Whole THEN index[p] ELSE list.from[p]]
            /\ undone' = undone \cup ({work[p]} \ {work'[p]})
       ELSE UNCHANGED <<work, undone>>
  /\ ReadAgain
  /\ UNCHANGED <<index, head, edits, held, raced, plan>>

(* planCommit works in an index of its own, so what it shows is staged only   *)
(* when the person agrees; with nothing staged, everything may be.            *)
PlansCommit ==
  /\ plan.at = "none"
  /\ \/ index # head /\ plan' = [at |-> "offered", all |-> FALSE]
     \/ index = head /\ work # head /\ plan' = [at |-> "offered", all |-> TRUE]
  /\ UNCHANGED <<copy, edits, list, record>>
LeavesPlan ==
  /\ plan.at = "offered"
  /\ plan' = NoPlan
  /\ UNCHANGED <<copy, edits, list, record>>

(* commitChanges stages what it was told to as it is by then, and commits     *)
(* what is staged; the repository's hooks may refuse it, with all still       *)
(* staged.  git_commit, which always asks, stages the paths it names.         *)
Commits(stagedFirst) ==
  LET all == [p \in Pieces |-> IF p \in stagedFirst THEN work[p] ELSE index[p]] IN
  /\ index' = all
  /\ head' \in {head, all}
CommitsPlan ==
  /\ plan.at = "offered"
  /\ Commits(IF plan.all THEN Pieces ELSE {})
  /\ plan' = NoPlan
  /\ UNCHANGED <<work, edits, list, record>>
CommitTool(paths) ==
  /\ Commits(paths)
  /\ UNCHANGED <<work, edits, list, record, plan>>

Next ==
  \/ \E p \in Pieces : Edits(p) \/ Stages(p) \/ Unstages(p) \/ ChecksPoint(p)
  \/ ReadsUnstaged \/ ReadsStaged \/ ClosesList \/ Reverts
  \/ PlansCommit \/ LeavesPlan \/ CommitsPlan
  \/ \E paths \in SUBSET Pieces : CommitTool(paths)

Spec == Init /\ [][Next]_rvVars

(* Whatever is changed, staged or committed between the reading of the list   *)
(* and the choice, what a revert drops from the working copy is in a          *)
(* checkpoint or in git, except what was written to a whole file after its    *)
(* checkpoint was taken; so a hunk is only reverted as it was shown           *)
(* (review.ts revertHunk, builtin/review.ts act).                             *)
NothingDroppedIsGone ==
  undone \subseteq held \cup raced

=============================================================================
