----------------------------- MODULE Worktrees -----------------------------
(* Git worktrees: the one a person names for a session, opened by several     *)
(* processes and taken away by hand, and the one an isolated child task works *)
(* in, which is looked at when its run is over and taken away if it holds     *)
(* nothing (core/git/worktrees.ts, core/runtime/children.ts).                 *)
(*                                                                            *)
(* A child's background jobs, and other processes, write while it is looked   *)
(* at.  The names, the model a child gets and what it is told are left out.   *)
EXTENDS FiniteSets

CONSTANTS
  People,   \* processes that open the worktree of one name
  Children, \* child tasks, each with a worktree of its own
  Items,    \* what is written in them, each once
  Ignored   \* those that git ignores

VARIABLES
  tree,     \* each worktree: its directory, branch, head and what they hold
  opener,   \* where each process or child is
  lost,     \* what a removal took with it
  late,     \* what was written or committed after the run was over
  switched, \* what was on a branch that its worktree then left
  uncounted \* the commits that a look at a child's worktree could not count

wtVars == <<tree, opener, lost, late, switched, uncounted>>

Openers == People \cup Children
Shared == "shared"
Named(o) == IF o \in Children THEN o ELSE Shared
Trees == Children \cup {Shared}

(* dir: absent, a worktree's, or something else of that name; known: git has  *)
(* it registered; branch: it has one, with these commits of its own.          *)
NoTree == [dir |-> "absent", known |-> FALSE, branch |-> FALSE, commits |-> {}, head |-> "branch", files |-> {}]

Init ==
  /\ tree = [w \in Trees |-> NoTree]
  /\ opener = [o \in Openers |-> [at |-> "none", branch |-> FALSE, saw |-> {}]]
  /\ lost = {} /\ late = {} /\ switched = {} /\ uncounted = {}

(* openWorktree: one that git knows and that is there is opened again; of one *)
(* known but gone git is told first; something else there is an error.        *)
Reopens(o) ==
  LET t == tree[Named(o)] IN
  /\ opener[o].at = "none" /\ t.known /\ t.dir = "tree"
  /\ opener' = [opener EXCEPT ![o].at = "open"]
  /\ UNCHANGED <<tree, lost, late, switched, uncounted>>
NotATree(o) ==
  LET t == tree[Named(o)] IN
  /\ opener[o].at = "none" /\ t.dir # "absent" /\ ~ (t.known /\ t.dir = "tree")
  /\ opener' = [opener EXCEPT ![o].at = "refused"]
  /\ UNCHANGED <<tree, lost, late, switched, uncounted>>
LooksForIt(o) ==
  LET t == tree[Named(o)] IN
  /\ opener[o].at = "none" /\ t.dir = "absent"
  /\ tree' = [tree EXCEPT ![Named(o)].known = FALSE]
  /\ opener' = [opener EXCEPT ![o] = [@ EXCEPT !.at = "adds", !.branch = t.branch]]
  /\ UNCHANGED <<lost, late, switched, uncounted>>

(* git worktree add: on the branch that was left, or on a new one; it fails   *)
(* when another process was first.                                            *)
Adds(o) ==
  LET t == tree[Named(o)] IN
  /\ opener[o].at = "adds"
  /\ IF t.dir = "absent" /\ ~ t.known /\ t.branch = opener[o].branch
       THEN /\ tree' = [tree EXCEPT ![Named(o)] = [t EXCEPT !.dir = "tree", !.known = TRUE, !.branch = TRUE, !.head = "branch", !.files = {}]]
            /\ opener' = [opener EXCEPT ![o].at = "open"]
       ELSE opener' = [opener EXCEPT ![o].at = "refused"] /\ UNCHANGED tree
  /\ UNCHANGED <<lost, late, switched, uncounted>>

(* removeWorktree: the directory with what it holds, and the branch.          *)
Removed(c) ==
  /\ tree' = [tree EXCEPT ![c] = NoTree]
  /\ lost' = lost \cup tree[c].files \cup tree[c].commits

(* childLauncher: a child whose runtime cannot be made leaves no worktree.    *)
CreateFails(c) ==
  /\ opener[c].at = "open"
  /\ opener' = [opener EXCEPT ![c].at = "closed"]
  /\ Removed(c)
  /\ UNCHANGED <<late, switched, uncounted>>
ChildRuns(c) ==
  /\ opener[c].at = "open"
  /\ opener' = [opener EXCEPT ![c].at = "runs"]
  /\ UNCHANGED <<tree, lost, late, switched, uncounted>>
RunEnds(c) ==
  /\ opener[c].at = "runs"
  /\ opener' = [opener EXCEPT ![c].at = "counts"]
  /\ UNCHANGED <<tree, lost, late, switched, uncounted>>

(* A session, a child, or a job it left in the background works in the        *)
(* worktree until it is closed; what git ignores is in no commit.             *)
Ended(o) == o \in Children /\ opener[o].at \notin {"open", "runs"}
Works(o) ==
  /\ tree[Named(o)].dir = "tree"
  /\ IF o \in Children THEN opener[o].at \in {"runs", "counts", "reads", "settles"} ELSE opener[o].at = "open"
NothingUncommitted(t) == {}
Uncommitted(t) == t.files \ Ignored
Written == UNION {tree[w].files \cup tree[w].commits : w \in Trees}
Writes(o, i) ==
  /\ Works(o) /\ i \notin Written \cup lost
  /\ tree' = [tree EXCEPT ![Named(o)].files = @ \cup {i}]
  /\ late' = IF Ended(o) THEN late \cup {i} ELSE late
  /\ UNCHANGED <<opener, lost, switched, uncounted>>
Commits(o) ==
  LET t == tree[Named(o)] IN
  /\ Works(o) /\ Uncommitted(t) # {} /\ t.head = "branch"
  /\ tree' = [tree EXCEPT ![Named(o)] = [t EXCEPT !.commits = @ \cup Uncommitted(t), !.files = @ \cap Ignored]]
  /\ late' = IF Ended(o) THEN late \cup Uncommitted(t) ELSE late
  /\ UNCHANGED <<opener, lost, switched, uncounted>>
LeavesBranch(o) ==
  LET t == tree[Named(o)] IN
  /\ Works(o) /\ t.head = "branch" /\ Uncommitted(t) = {}
  /\ tree' = [tree EXCEPT ![Named(o)].head = "elsewhere"]
  /\ switched' = switched \cup t.commits
  /\ UNCHANGED <<opener, lost, late, uncounted>>

(* worktreeChanges: the commits between the base and the worktree's head,     *)
(* none when git rev-list fails, and then what git status lists, which is     *)
(* nothing that git ignores.                                                  *)
AtHead(t) == IF t.head = "branch" THEN t.commits ELSE {}
CountsCommits(c) ==
  /\ opener[c].at = "counts"
  /\ \E failed \in BOOLEAN :
       /\ opener' = [opener EXCEPT ![c].at = "reads", ![c].saw = IF failed THEN {} ELSE AtHead(tree[c])]
       /\ uncounted' = IF failed THEN uncounted \cup AtHead(tree[c]) ELSE uncounted
  /\ UNCHANGED <<tree, lost, late, switched>>
ReadsStatus(c) ==
  /\ opener[c].at = "reads"
  /\ opener' = [opener EXCEPT ![c].at = "settles", ![c].saw = @ \cup Uncommitted(tree[c])]
  /\ UNCHANGED <<tree, lost, late, switched, uncounted>>

(* settleWorktree: one that holds anything, or cannot be read or removed, is  *)
(* kept and reported.                                                         *)
TakenAway(c) ==
  /\ opener[c].at = "settles" /\ opener[c].saw = {}
  /\ opener' = [opener EXCEPT ![c].at = "settled"]
  /\ Removed(c)
  /\ UNCHANGED <<late, switched, uncounted>>
Kept(c) ==
  /\ opener[c].at = "settles"
  /\ opener' = [opener EXCEPT ![c].at = "settled"]
  /\ UNCHANGED <<tree, lost, late, switched, uncounted>>
ChildCloses(c) ==
  /\ opener[c].at = "settled"
  /\ opener' = [opener EXCEPT ![c].at = "closed"]
  /\ UNCHANGED <<tree, lost, late, switched, uncounted>>

(* The person deletes the named worktree's directory, or puts another there.  *)
DeletedByHand ==
  /\ tree[Shared].dir # "absent"
  /\ tree' = [tree EXCEPT ![Shared].dir = "absent", ![Shared].files = {}]
  /\ UNCHANGED <<opener, lost, late, switched, uncounted>>
PutByHand ==
  /\ tree[Shared].dir = "absent"
  /\ tree' = [tree EXCEPT ![Shared].dir = "other"]
  /\ UNCHANGED <<opener, lost, late, switched, uncounted>>

Next ==
  \/ \E o \in Openers : Reopens(o) \/ NotATree(o) \/ LooksForIt(o) \/ Adds(o) \/ Commits(o) \/ LeavesBranch(o)
  \/ \E o \in Openers, i \in Items : Writes(o, i)
  \/ \E c \in Children : \/ CreateFails(c) \/ ChildRuns(c) \/ RunEnds(c) \/ CountsCommits(c)
                         \/ ReadsStatus(c) \/ TakenAway(c) \/ Kept(c) \/ ChildCloses(c)
  \/ DeletedByHand \/ PutByHand

Spec == Init /\ [][Next]_wtVars

(* What a child wrote, committed or not, while its run lasted is not taken    *)
(* away with its worktree, however its background jobs go on writing and      *)
(* whatever becomes of the worktrees opened beside it (children.ts            *)
(* settleWorktree), but for four things that the code does lose: what was     *)
(* written after the run was over, the commits of a branch the worktree had   *)
(* left, those that could not be counted (worktrees.ts:102), and what git     *)
(* ignores, of which nothing is looked at before it is removed by force       *)
(* (worktrees.ts:103, 109).                                                   *)
WorkIsKept == lost \subseteq late \cup switched \cup uncounted \cup Ignored

=============================================================================
