-------------------------------- MODULE Todos --------------------------------
(* The todo list (core/tools/todo.ts): a file of the project, read and        *)
(* written whole.  The model replaces the list; the harness stamps the items  *)
(* that were completed when its gates passed.  Both read the file first and   *)
(* write it after a wait, and the agents of a project share the list.         *)
(*                                                                            *)
(* An item is its content, its status and its stamp; a stamp names the tree   *)
(* the gates passed on.  Forms and checks are left out, and named lists.      *)
EXTENDS Naturals, FiniteSets

CONSTANTS
  Agents,     \* sessions and children that use the list
  Items,      \* contents
  MaxTree     \* a bound on the trees

VARIABLES
  file,       \* what the file holds: each item's status and stamp
  held,       \* what each agent read, and what it is about to write
  tree,       \* the tree the project is at
  passed,     \* the trees the gates passed on
  stamped,    \* what the harness vouched for: item and tree
  wasDone     \* what was ever completed in a list, and at which tree

toVars == <<file, held, tree, passed, stamped, wasDone>>

Absent == [status |-> "absent", tree |-> 0]
Statuses == {"absent", "pending", "completed"}
Entries == [status : Statuses, tree : 0..MaxTree]
NotHeld == [stage |-> "none"]

TypeOK ==
  /\ file \in [Items -> Entries]
  /\ tree \in 1..MaxTree /\ passed \subseteq 1..MaxTree
  /\ stamped \subseteq Items \X (1..MaxTree)

Init ==
  /\ file = [i \in Items |-> Absent]
  /\ held = [a \in Agents |-> NotHeld]
  /\ tree = 1 /\ passed = {} /\ stamped = {} /\ wasDone = {}

(* The work changes the tree; the gates pass on what it is.                   *)
Changes ==
  /\ tree < MaxTree /\ tree' = tree + 1
  /\ UNCHANGED <<file, held, passed, stamped, wasDone>>
GatesPass ==
  /\ tree \notin passed
  /\ passed' = passed \cup {tree}
  /\ UNCHANGED <<file, held, tree, stamped, wasDone>>

(* todo_write: what the model sent is read, its stamps taken off, and the     *)
(* list as it was looked up for those it had earned.                          *)
ReadForWrite(a, list) ==
  /\ held[a] = NotHeld
  /\ held' = [held EXCEPT ![a] = [stage |-> "write", list |-> list, seen |-> file]]
  /\ UNCHANGED <<file, tree, passed, stamped, wasDone>>
Kept(sent, known) ==
  [sent EXCEPT !.tree = IF sent.status = "completed" THEN known.tree ELSE 0]
TodoWrite(a) ==
  /\ held[a].stage = "write"
  /\ file' = [i \in Items |-> Kept(held[a].list[i], held[a].seen[i])]
  /\ held' = [held EXCEPT ![a] = NotHeld]
  /\ wasDone' = wasDone \cup {<<i, tree>> : i \in {j \in Items : held[a].list[j].status = "completed"}}
  /\ UNCHANGED <<tree, passed, stamped>>

(* stampTodos: once the gates have passed on a tree, what is completed and    *)
(* not yet vouched for on it is stamped.                                      *)
ReadForStamp(a) ==
  /\ held[a] = NotHeld /\ tree \in passed
  /\ held' = [held EXCEPT ![a] = [stage |-> "stamp", seen |-> file, tree |-> tree]]
  /\ UNCHANGED <<file, tree, passed, stamped, wasDone>>
Due(h) == {i \in Items : h.seen[i].status = "completed" /\ h.seen[i].tree # h.tree}
StampTodos(a) ==
  /\ held[a].stage = "stamp"
  /\ LET due == Due(held[a]) IN
     /\ file' = IF due = {} THEN file
                ELSE [i \in Items |-> IF i \in due THEN [held[a].seen[i] EXCEPT !.tree = held[a].tree] ELSE held[a].seen[i]]
     /\ stamped' = stamped \cup (due \X {held[a].tree})
  /\ held' = [held EXCEPT ![a] = NotHeld]
  /\ UNCHANGED <<tree, passed, wasDone>>
(* The read or the write failed.                                              *)
Fails(a) ==
  /\ held[a] # NotHeld
  /\ held' = [held EXCEPT ![a] = NotHeld]
  /\ UNCHANGED <<file, tree, passed, stamped, wasDone>>

(* What a model sends may say an item was verified.                           *)
Lists == [Items -> [status : Statuses, tree : {0, MaxTree}]]
Next ==
  \/ Changes \/ GatesPass
  \/ \E a \in Agents :
       \/ \E list \in Lists : ReadForWrite(a, list)
       \/ TodoWrite(a) \/ ReadForStamp(a) \/ StampTodos(a) \/ Fails(a)
Spec == Init /\ [][Next]_toVars

-----------------------------------------------------------------------------
(* A stamp in the list is one the harness set on that item, on a tree the     *)
(* gates passed on and no earlier than the item was first completed; an item  *)
(* that is not completed bears none.  No model's word does it, and no         *)
(* overlapping write.                                                         *)
StampsAreEarned ==
  \A i \in Items :
    /\ file[i].tree # 0 => /\ file[i].status = "completed"
                           /\ <<i, file[i].tree>> \in stamped /\ file[i].tree \in passed
                           /\ \E t \in 1..file[i].tree : <<i, t>> \in wasDone
=============================================================================
