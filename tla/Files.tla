------------------------------- MODULE Files --------------------------------
(* The tools that change a file: edit, write_file and apply_patch, and        *)
(* read_file with the anchors it gives (core/tools/edit.ts, textEdit.ts,      *)
(* write_file.ts, patch.ts, read_file.ts, anchors.ts, files.ts).  Each call   *)
(* reads what is there, decides, and writes; the calls of other agents, the   *)
(* person's editor and running commands come in between.  In an editor that   *)
(* lends its files the text read and written is the editor's; disk stands for *)
(* it.                                                                        *)
(*                                                                            *)
(* A file is a few regions of lines; a region's text is the number of the     *)
(* write that made it, 0 for what was there at first, so that regions nobody  *)
(* has changed read alike.                                                    *)
EXTENDS Naturals, Sequences, FiniteSets

CONSTANTS
  Agents,    \* a session and its children
  Paths,     \* the files
  Size,      \* how many regions a file has
  Patches,   \* the files a patch may touch: sequences of paths
  MaxWrites  \* a bound on the texts written

VARIABLES
  disk,    \* each file: whether it is there, and its regions' text
  shown,   \* what each agent was last shown of each file
  call,    \* each agent's call in progress
  writes,  \* texts written so far
  lost,    \* texts a call took away, although it read them and was not told to
  astray  \* whether an anchored edit changed another region than it was for

flVars == <<disk, shown, call, writes, lost, astray>>
ghosts == <<lost, astray>>

Regions == 1..Size
\* what an edit may name beside an occurrence's number
Only == 0
All == Size + 1
Empty == [r \in Regions |-> 0]
Missing == [there |-> FALSE, text |-> Empty]
(* A patch touches at least one file.                                         *)
Bounded == Size \in Nat /\ Patches \subseteq Seq(Paths) \ {<<>>}
NoCall == [at |-> "none", left |-> <<>>, planned |-> <<>>, begun |-> FALSE]

Init ==
  /\ disk = [f \in Paths |-> [there |-> TRUE, text |-> Empty]]
  /\ shown = [a \in Agents |-> [f \in Paths |-> Empty]]
  /\ call = [a \in Agents |-> NoCall]
  /\ writes = 0 /\ lost = {} /\ astray = FALSE

Free(a) == call[a].at = "none"
Fresh == writes < MaxWrites /\ writes' = writes + 1
Plan(f, next, named, meant) ==
  [path |-> f, base |-> disk[f], next |-> next, named |-> named, meant |-> meant]
TextsOf(file) == IF file.there THEN {file.text[r] : r \in Regions} ELSE {}

(* read_file: the text with the anchors that stand for it.                    *)
Reads(a, f) ==
  /\ Free(a) /\ disk[f].there
  /\ shown' = [shown EXCEPT ![a][f] = disk[f].text]
  /\ UNCHANGED <<disk, call, writes, ghosts>>

(* editRunner reads the file anew.  An anchor given is compared with the line *)
(* as it is now; a stale one refuses the edit and hands back fresh anchors.   *)
Stale(a, f, r) == disk[f].text[r] # shown[a][f][r]
RefusesStale(a, f, r) ==
  /\ Free(a) /\ disk[f].there /\ Stale(a, f, r)
  /\ shown' = [shown EXCEPT ![a][f][r] = disk[f].text[r]]
  /\ UNCHANGED <<disk, call, writes, ghosts>>

(* replaceLiteral: the text the agent was shown is looked for in the file as  *)
(* it is; one match, the one named by its number, or all of them.  No match,  *)
(* or several with none named, and nothing is changed.                        *)
Matches(f, text) == {r \in Regions : disk[f].text[r] = text}
Nth(matches, n) == {r \in matches : Cardinality({q \in matches : q < r}) = n - 1}
Targets(f, text, which) ==
  LET matches == Matches(f, text) IN
  CASE which = All -> matches
    [] which = Only -> {r \in matches : matches = {r}}
    [] OTHER -> Nth(matches, which)
FromDisk(a, f) == disk[f].text
Replaced(a, f, targets) == [r \in Regions |-> IF r \in targets THEN writes + 1 ELSE FromDisk(a, f)[r]]
Edits(a, f, r, anchored, which) ==
  LET text == shown[a][f][r]
      targets == Targets(f, text, which) IN
  /\ Free(a) /\ disk[f].there
  /\ ~(anchored /\ Stale(a, f, r))
  /\ targets # {}
  /\ Fresh
  /\ call' = [call EXCEPT ![a] = [NoCall EXCEPT !.at = "writes", !.planned =
       <<Plan(f, [there |-> TRUE, text |-> Replaced(a, f, targets)], {text},
              IF anchored /\ which = Only THEN {r} ELSE Regions)>>]]
  /\ UNCHANGED <<disk, shown, ghosts>>

(* writeFile: one that is there is only overwritten when the call says so.    *)
Exists(f) == disk[f].there
WritesFile(a, f, overwrite) ==
  /\ Free(a)
  /\ ~(Exists(f) /\ ~overwrite)
  /\ Fresh
  /\ call' = [call EXCEPT ![a] = [NoCall EXCEPT !.at = "writes", !.planned =
       <<Plan(f, [there |-> TRUE, text |-> [r \in Regions |-> writes + 1]],
              IF overwrite THEN TextsOf(disk[f]) ELSE {}, Regions)>>]]
  /\ UNCHANGED <<disk, shown, ghosts>>

(* applyPatchRunner checks one file of the patch after another against what   *)
(* is on disk, and nothing is written before all have passed: a file to be    *)
(* created must not be there, any other must be, and a hunk's text is looked  *)
(* for, near its line first.  A section that deletes takes the whole file.    *)
PatchBegins(a, paths) ==
  /\ Free(a) /\ writes < MaxWrites
  /\ call' = [call EXCEPT ![a] = [NoCall EXCEPT !.at = "checks", !.left = paths]]
  /\ UNCHANGED <<disk, shown, writes, ghosts>>
Lands(f, text, r) ==
  IF disk[f].text[r] = text THEN {r} ELSE {q \in Regions : disk[f].text[q] = text}
Checked(a, plan) ==
  LET c == call[a] IN
  call' = [call EXCEPT ![a].left = Tail(c.left), ![a].planned = Append(c.planned, plan),
                       ![a].at = IF Len(c.left) = 1 THEN "writes" ELSE "checks"]
AddsSection(a) ==
  LET f == Head(call[a].left) IN
  /\ call[a].at = "checks" /\ ~Exists(f) /\ Fresh
  /\ Checked(a, Plan(f, [there |-> TRUE, text |-> [r \in Regions |-> writes + 1]], {}, Regions))
  /\ UNCHANGED <<disk, shown, ghosts>>
ModifiesSection(a, r) ==
  LET f == Head(call[a].left)
      text == shown[a][f][r] IN
  /\ call[a].at = "checks" /\ disk[f].there /\ Fresh
  /\ \E q \in Lands(f, text, r) :
       Checked(a, Plan(f, [there |-> TRUE, text |-> Replaced(a, f, {q})], {text}, Regions))
  /\ UNCHANGED <<disk, shown, ghosts>>
DeletesSection(a, r) ==
  LET f == Head(call[a].left) IN
  /\ call[a].at = "checks" /\ disk[f].there
  /\ Lands(f, shown[a][f][r], r) # {}
  /\ Checked(a, Plan(f, Missing, TextsOf(disk[f]), Regions))
  /\ UNCHANGED <<disk, shown, writes, ghosts>>
(* A section that does not fit ends the call with nothing written.            *)
PatchRefused(a) ==
  /\ call[a].at = "checks"
  /\ call' = [call EXCEPT ![a] = NoCall]
  /\ UNCHANGED <<disk, shown, writes, ghosts>>

(* The write: the whole file as it was worked out from what was read.         *)
Changes(plan) == {r \in Regions : ~(plan.next.there /\ plan.next.text[r] = plan.base.text[r])}
TakesUnnamed(plan) ==
  {plan.base.text[r] : r \in {q \in Changes(plan) : plan.base.there /\ disk[plan.path] = plan.base}} \ plan.named
Writes(a) ==
  LET c == call[a]
      plan == Head(c.planned) IN
  /\ c.at = "writes"
  /\ disk' = [disk EXCEPT ![plan.path] = plan.next]
  /\ lost' = lost \cup TakesUnnamed(plan)
  /\ astray' = (astray \/ ~(Changes(plan) \subseteq plan.meant))
  /\ call' = [call EXCEPT ![a] = IF Len(c.planned) = 1 THEN NoCall
                                 ELSE [c EXCEPT !.planned = Tail(@), !.begun = TRUE]]
  /\ UNCHANGED <<shown, writes>>
(* Any write may fail, which ends the call where it is.                       *)
WriteFails(a) ==
  /\ call[a].at = "writes"
  /\ call' = [call EXCEPT ![a] = NoCall]
  /\ UNCHANGED <<disk, shown, writes, lost, astray>>

(* The person, a command or another program.                                  *)
Outside(f, r) ==
  /\ disk[f].there /\ Fresh
  /\ disk' = [disk EXCEPT ![f].text[r] = writes + 1]
  /\ UNCHANGED <<shown, call, ghosts>>
OutsideDeletes(f) ==
  /\ disk[f].there
  /\ disk' = [disk EXCEPT ![f] = Missing]
  /\ UNCHANGED <<shown, call, writes, ghosts>>

Next ==
  \/ \E a \in Agents, f \in Paths : Reads(a, f)
  \/ \E a \in Agents, f \in Paths, r \in Regions : RefusesStale(a, f, r)
  \/ \E a \in Agents, f \in Paths, r \in Regions, anchored \in BOOLEAN, which \in 0..(Size + 1) :
       Edits(a, f, r, anchored, which)
  \/ \E a \in Agents, f \in Paths, overwrite \in BOOLEAN : WritesFile(a, f, overwrite)
  \/ \E a \in Agents, paths \in Patches : PatchBegins(a, paths)
  \/ \E a \in Agents : AddsSection(a) \/ PatchRefused(a) \/ Writes(a) \/ WriteFails(a)
  \/ \E a \in Agents, r \in Regions : ModifiesSection(a, r) \/ DeletesSection(a, r)
  \/ \E f \in Paths, r \in Regions : Outside(f, r)
  \/ \E f \in Paths : OutsideDeletes(f)

Spec == Init /\ [][Next]_flVars

(* Whoever changes the files between what an agent was shown, what its call   *)
(* read and what it wrote: a call that was not told to replace or delete the  *)
(* whole file takes nothing away that it read but did not name, and an edit   *)
(* that carries an anchor, and names no occurrence, changes the region that   *)
(* was read or nothing (edit.ts editRunner, write_file.ts, patch.ts).  What   *)
(* was written after the call had read the file is not safe: no call looks    *)
(* again before it writes.                                                    *)
EditsLandWhereRead == lost = {} /\ ~astray

=============================================================================
