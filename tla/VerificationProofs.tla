------------------------- MODULE VerificationProofs -------------------------
(* That Verification's rows are of the tree they name, that a turn ends well  *)
(* only on a tree with rows: for any gates, trees and limits.  Then about     *)
(* what a person agrees to or takes back beside the gates: plugins, keys      *)
(* typed at a terminal, reverts, hooks, schedules and settings.               *)
EXTENDS Verification, WellFoundedInduction, TLAPS

USE VerificationAssumption

-----------------------------------------------------------------------------
(* A set of numbers that is not empty has a least one.                        *)
LEMMA LeastIndex ==
  ASSUME NEW S \in SUBSET Nat, S # {}
  PROVE  \E i \in S : \A j \in S : ~(j < i)
<1> DEFINE R == {ss \in Nat \X Nat : ss[1] < ss[2]}
<1>1. IsWellFoundedOn(R, Nat)
  BY NatLessThanWellFounded DEF OpToRel
<1>2. PICK i \in S : \A j \in S : ~(<<j, i>> \in R)
  <2> HIDE DEF R
  <2> QED BY <1>1, WFMin
<1>3. \A j \in S : ~(j < i)
  BY <1>2
<1> QED BY <1>3

(* The first gate of a tier is a gate of that tier, when there is one.        *)
LEMMA FirstIsOfTier ==
  ASSUME NEW tier, HasGate(tier)
  PROVE  First(tier) \in Names /\ TierOf[First(tier)] = tier
<1> DEFINE S == {i \in DOMAIN Gates : TierOf[Gates[i]] = tier}
<1>1. S \in SUBSET Nat /\ S # {}
  BY DEF HasGate
<1>2. PICK i \in S : \A j \in S : ~(j < i)
  BY <1>1, LeastIndex
<1>3. \A j \in 1..(i - 1) : TierOf[Gates[j]] # tier
  <2>1. PICK n \in Nat : DOMAIN Gates = 1..n
    OBVIOUS
  <2>2. i \in 1..n
    BY <2>1
  <2>3. \A j \in 1..(i - 1) : j \in 1..n /\ j < i
    BY <2>2
  <2> QED BY <2>1, <2>3, <1>2
<1>4. \E k \in DOMAIN Gates : TierOf[Gates[k]] = tier /\ \A j \in 1..(k - 1) : TierOf[Gates[j]] # tier
  BY <1>2, <1>3
<1> QED BY <1>4 DEF First, Names

-----------------------------------------------------------------------------
(* A gate that runs is not none.                                              *)
LEMMA GateIsSome == \A n, t, w : [name |-> n, tree |-> t, why |-> w] # NoGate
<1> SUFFICES ASSUME NEW n, NEW t, NEW w, [name |-> n, tree |-> t, why |-> w] = NoGate PROVE FALSE
  OBVIOUS
<1>1. DOMAIN [name |-> n, tree |-> t, why |-> w] = {"name", "tree", "why"}
  OBVIOUS
<1>2. DOMAIN NoGate = {"name"}
  BY DEF NoGate
<1> QED BY <1>1, <1>2

LEMMA VerdictType == \A g, saw : Verdict(g, saw) \in {"passed", "failed"}
BY DEF Verdict

-----------------------------------------------------------------------------
(* The parts of the type invariant that the others rest on.                   *)
PartsInv ==
  /\ copy \in Trees
  /\ next \in Nat \ {0}
  /\ stopped \in Looks

(* Trees of the copy are not none.                                            *)
LEMMA CopyIsATree == PartsInv => copy \in Trees /\ copy # NoTree
BY DEF PartsInv

(* What a row says.                                                           *)
LEMMA RowSays ==
  ASSUME NEW g, NEW t, NEW status, NEW saw, NEW by
  PROVE  /\ Row(g, t, status, saw, by).tree = t
         /\ Row(g, t, status, saw, by).tier = TierOf[g]
         /\ Row(g, t, status, saw, by).status = status
         /\ status # "skipped" => Row(g, t, status, saw, by).saw = saw
         /\ status # "skipped" /\ ~Row(g, t, status, saw, by).shared => ~since /\ ~failed
<1>1. Row(g, t, status, saw, by).shared = (status # "skipped" /\ (since \/ failed))
  BY DEF Row
<1>2. status # "skipped" /\ ~Row(g, t, status, saw, by).shared => ~since /\ ~failed
  BY <1>1, Zenon
<1> QED BY <1>2 DEF Row

(* The tiers that the stop looks at.                                          *)
LEMMA TierNames == Tiers[1] = "T1" /\ Tiers[2] = "T2" /\ DOMAIN Tiers = 1..2 /\ Len(Tiers) = 2
BY DEF Tiers

(* The tree is what the working copy holds between steps, and what the step's *)
(* checkpoint holds within one; a gate runs on it.                            *)
TreeInv ==
  /\ taken # NoTree => phase = "calls"
  /\ changed => tree # NoTree
  /\ tree # NoTree /\ ~since /\ ~failed => IF taken = NoTree THEN copy = tree ELSE taken = tree
  /\ phase = "gate" <=> gate # NoGate
  /\ gate # NoGate => gate.tree = tree /\ changed

(* What M5 has looked at was known to pass, or its gate ended so.             *)
Settled(i) == Passed(tree, Tiers[i]) \/ stopped[Tiers[i]] = "skipped"
StopInv ==
  /\ phase = "stop" /\ changed =>
       \A i \in 1..2 : i < next /\ HasGate(Tiers[i]) => Settled(i)
  /\ gate # NoGate /\ gate.why = "stop" =>
       /\ next \in 1..2 /\ TierOf[gate.name] = Tiers[next]
       /\ \A i \in 1..2 : i < next /\ HasGate(Tiers[i]) => Settled(i)

IInv == PartsInv /\ TreeInv /\ StopInv /\ RowsAreOfTheirTree /\ DoneIsChecked

-----------------------------------------------------------------------------
(* Every step keeps the parts' types.                                         *)
LEMMA PartsStep ==
  ASSUME PartsInv, [Next]_vars
  PROVE  PartsInv'
<1>1. CASE StartTurn
  BY <1>1 DEF StartTurn, copyVars, counts, stopVars, PartsInv, Looks, Unlooked, Statuses
<1>2. CASE StepBegins
  BY <1>2 DEF StepBegins, copyVars, counts, stopVars, PartsInv, Looks, Unlooked, Statuses
<1>3. CASE CutShort
  BY <1>3 DEF CutShort, Finish, copyVars, counts, stopVars, PartsInv, Looks, Unlooked, Statuses
<1>4. CASE ModelStops
  BY <1>4 DEF ModelStops, copyVars, counts, stopVars, PartsInv, Looks, Unlooked, Statuses
<1>5. ASSUME NEW k \in Edits \cup {"command"}, NEW t \in Trees, Writes(k, t) PROVE PartsInv'
  BY <1>5 DEF Writes, MayCall, ChangeAhead, CallEnds, copyVars, counts, stopVars, PartsInv, Looks, Unlooked, Statuses
<1>6. ASSUME NEW t \in Trees, Elsewhere(t) PROVE PartsInv'
  BY <1>6 DEF Elsewhere, copyVars, counts, stopVars, PartsInv, Looks, Unlooked, Statuses
<1>7. ASSUME NEW g \in Names, RunsGate(g) PROVE PartsInv'
  BY <1>7 DEF RunsGate, MayCall, ChangeAhead, CallEnds, copyVars, counts, stopVars, PartsInv, Looks, Unlooked, Statuses
<1>8. ASSUME NEW k \in Names \cup {"edit"}, CallRefused(k) PROVE PartsInv'
  BY <1>8 DEF CallRefused, MayCall, CallEnds, copyVars, counts, stopVars, PartsInv, Looks, Unlooked, Statuses
<1>9. CASE StepEnds
  BY <1>9 DEF StepEnds, Settle, copyVars, counts, stopVars, PartsInv, Looks, Unlooked, Statuses
<1>10. CASE RecordsDiagnostics
  BY <1>10 DEF RecordsDiagnostics, AfterHook, Edited, copyVars, counts, stopVars, PartsInv, Looks, Unlooked, Statuses
<1>11. CASE RecordsOwnRun
  BY <1>11 DEF RecordsOwnRun, AfterHook, copyVars, counts, stopVars, PartsInv, Looks, Unlooked, Statuses
<1>12. CASE RunsStatic
  BY <1>12 DEF RunsStatic, AfterHook, NeedsStatic, Runs, copyVars, counts, stopVars, PartsInv, Looks, Unlooked, Statuses
<1>13. CASE RunsNothing
  BY <1>13 DEF RunsNothing, AfterHook, copyVars, counts, stopVars, PartsInv, Looks, Unlooked, Statuses
<1>14. CASE NextStep
  BY <1>14 DEF NextStep, Finish, copyVars, counts, stopVars, PartsInv, Looks, Unlooked, Statuses
<1>15. CASE StopLooks
  BY <1>15 DEF StopLooks, Runs, StopKnows, copyVars, counts, stopVars, PartsInv, Looks, Unlooked, Statuses
<1>16. CASE StopAllowed
  BY <1>16 DEF StopAllowed, Finish, copyVars, counts, stopVars, PartsInv, Looks, Unlooked, Statuses
<1>17. CASE GateEnds
  BY <1>17, VerdictType DEF GateEnds, Ends, AfterEditEnds, AtStopEnds, GateRecorded, Finish, copyVars, counts, stopVars, PartsInv, Looks, Unlooked, Statuses
<1>18. CASE Cancel
  BY <1>18 DEF Cancel, Ends, AfterEditEnds, AtStopEnds, GateRecorded, Finish, copyVars, counts, stopVars, PartsInv, Looks, Unlooked, Statuses
<1>19. CASE Resume
  BY <1>19 DEF Resume, copyVars, counts, stopVars, PartsInv, Looks, Unlooked, Statuses
<1>20. CASE UNCHANGED vars
  BY <1>20 DEF vars, PartsInv, Looks, Unlooked, Statuses
<1> QED
  BY <1>1, <1>2, <1>3, <1>4, <1>5, <1>6, <1>7, <1>8, <1>9, <1>10, <1>11, <1>12, <1>13, <1>14, <1>15, <1>16, <1>17, <1>18, <1>19, <1>20 DEF Next

(* Every step keeps the tree true of the copy.                                *)
LEMMA TreeStep ==
  ASSUME PartsInv, TreeInv, [Next]_vars
  PROVE  TreeInv'
<1>1. CASE StartTurn
  BY <1>1 DEF StartTurn, copyVars, counts, stopVars, TreeInv
<1>2. CASE StepBegins
  BY <1>2 DEF StepBegins, copyVars, counts, stopVars, TreeInv
<1>3. CASE CutShort
  BY <1>3 DEF CutShort, Finish, copyVars, counts, stopVars, TreeInv
<1>4. CASE ModelStops
  BY <1>4 DEF ModelStops, copyVars, counts, stopVars, TreeInv
<1>5. ASSUME NEW k \in Edits \cup {"command"}, NEW t \in Trees, Writes(k, t) PROVE TreeInv'
  BY <1>5, CopyIsATree DEF Writes, MayCall, ChangeAhead, CallEnds, copyVars, counts, stopVars, TreeInv
<1>6. ASSUME NEW t \in Trees, Elsewhere(t) PROVE TreeInv'
  BY <1>6, CopyIsATree DEF Elsewhere, copyVars, counts, stopVars, TreeInv
<1>7. ASSUME NEW g \in Names, RunsGate(g) PROVE TreeInv'
  BY <1>7, CopyIsATree DEF RunsGate, MayCall, ChangeAhead, CallEnds, copyVars, counts, stopVars, TreeInv
<1>8. ASSUME NEW k \in Names \cup {"edit"}, CallRefused(k) PROVE TreeInv'
  BY <1>8 DEF CallRefused, MayCall, CallEnds, copyVars, counts, stopVars, TreeInv
<1>9. CASE StepEnds
  BY <1>9, CopyIsATree DEF StepEnds, Settle, copyVars, counts, stopVars, TreeInv
<1>10. CASE RecordsDiagnostics
  BY <1>10 DEF RecordsDiagnostics, AfterHook, Edited, copyVars, counts, stopVars, TreeInv
<1>11. CASE RecordsOwnRun
  BY <1>11 DEF RecordsOwnRun, AfterHook, copyVars, counts, stopVars, TreeInv
<1>12. CASE RunsStatic
  BY <1>12, GateIsSome DEF RunsStatic, AfterHook, NeedsStatic, Runs, copyVars, counts, stopVars, TreeInv
<1>13. CASE RunsNothing
  BY <1>13 DEF RunsNothing, AfterHook, copyVars, counts, stopVars, TreeInv
<1>14. CASE NextStep
  BY <1>14 DEF NextStep, Finish, copyVars, counts, stopVars, TreeInv
<1>15. CASE StopLooks
  BY <1>15, GateIsSome DEF StopLooks, Runs, StopKnows, copyVars, counts, stopVars, TreeInv
<1>16. CASE StopAllowed
  BY <1>16 DEF StopAllowed, Finish, copyVars, counts, stopVars, TreeInv
<1>17. CASE GateEnds
  BY <1>17 DEF GateEnds, Ends, AfterEditEnds, AtStopEnds, GateRecorded, Finish, copyVars, counts, stopVars, TreeInv
<1>18. CASE Cancel
  BY <1>18 DEF Cancel, Ends, AfterEditEnds, AtStopEnds, GateRecorded, Finish, copyVars, counts, stopVars, TreeInv
<1>19. CASE Resume
  BY <1>19 DEF Resume, copyVars, counts, stopVars, TreeInv
<1>20. CASE UNCHANGED vars
  BY <1>20 DEF vars, TreeInv
<1> QED
  BY <1>1, <1>2, <1>3, <1>4, <1>5, <1>6, <1>7, <1>8, <1>9, <1>10, <1>11, <1>12, <1>13, <1>14, <1>15, <1>16, <1>17, <1>18, <1>19, <1>20 DEF Next

(* A gate sees the tree it names: nothing of the turn writes while it runs.   *)
LEMMA RowsStep ==
  ASSUME TreeInv, RowsAreOfTheirTree, [Next]_vars
  PROVE  RowsAreOfTheirTree'
<1>1. CASE StartTurn
  BY <1>1 DEF StartTurn, copyVars, counts, stopVars, TreeInv, RowsAreOfTheirTree
<1>2. CASE StepBegins
  BY <1>2 DEF StepBegins, copyVars, counts, stopVars, TreeInv, RowsAreOfTheirTree
<1>3. CASE CutShort
  BY <1>3 DEF CutShort, Finish, copyVars, counts, stopVars, TreeInv, RowsAreOfTheirTree
<1>4. CASE ModelStops
  BY <1>4 DEF ModelStops, copyVars, counts, stopVars, TreeInv, RowsAreOfTheirTree
<1>5. ASSUME NEW k \in Edits \cup {"command"}, NEW t \in Trees, Writes(k, t) PROVE RowsAreOfTheirTree'
  BY <1>5 DEF Writes, MayCall, ChangeAhead, CallEnds, copyVars, counts, stopVars, TreeInv, RowsAreOfTheirTree
<1>6. ASSUME NEW t \in Trees, Elsewhere(t) PROVE RowsAreOfTheirTree'
  BY <1>6 DEF Elsewhere, copyVars, counts, stopVars, TreeInv, RowsAreOfTheirTree
<1>7. ASSUME NEW g \in Names, RunsGate(g) PROVE RowsAreOfTheirTree'
  BY <1>7 DEF RunsGate, MayCall, ChangeAhead, CallEnds, copyVars, counts, stopVars, TreeInv, RowsAreOfTheirTree
<1>8. ASSUME NEW k \in Names \cup {"edit"}, CallRefused(k) PROVE RowsAreOfTheirTree'
  BY <1>8 DEF CallRefused, MayCall, CallEnds, copyVars, counts, stopVars, TreeInv, RowsAreOfTheirTree
<1>9. CASE StepEnds
  BY <1>9 DEF StepEnds, Settle, copyVars, counts, stopVars, TreeInv, RowsAreOfTheirTree
<1>10. CASE RecordsDiagnostics
  BY <1>10 DEF RecordsDiagnostics, AfterHook, Edited, copyVars, counts, stopVars, TreeInv, RowsAreOfTheirTree, Row
<1>11. CASE RecordsOwnRun
  BY <1>11 DEF RecordsOwnRun, AfterHook, copyVars, counts, stopVars, TreeInv, RowsAreOfTheirTree, Row
<1>12. CASE RunsStatic
  BY <1>12 DEF RunsStatic, AfterHook, NeedsStatic, Runs, copyVars, counts, stopVars, TreeInv, RowsAreOfTheirTree, Row
<1>13. CASE RunsNothing
  BY <1>13 DEF RunsNothing, AfterHook, copyVars, counts, stopVars, TreeInv, RowsAreOfTheirTree
<1>14. CASE NextStep
  BY <1>14 DEF NextStep, Finish, copyVars, counts, stopVars, TreeInv, RowsAreOfTheirTree
<1>15. CASE StopLooks
  BY <1>15 DEF StopLooks, Runs, StopKnows, copyVars, counts, stopVars, TreeInv, RowsAreOfTheirTree
<1>16. CASE StopAllowed
  BY <1>16 DEF StopAllowed, Finish, copyVars, counts, stopVars, TreeInv, RowsAreOfTheirTree
<1>17. CASE GateEnds
  <2>1. gate.tree = tree /\ (~since /\ ~failed => copy = tree)
    BY <1>17 DEF GateEnds, TreeInv
  <2>2. \E status : rows' = rows \cup {Row(gate.name, gate.tree, status, copy, "harness")}
    BY <1>17 DEF GateEnds, Ends, AfterEditEnds, AtStopEnds, GateRecorded
  <2>3. PICK status : rows' = rows \cup {Row(gate.name, gate.tree, status, copy, "harness")}
    BY <2>2
  <2>4. ASSUME NEW r \in rows', r.status # "skipped", ~r.shared, r.by = "harness" PROVE r.saw = r.tree
    <3>1. CASE r \in rows
      BY <3>1, <2>4 DEF RowsAreOfTheirTree
    <3>2. CASE r = Row(gate.name, gate.tree, status, copy, "harness")
      BY <3>2, <2>4, <2>1, RowSays
    <3> QED BY <3>1, <3>2, <2>3
  <2> QED BY <2>4 DEF RowsAreOfTheirTree
<1>18. CASE Cancel
  BY <1>18 DEF Cancel, Ends, AfterEditEnds, AtStopEnds, GateRecorded, Finish, copyVars, counts, stopVars, TreeInv, RowsAreOfTheirTree, Row
<1>19. CASE Resume
  BY <1>19 DEF Resume, copyVars, counts, stopVars, TreeInv, RowsAreOfTheirTree
<1>20. CASE UNCHANGED vars
  BY <1>20 DEF vars, TreeInv, RowsAreOfTheirTree
<1> QED
  BY <1>1, <1>2, <1>3, <1>4, <1>5, <1>6, <1>7, <1>8, <1>9, <1>10, <1>11, <1>12, <1>13, <1>14, <1>15, <1>16, <1>17, <1>18, <1>19, <1>20 DEF Next

(* What passed on a tree stays so.                                            *)
LEMMA PassedStays ==
  ASSUME rows \subseteq rows'
  PROVE  \A t, tier : Passed(t, tier) => Passed(t, tier)'
BY DEF Passed

(* No row is taken back.                                                      *)
LEMMA RowsGrow ==
  ASSUME [Next]_vars
  PROVE  rows \subseteq rows'
<1>1. CASE StartTurn
  BY <1>1 DEF StartTurn, copyVars, counts, stopVars
<1>2. CASE StepBegins
  BY <1>2 DEF StepBegins, copyVars, counts, stopVars
<1>3. CASE CutShort
  BY <1>3 DEF CutShort, Finish, copyVars, counts, stopVars
<1>4. CASE ModelStops
  BY <1>4 DEF ModelStops, copyVars, counts, stopVars
<1>5. ASSUME NEW k \in Edits \cup {"command"}, NEW t \in Trees, Writes(k, t) PROVE rows \subseteq rows'
  BY <1>5 DEF Writes, MayCall, ChangeAhead, CallEnds, copyVars, counts, stopVars
<1>6. ASSUME NEW t \in Trees, Elsewhere(t) PROVE rows \subseteq rows'
  BY <1>6 DEF Elsewhere, copyVars, counts, stopVars
<1>7. ASSUME NEW g \in Names, RunsGate(g) PROVE rows \subseteq rows'
  BY <1>7 DEF RunsGate, MayCall, ChangeAhead, CallEnds, copyVars, counts, stopVars
<1>8. ASSUME NEW k \in Names \cup {"edit"}, CallRefused(k) PROVE rows \subseteq rows'
  BY <1>8 DEF CallRefused, MayCall, CallEnds, copyVars, counts, stopVars
<1>9. CASE StepEnds
  BY <1>9 DEF StepEnds, Settle, copyVars, counts, stopVars
<1>10. CASE RecordsDiagnostics
  BY <1>10 DEF RecordsDiagnostics, AfterHook, Edited, copyVars, counts, stopVars
<1>11. CASE RecordsOwnRun
  BY <1>11 DEF RecordsOwnRun, AfterHook, copyVars, counts, stopVars
<1>12. CASE RunsStatic
  BY <1>12 DEF RunsStatic, AfterHook, NeedsStatic, Runs, copyVars, counts, stopVars
<1>13. CASE RunsNothing
  BY <1>13 DEF RunsNothing, AfterHook, copyVars, counts, stopVars
<1>14. CASE NextStep
  BY <1>14 DEF NextStep, Finish, copyVars, counts, stopVars
<1>15. CASE StopLooks
  BY <1>15 DEF StopLooks, Runs, StopKnows, copyVars, counts, stopVars
<1>16. CASE StopAllowed
  BY <1>16 DEF StopAllowed, Finish, copyVars, counts, stopVars
<1>17. CASE GateEnds
  BY <1>17 DEF GateEnds, Ends, AfterEditEnds, AtStopEnds, GateRecorded, Finish, copyVars, counts, stopVars
<1>18. CASE Cancel
  BY <1>18 DEF Cancel, Ends, AfterEditEnds, AtStopEnds, GateRecorded, Finish, copyVars, counts, stopVars
<1>19. CASE Resume
  BY <1>19 DEF Resume, copyVars, counts, stopVars
<1>20. CASE UNCHANGED vars
  BY <1>20 DEF vars
<1> QED
  BY <1>1, <1>2, <1>3, <1>4, <1>5, <1>6, <1>7, <1>8, <1>9, <1>10, <1>11, <1>12, <1>13, <1>14, <1>15, <1>16, <1>17, <1>18, <1>19, <1>20 DEF Next

(* A turn ends with "ok", uncut, only by a stop that is allowed.              *)
OnlyStops == ended' = ended \/ ended'.how # "ok" \/ ended'.cut

(* Any step but an allowed stop ends no turn well.                            *)
LEMMA EndsStep ==
  ASSUME ~StopAllowed, [Next]_vars
  PROVE  OnlyStops
<1>1. CASE StartTurn
  BY <1>1 DEF StartTurn, copyVars, counts, stopVars, OnlyStops, NotEnded
<1>2. CASE StepBegins
  BY <1>2 DEF StepBegins, copyVars, counts, stopVars, OnlyStops
<1>3. CASE CutShort
  BY <1>3 DEF CutShort, Finish, copyVars, counts, stopVars, OnlyStops
<1>4. CASE ModelStops
  BY <1>4 DEF ModelStops, copyVars, counts, stopVars, OnlyStops
<1>5. ASSUME NEW k \in Edits \cup {"command"}, NEW t \in Trees, Writes(k, t) PROVE OnlyStops
  BY <1>5 DEF Writes, MayCall, ChangeAhead, CallEnds, copyVars, counts, stopVars, OnlyStops
<1>6. ASSUME NEW t \in Trees, Elsewhere(t) PROVE OnlyStops
  BY <1>6 DEF Elsewhere, copyVars, counts, stopVars, OnlyStops
<1>7. ASSUME NEW g \in Names, RunsGate(g) PROVE OnlyStops
  BY <1>7 DEF RunsGate, MayCall, ChangeAhead, CallEnds, copyVars, counts, stopVars, OnlyStops
<1>8. ASSUME NEW k \in Names \cup {"edit"}, CallRefused(k) PROVE OnlyStops
  BY <1>8 DEF CallRefused, MayCall, CallEnds, copyVars, counts, stopVars, OnlyStops
<1>9. CASE StepEnds
  BY <1>9 DEF StepEnds, Settle, copyVars, counts, stopVars, OnlyStops
<1>10. CASE RecordsDiagnostics
  BY <1>10 DEF RecordsDiagnostics, AfterHook, Edited, copyVars, counts, stopVars, OnlyStops
<1>11. CASE RecordsOwnRun
  BY <1>11 DEF RecordsOwnRun, AfterHook, copyVars, counts, stopVars, OnlyStops
<1>12. CASE RunsStatic
  BY <1>12 DEF RunsStatic, AfterHook, NeedsStatic, Runs, copyVars, counts, stopVars, OnlyStops
<1>13. CASE RunsNothing
  BY <1>13 DEF RunsNothing, AfterHook, copyVars, counts, stopVars, OnlyStops
<1>14. CASE NextStep
  BY <1>14 DEF NextStep, Finish, copyVars, counts, stopVars, OnlyStops
<1>15. CASE StopLooks
  BY <1>15 DEF StopLooks, Runs, StopKnows, copyVars, counts, stopVars, OnlyStops
<1>16. CASE StopAllowed
  BY <1>16 DEF StopAllowed, Finish, copyVars, counts, stopVars, OnlyStops
<1>17. CASE GateEnds
  BY <1>17 DEF GateEnds, Ends, AfterEditEnds, AtStopEnds, GateRecorded, Finish, copyVars, counts, stopVars, OnlyStops
<1>18. CASE Cancel
  BY <1>18 DEF Cancel, Ends, AfterEditEnds, AtStopEnds, GateRecorded, Finish, copyVars, counts, stopVars, OnlyStops
<1>19. CASE Resume
  BY <1>19 DEF Resume, copyVars, counts, stopVars, OnlyStops
<1>20. CASE UNCHANGED vars
  BY <1>20 DEF vars, OnlyStops
<1> QED
  BY <1>1, <1>2, <1>3, <1>4, <1>5, <1>6, <1>7, <1>8, <1>9, <1>10, <1>11, <1>12, <1>13, <1>14, <1>15, <1>16, <1>17, <1>18, <1>19, <1>20 DEF Next

(* A stop's gate that ends settles its tier, or the stop is over.             *)
LEMMA StopGateEnds ==
  ASSUME PartsInv, TreeInv, StopInv, NEW status \in {"passed", "failed", "skipped"}, AtStopEnds(status),
         UNCHANGED copyVars
  PROVE  StopInv'
<1>1. phase = "gate" /\ gate # NoGate /\ gate.why = "stop" /\ gate.tree = tree /\ tree' = tree /\ changed' = changed
  BY DEF AtStopEnds, TreeInv, copyVars
<1>2. next \in 1..2 /\ TierOf[gate.name] = Tiers[next] /\ \A i \in 1..2 : i < next /\ HasGate(Tiers[i]) => Settled(i)
  BY <1>1 DEF StopInv
<1>3. CASE phase' # "stop" /\ gate' = NoGate
  BY <1>3 DEF StopInv
<1>4. CASE /\ status # "failed" /\ phase' = "stop" /\ next' = next + 1 /\ gate' = NoGate
           /\ stopped' = [stopped EXCEPT ![Tiers[next]] = status] /\ GateRecorded(status)
  <2>1. ASSUME NEW i \in 1..2, i < next', HasGate(Tiers[i]) PROVE Settled(i)'
    <3>1. CASE i = next /\ status = "skipped"
      BY <1>2, <1>4, <3>1, TierNames DEF Settled, PartsInv, Looks
    <3>2. CASE i = next /\ status = "passed"
      <4>1. Row(gate.name, gate.tree, status, copy, "harness") \in rows'
        BY <1>4 DEF GateRecorded
      <4> QED BY <4>1, <1>1, <1>2, <3>2, RowSays DEF Settled, Passed
    <3>3. CASE i # next
      <4>1. i < next /\ Tiers[i] # Tiers[next] /\ Tiers[i] \in {"T1", "T2"}
        BY <1>2, <1>4, <2>1, <3>3, TierNames
      <4>2. stopped'[Tiers[i]] = stopped[Tiers[i]]
        BY <4>1, <1>4 DEF PartsInv, Looks
      <4>3. Settled(i)
        BY <4>1, <1>2, <2>1
      <4>4. rows \subseteq rows'
        BY <1>4 DEF GateRecorded
      <4> QED BY <4>2, <4>3, <4>4, <1>1 DEF Settled, Passed
    <3> QED BY <3>1, <3>2, <3>3, <1>4
  <2> QED BY <2>1, <1>4 DEF StopInv
<1> QED BY <1>3, <1>4 DEF AtStopEnds, Finish

(* What M5 has settled stays so while it looks further.                      *)
LEMMA StopStep ==
  ASSUME PartsInv, TreeInv, StopInv, [Next]_vars
  PROVE  StopInv'
<1>1. CASE StartTurn
  BY <1>1 DEF StartTurn, copyVars, counts, stopVars, TreeInv, StopInv, Settled, Passed
<1>2. CASE StepBegins
  BY <1>2 DEF StepBegins, copyVars, counts, stopVars, TreeInv, StopInv, Settled, Passed
<1>3. CASE CutShort
  BY <1>3 DEF CutShort, Finish, copyVars, counts, stopVars, TreeInv, StopInv, Settled, Passed
<1>4. CASE ModelStops
  BY <1>4 DEF ModelStops, copyVars, counts, stopVars, TreeInv, StopInv, Settled, Passed
<1>5. ASSUME NEW k \in Edits \cup {"command"}, NEW t \in Trees, Writes(k, t) PROVE StopInv'
  BY <1>5 DEF Writes, MayCall, ChangeAhead, CallEnds, copyVars, counts, stopVars, TreeInv, StopInv, Settled, Passed
<1>6. ASSUME NEW t \in Trees, Elsewhere(t) PROVE StopInv'
  BY <1>6 DEF Elsewhere, copyVars, counts, stopVars, TreeInv, StopInv, Settled, Passed
<1>7. ASSUME NEW g \in Names, RunsGate(g) PROVE StopInv'
  BY <1>7 DEF RunsGate, MayCall, ChangeAhead, CallEnds, copyVars, counts, stopVars, TreeInv, StopInv, Settled, Passed
<1>8. ASSUME NEW k \in Names \cup {"edit"}, CallRefused(k) PROVE StopInv'
  BY <1>8 DEF CallRefused, MayCall, CallEnds, copyVars, counts, stopVars, TreeInv, StopInv, Settled, Passed
<1>9. CASE StepEnds
  BY <1>9 DEF StepEnds, Settle, copyVars, counts, stopVars, TreeInv, StopInv, Settled, Passed
<1>10. CASE RecordsDiagnostics
  BY <1>10 DEF RecordsDiagnostics, AfterHook, Edited, copyVars, counts, stopVars, TreeInv, StopInv, Settled, Passed
<1>11. CASE RecordsOwnRun
  BY <1>11 DEF RecordsOwnRun, AfterHook, copyVars, counts, stopVars, TreeInv, StopInv, Settled, Passed
<1>12. CASE RunsStatic
  BY <1>12, GateIsSome DEF RunsStatic, AfterHook, NeedsStatic, Runs, copyVars, counts, stopVars, TreeInv, StopInv, Settled, Passed
<1>13. CASE RunsNothing
  BY <1>13 DEF RunsNothing, AfterHook, copyVars, counts, stopVars, TreeInv, StopInv, Settled, Passed
<1>14. CASE NextStep
  BY <1>14 DEF NextStep, Finish, copyVars, counts, stopVars, TreeInv, StopInv, Settled, Passed
<1>15. CASE StopLooks
  <2>1. rows' = rows /\ tree' = tree /\ changed' = changed /\ next \in 1..2 /\ changed /\ phase = "stop" /\ gate = NoGate
    BY <1>15, TierNames DEF StopLooks, copyVars, PartsInv, TreeInv
  <2>2. \A i \in 1..2 : i < next /\ HasGate(Tiers[i]) => Settled(i)
    BY <2>1 DEF StopInv
  <2>3. CASE ~HasGate(Tiers[next]) /\ next' = next + 1 /\ UNCHANGED <<stopped, phase, gate>>
    BY <2>1, <2>2, <2>3 DEF StopInv, Settled, Passed
  <2>4. CASE Passed(tree, Tiers[next]) /\ next' = next + 1 /\ stopped' = [stopped EXCEPT ![Tiers[next]] = "known"]
             /\ UNCHANGED <<phase, gate>>
    <3>1. ASSUME NEW i \in 1..2, i < next', HasGate(Tiers[i]) PROVE Settled(i)'
      <4>1. CASE i = next
        BY <2>1, <2>4, <4>1 DEF Settled, Passed
      <4>2. CASE i # next
        <5>1. i < next /\ Tiers[i] # Tiers[next]
          BY <2>1, <2>4, <3>1, <4>2, TierNames
        <5>2. stopped'[Tiers[i]] = stopped[Tiers[i]]
          BY <5>1, <2>4, <2>1, TierNames DEF PartsInv, Looks
        <5> QED BY <5>1, <5>2, <3>1, <2>1, <2>2 DEF Settled, Passed
      <4> QED BY <4>1, <4>2
    <3> QED BY <3>1, <2>1, <2>4 DEF StopInv
  <2>5. CASE HasGate(Tiers[next]) /\ Runs(First(Tiers[next]), "stop") /\ UNCHANGED <<next, stopped>>
    <3>1. TierOf[First(Tiers[next])] = Tiers[next]
      BY <2>5, FirstIsOfTier
    <3>2. gate'.name = First(Tiers[next]) /\ phase' = "gate"
      BY <2>5 DEF Runs
    <3> QED BY <2>1, <2>2, <2>5, <3>1, <3>2 DEF StopInv, Settled, Passed
  <2> QED BY <1>15, <2>3, <2>4, <2>5 DEF StopLooks, StopKnows
<1>16. CASE StopAllowed
  BY <1>16 DEF StopAllowed, Finish, copyVars, counts, stopVars, TreeInv, StopInv, Settled, Passed
<1>17. CASE GateEnds
  <2>1. CASE \E status : AfterEditEnds(status)
    BY <2>1 DEF AfterEditEnds, StopInv
  <2>2. ASSUME NEW status \in {"passed", "failed", "skipped"}, AtStopEnds(status), UNCHANGED copyVars PROVE StopInv'
    BY <2>2, StopGateEnds
  <2> QED BY <1>17, <2>1, <2>2, VerdictType DEF GateEnds, Ends
<1>18. CASE Cancel
  <2>1. CASE phase = "gate" /\ AfterEditEnds("skipped")
    BY <2>1 DEF AfterEditEnds, StopInv
  <2>2. CASE phase = "gate" /\ AtStopEnds("skipped")
    BY <1>18, <2>2, StopGateEnds DEF Cancel
  <2>3. CASE phase # "gate"
    BY <1>18, <2>3 DEF Cancel, copyVars, stopVars, StopInv, Settled, Passed
  <2> QED BY <1>18, <2>1, <2>2, <2>3 DEF Cancel, Ends
<1>19. CASE Resume
  BY <1>19 DEF Resume, copyVars, counts, stopVars, TreeInv, StopInv, Settled, Passed
<1>20. CASE UNCHANGED vars
  BY <1>20 DEF vars, TreeInv, StopInv, Settled, Passed
<1> QED
  BY <1>1, <1>2, <1>3, <1>4, <1>5, <1>6, <1>7, <1>8, <1>9, <1>10, <1>11, <1>12, <1>13, <1>14, <1>15, <1>16, <1>17, <1>18, <1>19, <1>20 DEF Next

(* A turn that ends well on a changed copy has looked at every tier.          *)
LEMMA DoneStep ==
  ASSUME PartsInv, TreeInv, StopInv, DoneIsChecked, [Next]_vars
  PROVE  DoneIsChecked'
<1>1. rows \subseteq rows'
  BY RowsGrow
<1>2. CASE OnlyStops
  <2>1. CASE ended' = ended
    BY <1>1, <2>1, PassedStays DEF DoneIsChecked, Passed
  <2>2. CASE ended'.how # "ok" \/ ended'.cut
    BY <2>2 DEF DoneIsChecked
  <2> QED BY <1>2, <2>1, <2>2 DEF OnlyStops
<1>3. CASE StopAllowed
  <2>1. CASE ended' = ended
    BY <1>1, <2>1, PassedStays DEF DoneIsChecked, Passed
  <2>2. CASE Finish("ok")
    <3>1. ended'.how = "ok" /\ ended'.tree = tree /\ ended'.changed = changed /\ ended'.stopped = stopped
      BY <2>2 DEF Finish
    <3>2. changed => \A i \in 1..2 : HasGate(Tiers[i]) => Settled(i)
      BY <1>3, TierNames DEF StopAllowed, StopInv, PartsInv
    <3>3. ASSUME changed, NEW i \in 1..2, HasGate(Tiers[i])
          PROVE  (Passed(ended.tree, Tiers[i]) \/ ended.stopped[Tiers[i]] = "skipped")'
      BY <1>1, <3>1, <3>2, <3>3 DEF Settled, Passed
    <3>4. ended'.changed => \A i \in 1..2 : HasGate(Tiers[i]) => (Passed(ended.tree, Tiers[i]) \/ ended.stopped[Tiers[i]] = "skipped")'
      BY <3>1, <3>3
    <3> QED BY <3>4, TierNames DEF DoneIsChecked
  <2> QED BY <1>3, <2>1, <2>2 DEF StopAllowed
<1> QED BY <1>2, <1>3, EndsStep

-----------------------------------------------------------------------------
(* The invariant holds at first.                                              *)
LEMMA Begins == Init => IInv
<1> SUFFICES ASSUME Init PROVE IInv
  OBVIOUS
<1>1. PartsInv
  BY DEF Init, PartsInv, Looks, Unlooked, Statuses
<1>2. TreeInv /\ StopInv
  BY DEF Init, TreeInv, StopInv
<1>3. RowsAreOfTheirTree /\ DoneIsChecked
  BY DEF Init, RowsAreOfTheirTree, DoneIsChecked, NotEnded
<1> QED BY <1>1, <1>2, <1>3 DEF IInv

(* Every step keeps the invariant.                                            *)
LEMMA Inductive == IInv /\ [Next]_vars => IInv'
BY PartsStep, TreeStep, StopStep, RowsStep, DoneStep DEF IInv

(* The inductive invariant: rows are true of the tree, and M5 looks in order. *)
THEOREM Invariant == Spec => []IInv
<1>1. Init => IInv
  BY Begins
<1>2. IInv /\ [Next]_vars => IInv'
  BY Inductive
<1> QED BY <1>1, <1>2, PTL DEF Spec

(* Every row of the harness's says what its gate found on the tree it names.  *)
THEOREM RowsHold == Spec => []RowsAreOfTheirTree
<1>1. IInv => RowsAreOfTheirTree
  BY DEF IInv
<1> QED BY <1>1, Invariant, PTL

(* A turn ends well on a changed copy only with every tier's row or a no.     *)
THEOREM DoneHolds == Spec => []DoneIsChecked
<1>1. IInv => DoneIsChecked
  BY DEF IInv
<1> QED BY <1>1, Invariant, PTL

-----------------------------------------------------------------------------
(* Types.                                                                     *)

LEMMA RowIsOfType ==
  ASSUME NEW g \in Names, NEW t \in Trees, NEW status \in Statuses, NEW saw \in TreesOrNone, NEW by \in {"model", "harness"}
  PROVE  Row(g, t, status, saw, by) \in Rows
<1>1. (status # "skipped" /\ (since \/ failed)) \in BOOLEAN
  OBVIOUS
<1>2. TierOf[g] \in {"T0", "T1", "T2"}
  OBVIOUS
<1>3. (IF status = "skipped" THEN NoTree ELSE saw) \in TreesOrNone
  BY DEF TreesOrNone
<1>4. QED
  BY <1>1, <1>2, <1>3 DEF Row, Rows

LEMMA FinishIsOfType ==
  ASSUME TypeOK, NEW how \in Outcomes, Finish(how)
  PROVE  /\ phase' = "idle" /\ ended' \in Endings /\ calls' \in Seq(Calls) /\ next' \in Nat \ {0}
         /\ gate' = NoGate /\ stopped' \in Looks
<1>1. (since \/ failed) \in BOOLEAN
  BY DEF TypeOK
<1>2. ended' \in Endings
  BY <1>1 DEF Finish, TypeOK, Endings
<1>3. Unlooked \in Looks
  BY DEF Unlooked, Looks
<1>4. QED
  BY <1>2, <1>3 DEF Finish

(* A call that ended is one of the step's.                                    *)
LEMMA CallIsOfType ==
  ASSUME TypeOK, NEW call \in Calls, CallEnds(call)
  PROVE  calls' \in Seq(Calls)
BY DEF TypeOK, CallEnds

LEMMA GateEndsOfType ==
  ASSUME TypeOK, NEW status \in Statuses, phase = "gate" => gate \in [name : Names, tree : Trees, why : {"edit", "stop"}],
         Ends(status), next \in 1..2 \/ gate.why # "stop", UNCHANGED copyVars
  PROVE  /\ phase' \in {"idle", "model", "after", "stop"} /\ gate' = NoGate /\ rows' \subseteq Rows
         /\ next' \in Nat \ {0} /\ stopped' \in Looks /\ denials' \in Nat
         /\ ended' \in {NotEnded} \cup Endings /\ calls' \in Seq(Calls)
<1>1. gate.name \in Names /\ gate.tree \in Trees
  BY DEF Ends, AfterEditEnds, AtStopEnds
<1>2. Row(gate.name, gate.tree, status, copy, "harness") \in Rows
  BY <1>1, RowIsOfType DEF TypeOK, TreesOrNone
<1>3. GateRecorded(status) => rows' \subseteq Rows
  BY <1>2 DEF GateRecorded, TypeOK
<1>4. CASE AfterEditEnds(status)
  BY <1>3, <1>4 DEF AfterEditEnds, stopVars, TypeOK
<1>5. CASE AtStopEnds(status)
  <2>1. rows' \subseteq Rows
    BY <1>3, <1>5 DEF AtStopEnds
  <2>2. CASE status # "failed" /\ phase' = "stop" /\ next' = next + 1 /\ gate' = NoGate
             /\ stopped' = [stopped EXCEPT ![Tiers[next]] = status] /\ UNCHANGED <<denials, ended, calls>>
    <3>1. stopped' \in Looks
      BY <2>2 DEF TypeOK, Looks, Statuses
    <3>2. QED
      BY <2>1, <2>2, <3>1 DEF TypeOK
  <2>3. CASE denials' = denials + 1 /\ aborted /\ Finish("ok")
    BY <2>1, <2>3, FinishIsOfType DEF Outcomes, TypeOK
  <2>4. CASE denials' = denials + 1 /\ phase' = "model" /\ gate' = NoGate /\ next' = 1 /\ UNCHANGED <<stopped, ended, calls>>
    BY <2>1, <2>4 DEF TypeOK
  <2>5. CASE Finish("warned") /\ UNCHANGED denials
    BY <2>1, <2>5, FinishIsOfType DEF Outcomes, TypeOK
  <2>6. QED
    BY <1>5, <2>2, <2>3, <2>4, <2>5 DEF AtStopEnds
<1>6. QED
  BY <1>4, <1>5 DEF Ends

(* A gate that the harness starts is one of the project's, on a tree.         *)
LEMMA StartIsOfType ==
  ASSUME TypeOK, tree # NoTree, NEW tier, HasGate(tier), NEW why \in {"edit", "stop"}, Runs(First(tier), why)
  PROVE  phase' = "gate" /\ gate' \in {NoGate} \cup [name : Names, tree : Trees, why : {"edit", "stop"}]
<1>1. First(tier) \in Names /\ tree \in Trees
  BY FirstIsOfTier DEF TypeOK, TreesOrNone
<1>2. QED
  BY <1>1 DEF Runs

LEMMA TypeStep ==
  ASSUME TypeOK, TreeInv, StopInv, [Next]_vars
  PROVE  TypeOK'
<1> USE DEF copyVars, counts, stopVars
<1>1. CASE StartTurn
  <2>1. changed' \in BOOLEAN /\ aborted' \in BOOLEAN /\ failed' \in BOOLEAN /\ since' \in BOOLEAN
    BY <1>1, Zenon DEF StartTurn, TypeOK
  <2>2. QED
    BY <1>1, <2>1 DEF StartTurn, TypeOK
<1>2. CASE StepBegins
  BY <1>2 DEF StepBegins, TypeOK
<1>3. CASE CutShort
  <2>1. PICK how \in Outcomes : Finish(how)
    BY <1>3 DEF CutShort, Outcomes
  <2>2. QED
    BY <1>3, <2>1, FinishIsOfType DEF CutShort, TypeOK
<1>4. CASE ModelStops
  <2>1. Unlooked \in Looks
    BY DEF Unlooked, Looks
  <2>2. QED
    BY <1>4, <2>1 DEF ModelStops, TypeOK
<1>5. ASSUME NEW k \in Edits \cup {"command"}, NEW t \in Trees, Writes(k, t) PROVE TypeOK'
  <2>1. [kind |-> k, status |-> "passed", saw |-> NoTree] \in Calls
    BY DEF Calls, Statuses, TreesOrNone
  <2>2. calls' \in Seq(Calls)
    BY <1>5, <2>1, CallIsOfType DEF Writes
  <2>3. taken' \in TreesOrNone /\ failed' \in BOOLEAN
    <3>1. CASE UNCHANGED <<taken, failed>>
      BY <3>1 DEF TypeOK
    <3>2. CASE taken' = copy /\ UNCHANGED failed
      BY <3>2 DEF TypeOK, TreesOrNone
    <3>3. CASE failed' = TRUE /\ UNCHANGED taken
      BY <3>3, Zenon DEF TypeOK
    <3>4. QED
      BY <1>5, <3>1, <3>2, <3>3 DEF Writes, ChangeAhead
  <2>4. QED
    BY <1>5, <2>2, <2>3 DEF Writes, TypeOK
<1>6. ASSUME NEW t \in Trees, Elsewhere(t) PROVE TypeOK'
  BY <1>6 DEF Elsewhere, TypeOK
<1>7. ASSUME NEW g \in Names, RunsGate(g) PROVE TypeOK'
  <2>1. [kind |-> g, status |-> Verdict(g, copy), saw |-> copy] \in Calls
    BY VerdictType DEF Calls, Statuses, TreesOrNone, TypeOK
  <2>2. calls' \in Seq(Calls)
    BY <1>7, <2>1, CallIsOfType DEF RunsGate
  <2>3. taken' \in TreesOrNone /\ failed' \in BOOLEAN
    <3>1. CASE UNCHANGED <<taken, failed>>
      BY <3>1 DEF TypeOK
    <3>2. CASE taken' = copy /\ UNCHANGED failed
      BY <3>2 DEF TypeOK, TreesOrNone
    <3>3. CASE failed' = TRUE /\ UNCHANGED taken
      BY <3>3, Zenon DEF TypeOK
    <3>4. QED
      BY <1>7, <3>1, <3>2, <3>3 DEF RunsGate, ChangeAhead
  <2>4. QED
    BY <1>7, <2>2, <2>3 DEF RunsGate, TypeOK
<1>8. ASSUME NEW k \in Names \cup {"edit"}, CallRefused(k) PROVE TypeOK'
  <2>1. [kind |-> k, status |-> "skipped", saw |-> NoTree] \in Calls
    BY DEF Calls, Statuses, TreesOrNone
  <2>2. calls' \in Seq(Calls)
    BY <1>8, <2>1, CallIsOfType DEF CallRefused
  <2>3. QED
    BY <1>8, <2>2 DEF CallRefused, TypeOK
<1>9. CASE StepEnds
  <2>1. CASE UNCHANGED <<tree, changed, failed, since>>
    BY <1>9, <2>1 DEF StepEnds, TypeOK, TreesOrNone
  <2>2. CASE tree' = copy /\ changed' = TRUE /\ since' = FALSE /\ UNCHANGED failed
    <3>1. changed' \in BOOLEAN /\ failed' \in BOOLEAN /\ since' \in BOOLEAN
      BY <2>2, Zenon DEF TypeOK
    <3>2. QED
      BY <1>9, <2>2, <3>1 DEF StepEnds, TypeOK, TreesOrNone
  <2>3. CASE failed' = TRUE /\ UNCHANGED <<tree, changed, since>>
    <3>1. failed' \in BOOLEAN
      BY <2>3, Zenon
    <3>2. QED
      BY <1>9, <2>3, <3>1 DEF StepEnds, TypeOK, TreesOrNone
  <2>4. QED
    BY <1>9, <2>1, <2>2, <2>3 DEF StepEnds, Settle
<1>10. CASE RecordsDiagnostics
  <2>1. [tier |-> "T0", name |-> "lsp", tree |-> tree, status |-> "passed", saw |-> NoTree, by |-> "server", shared |-> FALSE] \in Rows
    <3>1. tree \in Trees /\ NoTree \in TreesOrNone /\ "passed" \in Statuses
      BY <1>10 DEF RecordsDiagnostics, TypeOK, TreesOrNone, Statuses
    <3>2. FALSE \in BOOLEAN /\ "lsp" \in Names \cup {"lsp"}
      OBVIOUS
    <3>3. QED
      BY <3>1, <3>2, Zenon DEF Rows
  <2>2. rows' \subseteq Rows
    BY <1>10, <2>1, Zenon DEF RecordsDiagnostics, TypeOK
  <2>3. next' \in Nat \ {0}
    BY <1>10 DEF RecordsDiagnostics, TypeOK
  <2>4. UNCHANGED <<copy, tree, changed, failed, taken, since, phase, calls, gate, denials, stopped, ended, aborted,
                    turns, steps, worked, elsewhere>>
    BY <1>10, Zenon DEF RecordsDiagnostics
  <2>5. QED
    BY <2>2, <2>3, <2>4 DEF TypeOK
<1>11. CASE RecordsOwnRun
  <2>1. calls[next] \in Calls
    BY <1>11 DEF RecordsOwnRun, AfterHook, TypeOK
  <2>2. Row(calls[next].kind, tree, calls[next].status, calls[next].saw, "model") \in Rows
    BY <1>11, <2>1, RowIsOfType DEF RecordsOwnRun, TypeOK, TreesOrNone, Calls
  <2>3. QED
    BY <1>11, <2>2 DEF RecordsOwnRun, TypeOK
<1>12. CASE RunsStatic
  <2>1. tree # NoTree /\ HasGate("T1") /\ tree \in Trees /\ First("T1") \in Names
    BY <1>12, FirstIsOfTier DEF RunsStatic, NeedsStatic, TypeOK, TreesOrNone
  <2>2. CASE rows' = rows \cup {Row(First("T1"), tree, "skipped", NoTree, "harness")} /\ UNCHANGED <<phase, gate>>
    <3>1. Row(First("T1"), tree, "skipped", NoTree, "harness") \in Rows
      BY <2>1, RowIsOfType DEF Statuses, TreesOrNone
    <3>2. QED
      BY <1>12, <2>2, <3>1 DEF RunsStatic, TypeOK
  <2>3. CASE Runs(First("T1"), "edit") /\ UNCHANGED rows
    <3>1. phase' = "gate" /\ gate' \in {NoGate} \cup [name : Names, tree : Trees, why : {"edit", "stop"}]
      BY <2>1, <2>3, StartIsOfType
    <3>2. QED
      BY <1>12, <2>3, <3>1 DEF RunsStatic, TypeOK
  <2>4. QED
    BY <1>12, <2>2, <2>3 DEF RunsStatic
<1>13. CASE RunsNothing
  BY <1>13 DEF RunsNothing, TypeOK
<1>14. CASE NextStep
  <2>1. ASSUME NEW how \in Outcomes, Finish(how) PROVE TypeOK'
    BY <1>14, <2>1, FinishIsOfType DEF NextStep, TypeOK
  <2>2. CASE phase' = "model" /\ calls' = <<>> /\ next' = 1 /\ UNCHANGED <<ended, gate, stopped>>
    BY <1>14, <2>2 DEF NextStep, TypeOK
  <2>3. QED
    BY <1>14, <2>1, <2>2 DEF NextStep, Outcomes
<1>15. CASE StopLooks
  <2>1. tree # NoTree
    BY <1>15 DEF StopLooks, TreeInv
  <2>2. CASE Runs(First(Tiers[next]), "stop") /\ HasGate(Tiers[next]) /\ UNCHANGED <<next, stopped>>
    <3>1. phase' = "gate" /\ gate' \in {NoGate} \cup [name : Names, tree : Trees, why : {"edit", "stop"}]
      BY <2>1, <2>2, StartIsOfType
    <3>2. QED
      BY <1>15, <2>2, <3>1 DEF StopLooks, TypeOK
  <2>3. CASE next' = next + 1 /\ stopped' = [stopped EXCEPT ![Tiers[next]] = "known"] /\ UNCHANGED <<phase, gate>>
    <3>1. stopped' \in Looks
      BY <2>3 DEF TypeOK, Looks
    <3>2. QED
      BY <1>15, <2>3, <3>1 DEF StopLooks, TypeOK
  <2>4. CASE next' = next + 1 /\ UNCHANGED <<stopped, phase, gate>>
    BY <1>15, <2>4 DEF StopLooks, TypeOK
  <2>5. QED
    BY <1>15, <2>2, <2>3, <2>4 DEF StopLooks
<1>16. CASE StopAllowed
  <2>1. CASE Finish("ok")
    BY <1>16, <2>1, FinishIsOfType DEF StopAllowed, TypeOK, Outcomes
  <2>2. CASE phase' = "model" /\ next' = 1 /\ UNCHANGED <<calls, gate, stopped, ended>>
    BY <1>16, <2>2 DEF StopAllowed, TypeOK
  <2>3. QED
    BY <1>16, <2>1, <2>2 DEF StopAllowed
<1>17. phase = "gate" => gate \in [name : Names, tree : Trees, why : {"edit", "stop"}] /\ (next \in 1..2 \/ gate.why # "stop")
  BY DEF TypeOK, TreeInv, StopInv
<1>18. CASE GateEnds
  <2>1. PICK status \in Statuses : Ends(status)
    BY <1>18, VerdictType DEF GateEnds, Statuses
  <2>2. QED
    BY <1>17, <1>18, <2>1, GateEndsOfType DEF GateEnds, TypeOK
<1>19. CASE Cancel
  <2>1. CASE phase = "gate"
    BY <1>17, <1>19, <2>1, GateEndsOfType DEF Cancel, TypeOK, Statuses
  <2>2. CASE phase # "gate"
    BY <1>19, <2>2 DEF Cancel, TypeOK
  <2>3. QED
    BY <2>1, <2>2
<1>20. CASE Resume
  BY <1>20 DEF Resume, TypeOK, TreesOrNone
<1>21. CASE UNCHANGED vars
  BY <1>21 DEF vars, TypeOK
<1> QED
  BY <1>1, <1>2, <1>3, <1>4, <1>5, <1>6, <1>7, <1>8, <1>9, <1>10, <1>11, <1>12, <1>13, <1>14, <1>15, <1>16, <1>18, <1>19, <1>20, <1>21 DEF Next

(* Every value has its type, for any gates, trees and limits.                 *)
THEOREM TypeCorrect == Spec => []TypeOK
<1>1. ASSUME Init PROVE TypeOK
  <2>1. changed \in BOOLEAN /\ failed \in BOOLEAN /\ aborted \in BOOLEAN /\ since \in BOOLEAN
    BY <1>1, Zenon DEF Init
  <2>2. stopped \in Looks
    BY <1>1 DEF Init, Unlooked, Looks
  <2>3. QED
    BY <1>1, <2>1, <2>2 DEF Init, TypeOK, TreesOrNone
<1>2. TypeOK /\ IInv /\ [Next]_vars => TypeOK'
  BY TypeStep DEF IInv
<1>3. QED
  BY <1>1, <1>2, Invariant, PTL DEF Spec
-----------------------------------------------------------------------------
HIDE VerificationAssumption

-----------------------------------------------------------------------------
(* What a person agrees to of a plugin (Plugins): for any releases, and any  *)
(* processes that install, remove and load it side by side, what a session   *)
(* loads is of permissions the person agreed to, or an entry of the          *)
(* repository's which an install took to be agreed to.                       *)

CONSTANTS Procs, Releases, MaxRuns
VARIABLES lock, consent, dirs, run, agreed, loaded, runs, assumed

Plug == INSTANCE Plugins

Entries == [is : {"entry"}, release : Releases, enabled : BOOLEAN, why : {"none", "integrity"}, by : {"jamcli", "repo"}]
Points == {"idle", "asking", "storing", "copying", "copied", "recording", "consenting", "granting", "cleaning", "writing",
           "removing", "forgetting", "dropping", "deleting", "verifying", "turning off", "loading"}
Consents == [scope : Plug!Scopes, release : Releases]
Doings == [at : Points, scope : Plug!Scopes, release : Releases \cup {Plug!Nothing}, before : Entries \cup {Plug!Nothing},
           kept : SUBSET Consents, calm : BOOLEAN]

(* What the lockfiles and the processes are, of a kind.                       *)
PluginTyped ==
  /\ lock \in [Plug!Scopes -> Entries \cup {Plug!Nothing, Plug!Newer}]
  /\ consent \subseteq Consents
  /\ run \in [Procs -> Doings]

(* The person agreed, for the scope, to all that the release may reach, or    *)
(* was taken to.                                                              *)
AgreedTo(s, r) == \E a \in agreed \cup assumed : a.scope = s /\ r.perms \subseteq a.perms
OfConsent(s, e) == e.by = "jamcli" => AgreedTo(s, e.release)
Granted(C) == \A c \in C : AgreedTo(c.scope, c.release)

Stored == {"storing", "copying", "copied", "recording", "consenting", "granting", "cleaning"}

(* What an install is about to record, an entry of JamCLI's that waits to be  *)
(* written back, and the consents that do, are of what was agreed to; so is   *)
(* what a lockfile has of JamCLI's, and what the consents on file are.        *)
DoesAgreed(d) ==
  /\ d.at \in Stored \cup {"asking"} => d.release \in Releases
  /\ d.at \in Stored => AgreedTo(d.scope, d.release)
  /\ d.at \in {"writing", "turning off"} => d.before \in Entries /\ OfConsent(d.scope, d.before)
  /\ Granted(d.kept)
EntriesAgreed ==
  /\ \A s \in Plug!Scopes : lock[s] \in Entries => OfConsent(s, lock[s])
  /\ Granted(consent)
  /\ \A p \in Procs : DoesAgreed(run[p])

(* A start nobody wrote under has found, of the scopes behind it, none with   *)
(* files that are not its entry's.                                            *)
Fine(s) == ~ Plug!Spoiled(Plug!ReadLock(s))
Looked(d) ==
  d.calm =>
    /\ d.at \in {"verifying", "turning off"} /\ d.scope = "project" => Fine("user")
    /\ d.at = "turning off" => ~ d.before.enabled
    /\ d.at = "loading" => Fine("user") /\ Fine("project")

PluginInv == PluginTyped /\ EntriesAgreed /\ (\A p \in Procs : Looked(run[p])) /\ Plug!LoadsAgreed

(* Nothing is installed, and every process is idle.                           *)
LEMMA NoneInstalledInv == Plug!Init => PluginInv
<1> SUFFICES ASSUME Plug!Init PROVE PluginInv
  OBVIOUS
<1>1. Plug!Nothing \notin Entries
  BY DEF Plug!Nothing, Entries
<1>2. Plug!Idle \in Doings /\ Plug!Idle.at = "idle" /\ Plug!Idle.kept = {}
  BY DEF Plug!Idle, Doings, Plug!Scopes, Points
<1>3. PluginTyped
  BY <1>2 DEF Plug!Init, PluginTyped
<1>4. EntriesAgreed
  BY <1>1, <1>2 DEF Plug!Init, EntriesAgreed, DoesAgreed, Stored, Granted
<1>5. \A p \in Procs : Looked(run[p])
  BY <1>2 DEF Plug!Init, Looked
<1>6. QED
  BY <1>3, <1>4, <1>5 DEF Plug!Init, PluginInv, Plug!LoadsAgreed

(* A step of one process: the others do what they did, under a change.        *)
LEMMA OneSteps == ASSUME PluginTyped, NEW p \in Procs, NEW then \in Doings, Plug!Step(p, then)
                  PROVE  /\ run' \in [Procs -> Doings] /\ run'[p] = then
                         /\ \A q \in Procs \ {p} : /\ run'[q].at = run[q].at /\ run'[q].scope = run[q].scope
                                                   /\ run'[q].release = run[q].release
                                                   /\ run'[q].before = run[q].before /\ run'[q].kept = run[q].kept
                                                   /\ ~ run'[q].calm
<1>1. \A q \in Procs : run[q] \in Doings
  BY DEF PluginTyped
<1>2. \A q \in Procs : [run[q] EXCEPT !.calm = FALSE] \in Doings
  BY <1>1 DEF Doings
<1>3. QED
  BY <1>1, <1>2 DEF Plug!Step, Doings

(* A step of one process that records only what was agreed to.                *)
LEMMA StepInv == ASSUME PluginInv, NEW p \in Procs, NEW then \in Doings, Plug!Step(p, then), agreed \subseteq agreed',
                        assumed \subseteq assumed', UNCHANGED consent \/ (consent \subseteq Consents /\ Granted(consent))',
                        lock' \in [Plug!Scopes -> Entries \cup {Plug!Nothing, Plug!Newer}],
                        \A s \in Plug!Scopes : lock'[s] \in {lock[s], Plug!Nothing} \/ OfConsent(s, lock'[s]),
                        DoesAgreed(then)', Looked(then)', UNCHANGED loaded \/ Plug!LoadsAgreed'
                 PROVE  PluginInv'
<1>1. /\ run' \in [Procs -> Doings] /\ run'[p] = then
      /\ \A q \in Procs \ {p} : /\ run'[q].at = run[q].at /\ run'[q].scope = run[q].scope
                                /\ run'[q].release = run[q].release
                                /\ run'[q].before = run[q].before /\ run'[q].kept = run[q].kept
                                /\ ~ run'[q].calm
  BY OneSteps DEF PluginInv
<1>2. /\ \A s, r : AgreedTo(s, r) => AgreedTo(s, r)'
      /\ \A s, e : OfConsent(s, e) => OfConsent(s, e)'
      /\ \A C : Granted(C) => Granted(C)'
  BY DEF AgreedTo, OfConsent, Granted
<1>3. \A q \in Procs : DoesAgreed(run[q])
  BY DEF PluginInv, EntriesAgreed
<1>4. \A q \in Procs : DoesAgreed(run[q])'
  <2>1. ASSUME NEW q \in Procs \ {p} PROVE DoesAgreed(run[q])'
    BY <1>1, <1>2, <1>3 DEF DoesAgreed
  <2>2. QED
    BY <1>1, <2>1
<1>5. (\A s \in Plug!Scopes : lock[s] \in Entries => OfConsent(s, lock[s]))'
  BY <1>2 DEF PluginInv, EntriesAgreed, Plug!Nothing, Entries
<1>9. (consent \subseteq Consents /\ Granted(consent))'
  BY <1>2 DEF PluginInv, EntriesAgreed, PluginTyped
<1>6. \A q \in Procs : Looked(run[q])'
  BY <1>1 DEF Looked
<1>7. Plug!LoadsAgreed'
  BY DEF PluginInv, Plug!LoadsAgreed
<1>8. QED
  BY <1>1, <1>4, <1>5, <1>6, <1>7, <1>9 DEF PluginInv, PluginTyped, EntriesAgreed

(* What a lockfile reads as.                                                  *)
LEMMA ReadIs == ASSUME PluginTyped, EntriesAgreed
                PROVE  /\ Plug!Found \in Plug!Scopes
                       /\ \A s \in Plug!Scopes : /\ Plug!ReadLock(s) \in Entries \cup {Plug!Nothing}
                                                 /\ Plug!ReadLock(s) # Plug!Nothing =>
                                                      /\ Plug!ReadLock(s) = lock[s] /\ lock[s] # Plug!Newer /\ lock[s] \in Entries
                                                      /\ OfConsent(s, Plug!ReadLock(s))
<1>1. Plug!Found \in Plug!Scopes
  BY DEF Plug!Found, Plug!Scopes
<1>2. \A s \in Plug!Scopes : lock[s] \in Entries \cup {Plug!Nothing, Plug!Newer}
  BY DEF PluginTyped
<1>3. QED
  BY <1>1, <1>2 DEF Plug!ReadLock, EntriesAgreed

(* What a process does, of its kind.                                          *)
LEMMA DoingIs == ASSUME PluginInv, NEW p \in Procs
                 PROVE  /\ PluginTyped /\ EntriesAgreed /\ run[p] \in Doings /\ DoesAgreed(run[p]) /\ Looked(run[p])
                        /\ lock \in [Plug!Scopes -> Entries \cup {Plug!Nothing, Plug!Newer}]
BY DEF PluginInv, PluginTyped, EntriesAgreed

(* What an idle process is.                                                   *)
LEMMA IdleIs == /\ Plug!Idle \in Doings /\ Plug!Idle.at = "idle" /\ Plug!Idle.calm /\ Plug!Idle.scope = "user"
                /\ Plug!Idle.release = Plug!Nothing /\ Plug!Idle.before = Plug!Nothing /\ Plug!Idle.kept = {}
BY DEF Plug!Idle, Doings, Plug!Scopes, Points

(* What only waits, or is over, has nothing to keep.                          *)
LEMMA Rests == ASSUME NEW d, d.at \in {"idle", "removing", "forgetting", "dropping", "deleting"}, d.kept = {} \/ Granted(d.kept)'
               PROVE  DoesAgreed(d)' /\ Looked(d)'
BY DEF DoesAgreed, Looked, Stored, Granted
LEMMA NoneGranted == Granted({}) /\ Granted({})'
BY DEF Granted

(* An install begins: its release is not agreed to until it asks.             *)
LEMMA FetchesInv == ASSUME PluginInv, NEW p \in Procs, NEW s \in Plug!Scopes, NEW r \in Releases, Plug!Fetches(p, s, r)
                    PROVE  PluginInv'
<1> DEFINE before == Plug!ReadLock(s)
           then == [Plug!Idle EXCEPT !.at = IF Plug!Widened(before, r) THEN "asking" ELSE "storing",
                                     !.scope = s, !.release = r, !.before = before]
<1>1. /\ Plug!Step(p, then) /\ UNCHANGED <<lock, consent, agreed, loaded>>
      /\ assumed' = assumed \cup Plug!Assumed(s, before, r)
  BY DEF Plug!Fetches
<1>2. before \in Entries \cup {Plug!Nothing} /\ (before # Plug!Nothing => before \in Entries /\ OfConsent(s, before))
  BY ReadIs DEF PluginInv
<1>4. then \in Doings /\ then.release = r /\ then.scope = s /\ then.kept = {}
      /\ then.at = (IF Plug!Widened(before, r) THEN "asking" ELSE "storing")
  BY <1>2, IdleIs DEF Doings, Points
<1>3. ~ Plug!Widened(before, r) => AgreedTo(s, r)'
  <2> SUFFICES ASSUME ~ Plug!Widened(before, r) PROVE AgreedTo(s, r)'
    OBVIOUS
  <2>1. before \in Entries /\ OfConsent(s, before) /\ r.perms \subseteq before.release.perms
    BY <1>2 DEF Plug!Widened
  <2>2. CASE before.by = "jamcli"
    BY <1>1, <2>1, <2>2 DEF OfConsent, AgreedTo
  <2>3. CASE before.by # "jamcli"
    <3> DEFINE a == [scope |-> s, perms |-> before.release.perms]
    <3>1. a \in assumed' /\ a.scope = s /\ r.perms \subseteq a.perms
      BY <1>1, <2>1, <2>3 DEF Plug!Assumed
    <3>2. QED
      BY <3>1 DEF AgreedTo
  <2>4. QED
    BY <2>2, <2>3
<1> HIDE DEF then, before
<1>6. \A d \in Doings : Plug!Step(p, d) /\ DoesAgreed(d)' /\ Looked(d)' => PluginInv'
  BY <1>1, StepInv DEF PluginInv, PluginTyped
<1>7. \A d \in Doings : d.at \in {"asking", "storing"} /\ d.release = r /\ d.scope = s /\ d.kept = {}
                         /\ (d.at = "storing" => AgreedTo(s, r)') => DoesAgreed(d)' /\ Looked(d)'
  BY NoneGranted DEF DoesAgreed, Looked, Stored
<1>8. QED
  BY <1>1, <1>3, <1>4, <1>6, <1>7

(* An install goes on with what it fetched.                                   *)
LEMMA GoesOnInv ==
  ASSUME PluginInv, NEW p \in Procs, NEW at \in Stored \cup {"idle"}, NEW kept \in SUBSET Consents, Granted(kept)',
         NEW s \in Plug!Scopes, NEW r, run[p].scope = s, run[p].release = r,
         at \in Stored => r \in Releases /\ AgreedTo(s, r)',
         \/ Plug!Step(p, [run[p] EXCEPT !.at = at, !.kept = kept])
         \/ at = "idle" /\ Plug!Step(p, Plug!Idle),
         agreed \subseteq agreed', UNCHANGED <<loaded, assumed>>,
         UNCHANGED consent \/ (consent \subseteq Consents /\ Granted(consent))',
         \/ UNCHANGED lock
         \/ /\ run[p].at = "recording" /\ lock[run[p].scope] # Plug!Newer
            /\ lock' = [lock EXCEPT ![run[p].scope] = Plug!Entry(run[p].release, TRUE, "none", "jamcli")]
  PROVE  PluginInv'
<1>1. /\ lock \in [Plug!Scopes -> Entries \cup {Plug!Nothing, Plug!Newer}]
      /\ run[p] \in Doings /\ DoesAgreed(run[p])
      /\ run[p].scope \in Plug!Scopes
  BY DoingIs DEF Doings
<1>2. /\ lock' \in [Plug!Scopes -> Entries \cup {Plug!Nothing, Plug!Newer}]
      /\ \A u \in Plug!Scopes : lock'[u] = lock[u] \/ OfConsent(u, lock'[u])
  <2>1. CASE UNCHANGED lock
    BY <1>1, <2>1
  <2>2. CASE /\ run[p].at = "recording"
             /\ lock' = [lock EXCEPT ![run[p].scope] = Plug!Entry(run[p].release, TRUE, "none", "jamcli")]
    <3>1. run[p].release \in Releases /\ AgreedTo(run[p].scope, run[p].release)
      BY <1>1, <2>2 DEF DoesAgreed, Stored
    <3>2. /\ Plug!Entry(run[p].release, TRUE, "none", "jamcli") \in Entries
          /\ Plug!Entry(run[p].release, TRUE, "none", "jamcli").release = run[p].release
      BY <3>1 DEF Plug!Entry, Entries
    <3>3. QED
      BY <1>1, <2>2, <3>1, <3>2 DEF OfConsent
  <2>3. QED
    BY <2>1, <2>2
<1>3. CASE Plug!Step(p, [run[p] EXCEPT !.at = at, !.kept = kept])
  <2> DEFINE then == [run[p] EXCEPT !.at = at, !.kept = kept]
  <2>1. /\ then \in Doings /\ then.at = at /\ then.scope = s /\ then.release = r
        /\ then.kept = kept
    BY <1>1 DEF Doings, Points, Stored
  <2>2. Plug!Step(p, then)
    BY <1>3
  <2> HIDE DEF then
  <2>3. \A d \in Doings : d.at = at /\ d.scope = s /\ d.release = r /\ d.kept = kept =>
          DoesAgreed(d)' /\ Looked(d)'
    BY DEF DoesAgreed, Looked, Stored
  <2>4. \A d \in Doings : Plug!Step(p, d) /\ DoesAgreed(d)' /\ Looked(d)' => PluginInv'
    BY <1>2, StepInv
  <2>5. QED
    BY <2>1, <2>2, <2>3, <2>4
<1>4. CASE Plug!Step(p, Plug!Idle)
  BY <1>2, <1>4, IdleIs, NoneGranted, Rests, StepInv
<1>5. QED
  BY <1>3, <1>4

(* The steps of an install.                                                   *)
LEMMA InstallInv == ASSUME PluginInv, NEW p \in Procs, UNCHANGED assumed,
                           \/ Plug!Agrees(p) \/ Plug!Declines(p) \/ Plug!Clears(p)
                           \/ Plug!Copies(p) \/ Plug!Hashes(p) \/ Plug!Records(p)
                           \/ Plug!RecordConsent(p) \/ Plug!RemovesOld(p)
                    PROVE  PluginInv'
<1>6. /\ run[p] \in Doings /\ run[p].scope \in Plug!Scopes /\ run[p].kept \in SUBSET Consents
      /\ DoesAgreed(run[p]) /\ Granted(run[p].kept)
  BY DoingIs DEF Doings, DoesAgreed
<1>1. PICK s, r, kept :
        /\ s \in Plug!Scopes /\ kept \in SUBSET Consents
        /\ run[p] \in Doings /\ run[p].scope = s /\ run[p].release = r /\ run[p].kept = kept
        /\ DoesAgreed(run[p]) /\ Granted(kept)
  BY <1>6
<1>0. \A at : Plug!Goes(p, at) => Plug!Step(p, [run[p] EXCEPT !.at = at, !.kept = kept])
  <2>1. \A at : [run[p] EXCEPT !.at = at] = [run[p] EXCEPT !.at = at, !.kept = kept]
    BY <1>1 DEF Doings
  <2>2. QED
    BY <2>1 DEF Plug!Goes
<1>2. CASE Plug!Agrees(p)
  <2>1. /\ Plug!Goes(p, "storing") /\ UNCHANGED <<lock, consent, loaded>> /\ r \in Releases
        /\ agreed' = agreed \cup {[scope |-> s, perms |-> r.perms]}
    BY <1>1, <1>2 DEF Plug!Agrees, Plug!At, DoesAgreed
  <2>2. AgreedTo(s, r)'
    <3> DEFINE a == [scope |-> s, perms |-> r.perms]
    <3>1. a \in agreed' /\ a.scope = s /\ a.perms = r.perms
      BY <2>1
    <3>2. QED
      BY <3>1 DEF AgreedTo
  <2>3. Granted(kept)'
    BY <1>1, <2>1 DEF Granted, AgreedTo
  <2>4. QED
    BY <1>0, <1>1, <2>1, <2>2, <2>3, GoesOnInv DEF Stored
<1>3. CASE Plug!Declines(p)
  BY <1>1, <1>3, GoesOnInv, NoneGranted DEF Plug!Declines, Stored
<1>4. CASE \/ Plug!Clears(p) \/ Plug!Copies(p) \/ Plug!Hashes(p)
           \/ Plug!Records(p) \/ Plug!RecordConsent(p) \/ Plug!RemovesOld(p)
  <2>1. UNCHANGED <<agreed, loaded>> /\ run[p].at \in Stored
    BY <1>4 DEF Plug!Clears, Plug!Copies, Plug!Hashes, Plug!Records, Plug!RecordConsent,
         Plug!RemovesOld, Plug!At, Stored
  <2>2. r \in Releases /\ AgreedTo(s, r) /\ AgreedTo(s, r)' /\ Granted(kept)'
    BY <1>1, <2>1 DEF DoesAgreed, AgreedTo, Granted
  <2>3. CASE Plug!RecordConsent(p)
    <3>1. /\ Plug!Step(p, [run[p] EXCEPT !.at = "cleaning", !.kept = {}]) /\ UNCHANGED lock
          /\ consent' = Plug!OfOthers(run[p]) \cup {[scope |-> s, release |-> r]}
      BY <1>1, <2>3 DEF Plug!RecordConsent
    <3>2. Plug!OfOthers(run[p]) \subseteq kept
      BY <1>1 DEF Plug!OfOthers
    <3>3. consent' \subseteq Consents
      BY <1>1, <2>2, <3>1, <3>2 DEF Consents
    <3>4. \A c \in consent' : c \in kept \/ (c.scope = s /\ c.release = r)
      BY <3>1, <3>2
    <3>6. Granted(consent)'
      BY <2>2, <3>4 DEF Granted
    <3>5. QED
      BY <1>1, <3>6, <2>1, <2>2, <3>1, <3>3, <3>4, NoneGranted, GoesOnInv DEF Stored
  <2>4. CASE ~ Plug!RecordConsent(p)
    <3>1. \E at \in Stored \cup {"idle"} :
            /\ Plug!Goes(p, at) \/ (at = "idle" /\ Plug!Step(p, Plug!Idle))
            /\ UNCHANGED consent
            /\ \/ UNCHANGED lock
               \/ /\ run[p].at = "recording" /\ lock[run[p].scope] # Plug!Newer
                  /\ lock' = [lock EXCEPT ![run[p].scope] = Plug!Entry(run[p].release, TRUE, "none", "jamcli")]
      BY <1>4, <2>4 DEF Plug!Clears, Plug!Copies, Plug!Hashes, Plug!Records,
           Plug!RemovesOld, Plug!At, Stored
    <3>2. QED
      BY <1>0, <1>1, <2>1, <2>2, <3>1, GoesOnInv
  <2>5. QED
    BY <2>3, <2>4
<1>5. QED
  BY <1>2, <1>3, <1>4

(* A process reads the consents on file, to write them back changed.          *)
LEMMA ReadsConsentsInv == ASSUME PluginInv, NEW p \in Procs, UNCHANGED assumed, Plug!ReadsConsents(p) PROVE PluginInv'
<1>6. /\ run[p] \in Doings /\ run[p].scope \in Plug!Scopes /\ DoesAgreed(run[p]) /\ Granted(consent)
      /\ consent \in SUBSET Consents /\ UNCHANGED <<lock, consent, agreed, loaded>>
      /\ lock \in [Plug!Scopes -> Entries \cup {Plug!Nothing, Plug!Newer}]
  BY DoingIs DEF Plug!ReadsConsents, PluginTyped, EntriesAgreed, Doings
<1>1. PICK s, r, kept :
        /\ s \in Plug!Scopes /\ kept \in SUBSET Consents
        /\ run[p] \in Doings /\ run[p].scope = s /\ run[p].release = r /\ consent = kept
        /\ DoesAgreed(run[p]) /\ Granted(kept) /\ UNCHANGED <<lock, consent, agreed, loaded>>
        /\ lock \in [Plug!Scopes -> Entries \cup {Plug!Nothing, Plug!Newer}]
  BY <1>6
<1>2. Granted(kept)'
  BY <1>1 DEF Granted, AgreedTo
<1>3. CASE Plug!At(p, "consenting") /\ Plug!Step(p, [run[p] EXCEPT !.at = "granting", !.kept = consent])
  <2>1. r \in Releases /\ AgreedTo(s, r)'
    BY <1>1, <1>3 DEF DoesAgreed, Stored, Plug!At, AgreedTo
  <2> DEFINE then == [run[p] EXCEPT !.at = "granting", !.kept = consent]
  <2>2. then \in Doings /\ then.at = "granting" /\ then.scope = s /\ then.release = r /\ then.kept = kept
    BY <1>1 DEF Doings, Points
  <2>3. Plug!Step(p, then)
    BY <1>3
  <2> HIDE DEF then
  <2>4. \A d \in Doings : d.at = "granting" /\ d.scope = s /\ d.release = r /\ d.kept = kept => DoesAgreed(d)' /\ Looked(d)'
    BY <1>2, <2>1 DEF DoesAgreed, Looked, Stored
  <2>5. \A d \in Doings : Plug!Step(p, d) /\ DoesAgreed(d)' /\ Looked(d)' => PluginInv'
    BY <1>1, StepInv
  <2>6. QED
    BY <2>2, <2>3, <2>4, <2>5
<1>4. CASE Plug!At(p, "forgetting") /\ Plug!Step(p, [run[p] EXCEPT !.at = "dropping", !.kept = consent])
  <2> DEFINE then == [run[p] EXCEPT !.at = "dropping", !.kept = consent]
  <2>1. then \in Doings /\ then.at = "dropping" /\ then.kept = kept /\ Plug!Step(p, then)
    BY <1>1, <1>4 DEF Doings, Points
  <2> HIDE DEF then
  <2>2. \A d \in Doings : d.at = "dropping" /\ d.kept = kept => DoesAgreed(d)' /\ Looked(d)'
    BY <1>2 DEF DoesAgreed, Looked, Stored
  <2>3. \A d \in Doings : Plug!Step(p, d) /\ DoesAgreed(d)' /\ Looked(d)' => PluginInv'
    BY <1>1, StepInv
  <2>4. QED
    BY <2>1, <2>2, <2>3
<1>5. QED
  BY <1>3, <1>4 DEF Plug!ReadsConsents

(* An entry is turned on or off: its release stays.                           *)
LEMMA SetEnabledInv ==
  ASSUME PluginInv, NEW p \in Procs, NEW on \in BOOLEAN, UNCHANGED assumed, Plug!SetEnabled(p, on)
  PROVE  PluginInv'
<1> DEFINE e == Plug!ReadLock(Plug!Found)
           then == [Plug!Idle EXCEPT !.at = "writing", !.scope = Plug!Found, !.before = Plug!Entry(e.release, on, "none", e.by)]
<1>1. Plug!Step(p, then) /\ UNCHANGED <<lock, consent, agreed, loaded>> /\ Plug!ReadLock(Plug!Found) # Plug!Nothing
  BY DEF Plug!SetEnabled
<1>2. /\ Plug!Found \in Plug!Scopes /\ e \in Entries /\ OfConsent(Plug!Found, e)
      /\ lock \in [Plug!Scopes -> Entries \cup {Plug!Nothing, Plug!Newer}]
  BY <1>1, ReadIs DEF PluginInv, PluginTyped
<1> DEFINE b == Plug!Entry(e.release, on, "none", e.by)
<1>3. b \in Entries /\ b.release = e.release /\ b.by = e.by
  BY <1>2 DEF Plug!Entry, Entries
<1>4. /\ then \in Doings /\ then.at = "writing" /\ then.scope = Plug!Found /\ then.before = b /\ then.kept = {}
  BY <1>2, <1>3, IdleIs DEF Doings, Points
<1> HIDE DEF then, b, e
<1>5. \A d \in Doings : d.at = "writing" /\ d.scope = Plug!Found /\ d.before = b /\ d.kept = {}
                       => DoesAgreed(d)' /\ Looked(d)'
  BY <1>1, <1>2, <1>3, NoneGranted DEF DoesAgreed, Looked, Stored, AgreedTo, OfConsent
<1>6. \A d \in Doings : Plug!Step(p, d) /\ DoesAgreed(d)' /\ Looked(d)' => PluginInv'
  BY <1>1, <1>2, StepInv
<1>7. QED
  BY <1>1, <1>4, <1>5, <1>6

(* A removal begins.                                                          *)
LEMMA RemovesInv == ASSUME PluginInv, NEW p \in Procs, UNCHANGED assumed, Plug!Removes(p) PROVE PluginInv'
<1> DEFINE then == [Plug!Idle EXCEPT !.at = "removing", !.scope = Plug!Found, !.release = Plug!ReadLock(Plug!Found).release]
<1>1. Plug!Step(p, then) /\ UNCHANGED <<lock, consent, agreed, loaded>> /\ Plug!ReadLock(Plug!Found) # Plug!Nothing
  BY DEF Plug!Removes
<1>2. /\ Plug!Found \in Plug!Scopes /\ Plug!ReadLock(Plug!Found) \in Entries
      /\ lock \in [Plug!Scopes -> Entries \cup {Plug!Nothing, Plug!Newer}]
  BY <1>1, ReadIs DEF PluginInv, PluginTyped
<1>3. then \in Doings /\ then.at = "removing" /\ then.kept = {}
  BY <1>2, IdleIs DEF Doings, Points, Entries
<1> HIDE DEF then
<1>4. \A d \in Doings : Plug!Step(p, d) /\ DoesAgreed(d)' /\ Looked(d)' => PluginInv'
  BY <1>1, <1>2, StepInv
<1>5. QED
  BY <1>1, <1>3, <1>4, Rests

(* The entry that waited is written, or the file is a newer JamCLI's.         *)
LEMMA WritesLockInv == ASSUME PluginInv, NEW p \in Procs, UNCHANGED assumed, Plug!WritesLock(p) PROVE PluginInv'
<1>1. /\ lock \in [Plug!Scopes -> Entries \cup {Plug!Nothing, Plug!Newer}]
      /\ run[p] \in Doings /\ run[p].scope \in Plug!Scopes
      /\ run[p].before \in Entries /\ OfConsent(run[p].scope, run[p].before)
  BY DoingIs DEF Plug!WritesLock, Plug!At, DoesAgreed, Doings
<1>2. /\ lock' = lock \/ lock' = [lock EXCEPT ![run[p].scope] = run[p].before]
      /\ Plug!Step(p, Plug!Idle) /\ UNCHANGED <<consent, agreed, loaded>>
  BY DEF Plug!WritesLock
<1>3. /\ lock' \in [Plug!Scopes -> Entries \cup {Plug!Nothing, Plug!Newer}]
      /\ \A s \in Plug!Scopes : lock'[s] = lock[s] \/ OfConsent(s, lock'[s])
  BY <1>1, <1>2
<1>4. QED
  BY <1>2, <1>3, IdleIs, NoneGranted, Rests, StepInv

(* The steps of a removal.                                                    *)
LEMMA RemoveInv == ASSUME PluginInv, NEW p \in Procs, UNCHANGED assumed,
                          Plug!RemovesEntry(p) \/ Plug!ForgetsConsent(p) \/ Plug!Deletes(p)
                   PROVE  PluginInv'
<1>1. /\ lock \in [Plug!Scopes -> Entries \cup {Plug!Nothing, Plug!Newer}]
      /\ run[p] \in Doings /\ run[p].scope \in Plug!Scopes /\ Granted(run[p].kept) /\ run[p].kept \subseteq Consents
  BY DoingIs DEF Doings, DoesAgreed
<1>2. UNCHANGED <<agreed, loaded>> /\ (lock' = lock \/ lock' = [lock EXCEPT ![run[p].scope] = Plug!Nothing])
  BY DEF Plug!RemovesEntry, Plug!ForgetsConsent, Plug!Deletes
<1>3. /\ lock' \in [Plug!Scopes -> Entries \cup {Plug!Nothing, Plug!Newer}]
      /\ \A s \in Plug!Scopes : lock'[s] = lock[s] \/ lock'[s] = Plug!Nothing
  BY <1>1, <1>2
<1>4. \E d \in Doings : /\ d.at \in {"idle", "forgetting", "deleting"} /\ Plug!Step(p, d)
                        /\ d.kept = {} \/ d.kept = run[p].kept
  <2>1. \A at \in Points, kept \in SUBSET Consents :
          LET d == [run[p] EXCEPT !.at = at, !.kept = kept] IN d \in Doings /\ d.at = at /\ d.kept = kept
    BY <1>1 DEF Doings
  <2>2. \A at \in Points : LET d == [run[p] EXCEPT !.at = at] IN d \in Doings /\ d.at = at /\ d.kept = run[p].kept
    BY <1>1 DEF Doings
  <2>3. "forgetting" \in Points /\ "deleting" \in Points
    BY DEF Points
  <2>4. CASE Plug!RemovesEntry(p)
    BY <2>2, <2>3, <2>4, IdleIs DEF Plug!RemovesEntry, Plug!Goes
  <2>5. CASE Plug!ForgetsConsent(p)
    BY <2>1, <2>3, <2>5 DEF Plug!ForgetsConsent
  <2>6. CASE Plug!Deletes(p)
    BY <2>6, IdleIs DEF Plug!Deletes
  <2>7. QED
    BY <2>4, <2>5, <2>6
<1>5. UNCHANGED consent \/ (consent \subseteq Consents /\ Granted(consent))'
  <2>1. Plug!OfOthers(run[p]) \subseteq run[p].kept
    BY DEF Plug!OfOthers
  <2>2. UNCHANGED consent \/ consent' = Plug!OfOthers(run[p])
    BY DEF Plug!RemovesEntry, Plug!ForgetsConsent, Plug!Deletes
  <2>3. QED
    BY <1>1, <1>2, <2>1, <2>2 DEF Granted, AgreedTo
<1>6. \A d \in Doings : d.kept = run[p].kept => Granted(d.kept)'
  BY <1>1, <1>2 DEF Granted, AgreedTo
<1>7. QED
  BY <1>2, <1>3, <1>4, <1>5, <1>6, Rests, StepInv

(* A session's start, of the scope it looks at.                               *)
LEMMA LooksInv ==
  ASSUME PluginInv, NEW p \in Procs, UNCHANGED assumed, Plug!VerifyReads(p) \/ Plug!TurnsOff(p)
  PROVE  PluginInv'
<1>0. PICK s, kept : s \in Plug!Scopes /\ s = run[p].scope /\ kept = run[p].kept
  BY DoingIs DEF Doings
<1> DEFINE rest == [run[p] EXCEPT !.at = Plug!After(s).at, !.scope = Plug!After(s).scope]
<1>1. /\ lock \in [Plug!Scopes -> Entries \cup {Plug!Nothing, Plug!Newer}]
      /\ run[p] \in Doings /\ run[p].scope = s /\ s \in Plug!Scopes
      /\ DoesAgreed(run[p]) /\ Looked(run[p]) /\ run[p].kept = kept /\ Granted(kept)
  BY <1>0, DoingIs DEF DoesAgreed
<1>2. UNCHANGED <<consent, agreed, loaded, dirs>> /\ Granted(kept)'
  BY <1>1 DEF Plug!VerifyReads, Plug!TurnsOff, Granted, AgreedTo
<1>3. CASE Plug!VerifyReads(p) /\ Plug!Spoiled(Plug!ReadLock(s))
  <2> DEFINE e == Plug!ReadLock(s)
             b == Plug!Entry(e.release, FALSE, "integrity", e.by)
             then == [run[p] EXCEPT !.at = "turning off", !.before = b]
  <2>1. Plug!Step(p, then) /\ UNCHANGED lock /\ run[p].at = "verifying" /\ e # Plug!Nothing
    BY <1>1, <1>3 DEF Plug!VerifyReads, Plug!At, Plug!Spoiled
  <2>2. e \in Entries /\ OfConsent(s, e)
    BY <1>1, <2>1, ReadIs DEF PluginInv
  <2>3. b \in Entries /\ b.release = e.release /\ b.by = e.by /\ ~ b.enabled
    BY <2>2 DEF Plug!Entry, Entries
  <2>4. then \in Doings /\ then.at = "turning off" /\ then.scope = s /\ then.before = b /\ then.calm = run[p].calm
        /\ then.kept = kept
    BY <1>1, <2>3 DEF Doings, Points
  <2> HIDE DEF then, b, e
  <2>5. run[p].calm /\ s = "project" => Fine("user")
    BY <1>1, <2>1 DEF Looked
  <2>6. \A d \in Doings : d.at = "turning off" /\ d.scope = s /\ d.before = b /\ d.calm = run[p].calm /\ d.kept = kept
          => DoesAgreed(d)' /\ Looked(d)'
    BY <1>2, <2>1, <2>2, <2>3, <2>5
       DEF DoesAgreed, Looked, Stored, AgreedTo, OfConsent, Fine, Plug!Spoiled, Plug!ReadLock, Plug!Matches
  <2>7. \A d \in Doings : Plug!Step(p, d) /\ DoesAgreed(d)' /\ Looked(d)' => PluginInv'
    BY <1>1, <1>2, <2>1, StepInv
  <2>8. QED
    BY <2>1, <2>4, <2>6, <2>7
<1>4. CASE Plug!TurnsOff(p) /\ lock[s] = Plug!Newer
  <2>1. Plug!Step(p, Plug!Idle) /\ UNCHANGED lock
    BY <1>1, <1>4 DEF Plug!TurnsOff
  <2>2. DoesAgreed(Plug!Idle)' /\ Looked(Plug!Idle)'
    BY IdleIs, NoneGranted, Rests
  <2>3. QED
    BY <1>1, <1>2, <2>1, <2>2, IdleIs, StepInv
<1>5. ASSUME Plug!Step(p, rest), run[p].at \in {"verifying", "turning off"},
             lock' \in [Plug!Scopes -> Entries \cup {Plug!Nothing, Plug!Newer}],
             \A u \in Plug!Scopes : lock'[u] \in {lock[u], Plug!Nothing} \/ OfConsent(u, lock'[u]),
             \A u \in Plug!Scopes \ {s} : lock'[u] = lock[u],
             run[p].calm => Fine(s)'
      PROVE  PluginInv'
  <2>1. /\ rest \in Doings /\ rest.calm = run[p].calm
        /\ rest.at = (IF s = "user" THEN "verifying" ELSE "loading") /\ rest.scope = "project"
        /\ rest.kept = kept
    BY <1>1 DEF Doings, Points, Plug!After, Plug!Scopes
  <2>2. run[p].calm /\ s = "project" => Fine("user")'
    <3>1. run[p].calm /\ s = "project" => Fine("user")
      BY <1>1, <1>5 DEF Looked
    <3>2. s = "project" => lock'["user"] = lock["user"]
      BY <1>5 DEF Plug!Scopes
    <3>3. QED
      BY <1>2, <3>1, <3>2 DEF Fine, Plug!Spoiled, Plug!ReadLock, Plug!Matches
  <2> HIDE DEF rest
  <2>3. s \in {"user", "project"}
    BY <1>1 DEF Plug!Scopes
  <2>4. run[p].calm => Fine(s)'
    BY <1>5
  <2>5. \A d \in Doings : /\ d.at = (IF s = "user" THEN "verifying" ELSE "loading") /\ d.scope = "project"
                           /\ d.calm = run[p].calm /\ d.kept = kept
                          => DoesAgreed(d)' /\ Looked(d)'
    BY <1>2, <2>2, <2>3, <2>4 DEF DoesAgreed, Looked, Stored
  <2>6. \A d \in Doings : Plug!Step(p, d) /\ DoesAgreed(d)' /\ Looked(d)' => PluginInv'
    BY <1>2, <1>5, StepInv
  <2>7. QED
    BY <1>5, <2>1, <2>5, <2>6
<1>6. CASE Plug!VerifyReads(p) /\ ~ Plug!Spoiled(Plug!ReadLock(s))
  <2>1. Plug!Step(p, rest) /\ UNCHANGED lock /\ run[p].at = "verifying"
    BY <1>1, <1>6 DEF Plug!VerifyReads, Plug!At, Plug!Onward
  <2>2. Fine(s)'
    BY <1>2, <1>6, <2>1 DEF Fine, Plug!Spoiled, Plug!ReadLock, Plug!Matches
  <2>3. QED
    BY <1>1, <1>5, <2>1, <2>2
<1>7. CASE Plug!TurnsOff(p) /\ lock[s] # Plug!Newer
  <2>1. /\ Plug!Step(p, rest) /\ run[p].at = "turning off" /\ lock' = [lock EXCEPT ![s] = run[p].before]
    BY <1>1, <1>7 DEF Plug!TurnsOff, Plug!At, Plug!Onward
  <2>2. run[p].before \in Entries /\ OfConsent(s, run[p].before) /\ (run[p].calm => ~ run[p].before.enabled)
    BY <1>1, <2>1 DEF DoesAgreed, Looked
  <2>3. /\ lock' \in [Plug!Scopes -> Entries \cup {Plug!Nothing, Plug!Newer}] /\ lock'[s] = run[p].before
        /\ \A u \in Plug!Scopes \ {s} : lock'[u] = lock[u]
    BY <1>1, <2>1, <2>2
  <2>4. run[p].calm => Fine(s)'
    BY <2>2, <2>3 DEF Fine, Plug!Spoiled, Plug!ReadLock
  <2>5. \A u \in Plug!Scopes : lock'[u] \in {lock[u], Plug!Nothing} \/ OfConsent(u, lock'[u])
    BY <2>2, <2>3
  <2>6. QED
    BY <1>5, <2>1, <2>3, <2>4, <2>5
<1>8. QED
  BY <1>3, <1>4, <1>6, <1>7

(* A session starts to look at what is installed.                             *)
LEMMA StartsInv == ASSUME PluginInv, NEW p \in Procs, UNCHANGED assumed, Plug!SessionStarts(p) PROVE PluginInv'
<1> DEFINE then == [Plug!Idle EXCEPT !.at = "verifying"]
<1>1. /\ Plug!Step(p, then) /\ UNCHANGED <<lock, consent, agreed, loaded>>
      /\ lock \in [Plug!Scopes -> Entries \cup {Plug!Nothing, Plug!Newer}]
  BY DoingIs DEF Plug!SessionStarts
<1>2. then \in Doings /\ then.at = "verifying" /\ then.scope = "user" /\ then.kept = {}
  BY IdleIs DEF Doings, Points
<1> HIDE DEF then
<1>3. \A d \in Doings : d.at = "verifying" /\ d.scope = "user" /\ d.kept = {} => DoesAgreed(d)' /\ Looked(d)'
  BY NoneGranted DEF DoesAgreed, Looked, Stored
<1>4. \A d \in Doings : Plug!Step(p, d) /\ DoesAgreed(d)' /\ Looked(d)' => PluginInv'
  BY <1>1, StepInv
<1>5. QED
  BY <1>1, <1>2, <1>3, <1>4

(* What is loaded has its consent on file, and was looked at.                 *)
LEMMA LoadsInv == ASSUME PluginInv, NEW p \in Procs, UNCHANGED assumed, Plug!Loads(p) PROVE PluginInv'
<1>1. /\ Plug!Step(p, Plug!Idle) /\ UNCHANGED <<lock, consent, agreed>> /\ run[p].at = "loading"
      /\ lock \in [Plug!Scopes -> Entries \cup {Plug!Nothing, Plug!Newer}] /\ Looked(run[p])
  BY DoingIs DEF Plug!Loads, Plug!At
<1>2. Plug!LoadsAgreed'
  <2>1. CASE Plug!Enabled(Plug!Found)
    <3> DEFINE e == Plug!ReadLock(Plug!Found)
               l == [is |-> "plugin", scope |-> Plug!Found, release |-> e.release,
                     files |-> dirs[e.release.version], calm |-> run[p].calm]
    <3>1. loaded' = l /\ e # Plug!Nothing /\ e.enabled
      BY <2>1 DEF Plug!Loads, Plug!Enabled
    <3>2. Plug!Found \in Plug!Scopes /\ AgreedTo(Plug!Found, e.release)
      <4> DEFINE c == [scope |-> Plug!Found, release |-> e.release]
      <4>1. c \in consent /\ c.scope = Plug!Found /\ c.release = e.release
        BY <2>1 DEF Plug!Enabled
      <4>2. QED
        BY <4>1, ReadIs DEF PluginInv, EntriesAgreed, Granted
    <3>3. run[p].calm => dirs[e.release.version] = e.release
      <4>1. run[p].calm => Fine(Plug!Found)
        BY <1>1, <3>2 DEF Looked, Plug!Scopes
      <4>2. QED
        BY <3>1, <4>1 DEF Fine, Plug!Spoiled, Plug!Matches
    <3>4. l.scope = Plug!Found /\ l.release = e.release /\ l.files = dirs[e.release.version] /\ l.calm = run[p].calm
      OBVIOUS
    <3> HIDE DEF l, e
    <3>5. QED
      BY <1>1, <3>1, <3>2, <3>3, <3>4 DEF Plug!LoadsAgreed, AgreedTo
  <2>2. CASE ~ Plug!Enabled(Plug!Found)
    BY <2>2 DEF Plug!Loads, Plug!LoadsAgreed
  <2>3. QED
    BY <2>1, <2>2
<1>3. QED
  BY <1>1, <1>2, IdleIs, NoneGranted, Rests, StepInv

(* A process dies, and leaves what it wrote.                                  *)
LEMMA KilledInv == ASSUME PluginInv, NEW p \in Procs, UNCHANGED assumed, Plug!Killed(p) PROVE PluginInv'
<1>1. /\ UNCHANGED <<lock, agreed, loaded, dirs>> /\ run' = [run EXCEPT ![p] = Plug!Idle]
      /\ consent' \in {consent, {}}
  BY DEF Plug!Killed
<1>2. run' \in [Procs -> Doings] /\ \A q \in Procs : run'[q] \in {run[q], Plug!Idle}
  BY <1>1, IdleIs DEF PluginInv, PluginTyped
<1>3. \A q \in Procs : DoesAgreed(run[q])'
  <2>1. \A s, r : AgreedTo(s, r)' <=> AgreedTo(s, r)
    BY <1>1 DEF AgreedTo
  <2>2. QED
    BY <1>2, <2>1, IdleIs DEF PluginInv, EntriesAgreed, DoesAgreed, Stored, OfConsent, Granted
<1>4. \A q \in Procs : Looked(run[q])'
  BY <1>1, <1>2, IdleIs DEF PluginInv, Looked, Fine, Plug!Spoiled, Plug!ReadLock, Plug!Matches
<1>5. consent' \subseteq Consents /\ Granted(consent)'
  BY <1>1 DEF PluginInv, PluginTyped, EntriesAgreed, Granted, AgreedTo
<1>6. (\A s \in Plug!Scopes : lock[s] \in Entries => OfConsent(s, lock[s]))'
  BY <1>1 DEF PluginInv, EntriesAgreed, OfConsent, AgreedTo
<1>7. Plug!LoadsAgreed'
  BY <1>1 DEF PluginInv, Plug!LoadsAgreed
<1>8. QED
  BY <1>1, <1>2, <1>3, <1>4, <1>5, <1>6, <1>7 DEF PluginInv, PluginTyped, EntriesAgreed

(* A newer JamCLI, or the repository, writes beside all of them.              *)
LEMMA OutsideInv == ASSUME PluginInv, UNCHANGED assumed, (\E s \in Plug!Scopes : Plug!Upgraded(s)) \/ Plug!Committed
                    PROVE  PluginInv'
<1>1. /\ UNCHANGED <<agreed, loaded, consent>>
      /\ run' = [q \in Procs |-> [run[q] EXCEPT !.calm = FALSE]]
  BY DEF Plug!Upgraded, Plug!Committed
<1>2. \A q \in Procs : run[q] \in Doings
  BY DEF PluginInv, PluginTyped
<1>3. /\ run' \in [Procs -> Doings]
      /\ \A q \in Procs : /\ run'[q].at = run[q].at /\ run'[q].scope = run[q].scope
                          /\ run'[q].release = run[q].release /\ run'[q].kept = run[q].kept
                          /\ run'[q].before = run[q].before /\ ~ run'[q].calm
  BY <1>1, <1>2 DEF Doings
<1>4. PICK s \in Plug!Scopes, e \in Entries \cup {Plug!Nothing, Plug!Newer} :
        lock' = [lock EXCEPT ![s] = e] /\ (e \in Entries => e.by = "repo")
  <2>1. \A r \in Releases : /\ Plug!Entry(r, TRUE, "none", "repo") \in Entries
                            /\ Plug!Entry(r, TRUE, "none", "repo").by = "repo"
    BY DEF Plug!Entry, Entries
  <2>2. "project" \in Plug!Scopes /\ Plug!Newer \notin Entries /\ Plug!Nothing \notin Entries
    BY DEF Plug!Scopes, Plug!Newer, Plug!Nothing, Entries
  <2>3. CASE Plug!Committed
    <3>1. PICK x \in {Plug!Entry(r, TRUE, "none", "repo") : r \in Releases} \cup {Plug!Nothing} : lock' = [lock EXCEPT !["project"] = x]
      BY <2>3 DEF Plug!Committed
    <3>2. x \in Entries \cup {Plug!Nothing, Plug!Newer} /\ (x \in Entries => x.by = "repo")
      BY <2>1, <2>2, <3>1
    <3>3. QED
      BY <2>2, <3>1, <3>2
  <2>4. CASE \E s \in Plug!Scopes : Plug!Upgraded(s)
    BY <2>2, <2>4 DEF Plug!Upgraded
  <2>5. QED
    BY <2>3, <2>4
<1>5. /\ lock' \in [Plug!Scopes -> Entries \cup {Plug!Nothing, Plug!Newer}]
      /\ \A u \in Plug!Scopes : lock'[u] \in {lock[u], e}
  BY <1>4 DEF PluginInv, PluginTyped
<1>6. /\ \A u, r : AgreedTo(u, r)' <=> AgreedTo(u, r)
      /\ \A u, x : OfConsent(u, x)' <=> OfConsent(u, x)
      /\ \A C : Granted(C)' <=> Granted(C)
  BY <1>1 DEF AgreedTo, OfConsent, Granted
<1>7. \A q \in Procs : DoesAgreed(run[q])'
  BY <1>3, <1>6 DEF PluginInv, EntriesAgreed, DoesAgreed
<1>8. \A q \in Procs : Looked(run[q])'
  BY <1>3 DEF Looked
<1>9. (\A u \in Plug!Scopes : lock[u] \in Entries => OfConsent(u, lock[u]))'
  BY <1>4, <1>5, <1>6 DEF PluginInv, EntriesAgreed, OfConsent
<1>10. consent' \subseteq Consents /\ Granted(consent)'
  BY <1>1, <1>6 DEF PluginInv, PluginTyped, EntriesAgreed
<1>11. Plug!LoadsAgreed'
  BY <1>1 DEF PluginInv, Plug!LoadsAgreed
<1>12. QED
  BY <1>3, <1>5, <1>7, <1>8, <1>9, <1>10, <1>11 DEF PluginInv, PluginTyped, EntriesAgreed

(* Whatever a process, a newer JamCLI or the repository does next.            *)
LEMMA ProcessesInv == PluginInv /\ [Plug!Next]_(Plug!plVars) => PluginInv'
<1> SUFFICES ASSUME PluginInv, [Plug!Next]_(Plug!plVars) PROVE PluginInv'
  OBVIOUS
<1>1. CASE UNCHANGED Plug!plVars
  <2>1. /\ \A s, x : AgreedTo(s, x)' <=> AgreedTo(s, x)
        /\ \A d : Looked(d)' <=> Looked(d)
    BY <1>1 DEF Plug!plVars, AgreedTo, Looked, Fine, Plug!Spoiled, Plug!ReadLock, Plug!Matches
  <2>2. \A d : DoesAgreed(d)' <=> DoesAgreed(d)
    BY <2>1 DEF DoesAgreed, OfConsent, Granted
  <2>3. EntriesAgreed'
    BY <1>1, <2>1, <2>2 DEF Plug!plVars, PluginInv, EntriesAgreed, OfConsent, Granted
  <2>4. QED
    BY <1>1, <2>1, <2>3 DEF Plug!plVars, PluginInv, PluginTyped, Plug!LoadsAgreed
<1>2. QED
  BY <1>1, FetchesInv, InstallInv, ReadsConsentsInv, SetEnabledInv, RemovesInv, WritesLockInv, RemoveInv, StartsInv, LooksInv,
     LoadsInv, KilledInv, OutsideInv DEF Plug!Next

(* The invariant of the lockfiles and of what every process does, in every    *)
(* state.                                                                     *)
THEOREM PluginInvariant == Plug!Spec => []PluginInv
<1>1. QED
  BY NoneInstalledInv, ProcessesInv, PTL DEF Plug!Spec

(* Whatever is installed, updated, disabled and removed beside it, and        *)
(* whoever dies between two writes, and whatever the repository commits, a    *)
(* session loads only what the person agreed to for the scope, or an install  *)
(* took from an entry of the repository's for that (loadPlugins, trustProblem, *)
(* installPlugin).                                                            *)
THEOREM LoadsHold == Plug!Spec => []Plug!LoadsAgreed
<1>1. PluginInv => Plug!LoadsAgreed
  BY DEF PluginInv
<1>2. QED
  BY <1>1, PluginInvariant, PTL

-----------------------------------------------------------------------------
(* What is typed at a terminal whose interface asks a person (Terminals): for *)
(* any terminals and calls, keys of a caller are never an answer, and an     *)
(* answer is the person's, to the tool they were asked about.                *)

CONSTANTS Terminals, Typings, Prompts, PersonOnly, MaxUpdates, MaxPrompts
VARIABLES proc, prompt, asked, updates, state, terminals, call, left

Term == INSTANCE Terminals WITH Calls <- Typings

Word == [what : {"keys", "enter", "text", "allow", "deny"}, waits : BOOLEAN, again : Nat]
AnswerWords == {"allow", "deny"}

(* The text is typed once each time the call is made.                         *)
OnceEachMaking(d) ==
  /\ d.stage = "begins" => \A k \in 1..Len(d.typed) : d.typed[k].again < d.again
  /\ d.stage \in {"sleeps", "asks"} => \A k \in 1..Len(d.typed) : d.typed[k].again <= d.again
  /\ \A j, k \in 1..Len(d.typed) :
       j < k /\ d.typed[j].what = "text" /\ d.typed[k].what = "text" => d.typed[j].again < d.typed[k].again

(* A call that has begun has typed no more than its text until it settles; a  *)
(* person's answer in it is about the tool they were last asked about.        *)
TypedWell(d) ==
  /\ d.typed \in Seq(Word)
  /\ d.stage = "none" => d.typed = <<>>
  /\ d.stage # "none" =>
       /\ DOMAIN d = {"stage", "kind", "terminal", "answer", "tool", "again", "typed"}
       /\ d.kind \in Term!Own /\ d.answer = [tool |-> d.answer.tool, allow |-> d.answer.allow] /\ d.answer.allow \in BOOLEAN
       /\ d.again \in Nat
  /\ d.stage \in {"begins", "sleeps"} => d.answer.tool = d.tool
  /\ d.stage \in {"begins", "sleeps", "asks"} => \A k \in 1..Len(d.typed) : d.typed[k].what = "text"
  /\ \A k \in 1..Len(d.typed) :
       /\ d.typed[k].what \notin AnswerWords => ~ d.typed[k].waits
       /\ d.typed[k].what \in AnswerWords => d.answer = [tool |-> d.tool, allow |-> d.typed[k].what = "allow"]
       /\ d.typed[k].what \in Term!Own => k = Len(d.typed) /\ d.answer.tool = Term!Nothing
  /\ OnceEachMaking(d)

KeysInv == DOMAIN call = Typings /\ call = [c \in Typings |-> call[c]] /\ \A c \in Typings : TypedWell(call[c])

(* A word is of a making of its call.                                         *)
LEMMA AgainIsNat == ASSUME NEW words \in Seq(Word), NEW k \in 1..Len(words) PROVE words[k].again \in Nat
<1>1. words[k] \in Word
  OBVIOUS
<1>2. QED
  BY <1>1 DEF Word

(* No call has begun.                                                         *)
LEMMA NoCallInv == Term!Init => KeysInv
<1> USE DEF OnceEachMaking
<1> SUFFICES ASSUME Term!Init PROVE KeysInv
  OBVIOUS
<1>1. Term!NoCall.stage = "none" /\ Term!NoCall.typed = <<>>
  BY DEF Term!NoCall
<1>2. TypedWell(Term!NoCall)
  <2>1. Term!NoCall.typed \in Seq(Word) /\ \A k \in 1..Len(Term!NoCall.typed) : FALSE
    BY <1>1
  <2>2. QED
    BY <1>1, <2>1 DEF TypedWell
<1>3. QED
  BY <1>2 DEF Term!Init, KeysInv

(* Of a call, the stage and what it types next.                               *)
LEMMA Appended ==
  ASSUME NEW d, TypedWell(d), d.stage \in {"begins", "sleeps", "asks"}, NEW w \in Word
  PROVE  LET typed == Append(d.typed, w) IN
         /\ typed \in Seq(Word) /\ Len(typed) = Len(d.typed) + 1 /\ Len(d.typed) \in Nat
         /\ \A k \in 1..Len(typed) : typed[k] = IF k = Len(typed) THEN w ELSE d.typed[k]
         /\ \A k \in 1..Len(d.typed) : d.typed[k].what = "text" /\ ~ d.typed[k].waits
<1>1. d.typed \in Seq(Word) /\ Len(d.typed) \in Nat
  BY DEF TypedWell
<1>2. \A k \in 1..Len(d.typed) : d.typed[k].what = "text" /\ ~ d.typed[k].waits
  BY DEF TypedWell, AnswerWords
<1>3. QED
  BY <1>1, <1>2

(* A call types one word more: its own, or the answer it was given.           *)
LEMMA TypesWell ==
  ASSUME NEW d, TypedWell(d), d.stage \in {"begins", "sleeps", "asks"}, NEW w \in Word,
         NEW e, DOMAIN e = DOMAIN d, e.kind = d.kind, e.again = d.again, e.typed = Append(d.typed, w),
         e.answer = [tool |-> e.answer.tool, allow |-> e.answer.allow], e.answer.allow \in BOOLEAN,
         w.again = d.again, w.what = "text" => d.stage = "begins",
         \/ /\ e.stage = "settles"
            /\ \/ w.what \in Term!Own /\ ~ w.waits /\ e.answer.tool = Term!Nothing
               \/ w.what \in AnswerWords /\ e.answer = [tool |-> e.tool, allow |-> w.what = "allow"]
         \/ e.stage = "sleeps" /\ w.what = "text" /\ ~ w.waits /\ e.answer.tool = e.tool
  PROVE  TypedWell(e)
<1>1. /\ e.typed \in Seq(Word) /\ Len(e.typed) = Len(d.typed) + 1 /\ Len(d.typed) \in Nat
      /\ \A k \in 1..Len(e.typed) : e.typed[k] = IF k = Len(e.typed) THEN w ELSE d.typed[k]
      /\ \A k \in 1..Len(d.typed) : d.typed[k].what = "text" /\ ~ d.typed[k].waits
  BY Appended
<1>2. \A k \in 1..Len(e.typed) : k = Len(e.typed) \/ k \in 1..Len(d.typed)
  BY <1>1
<1>3. \A k \in 1..Len(e.typed) :
       /\ e.typed[k].what \notin AnswerWords => ~ e.typed[k].waits
       /\ e.typed[k].what \in AnswerWords => e.answer = [tool |-> e.tool, allow |-> e.typed[k].what = "allow"]
       /\ e.typed[k].what \in Term!Own => k = Len(e.typed) /\ e.answer.tool = Term!Nothing
  <2> SUFFICES ASSUME NEW k \in 1..Len(e.typed)
               PROVE  /\ e.typed[k].what \notin AnswerWords => ~ e.typed[k].waits
                      /\ e.typed[k].what \in AnswerWords => e.answer = [tool |-> e.tool, allow |-> e.typed[k].what = "allow"]
                      /\ e.typed[k].what \in Term!Own => k = Len(e.typed) /\ e.answer.tool = Term!Nothing
    OBVIOUS
  <2>1. CASE k = Len(e.typed)
    BY <1>1, <2>1 DEF Term!Own, AnswerWords
  <2>2. CASE k # Len(e.typed)
    BY <1>1, <1>2, <2>2 DEF Term!Own, AnswerWords
  <2>3. QED
    BY <2>1, <2>2
<1>4. /\ DOMAIN e = {"stage", "kind", "terminal", "answer", "tool", "again", "typed"} /\ e.kind \in Term!Own
  BY DEF TypedWell
<1>5. e.stage = "sleeps" => \A k \in 1..Len(e.typed) : e.typed[k].what = "text"
  BY <1>1, <1>2 DEF Term!Own, AnswerWords
<1>6. e.stage \in {"settles", "sleeps"} /\ (e.stage = "sleeps" => e.answer.tool = e.tool)
  OBVIOUS
<1>7. OnceEachMaking(e)
  <2>1. d.again \in Nat /\ OnceEachMaking(d)
    BY DEF TypedWell
  <2>2. w.what = "text" => \A k \in 1..Len(d.typed) : e.typed[k].again < d.again
    BY <1>1, <2>1 DEF OnceEachMaking
  <2>3. ASSUME e.stage = "sleeps", NEW k \in 1..Len(e.typed) PROVE e.typed[k].again <= e.again
    <3>1. w.what = "text" /\ w.again = d.again /\ e.again = d.again
      BY <2>3
    <3>2. e.typed[k].again \in Nat
      <4>1. e.typed[k] \in Word
        BY <1>1
      <4>2. QED
        BY <4>1 DEF Word
    <3>3. CASE k = Len(e.typed)
      BY <1>1, <2>1, <3>1, <3>3
    <3>4. CASE k \in 1..Len(d.typed)
      BY <2>1, <2>2, <3>1, <3>2, <3>4
    <3>5. QED
      BY <1>2, <3>3, <3>4
  <2>4. ASSUME NEW j \in 1..Len(e.typed), NEW k \in 1..Len(e.typed), j < k,
               e.typed[j].what = "text", e.typed[k].what = "text"
        PROVE  e.typed[j].again < e.typed[k].again
    <3>1. j \in 1..Len(d.typed) /\ j # Len(e.typed)
      BY <1>1, <2>4
    <3>2. CASE k = Len(e.typed)
      BY <1>1, <2>2, <2>4, <3>1, <3>2
    <3>3. CASE k \in 1..Len(d.typed)
      BY <1>1, <2>1, <2>4, <3>1, <3>3 DEF OnceEachMaking
    <3>4. QED
      BY <1>2, <3>2, <3>3
  <2>5. QED
    BY <1>6, <2>3, <2>4 DEF OnceEachMaking
<1>8. QED
  BY <1>1, <1>3, <1>4, <1>5, <1>6, <1>7 DEF TypedWell

(* A step of one call.                                                        *)
LEMMA OneCall ==
  ASSUME KeysInv, NEW c \in Typings, NEW d, TypedWell(d), call' = [call EXCEPT ![c] = d]
  PROVE  KeysInv'
<1>1. /\ DOMAIN call' = Typings /\ call'[c] = d /\ call' = [b \in Typings |-> call'[b]]
      /\ \A b \in Typings : b # c => call'[b] = call[b]
  BY DEF KeysInv
<1>2. \A b \in Typings : TypedWell(call'[b])
  BY <1>1 DEF KeysInv
<1>3. QED
  BY <1>1, <1>2 DEF KeysInv

(* What a call is, of its kind.                                               *)
LEMMA CallIs == ASSUME KeysInv, NEW c \in Typings
                PROVE  /\ TypedWell(call[c])
                       /\ call[c].stage # "none" =>
                            /\ DOMAIN call[c] = {"stage", "kind", "terminal", "answer", "tool", "again", "typed"}
                            /\ call[c].kind \in Term!Own /\ call[c].answer.allow \in BOOLEAN
                            /\ call[c].answer = [tool |-> call[c].answer.tool, allow |-> call[c].answer.allow]
BY DEF KeysInv, TypedWell

(* Nothing is typed, and the call goes to another stage with what it has.     *)
LEMMA GoesOn == ASSUME NEW d, TypedWell(d), d.stage # "none", NEW e, DOMAIN e = DOMAIN d,
                       e.kind = d.kind, e.again = d.again, e.typed = d.typed, e.answer = d.answer,
                       \/ e.tool = d.tool /\ d.stage \in {"begins", "sleeps", "settles"} /\ e.stage \in {"settles", "done"}
                       \/ d.stage \in {"begins", "sleeps"} /\ e.stage = "asks"
                PROVE  TypedWell(e)
<1>1. /\ e.typed \in Seq(Word) /\ e.stage # "none"
      /\ DOMAIN e = {"stage", "kind", "terminal", "answer", "tool", "again", "typed"} /\ e.kind \in Term!Own
      /\ e.answer = [tool |-> e.answer.tool, allow |-> e.answer.allow] /\ e.answer.allow \in BOOLEAN
      /\ e.stage \notin {"begins", "sleeps"}
      /\ e.stage = "asks" => \A k \in 1..Len(e.typed) : e.typed[k].what = "text"
      /\ e.again \in Nat
  BY DEF TypedWell
<1>4. OnceEachMaking(e)
  <2>1. OnceEachMaking(d) /\ \A k \in 1..Len(d.typed) : d.typed[k].again \in Nat
    BY AgainIsNat DEF TypedWell
  <2>2. d.stage \in {"begins", "sleeps"} => \A k \in 1..Len(d.typed) : d.typed[k].again <= d.again
    BY <1>1, <2>1 DEF OnceEachMaking
  <2>3. QED
    BY <1>1, <2>1, <2>2 DEF OnceEachMaking
<1>2. ASSUME NEW k \in 1..Len(e.typed)
      PROVE  /\ e.typed[k].what \notin AnswerWords => ~ e.typed[k].waits
             /\ e.typed[k].what \in AnswerWords => e.answer = [tool |-> e.tool, allow |-> e.typed[k].what = "allow"]
             /\ e.typed[k].what \in Term!Own => k = Len(e.typed) /\ e.answer.tool = Term!Nothing
  <2>1. CASE e.tool = d.tool
    BY <1>2, <2>1 DEF TypedWell
  <2>2. CASE e.tool # d.tool
    <3>1. e.typed[k].what = "text"
      BY <1>2, <2>2 DEF TypedWell
    <3>2. QED
      BY <1>2, <3>1 DEF TypedWell, Term!Own, AnswerWords
  <2>3. QED
    BY <2>1, <2>2
<1>3. QED
  BY <1>1, <1>2, <1>4 DEF TypedWell

(* A call sends its keys, hands over what the prompt asks, or is refused.     *)
LEMMA InputInv == ASSUME KeysInv, NEW c \in Typings, call[c].stage \in {"begins", "sleeps"}, Term!Input(c)
                  PROVE  KeysInv'
<1> DEFINE d == call[c]
           t == d.terminal
<1>1. /\ TypedWell(d) /\ DOMAIN d = {"stage", "kind", "terminal", "answer", "tool", "again", "typed"}
      /\ d.kind \in Term!Own /\ d.answer.allow \in BOOLEAN
      /\ d.answer = [tool |-> d.answer.tool, allow |-> d.answer.allow] /\ d.answer.tool = d.tool
      /\ DOMAIN call = Typings /\ d.again \in Nat
  BY CallIs DEF TypedWell, KeysInv
<1>2. Term!PersonWaits(t) \in BOOLEAN
  BY DEF Term!PersonWaits
<1>3. CASE Term!Refused(c)
  <2> DEFINE e == [d EXCEPT !.stage = "done"]
  <2>1. call' = [call EXCEPT ![c] = e]
    BY <1>3 DEF Term!Refused, Term!Becomes
  <2>2. TypedWell(e)
    BY <1>1, GoesOn
  <2>3. QED
    BY <2>1, <2>2, OneCall
<1>4. CASE Term!ForThePerson(c)
  <2> DEFINE tool == state[t].tool
  <2>1. CASE d.answer.tool = tool
    <3> DEFINE w == [what |-> Term!AnswerOf(d.answer.allow), waits |-> Term!PersonWaits(t), again |-> d.again]
               e == [d EXCEPT !.stage = "settles", !.typed = Append(d.typed, w)]
    <3>1. call' = [call EXCEPT ![c] = e]
      BY <1>1, <1>4, <2>1 DEF Term!ForThePerson, Term!Types, Term!Typed
    <3>2. w \in Word /\ w.what \in AnswerWords /\ d.answer.allow = (w.what = "allow")
          /\ w.again = d.again /\ w.what # "text"
      BY <1>1, <1>2 DEF Word, Term!AnswerOf, AnswerWords
    <3>3. /\ DOMAIN e = DOMAIN d /\ e.kind = d.kind /\ e.again = d.again /\ e.typed = Append(d.typed, w) /\ e.answer = d.answer
          /\ e.tool = d.tool /\ e.stage = "settles"
      BY <1>1
    <3>4. e.answer = [tool |-> e.tool, allow |-> w.what = "allow"]
      BY <1>1, <3>2, <3>3
    <3> HIDE DEF w, e
    <3>5. /\ e.answer = [tool |-> e.answer.tool, allow |-> e.answer.allow] /\ e.answer.allow \in BOOLEAN
          /\ d.stage \in {"begins", "sleeps", "asks"}
      BY <1>1, <3>3
    <3> HIDE DEF d
    <3>6. TypedWell(e)
      BY <1>1, <3>2, <3>3, <3>4, <3>5, TypesWell
    <3>7. QED
      BY <3>1, <3>6, OneCall DEF d
  <2>2. CASE d.answer.tool # tool
    <3> DEFINE e == [d EXCEPT !.stage = "asks", !.tool = tool]
    <3>1. call' = [call EXCEPT ![c] = e]
      BY <1>1, <1>4, <2>2 DEF Term!ForThePerson
    <3>2. TypedWell(e)
      BY <1>1, GoesOn
    <3>3. QED
      BY <3>1, <3>2, OneCall
  <2>3. QED
    BY <2>1, <2>2
<1>5. CASE Term!Sent(c)
  <2>1. CASE Term!Retry(c)
    <3> DEFINE e == [d EXCEPT !.stage = "settles"]
    <3>1. call' = [call EXCEPT ![c] = e]
      BY <1>5, <2>1 DEF Term!Sent, Term!Becomes
    <3>2. TypedWell(e)
      BY <1>1, GoesOn
    <3>3. QED
      BY <3>1, <3>2, OneCall
  <2>2. CASE ~ Term!Retry(c)
    <3> DEFINE w == [what |-> d.kind, waits |-> Term!PersonWaits(t), again |-> d.again]
               e == [d EXCEPT !.stage = "settles", !.typed = Append(d.typed, w)]
    <3>1. call' = [call EXCEPT ![c] = e]
      BY <1>1, <1>5, <2>2 DEF Term!Sent, Term!Types, Term!Typed
    <3>2. w \in Word /\ w.what \in Term!Own /\ ~ w.waits /\ d.answer.tool = Term!Nothing
          /\ w.again = d.again /\ w.what # "text"
      BY <1>1, <1>2, <1>5, <2>2 DEF Word, Term!Own, Term!Sent, Term!Retry
    <3>3. /\ DOMAIN e = DOMAIN d /\ e.kind = d.kind /\ e.again = d.again /\ e.typed = Append(d.typed, w) /\ e.answer = d.answer
          /\ e.stage = "settles"
      BY <1>1
    <3> HIDE DEF w, e
    <3>4. /\ e.answer = [tool |-> e.answer.tool, allow |-> e.answer.allow] /\ e.answer.allow \in BOOLEAN
          /\ e.answer.tool = Term!Nothing /\ d.stage \in {"begins", "sleeps", "asks"}
      BY <1>1, <3>2, <3>3
    <3> HIDE DEF d
    <3>5. TypedWell(e)
      BY <1>1, <3>2, <3>3, <3>4, TypesWell
    <3>6. QED
      BY <3>1, <3>5, OneCall DEF d
  <2>3. QED
    BY <2>1, <2>2
<1>6. QED
  BY <1>3, <1>4, <1>5 DEF Term!Input

(* A call begins: a long text is typed before its key.                        *)
LEMMA RunsInv == ASSUME KeysInv, NEW c \in Typings, Term!Runs(c) PROVE KeysInv'
<1> DEFINE d == call[c]
<1>1. CASE Term!TypesApart(c)
  <2> DEFINE w == [what |-> "text", waits |-> Term!PersonWaits(d.terminal), again |-> d.again]
             e == [d EXCEPT !.stage = "sleeps", !.typed = Append(d.typed, w)]
  <2>1. /\ TypedWell(d) /\ DOMAIN d = {"stage", "kind", "terminal", "answer", "tool", "again", "typed"}
        /\ d.answer.allow \in BOOLEAN /\ d.answer.tool = d.tool /\ DOMAIN call = Typings /\ d.stage = "begins"
        /\ d.answer = [tool |-> d.answer.tool, allow |-> d.answer.allow] /\ d.again \in Nat
    BY CallIs DEF Term!Runs, TypedWell, KeysInv
  <2>2. call' = [call EXCEPT ![c] = e]
    BY <1>1, <2>1 DEF Term!Runs, Term!Typed
  <2>3. w \in Word /\ w.what = "text" /\ ~ w.waits /\ w.again = d.again
    <3>1. Term!PersonWaits(d.terminal) = FALSE
      BY <1>1 DEF Term!TypesApart, Term!PersonWaits
    <3>2. QED
      BY <2>1, <3>1 DEF Word
  <2>4. /\ DOMAIN e = DOMAIN d /\ e.kind = d.kind /\ e.again = d.again /\ e.typed = Append(d.typed, w) /\ e.answer = d.answer
        /\ e.stage = "sleeps" /\ e.tool = d.tool
    BY <2>1
  <2> HIDE DEF w, e
  <2>5. TypedWell(e)
    BY <2>1, <2>3, <2>4, TypesWell
  <2>6. QED
    BY <2>2, <2>5, OneCall
<1>2. CASE ~ Term!TypesApart(c)
  BY <1>2, InputInv DEF Term!Runs
<1>3. QED
  BY <1>1, <1>2

(* The person's answer is typed, or waits for the terminal.                   *)
LEMMA AnswersInv == ASSUME KeysInv, NEW c \in Typings, NEW allow \in BOOLEAN,
                           Term!Answers(c, allow) \/ Term!AnswersLater(c, allow)
                    PROVE  KeysInv'
<1> DEFINE d == call[c]
           answer == [tool |-> d.tool, allow |-> allow]
<1>1. /\ TypedWell(d) /\ DOMAIN d = {"stage", "kind", "terminal", "answer", "tool", "again", "typed"} /\ d.kind \in Term!Own
      /\ DOMAIN call = Typings /\ d.stage = "asks" /\ d.again \in Nat
  BY CallIs DEF TypedWell, Term!Answers, Term!AnswersLater, KeysInv
<1>2. answer.tool = d.tool /\ answer.allow = allow /\ answer = [tool |-> answer.tool, allow |-> answer.allow]
  OBVIOUS
<1>3. CASE Term!Answers(c, allow)
  <2> DEFINE w == [what |-> Term!AnswerOf(allow), waits |-> Term!PersonWaits(d.terminal), again |-> d.again]
             e == [d EXCEPT !.stage = "settles", !.answer = answer, !.typed = Append(d.typed, w)]
  <2>1. call' = [call EXCEPT ![c] = e]
    BY <1>1, <1>3 DEF Term!Answers, Term!Typed
  <2>2. w \in Word /\ w.what \in AnswerWords /\ allow = (w.what = "allow") /\ w.again = d.again /\ w.what # "text"
    BY <1>1 DEF Word, Term!AnswerOf, AnswerWords, Term!PersonWaits
  <2>3. /\ DOMAIN e = DOMAIN d /\ e.kind = d.kind /\ e.again = d.again /\ e.typed = Append(d.typed, w) /\ e.answer = answer
        /\ e.tool = d.tool /\ e.stage = "settles"
    BY <1>1
  <2>4. e.answer = [tool |-> e.tool, allow |-> w.what = "allow"]
    BY <2>2, <2>3
  <2> HIDE DEF w, e
  <2>5. /\ e.answer = [tool |-> e.answer.tool, allow |-> e.answer.allow] /\ e.answer.allow \in BOOLEAN
        /\ w.what \in AnswerWords /\ d.stage \in {"begins", "sleeps", "asks"}
    BY <1>1, <1>2, <2>2, <2>3
  <2> HIDE DEF d, answer
  <2>6. TypedWell(e)
    BY <1>1, <2>2, <2>3, <2>4, <2>5, TypesWell
  <2>7. QED
    BY <2>1, <2>6, OneCall DEF d
<1>4. CASE Term!AnswersLater(c, allow)
  <2> DEFINE to == IF d.terminal \in terminals THEN "begins" ELSE "done"
             e == [d EXCEPT !.stage = to, !.answer = answer, !.again = @ + 1]
  <2>1. call' = [call EXCEPT ![c] = e]
    BY <1>1, <1>4 DEF Term!AnswersLater
  <2>2. /\ DOMAIN e = DOMAIN d /\ e.kind = d.kind /\ e.again = d.again + 1 /\ e.typed = d.typed /\ e.answer = answer
        /\ e.tool = d.tool /\ e.stage \in {"begins", "done"}
    BY <1>1
  <2> HIDE DEF e, answer
  <2>5. OnceEachMaking(e)
    <3>1. /\ \A k \in 1..Len(d.typed) : d.typed[k].again \in Nat
          /\ OnceEachMaking(d)
      BY <1>1, AgainIsNat DEF TypedWell
    <3>2. QED
      BY <1>1, <2>2, <3>1 DEF OnceEachMaking
  <2>3. TypedWell(e)
    <3>1. /\ \A k \in 1..Len(d.typed) : d.typed[k].what = "text" /\ ~ d.typed[k].waits
          /\ d.typed \in Seq(Word) /\ d.kind \in Term!Own
      BY <1>1 DEF TypedWell, AnswerWords
    <3>2. e.answer = [tool |-> e.answer.tool, allow |-> e.answer.allow] /\ e.answer.tool = e.tool /\ e.answer.allow \in BOOLEAN
      BY <1>2, <2>2
    <3>3. e.again \in Nat
      BY <1>1, <2>2
    <3>4. QED
      BY <1>1, <2>2, <2>5, <3>1, <3>2, <3>3 DEF TypedWell, AnswerWords, Term!Own
  <2>4. QED
    BY <2>1, <2>3, OneCall
<1>5. QED
  BY <1>3, <1>4

(* Whatever a call, a terminal, its observer or the host does next.           *)
LEMMA TerminalsInv == KeysInv /\ [Term!Next]_(Term!tmVars) => KeysInv'
<1> SUFFICES ASSUME KeysInv, [Term!Next]_(Term!tmVars) PROVE KeysInv'
  OBVIOUS
<1>1. ASSUME UNCHANGED call PROVE KeysInv'
  BY <1>1 DEF KeysInv
<1>2. ASSUME NEW c \in Typings, Term!Wakes(c) PROVE KeysInv'
  BY <1>2, InputInv DEF Term!Wakes
<1>3. ASSUME NEW c \in Typings, Term!Settles(c) PROVE KeysInv'
  <2> DEFINE e == [call[c] EXCEPT !.stage = "done"]
  <2>1. call' = [call EXCEPT ![c] = e] /\ call[c].stage = "settles"
    BY <1>3 DEF Term!Settles
  <2>2. TypedWell(e)
    <3>1. TypedWell(call[c]) /\ DOMAIN call[c] = {"stage", "kind", "terminal", "answer", "tool", "again", "typed"}
      BY <2>1, CallIs
    <3>2. /\ DOMAIN e = DOMAIN call[c] /\ e.kind = call[c].kind /\ e.again = call[c].again /\ e.typed = call[c].typed
          /\ e.answer = call[c].answer /\ e.tool = call[c].tool /\ e.stage = "done"
      BY <3>1
    <3>3. QED
      BY <2>1, <3>1, <3>2, GoesOn
  <2>3. QED
    BY <2>1, <2>2, OneCall
<1>4. ASSUME NEW c \in Typings, NEW kind \in {"keys", "enter"}, NEW t \in Terminals, Term!Makes(c, kind, t) PROVE KeysInv'
  <2>1. call' = [call EXCEPT ![c] = Term!Fresh(kind, t)]
    BY <1>4 DEF Term!Makes
  <2>2. TypedWell(Term!Fresh(kind, t))
    <3> DEFINE e == Term!Fresh(kind, t)
    <3>1. /\ DOMAIN e = {"stage", "kind", "terminal", "answer", "tool", "again", "typed"} /\ e.stage = "begins" /\ e.typed = <<>>
          /\ e.kind \in Term!Own /\ e.answer.allow = FALSE /\ e.answer.tool = e.tool /\ e.again = 0
          /\ e.answer = [tool |-> e.answer.tool, allow |-> e.answer.allow]
      BY DEF Term!Fresh, Term!Own
    <3>2. e.typed \in Seq(Word) /\ \A k \in 1..Len(e.typed) : FALSE
      BY <3>1
    <3> HIDE DEF e
    <3>3. e.answer.allow \in BOOLEAN /\ e.stage # "none"
      BY <3>1
    <3>4. TypedWell(e)
      BY <3>1, <3>2, <3>3 DEF TypedWell, OnceEachMaking
    <3>5. QED
      BY <3>4 DEF e
  <2>3. QED
    BY <2>1, <2>2, OneCall
<1>5. CASE Term!HostLeaves \/ UNCHANGED Term!tmVars
  BY <1>1, <1>5 DEF Term!HostLeaves, Term!tmVars
<1>6. ASSUME NEW t \in Terminals,
             \/ Term!Start(t) \/ Term!Stop(t) \/ Term!TakesDown(t) \/ Term!TurnEnds(t)
             \/ Term!Leaves(t) \/ Term!HearsExit(t) \/ Term!Hears(t)
             \/ Term!Observed(t) \/ (\E p \in Prompts : Term!PutsUp(t, p))
      PROVE  KeysInv'
  BY <1>1, <1>6 DEF Term!Start, Term!Stop, Term!TakesDown, Term!TurnEnds, Term!Leaves,
       Term!HearsExit, Term!Hears, Term!Observed, Term!PutsUp
<1>7. QED
  BY <1>2, <1>3, <1>4, <1>5, <1>6, RunsInv, AnswersInv DEF Term!Next

(* The invariant of what each call has typed, in every state.                 *)
THEOREM KeysInvariant == Term!Spec => []KeysInv
<1>1. QED
  BY NoCallInv, TerminalsInv, PTL DEF Term!Spec

(* A word that a call typed, and when it may.                                 *)
Fits(c, k) ==
  /\ call[c].typed[k].what \in Term!Own \cup {"text"} => ~ call[c].typed[k].waits
  /\ call[c].typed[k].what \in {"allow", "deny"} =>
       call[c].answer = [tool |-> call[c].tool, allow |-> call[c].typed[k].what = "allow"]
  /\ call[c].typed[k].what \in Term!Own => k = Len(call[c].typed) /\ ~ Term!Retry(c)

(* Whatever prompts come and go while a call waits, what it types at a prompt *)
(* for the person is the person's own answer about that tool, and its own     *)
(* keys are the last it types; its text goes once each time the call is made  *)
(* (terminal_type, terminal_keys).                                            *)
THEOREM KeysHold == Term!Spec => []Term!KeysAreNotAnswers
<1>1. KeysInv => Term!KeysAreNotAnswers
  <2> SUFFICES ASSUME KeysInv, NEW c \in Typings
               PROVE  /\ \A k \in 1..Len(call[c].typed) : Fits(c, k)
                      /\ \A j, k \in 1..Len(call[c].typed) :
                           j < k /\ call[c].typed[j].what = "text" /\ call[c].typed[k].what = "text" =>
                             call[c].typed[j].again < call[c].typed[k].again
    BY DEF Term!KeysAreNotAnswers, Fits
  <2>1. TypedWell(call[c])
    BY CallIs
  <2>2. QED
    BY <2>1 DEF TypedWell, OnceEachMaking, Fits, AnswerWords, Term!Own, Term!Retry
<1>2. QED
  BY <1>1, KeysInvariant, PTL

-----------------------------------------------------------------------------
(* The list of changes (Review): for any pieces and edits, what was dropped   *)
(* on it can be taken back.                                                   *)

CONSTANTS Pieces, Whole, MaxEdits
VARIABLES work, index, head, edits, list, undone, held, raced, plan

Rev == INSTANCE Review

KnownTexts(e) == [Pieces -> 0..e]
(* What the list read is of edits made; and of what a revert is about to drop,*)
(* a hunk as it was read and a whole file as it is are kept, whatever else    *)
(* was written since.                                                         *)
ListIs(l) ==
  /\ {l.from, l.to, l.base, l.staged} \subseteq KnownTexts(edits)
  /\ l.at \in {"closed", "reads", "shown", "reverts"}
  /\ l.at = "reverts" => l.piece \in Pieces /\ \A q \in Pieces :
       work[q] \in (IF q \in Whole THEN held \cup raced ELSE IF work[q] = l.to[q] THEN held ELSE {work[q]})
ReviewInv ==
  /\ edits \in Nat
  /\ {work, index, head} \subseteq KnownTexts(edits)
  /\ ListIs(list)
  /\ Rev!NothingDroppedIsGone

(* What it is that no list is open.                                           *)
LEMMA NoListIs == Rev!Nothing \in [Pieces -> {0}] /\ Rev!NoList.at = "closed"
                  /\ Rev!NoList.from = Rev!Nothing /\ Rev!NoList.to = Rev!Nothing
                       /\ Rev!NoList.base = Rev!Nothing /\ Rev!NoList.staged = Rev!Nothing
BY DEF Rev!Nothing, Rev!NoList

(* Nothing was changed, and no list is open.                                  *)
LEMMA NoListInv == Rev!Init => ReviewInv
BY NoListIs DEF Rev!Init, ReviewInv, ListIs, KnownTexts, Rev!NothingDroppedIsGone

(* The list is closed, and read again.                                        *)
LEMMA ClosedIs == ASSUME ReviewInv, list' = Rev!NoList, edits' = edits PROVE ListIs(list)'
BY NoListIs DEF ReviewInv, ListIs, KnownTexts

(* Whatever an edit, the list, a commit or git does next.                     *)
LEMMA ReviewNextInv == ReviewInv /\ [Rev!Next]_(Rev!rvVars) => ReviewInv'
<1> SUFFICES ASSUME ReviewInv, [Rev!Next]_(Rev!rvVars) PROVE ReviewInv'
  OBVIOUS
<1> USE DEF ReviewInv, Rev!copy, Rev!record
<1>1. ASSUME NEW p \in Pieces, Rev!Edits(p) PROVE ReviewInv'
  <2>1. /\ edits' = edits + 1 /\ work' = [work EXCEPT ![p] = edits + 1]
        /\ raced' = IF list.at = "reverts" /\ p \in Whole THEN raced \cup {edits + 1} ELSE raced
        /\ UNCHANGED <<index, head, list, undone, held, plan>>
    BY <1>1 DEF Rev!Edits
  <2>2. KnownTexts(edits) \subseteq KnownTexts(edits') /\ work' \in KnownTexts(edits')
    BY <2>1 DEF KnownTexts
  <2>3. \A q \in Pieces : list.to[q] \in 0..edits
    BY DEF ListIs, KnownTexts
  <2>4. ListIs(list)'
    BY <2>1, <2>2, <2>3 DEF ListIs, KnownTexts
  <2>5. Rev!NothingDroppedIsGone'
    BY <2>1 DEF Rev!NothingDroppedIsGone
  <2> QED BY <2>1, <2>2, <2>4, <2>5
<1>2. ASSUME NEW p \in Pieces, Rev!Stages(p) \/ Rev!Unstages(p) PROVE ReviewInv'
  <2>1. list' = Rev!NoList /\ UNCHANGED <<work, head, edits, undone, held, raced>>
    BY <1>2 DEF Rev!Stages, Rev!Unstages, Rev!ReadAgain
  <2>2. index' \in KnownTexts(edits)
    BY <1>2 DEF Rev!Stages, Rev!Unstages, ListIs, KnownTexts
  <2> QED BY <2>1, <2>2, ClosedIs DEF Rev!NothingDroppedIsGone
<1>3. ASSUME NEW p \in Pieces, Rev!ChecksPoint(p) PROVE ReviewInv'
  <2>1. /\ list' = [list EXCEPT !.at = "reverts", !.piece = p] /\ list.at = "shown"
        /\ held' = held \cup {work[q] : q \in Pieces}
             /\ UNCHANGED <<work, index, head, edits, undone, raced>>
    BY <1>3 DEF Rev!ChecksPoint
  <2>2. ListIs(list)'
    BY <2>1 DEF ListIs, KnownTexts
  <2> QED BY <2>1, <2>2 DEF Rev!NothingDroppedIsGone
<1>4. CASE Rev!ReadsUnstaged
  <2>1. list' = [list EXCEPT !.at = "reads", !.from = index, !.to = work]
        /\ UNCHANGED <<work, index, head, edits, undone, held, raced>>
    BY <1>4 DEF Rev!ReadsUnstaged
  <2>2. ListIs(list)'
    BY <2>1 DEF ListIs
  <2> QED BY <2>1, <2>2 DEF Rev!NothingDroppedIsGone
<1>5. CASE Rev!ReadsStaged
  <2>1. list' = [list EXCEPT !.at = "shown", !.base = head, !.staged = index]
        /\ UNCHANGED <<work, index, head, edits, undone, held, raced>>
    BY <1>5 DEF Rev!ReadsStaged
  <2>2. ListIs(list)'
    BY <2>1 DEF ListIs
  <2> QED BY <2>1, <2>2 DEF Rev!NothingDroppedIsGone
<1>6. CASE Rev!ClosesList
  BY <1>6, ClosedIs DEF Rev!ClosesList, Rev!NothingDroppedIsGone
<1>7. CASE Rev!Reverts
  <2> DEFINE p == list.piece
  <2>1. /\ list.at = "reverts" /\ list' = Rev!NoList /\ UNCHANGED <<index, head, edits, held, raced>>
        /\ \/ UNCHANGED <<work, undone>>
           \/ /\ Rev!Fits(p)
                /\ work' = [work EXCEPT ![p] = IF p \in Whole THEN index[p] ELSE list.from[p]]
              /\ undone' = undone \cup ({work[p]} \ {work'[p]})
    BY <1>7 DEF Rev!Reverts, Rev!ReadAgain
  <2>2. p \in Pieces /\ (Rev!Fits(p) => work[p] \in held \cup raced)
    BY <2>1 DEF ListIs, Rev!Fits
  <2>3. work' \in KnownTexts(edits)
    BY <2>1, <2>2 DEF ListIs, KnownTexts
  <2> QED BY <2>1, <2>2, <2>3, ClosedIs DEF Rev!NothingDroppedIsGone
<1>8. ASSUME NEW stagedFirst \in SUBSET Pieces, Rev!Commits(stagedFirst),
             UNCHANGED <<work, edits, list, undone, held, raced>>
      PROVE  ReviewInv'
  <2>1. {index', head'} \subseteq KnownTexts(edits)
    BY <1>8 DEF Rev!Commits, KnownTexts
  <2> QED BY <1>8, <2>1 DEF Rev!NothingDroppedIsGone, ListIs
<1>9. CASE Rev!CommitsPlan
  BY <1>8, <1>9 DEF Rev!CommitsPlan
<1>10. ASSUME NEW paths \in SUBSET Pieces, Rev!CommitTool(paths) PROVE ReviewInv'
  BY <1>8, <1>10 DEF Rev!CommitTool
<1>11. CASE Rev!PlansCommit \/ Rev!LeavesPlan \/ UNCHANGED Rev!rvVars
  BY <1>11 DEF Rev!PlansCommit, Rev!LeavesPlan, Rev!rvVars, ListIs, Rev!NothingDroppedIsGone
<1> QED BY <1>1, <1>2, <1>3, <1>4, <1>5, <1>6, <1>7, <1>9, <1>10, <1>11 DEF Rev!Next

(* What a revert drops from the working copy is in a checkpoint or in git,    *)
(* except what was written to a whole file after its checkpoint was taken; so *)
(* a hunk is only reverted as it was shown (review.ts revertHunk,             *)
(* builtin/review.ts act).                                                    *)
THEOREM DroppedIsKept == Rev!Spec => []Rev!NothingDroppedIsGone
<1>1. ReviewInv => Rev!NothingDroppedIsGone
  BY DEF ReviewInv
<1> QED BY <1>1, NoListInv, ReviewNextInv, PTL DEF Rev!Spec

-----------------------------------------------------------------------------
(* The hooks of a project (Hooks): for any sessions and versions, only those  *)
(* the person agreed to run, and their verdict is what they said together.    *)

CONSTANTS Sessions, MaxVersions, UserHooks
VARIABLES version, trusted, writing, session, event, hooksAgreed, hooksRan, hookOn

Hook == INSTANCE Hooks WITH ran <- hooksRan, agreed <- hooksAgreed, on <- hookOn

(* What a hook may have said, and the verdict of what some said.              *)
HookDecisions == {"deny", "ask", "allow", "none"}
HookResults == [by : Nat \ {0}, says : Hook!Outcomes \ {"nothing", "failed"}]
Verdicts == [block : Nat, decision : HookDecisions, by : Nat, context : SUBSET Nat, input : Nat]

Sayings == {"context", "input", "allow", "ask", "deny", "block", "none"}

(* A decision is stronger than those after it in the order.                   *)
LEMMA DecisionOrder ==
  ASSUME NEW x \in {"allow", "ask", "deny"}, NEW y \in HookDecisions
  PROVE  /\ Hook!Stronger(x, y) => x # y
         /\ x = "deny" => (Hook!Stronger(x, y) <=> y \in {"ask", "allow", "none"})
         /\ x = "ask" => (Hook!Stronger(x, y) <=> y \in {"allow", "none"})
         /\ x = "allow" => (Hook!Stronger(x, y) <=> y = "none")
BY DEF Hook!Stronger, Hook!Order, HookDecisions

(* One more result says what it says, and the others what they said.          *)
LEMMA SaysMore ==
  ASSUME NEW R \in Seq(HookResults), NEW r \in HookResults, NEW what
  PROVE  Hook!Says(Append(R, r), what) = Hook!Says(R, what) \cup (IF r.says = what THEN {Len(R) + 1} ELSE {})
BY DEF Hook!Says

(* Who spoke first still did, and speaks first who is alone.                  *)
LEMMA FirstStays ==
  ASSUME NEW R \in Seq(HookResults), NEW r \in HookResults, NEW S \in SUBSET DOMAIN R, NEW by \in Nat
  PROVE  /\ Hook!OfFirst(by, R, S) => Hook!OfFirst(by, Append(R, r), S)
         /\ Hook!OfFirst(by, R, S) /\ S # {} => Hook!OfFirst(by, Append(R, r), S \cup {Len(R) + 1})
         /\ Hook!OfFirst(r.by, Append(R, r), {Len(R) + 1})
<1>1. Append(R, r)[Len(R) + 1] = r /\ \A i \in DOMAIN R : Append(R, r)[i] = R[i] /\ i \in Nat /\ i <= Len(R) + 1
  OBVIOUS
<1> QED BY <1>1 DEF Hook!OfFirst

(* The sets of those who spoke are places of the results.                     *)
LEMMA SaysPlaces == ASSUME NEW R, NEW what PROVE Hook!Says(R, what) \in SUBSET DOMAIN R
BY DEF Hook!Says

(* Who is the first of the strongest of some was named by them, or by none.   *)
LEMMA FirstIsNamed ==
  ASSUME NEW R \in Seq(HookResults), NEW S \in SUBSET DOMAIN R, NEW by, Hook!OfFirst(by, R, S)
  PROVE  by = 0 <=> S = {}
<1>1. \A i \in DOMAIN R : R[i] \in HookResults
  OBVIOUS
<1>2. \A i \in S : R[i].by # 0
  BY <1>1 DEF HookResults
<1> QED BY <1>2 DEF Hook!OfFirst

(* mergeVerdicts: the verdict of some results and one more is what they said  *)
(* together, if that of the others was.                                       *)
LEMMA MergedHolds ==
  ASSUME NEW R \in Seq(HookResults), NEW v \in Verdicts, NEW r \in HookResults, Hook!VerdictHolds(R, v)
  PROVE  Hook!VerdictHolds(Append(R, r), Hook!Merges(v, r)) /\ Hook!Merges(v, r) \in Verdicts
<1> DEFINE m == Hook!Merges(v, r)
           more == Append(R, r)
           n == Len(R) + 1
           says(what) == Hook!Says(R, what)
<1>1. m \in Verdicts
  BY DEF Hook!Merges, Verdicts, HookResults, Hook!Outcomes, HookDecisions
<1>2. more[n] = r /\ \A i \in DOMAIN R : more[i] = R[i]
  OBVIOUS
<1>3. \A what \in Sayings : Hook!Says(more, what) = IF r.says = what THEN says(what) \cup {n} ELSE says(what)
  <2> TAKE what \in Sayings
  <2>1. Hook!Says(more, what) = Hook!Says(R, what) \cup (IF r.says = what THEN {Len(R) + 1} ELSE {})
    BY SaysMore
  <2> QED BY <2>1
<1>4. \A what \in Sayings : says(what) \in SUBSET DOMAIN R
  BY SaysPlaces
<1>5. /\ v.decision = Hook!StrongestOf(R) /\ Hook!OfFirst(v.by, R, says(v.decision))
      /\ Hook!OfFirst(v.block, R, says("block")) /\ v.context = {R[i].by : i \in says("context")}
      /\ v.input # 0 <=> says("input") # {}
  BY DEF Hook!VerdictHolds
<1>6. v.by \in Nat /\ v.block \in Nat /\ v.input \in Nat /\ v.decision \in HookDecisions
      /\ r.by \in Nat \ {0} /\ r.says \in {"context", "input", "allow", "ask", "deny", "block"}
  BY DEF Verdicts, HookResults, Hook!Outcomes
<1>7. /\ r.says = "block" => m = IF v.block = 0 THEN [v EXCEPT !.block = r.by] ELSE v
      /\ r.says = "context" => m = [v EXCEPT !.context = v.context \cup {r.by}]
      /\ r.says = "input" => m = [v EXCEPT !.input = r.by]
      /\ r.says \in {"allow", "ask", "deny"} =>
           m = IF Hook!Stronger(r.says, v.decision) THEN [v EXCEPT !.decision = r.says, !.by = r.by] ELSE v
  BY <1>6 DEF Hook!Merges
<1>8. DOMAIN v = {"block", "decision", "by", "context", "input"}
  BY DEF Verdicts
<1> HIDE DEF m, says
<1> USE DEF Sayings, HookDecisions
<1>9. m.context = {more[i].by : i \in Hook!Says(more, "context")}
  <2>1. CASE r.says = "context"
    <3>1. m.context = v.context \cup {r.by} /\ Hook!Says(more, "context") = says("context") \cup {n}
      BY <1>3, <1>7, <1>8, <2>1
    <3> QED BY <1>2, <1>4, <1>5, <3>1
  <2>2. CASE r.says # "context"
    <3>1. m.context = v.context /\ Hook!Says(more, "context") = says("context")
      BY <1>3, <1>6, <1>7, <1>8, <2>2
    <3> QED BY <1>2, <1>4, <1>5, <3>1
  <2> QED BY <2>1, <2>2
<1>10. m.input # 0 <=> Hook!Says(more, "input") # {}
  BY <1>3, <1>5, <1>6, <1>7, <1>8
<1>11. Hook!OfFirst(m.block, more, Hook!Says(more, "block"))
  <2>1. v.block = 0 <=> says("block") = {}
    BY <1>4, <1>5, FirstIsNamed
  <2>2. CASE r.says = "block"
    <3>1. Hook!Says(more, "block") = says("block") \cup {n} /\ m.block = IF v.block = 0 THEN r.by ELSE v.block
      BY <1>3, <1>7, <1>8, <2>2
    <3>2. CASE says("block") = {}
      BY <2>1, <3>1, <3>2, FirstStays
    <3>3. CASE says("block") # {}
      BY <1>4, <1>5, <1>6, <2>1, <3>1, <3>3, FirstStays
    <3> QED BY <3>2, <3>3
  <2>3. CASE r.says # "block"
    <3>1. Hook!Says(more, "block") = says("block") /\ m.block = v.block
      BY <1>3, <1>6, <1>7, <1>8, <2>3
    <3> QED BY <1>4, <1>5, <1>6, <3>1, FirstStays
  <2> QED BY <2>2, <2>3
<1>12. m.decision = Hook!StrongestOf(more) /\ Hook!OfFirst(m.by, more, Hook!Says(more, m.decision))
  <2>1. CASE r.says \in {"allow", "ask", "deny"} /\ Hook!Stronger(r.says, v.decision)
    <3>1. m.decision = r.says /\ m.by = r.by
      BY <1>7, <1>8, <2>1
    <3>2. says(r.says) = {} /\ m.decision = Hook!StrongestOf(more)
      <4>1. \A what \in Sayings : says(what) = Hook!Says(R, what)
        BY DEF says
      <4>2. r.says \in Sayings
        BY <2>1
      <4>3. CASE r.says = "deny"
        BY <1>3, <1>5, <1>6, <2>1, <3>1, <4>1, <4>3, DecisionOrder DEF Hook!StrongestOf
      <4>4. CASE r.says = "ask"
        BY <1>3, <1>5, <1>6, <2>1, <3>1, <4>1, <4>4, DecisionOrder DEF Hook!StrongestOf
      <4>5. CASE r.says = "allow"
        BY <1>3, <1>5, <1>6, <2>1, <3>1, <4>1, <4>5, DecisionOrder DEF Hook!StrongestOf
      <4> QED BY <2>1, <4>3, <4>4, <4>5
    <3>3. Hook!Says(more, m.decision) = {n}
      BY <1>3, <1>6, <3>1, <3>2
    <3> QED BY <3>1, <3>2, <3>3, FirstStays
  <2>2. CASE ~(r.says \in {"allow", "ask", "deny"} /\ Hook!Stronger(r.says, v.decision))
    <3>1. m.decision = v.decision /\ m.by = v.by
      BY <1>6, <1>7, <1>8, <2>2
    <3>2. m.decision = Hook!StrongestOf(more)
      BY <1>3, <1>5, <1>6, <2>2, <3>1 DEF Hook!Stronger, Hook!Order, Hook!StrongestOf, says
    <3>3. CASE r.says = v.decision
      <4>1. says(v.decision) # {}
        BY <1>5, <1>6, <3>3 DEF Hook!StrongestOf, says
      <4>2. Hook!Says(more, m.decision) = says(v.decision) \cup {n}
        BY <1>3, <1>6, <3>1, <3>3
      <4> QED BY <1>4, <1>5, <1>6, <3>1, <3>2, <4>1, <4>2, FirstStays
    <3>4. CASE r.says # v.decision
      <4>1. Hook!Says(more, m.decision) = says(v.decision)
        BY <1>3, <1>6, <3>1, <3>4
      <4> QED BY <1>4, <1>5, <1>6, <3>1, <3>2, <4>1, FirstStays
    <3> QED BY <3>3, <3>4
  <2> QED BY <2>1, <2>2
<1>13. Hook!VerdictHolds(more, m)
  BY <1>9, <1>10, <1>11, <1>12 DEF Hook!VerdictHolds
<1> QED BY <1>1, <1>13 DEF m

(* An event: its next handler, and what those before it said together.        *)
EventFine(e) ==
  /\ e.next \in Nat \ {0} /\ e.results \in Seq(HookResults) /\ e.verdict \in Verdicts
  /\ Hook!VerdictHolds(e.results, e.verdict)

(* An event that begins has no results.                                       *)
LEMMA NoEventFine == EventFine(Hook!NoEvent) /\ EventFine([Hook!NoEvent EXCEPT !.at = "runs"])
<1> DEFINE e == [Hook!NoEvent EXCEPT !.at = "runs"]
<1>1. /\ e.next = 1 /\ e.results = <<>> /\ e.verdict = Hook!NoVerdict
      /\ Hook!NoEvent.next = 1 /\ Hook!NoEvent.results = <<>> /\ Hook!NoEvent.verdict = Hook!NoVerdict
  BY DEF Hook!NoEvent
<1>2. Hook!NoVerdict \in Verdicts
  BY DEF Hook!NoVerdict, Verdicts, HookDecisions
<1>3. \A what \in Sayings : Hook!Says(<<>>, what) = {}
  BY DEF Hook!Says
<1>4. Hook!VerdictHolds(<<>>, Hook!NoVerdict)
  BY <1>3 DEF Hook!VerdictHolds, Hook!NoVerdict, Hook!StrongestOf, Hook!OfFirst, Sayings
<1> HIDE DEF e
<1>5. EventFine(e)
  BY <1>1, <1>2, <1>4 DEF EventFine
<1> QED BY <1>1, <1>2, <1>4, <1>5 DEF EventFine, e

(* What may be trusted, or run: what was agreed to, or the user's own.        *)
Trustworthy == hooksAgreed \cup {0}
HooksInv ==
  /\ hooksRan \subseteq hooksAgreed /\ trusted \in Trustworthy
  /\ DOMAIN writing = Hook!Writers /\ DOMAIN session = Sessions /\ DOMAIN event = Sessions
  /\ \A w \in Hook!Writers : writing[w].at = "writes" => writing[w].digest \in Trustworthy
       /\ writing[w].read \in Trustworthy
  /\ \A s \in Sessions :
       /\ writing[s].at = "writes" => session[s].loaded \in Trustworthy /\ session[s].at # "closed"
       /\ session[s].handlers \in Seq(Trustworthy)
       /\ EventFine(event[s])

(* Nothing is trusted, and no session is open.                                *)
LEMMA NoHookInv == Hook!Init => HooksInv
<1> SUFFICES ASSUME Hook!Init PROVE HooksInv
  OBVIOUS
<1>1. \A s \in Sessions : session[s].handlers = <<>> /\ event[s] = Hook!NoEvent
  BY DEF Hook!Init, Hook!Closed
<1>2. \A w \in Hook!Writers : writing[w].at = "none"
  BY DEF Hook!Init, Hook!NotWriting
<1>3. \A s \in Sessions : writing[s].at = "none"
  BY <1>2 DEF Hook!Writers
<1>4. DOMAIN writing = Hook!Writers /\ DOMAIN session = Sessions /\ DOMAIN event = Sessions
           /\ hooksRan = {} /\ trusted = 0
  BY DEF Hook!Init
<1>5. <<>> \in Seq(Trustworthy) /\ 0 \in Trustworthy
  BY DEF Trustworthy
<1>6. \A s \in Sessions : session[s].handlers \in Seq(Trustworthy) /\ EventFine(event[s])
  <2> TAKE s \in Sessions
  <2>1. session[s].handlers = <<>> /\ event[s] = Hook!NoEvent
    BY <1>1
  <2>2. session[s].handlers \in Seq(Trustworthy)
    BY <1>5, <2>1
  <2> QED BY <2>1, <2>2, NoEventFine
<1>7. hooksRan \subseteq hooksAgreed /\ trusted \in Trustworthy
  BY <1>4, <1>5
<1> QED BY <1>2, <1>3, <1>4, <1>6, <1>7 DEF HooksInv

(* What a process reads of the file, and is to write.                         *)
LEMMA TrustReadsInv ==
  ASSUME HooksInv, NEW w \in Hook!Writers, NEW digest, Hook!ReadsTrust(w, digest),
         digest \in Trustworthy', hooksAgreed \subseteq hooksAgreed',
         w \in Sessions => session[w].loaded \in Trustworthy'
              /\ session[w].at # "closed", UNCHANGED <<trusted, session, event, hooksRan>>
  PROVE  HooksInv'
<1> DEFINE r == [at |-> "writes", digest |-> digest, read |-> trusted]
<1>1. r.at = "writes" /\ r.digest = digest /\ r.read = trusted
  OBVIOUS
<1>2. writing' = [writing EXCEPT ![w] = r]
  BY DEF Hook!ReadsTrust
<1> HIDE DEF r
<1>3. Trustworthy \subseteq Trustworthy'
  BY DEF Trustworthy
<1>4. \A s \in Sessions : session'[s].handlers \in Seq(Trustworthy')
  BY <1>3 DEF HooksInv
<1>5. hooksRan' \subseteq hooksAgreed' /\ trusted' \in Trustworthy'
  BY <1>3 DEF HooksInv
<1>6. DOMAIN writing' = Hook!Writers
  BY <1>2 DEF HooksInv
<1>7. \A v \in Hook!Writers : writing'[v].at = "writes" => writing'[v].digest \in Trustworthy'
           /\ writing'[v].read \in Trustworthy'
  BY <1>1, <1>2, <1>3 DEF HooksInv
<1>8. \A s \in Sessions : writing'[s].at = "writes" => session'[s].loaded \in Trustworthy'
           /\ session'[s].at # "closed"
  BY <1>1, <1>2, <1>3 DEF HooksInv, Hook!Writers
<1> QED BY <1>4, <1>5, <1>6, <1>7, <1>8 DEF HooksInv

(* What is written of this project was agreed to.                             *)
LEMMA TrustWritesInv == ASSUME HooksInv, NEW w \in Hook!Writers, Hook!WritesTrust(w)
                   PROVE  trusted' \in Trustworthy /\ writing' = [writing EXCEPT ![w] = Hook!NotWriting] /\ writing[w].at = "writes"
BY DEF HooksInv, Hook!WritesTrust

(* Once it is written the process writes nothing.                             *)
LEMMA TrustWrittenInv ==
  ASSUME HooksInv, NEW w \in Hook!Writers, Hook!WritesTrust(w)
  PROVE  /\ DOMAIN writing' = Hook!Writers
         /\ \A v \in Hook!Writers : writing'[v].at = "writes" => writing[v].at = "writes"
              /\ writing'[v] = writing[v]
BY TrustWritesInv DEF HooksInv, Hook!NotWriting

(* Whatever a session, a person, an event or another project does next.       *)
LEMMA HooksNextInv == ASSUME Hook!OnlySessions PROVE HooksInv /\ [Hook!Next]_(Hook!hkVars) => HooksInv'
<1> SUFFICES ASSUME HooksInv, [Hook!Next]_(Hook!hkVars) PROVE HooksInv'
  OBVIOUS
<1>0. \A s \in Sessions : s \in Hook!Writers
  BY DEF Hook!Writers
<1>1. ASSUME NEW s \in Sessions, Hook!Opens(s) PROVE HooksInv'
  <2> DEFINE handlers == Hook!Users \o Hook!Subscribed(hookOn /\ Hook!IsTrusted(version), version)
             o == [at |-> "open", loaded |-> version, on |-> hookOn, trust |-> Hook!IsTrusted(version),
                   handlers |-> handlers]
  <2>1. Hook!Users \in Seq(Trustworthy)
    BY DEF Hook!Users, Trustworthy, Hook!OnlySessions
  <2>2. Hook!Subscribed(hookOn /\ Hook!IsTrusted(version), version) \in Seq(Trustworthy)
    BY DEF Hook!Subscribed, Hook!IsTrusted, HooksInv
  <2>3. handlers \in Seq(Trustworthy)
    BY <2>1, <2>2
  <2>4. o.handlers = handlers
    OBVIOUS
  <2>5. session' = [session EXCEPT ![s] = o] /\ session[s].at = "closed"
             /\ UNCHANGED <<trusted, writing, event, hooksAgreed, hooksRan>>
    BY <1>1 DEF Hook!Opens
  <2>6. Trustworthy' = Trustworthy
    BY <2>5 DEF Trustworthy
  <2> HIDE DEF o, handlers
  <2>7. \A t \in Sessions : session'[t].handlers \in Seq(Trustworthy)
    BY <2>3, <2>4, <2>5 DEF HooksInv
  <2>8. \A t \in Sessions : writing'[t].at = "writes" => session'[t].loaded \in Trustworthy
             /\ session'[t].at # "closed"
    BY <2>5 DEF HooksInv
  <2> QED BY <2>5, <2>6, <2>7, <2>8 DEF HooksInv
<1>2. ASSUME NEW s \in Sessions, Hook!Closes(s) PROVE HooksInv'
  <2>1. Hook!Closed.handlers \in Seq(Trustworthy)
    BY DEF Hook!Closed
  <2>2. session' = [session EXCEPT ![s] = Hook!Closed] /\ writing[s].at # "writes"
             /\ UNCHANGED <<trusted, writing, event, hooksAgreed, hooksRan>>
    BY <1>2 DEF Hook!Closes
  <2>3. Trustworthy' = Trustworthy
    BY <2>2 DEF Trustworthy
  <2>4. \A t \in Sessions : session'[t].handlers \in Seq(Trustworthy)
    BY <2>1, <2>2 DEF HooksInv
  <2>5. \A t \in Sessions : writing'[t].at = "writes" => session'[t].loaded \in Trustworthy
             /\ session'[t].at # "closed"
    BY <2>2 DEF HooksInv
  <2> QED BY <2>2, <2>3, <2>4, <2>5 DEF HooksInv
<1>3. ASSUME NEW s \in Sessions, Hook!Agrees(s) PROVE HooksInv'
  <2>1. Hook!ReadsTrust(s, session[s].loaded) /\ session[s].loaded \in Trustworthy'
             /\ hooksAgreed \subseteq hooksAgreed'
    BY <1>3 DEF Hook!Agrees, Trustworthy
  <2>2. session[s].at # "closed" /\ UNCHANGED <<trusted, session, event, hooksRan>>
    BY <1>3 DEF Hook!Agrees
  <2> QED BY <1>0, <2>1, <2>2, TrustReadsInv
<1>4. CASE Hook!CliAgrees
  <2>1. Hook!ReadsTrust("cli", version) /\ version \in Trustworthy'
             /\ hooksAgreed \subseteq hooksAgreed' /\ UNCHANGED <<trusted, session, event, hooksRan>>
    BY <1>4 DEF Hook!CliAgrees, Trustworthy
  <2>2. "cli" \in Hook!Writers /\ "cli" \notin Sessions
    BY DEF Hook!Writers, Hook!OnlySessions
  <2> QED BY <2>1, <2>2, TrustReadsInv
<1>5. CASE Hook!ElsewhereAgrees
  <2>1. Hook!ReadsTrust("elsewhere", 0) /\ 0 \in Trustworthy'
             /\ hooksAgreed \subseteq hooksAgreed' /\ UNCHANGED <<trusted, session, event, hooksRan>>
    BY <1>5 DEF Hook!ElsewhereAgrees, Trustworthy
  <2>2. "elsewhere" \in Hook!Writers /\ "elsewhere" \notin Sessions
    BY DEF Hook!Writers, Hook!OnlySessions
  <2> QED BY <2>1, <2>2, TrustReadsInv
<1>6. ASSUME NEW s \in Sessions, Hook!TrustsHere(s) PROVE HooksInv'
  <2>1. Hook!WritesTrust(s) /\ UNCHANGED <<version, event, hooksAgreed, hooksRan>>
    BY <1>6 DEF Hook!TrustsHere
  <2>2. Trustworthy' = Trustworthy
    BY <2>1 DEF Trustworthy
  <2>3. trusted' \in Trustworthy /\ writing[s].at = "writes"
    BY <1>0, <2>1, TrustWritesInv
  <2>4. /\ DOMAIN writing' = Hook!Writers
        /\ \A v \in Hook!Writers : writing'[v].at = "writes" => writing[v].at = "writes"
             /\ writing'[v] = writing[v]
    BY <1>0, <2>1, TrustWrittenInv
  <2>5. session[s].loaded \in Trustworthy /\ session[s].handlers \in Seq(Trustworthy)
    BY <2>3 DEF HooksInv
  <2> DEFINE more == session[s].handlers \o Hook!Subscribed(session[s].on, session[s].loaded)
  <2>6. more \in Seq(Trustworthy)
    <3>1. Hook!Subscribed(session[s].on, session[s].loaded) \in Seq(Trustworthy)
      BY <2>5 DEF Hook!Subscribed
    <3> QED BY <2>5, <3>1
  <2>7. /\ session' = [session EXCEPT ![s] = [session[s] EXCEPT !.trust = TRUE, !.handlers = more]]
        /\ DOMAIN session = Sessions
    BY <1>6 DEF Hook!TrustsHere, HooksInv
  <2> DEFINE o == [session[s] EXCEPT !.trust = TRUE, !.handlers = more]
  <2>8. /\ o.loaded = session[s].loaded
        /\ o.at = session[s].at
    OBVIOUS
  <2>9. o.handlers \in Seq(Trustworthy)
    BY <2>5, <2>6
  <2>10. session' = [session EXCEPT ![s] = o]
    BY <2>7
  <2> HIDE DEF o
  <2>11. \A t \in Sessions : /\ session'[t].handlers \in Seq(Trustworthy)
                             /\ session'[t].loaded = session[t].loaded
                             /\ session'[t].at = session[t].at
    BY <2>7, <2>8, <2>9, <2>10 DEF HooksInv
  <2>12. DOMAIN session' = Sessions
    BY <2>7, <2>10
  <2>13. \A t \in Sessions : writing'[t].at = "writes" => session'[t].loaded \in Trustworthy
              /\ session'[t].at # "closed"
    BY <1>0, <2>4, <2>11 DEF HooksInv
  <2>14. \A w \in Hook!Writers : writing'[w].at = "writes" => writing'[w].digest \in Trustworthy
              /\ writing'[w].read \in Trustworthy
    BY <2>4 DEF HooksInv
  <2> QED BY <2>1, <2>2, <2>3, <2>4, <2>11, <2>12, <2>13, <2>14 DEF HooksInv
<1>7. ASSUME NEW w \in {"cli", "elsewhere"}, Hook!WrittenOutside(w) PROVE HooksInv'
  <2>1. w \in Hook!Writers /\ Hook!WritesTrust(w)
             /\ UNCHANGED <<version, session, event, hooksAgreed, hooksRan>>
    BY <1>7 DEF Hook!WrittenOutside, Hook!Writers
  <2>2. Trustworthy' = Trustworthy
    BY <2>1 DEF Trustworthy
  <2>3. trusted' \in Trustworthy
    BY <2>1, TrustWritesInv
  <2>4. /\ DOMAIN writing' = Hook!Writers
        /\ \A v \in Hook!Writers : writing'[v].at = "writes" => writing[v].at = "writes"
             /\ writing'[v] = writing[v]
    BY <2>1, TrustWrittenInv
  <2>5. \A t \in Sessions : writing'[t].at = "writes" => session'[t].loaded \in Trustworthy
             /\ session'[t].at # "closed"
    BY <1>0, <2>1, <2>4 DEF HooksInv
  <2>6. \A v \in Hook!Writers : writing'[v].at = "writes" => writing'[v].digest \in Trustworthy
             /\ writing'[v].read \in Trustworthy
    BY <2>4 DEF HooksInv
  <2> QED BY <2>1, <2>2, <2>3, <2>4, <2>5, <2>6 DEF HooksInv
<1>8. ASSUME UNCHANGED <<trusted, writing, session, event, hooksAgreed, hooksRan>> PROVE HooksInv'
  BY <1>8 DEF HooksInv, Trustworthy
<1>9. ASSUME NEW s \in Sessions, Hook!Emits(s) \/ Hook!Done(s) \/ Hook!Collected(s) PROVE HooksInv'
  <2>1. UNCHANGED <<trusted, writing, session, hooksAgreed, hooksRan>>
    BY <1>9 DEF Hook!Emits, Hook!Done, Hook!Collected
  <2>2. Trustworthy' = Trustworthy
    BY <2>1 DEF Trustworthy
  <2>3. DOMAIN event' = Sessions /\ \A t \in Sessions : EventFine(event'[t])
    <3>1. CASE Hook!Emits(s)
      <4> DEFINE o == [Hook!NoEvent EXCEPT !.at = "runs"]
      <4>1. EventFine(o) /\ event' = [event EXCEPT ![s] = o]
        BY <3>1, NoEventFine DEF Hook!Emits
      <4> HIDE DEF o
      <4> QED BY <4>1 DEF HooksInv
    <3>2. CASE Hook!Done(s)
      <4>1. event' = [event EXCEPT ![s] = Hook!NoEvent]
        BY <3>2 DEF Hook!Done
      <4> QED BY <4>1, NoEventFine DEF HooksInv
    <3>3. CASE Hook!Collected(s)
      <4> DEFINE o == [event[s] EXCEPT !.at = "decided"]
      <4>1. event' = [event EXCEPT ![s] = o] /\ EventFine(event[s])
        BY <3>3 DEF Hook!Collected, HooksInv
      <4>2. o.next = event[s].next /\ o.results = event[s].results /\ o.verdict = event[s].verdict
        OBVIOUS
      <4> HIDE DEF o
      <4>3. EventFine(o)
        BY <4>1, <4>2 DEF EventFine
      <4> QED BY <4>1, <4>3 DEF HooksInv
    <3> QED BY <1>9, <3>1, <3>2, <3>3
  <2> QED BY <2>1, <2>2, <2>3 DEF HooksInv
<1>10. ASSUME NEW s \in Sessions, NEW outcome \in Hook!Outcomes, Hook!RunsHook(s, outcome)
       PROVE  HooksInv'
  <2> DEFINE e == event[s]
             hook == session[s].handlers[e.next]
  <2>1. UNCHANGED <<trusted, writing, session, hooksAgreed>>
             /\ e.next <= Len(session[s].handlers) /\ hooksRan' = hooksRan \cup ({hook} \ {0})
    BY <1>10 DEF Hook!RunsHook
  <2>2. Trustworthy' = Trustworthy
    BY <2>1 DEF Trustworthy
  <2>3. session[s].handlers \in Seq(Trustworthy) /\ EventFine(e)
    BY DEF HooksInv
  <2>4. hook \in Trustworthy
    BY <2>1, <2>3 DEF EventFine
  <2>5. hooksRan' \subseteq hooksAgreed
    BY <2>1, <2>4 DEF HooksInv, Trustworthy
  <2> DEFINE r == [by |-> e.next, says |-> outcome]
             heard == outcome \notin {"nothing", "failed"}
             results == IF heard THEN Append(e.results, r) ELSE e.results
             verdict == IF heard THEN Hook!Merges(e.verdict, r) ELSE e.verdict
             o == [at |-> "runs", next |-> e.next + 1, results |-> results, verdict |-> verdict]
  <2>6. event' = [event EXCEPT ![s] = o]
    BY <1>10 DEF Hook!RunsHook
  <2>7. results \in Seq(HookResults) /\ verdict \in Verdicts /\ Hook!VerdictHolds(results, verdict)
    <3>1. CASE heard
      <4>1. r \in HookResults
        BY <2>3, <3>1 DEF HookResults, EventFine
      <4>2. e.results \in Seq(HookResults) /\ e.verdict \in Verdicts /\ Hook!VerdictHolds(e.results, e.verdict)
        BY <2>3 DEF EventFine
      <4> HIDE DEF r, e
      <4> QED BY <3>1, <4>1, <4>2, MergedHolds
    <3>2. CASE ~heard
      BY <2>3, <3>2 DEF EventFine
    <3> QED BY <3>1, <3>2
  <2>8. o.next = e.next + 1 /\ o.results = results /\ o.verdict = verdict
    OBVIOUS
  <2> HIDE DEF o, results, verdict
  <2>9. EventFine(o)
    BY <2>3, <2>7, <2>8 DEF EventFine
  <2>10. DOMAIN event' = Sessions /\ \A t \in Sessions : EventFine(event'[t])
    BY <2>6, <2>9 DEF HooksInv
  <2> QED BY <2>1, <2>2, <2>5, <2>10 DEF HooksInv
<1>11. CASE Hook!Changes \/ Hook!Switches
  BY <1>8, <1>11 DEF Hook!Changes, Hook!Switches
<1>12. CASE UNCHANGED Hook!hkVars
  BY <1>8, <1>12 DEF Hook!hkVars
<1> QED BY <1>1, <1>2, <1>3, <1>4, <1>5, <1>6, <1>7, <1>9, <1>10, <1>11, <1>12 DEF Hook!Next

(* Of a project's hooks only those the person agreed to, on or off, ever run, *)
(* whatever its files and the file of trust became; and the verdict of an     *)
(* event is what its handlers said together: one deny denies, the reason is   *)
(* the first of the strongest, and nothing said is dropped (runtime/hooks.ts  *)
(* SessionHooks, hooks/commands.ts HookTrust, hooks/index.ts mergeVerdicts).  *)
THEOREM HooksRunAsAgreed == ASSUME Hook!OnlySessions PROVE Hook!Spec => []Hook!HooksHold
<1>1. HooksInv => Hook!HooksHold
  BY DEF HooksInv, EventFine, Hook!HooksHold, Hook!RanAsAgreed
<1> QED BY <1>1, NoHookInv, HooksNextInv, PTL DEF Hook!Spec

-----------------------------------------------------------------------------
(* What the system's scheduler keeps (Schedules): for any processes, projects *)
(* and workflows, a schedule that was set is there, and nothing else is.      *)

CONSTANTS Projects, Base, Workflows, Times, Others
VARIABLES platform, table, lines, agents, files, hook, due, touched, crossed

Sch == INSTANCE Schedules WITH held <- lines

(* What a process read differs from the crontab by crossed lines only.        *)
ReadAsIs(h) ==
  h # Sch!Idle => /\ h.new \subseteq Sch!Entries
                  /\ h.text \ table \subseteq crossed /\ table \ h.text \subseteq crossed
InTable == \A e \in due : platform = "cron" /\ e \notin crossed => e \in table
InAgents == \A e \in due : platform # "cron" /\ Sch!Alone(e) => e \in agents /\ e \in files
SchedulesInv ==
  /\ platform \in {"cron", "launchd", "windows"}
  /\ due \subseteq Sch!Entries
  /\ DOMAIN lines = Procs
  /\ \A p \in Procs : ReadAsIs(lines[p]) /\ (platform # "cron" => lines[p] = Sch!Idle)
  /\ InTable /\ InAgents
  /\ Sch!OnlyWhatWasSetRuns
  /\ platform = "cron" => agents = {}
  /\ platform # "cron" => table = Others

(* Nothing was asked for.                                                     *)
LEMMA NoScheduleInv == Sch!Init => SchedulesInv
BY DEF Sch!Init, SchedulesInv, ReadAsIs, InTable, InAgents, Sch!OnlyWhatWasSetRuns

(* Whatever a process, the user, another project or the git hook does next.   *)
LEMMA SchedulesNextInv ==
  ASSUME Sch!LinesApart
  PROVE  SchedulesInv /\ [Sch!Next]_(Sch!scVars) => SchedulesInv'
<1> SUFFICES ASSUME SchedulesInv, [Sch!Next]_(Sch!scVars) PROVE SchedulesInv'
  OBVIOUS
<1>0. ASSUME UNCHANGED <<platform, table, agents, files, due, touched, crossed>>,
             DOMAIN lines' = Procs, \A p \in Procs : lines'[p] = lines[p] \/ lines'[p] = Sch!Idle
      PROVE  SchedulesInv'
  BY <1>0 DEF SchedulesInv, ReadAsIs, InTable, InAgents, Sch!Alone, Sch!OnlyWhatWasSetRuns
<1>1. ASSUME NEW p \in Procs, NEW project, NEW workflow, NEW new, new \subseteq Sch!Entries,
             Sch!Reads(p, project, workflow, new)
      PROVE  SchedulesInv'
  <2> DEFINE h == [stage |-> "read", text |-> table, project |-> project, workflow |-> workflow, new |-> new]
  <2>1. h.text = table /\ h.new = new
    OBVIOUS
  <2> HIDE DEF h
  <2>2. lines' = [lines EXCEPT ![p] = h]
    BY <1>1 DEF Sch!Reads, h
  <2>3. \A q \in Procs : ReadAsIs(lines[q])' /\ (platform' # "cron" => lines'[q] = Sch!Idle)
    BY <1>1, <2>1, <2>2 DEF Sch!Reads, SchedulesInv, ReadAsIs, Sch!others
  <2>4. InTable' /\ InAgents'
    BY <1>1 DEF Sch!Reads, SchedulesInv, InTable, InAgents, Sch!Alone, Sch!others
  <2>5. UNCHANGED <<platform, table, agents, due, crossed>> /\ DOMAIN lines' = Procs
    BY <1>1, <2>2 DEF Sch!Reads, SchedulesInv, Sch!others
  <2> QED BY <2>3, <2>4, <2>5 DEF SchedulesInv, Sch!OnlyWhatWasSetRuns
<1>2. ASSUME NEW p \in Procs, Sch!Writes(p) PROVE SchedulesInv'
  <2> DEFINE h == lines[p]
             then == Sch!EditCrontab(h.text, h.project, h.workflow, h.new)
  <2>1. h # Sch!Idle /\ platform = "cron" /\ h.new \subseteq Sch!Entries
    BY <1>2 DEF Sch!Writes, SchedulesInv, ReadAsIs
  <2>2. /\ table' = IF h.new = {} /\ then = h.text THEN table ELSE then
        /\ due' = {e \in due : ~Sch!Is(e, h.project, h.workflow)} \cup h.new
        /\ lines' = [lines EXCEPT ![p] = Sch!Idle]
        /\ UNCHANGED <<platform, agents, files>>
    BY <1>2 DEF Sch!Writes, Sch!Asked
  <2>3. crossed \subseteq crossed'
    BY <1>2 DEF Sch!Writes, Sch!Crosses
  <2>4. ASSUME NEW q \in Procs PROVE ReadAsIs(lines[q])'
    <3>1. CASE lines'[q] = Sch!Idle
      BY <3>1 DEF ReadAsIs
    <3>2. CASE lines'[q] # Sch!Idle
      <4>1. q # p /\ lines'[q] = lines[q] /\ lines[q] # Sch!Idle
        BY <2>2, <3>2 DEF SchedulesInv
      <4>2. crossed' = crossed \cup Sch!Changed(table')
        BY <1>2, <4>1 DEF Sch!Writes, Sch!Crosses
      <4>3. ReadAsIs(lines[q])
        BY DEF SchedulesInv
      <4> QED BY <4>1, <4>2, <4>3 DEF ReadAsIs, Sch!Changed
    <3> QED BY <3>1, <3>2
  <2>5. ASSUME NEW e \in due', e \notin crossed' PROVE e \in table'
    <3>1. CASE e \in h.new
      BY <2>2, <3>1 DEF Sch!EditCrontab
    <3>2. CASE e \in due /\ ~Sch!Is(e, h.project, h.workflow)
      <4>1. e \in table /\ e \in h.text
        BY <2>1, <2>3, <2>5, <3>2 DEF SchedulesInv, InTable, ReadAsIs
      <4> QED BY <2>2, <3>2, <4>1 DEF Sch!EditCrontab
    <3> QED BY <2>2, <2>5, <3>1, <3>2
  <2>6. due' \subseteq Sch!Entries /\ DOMAIN lines' = Procs
    BY <2>1, <2>2 DEF SchedulesInv
  <2>7. ASSUME NEW e \in table', e \notin Others, e \notin crossed' PROVE e \in due'
    <3>1. ~Sch!Is(e, h.project, h.workflow) \/ e \in h.new
      BY <2>1, <2>2, <2>3, <2>7 DEF Sch!EditCrontab, SchedulesInv, ReadAsIs
    <3>2. e \in table \/ e \in h.new
      BY <2>1, <2>2, <2>3, <2>7 DEF Sch!EditCrontab, SchedulesInv, ReadAsIs
    <3> QED BY <2>2, <2>3, <2>7, <3>1, <3>2 DEF SchedulesInv, Sch!OnlyWhatWasSetRuns
  <2> QED BY <2>1, <2>2, <2>4, <2>5, <2>6, <2>7 DEF SchedulesInv, InTable, InAgents, Sch!OnlyWhatWasSetRuns
<1>3. ASSUME NEW p \in Procs, Sch!Drops(p) PROVE SchedulesInv'
  BY <1>0, <1>3 DEF Sch!Drops, Sch!others, SchedulesInv
<1>4. ASSUME NEW line \in Others, Sch!UserEdits(line) PROVE SchedulesInv'
  <2>1. line \notin Sch!Entries
    BY DEF Sch!LinesApart
  <2>2. ASSUME NEW q \in Procs PROVE ReadAsIs(lines[q])'
    <3>1. CASE lines[q] = Sch!Idle
      BY <1>4, <3>1 DEF ReadAsIs, Sch!UserEdits
    <3>2. CASE lines[q] # Sch!Idle
      <4>1. crossed' = crossed \cup {line} /\ lines' = lines
        BY <1>4, <3>2 DEF Sch!UserEdits
      <4> QED BY <1>4, <4>1 DEF ReadAsIs, Sch!UserEdits, SchedulesInv
    <3> QED BY <3>1, <3>2
  <2>3. InTable'
    BY <1>4, <2>1 DEF Sch!UserEdits, SchedulesInv, InTable
  <2>4. UNCHANGED <<platform, lines, agents, files, touched, due>> /\ platform = "cron"
    BY <1>4 DEF Sch!UserEdits
  <2>5. Sch!OnlyWhatWasSetRuns'
    BY <1>4, <2>1 DEF Sch!UserEdits, SchedulesInv, Sch!OnlyWhatWasSetRuns
  <2> QED BY <2>2, <2>3, <2>4, <2>5 DEF SchedulesInv, InAgents
<1>5. ASSUME NEW e \in Sch!Entries, Sch!Registers(e) PROVE SchedulesInv'
  <2>1. /\ platform # "cron" /\ UNCHANGED <<platform, table, lines>> /\ crossed \subseteq crossed'
        /\ due' \subseteq {d \in due : ~Sch!Is(d, e.project, e.workflow)} \cup {e}
        /\ e \in due' => e \in agents'
        /\ touched' = touched \cup {<<e.project, e.workflow>>}
        /\ files' = {f \in files : ~Sch!SameFile(f, e)} \cup {e}
        /\ \A a \in agents : Sch!LabelOf(a) # Sch!LabelOf(e) => a \in agents'
    BY <1>5 DEF Sch!Registers, Sch!Asked, Sch!Is, Sch!LeavesRunning
  <2>2. ASSUME NEW d \in due, ~Sch!Is(d, e.project, e.workflow), Sch!Alone(d)'
        PROVE  d \in agents' /\ d \in files'
    <3>1. Sch!Alone(d) /\ <<e.project, e.workflow>> \in touched'
      BY <2>1, <2>2 DEF Sch!Alone
    <3>2. d \in agents /\ d \in files
      BY <2>1, <3>1 DEF SchedulesInv, InAgents
    <3>3. Sch!LabelOf(d) # Sch!LabelOf(e)
      <4>1. SUFFICES ASSUME Base[d.project] = Base[e.project], d.workflow = e.workflow PROVE FALSE
        BY DEF Sch!LabelOf, Sch!Label
      <4>2. e.project \in Projects \ {d.project}
        BY <2>2, <4>1 DEF Sch!Is, Sch!Entries
      <4> QED BY <2>2, <3>1, <4>1, <4>2 DEF Sch!Alone
    <3>4. ~Sch!SameFile(d, e)
      BY <2>2, <3>3 DEF Sch!SameFile
    <3> QED BY <2>1, <3>2, <3>3, <3>4
  <2>3. InAgents' /\ InTable'
    BY <2>1, <2>2 DEF InAgents, InTable
  <2>4. ASSUME NEW a \in agents', a \notin Others, a \notin crossed' PROVE a \in due'
    <3>1. CASE a = e /\ a \in due'
      BY <3>1
    <3>2. CASE a \in agents /\ ~Sch!Is(a, e.project, e.workflow)
      BY <1>5, <2>1, <2>4, <3>2 DEF Sch!Registers, Sch!Asked, SchedulesInv, Sch!OnlyWhatWasSetRuns
    <3>3. Sch!LabelOf(a) # Sch!LabelOf(e) => ~Sch!Is(a, e.project, e.workflow)
      BY DEF Sch!LabelOf, Sch!Label, Sch!Is
    <3> QED BY <1>5, <2>4, <3>1, <3>2, <3>3 DEF Sch!Registers, Sch!Asked, Sch!LeavesRunning
  <2> QED BY <2>1, <2>3, <2>4 DEF SchedulesInv, ReadAsIs, Sch!OnlyWhatWasSetRuns
<1>6. ASSUME NEW project \in Projects, NEW workflow \in Workflows, Sch!Unregisters(project, workflow)
      PROVE  SchedulesInv'
  <2>1. /\ platform # "cron" /\ UNCHANGED <<platform, table, lines>> /\ crossed \subseteq crossed'
        /\ due' = {d \in due : ~Sch!Is(d, project, workflow)}
        /\ touched' = touched \cup {<<project, workflow>>}
        /\ \A f \in files : ~Sch!Is(f, project, workflow)
             /\ Sch!LabelOf(f) # Sch!Label(project, workflow) => f \in files'
        /\ \A a \in agents : Sch!LabelOf(a) # Sch!Label(project, workflow) => a \in agents'
    BY <1>6 DEF Sch!Unregisters, Sch!Asked, Sch!LeavesRunning
  <2>2. ASSUME NEW d \in due, ~Sch!Is(d, project, workflow), Sch!Alone(d)'
        PROVE  d \in agents' /\ d \in files'
    <3>1. Sch!Alone(d) /\ <<project, workflow>> \in touched'
      BY <2>1, <2>2 DEF Sch!Alone
    <3>2. d \in agents /\ d \in files
      BY <2>1, <3>1 DEF SchedulesInv, InAgents
    <3>3. Sch!LabelOf(d) # Sch!Label(project, workflow)
      <4>1. SUFFICES ASSUME Base[d.project] = Base[project], d.workflow = workflow PROVE FALSE
        BY DEF Sch!LabelOf, Sch!Label
      <4>2. project \in Projects \ {d.project}
        BY <2>2, <4>1 DEF Sch!Is
      <4> QED BY <2>2, <3>1, <4>1, <4>2 DEF Sch!Alone
    <3> QED BY <2>1, <2>2, <3>2, <3>3
  <2>3. InAgents' /\ InTable'
    BY <2>1, <2>2 DEF InAgents, InTable
  <2>4. ASSUME NEW a \in agents', a \notin Others, a \notin crossed' PROVE a \in due'
    <3>1. Sch!LabelOf(a) # Sch!Label(project, workflow) => ~Sch!Is(a, project, workflow)
      BY DEF Sch!LabelOf, Sch!Label, Sch!Is
    <3>2. a \in agents /\ ~Sch!Is(a, project, workflow)
      BY <1>6, <2>4, <3>1 DEF Sch!Unregisters, Sch!LeavesRunning
    <3> QED BY <2>1, <2>4, <3>2 DEF SchedulesInv, Sch!OnlyWhatWasSetRuns
  <2> QED BY <2>1, <2>3, <2>4 DEF SchedulesInv, ReadAsIs, Sch!OnlyWhatWasSetRuns
<1>7. ASSUME UNCHANGED <<platform, table, lines, agents, files, due, touched, crossed>>
      PROVE  SchedulesInv'
  BY <1>0, <1>7 DEF SchedulesInv
<1>8. CASE Sch!RemoveGitHook \/ (\E workflow \in Workflows : Sch!InstallGitHook(workflow)) \/ UNCHANGED Sch!scVars
  BY <1>7, <1>8 DEF Sch!RemoveGitHook, Sch!InstallGitHook, Sch!scVars
<1>9. ASSUME NEW p \in Procs, NEW e \in Sch!Entries, Sch!Schedule(p, e) PROVE SchedulesInv'
  BY <1>1, <1>9 DEF Sch!Schedule
<1> QED BY <1>1, <1>2, <1>3, <1>4, <1>5, <1>6, <1>8, <1>9 DEF Sch!Next

(* A schedule asked for stays until it is taken back, and is listed, whatever *)
(* the user and other projects put beside it, unless they edited the crontab  *)
(* at the same time or are of the same name; and nothing else is started, but *)
(* what such an edit or a failed command left (core/workflows/triggers.ts).   *)
THEOREM SchedulesHold == ASSUME Sch!LinesApart PROVE Sch!Spec => []Sch!SchedulesAsSet
<1>1. SchedulesInv => Sch!SchedulesStay
  <2> SUFFICES ASSUME SchedulesInv, NEW e \in due
               PROVE  /\ platform = "cron" /\ e \notin crossed => e \in table /\ e \in Sch!Listed(e.project)
                      /\ platform # "cron" /\ Sch!Alone(e) => e \in agents
                           /\ e \in Sch!Listed(e.project)
    BY DEF Sch!SchedulesStay
  <2>1. e \in Sch!Entries /\ e \notin Others
    BY DEF Sch!LinesApart, SchedulesInv
  <2> QED BY <2>1 DEF SchedulesInv, InTable, InAgents, Sch!Listed
<1>2. SchedulesInv => Sch!SchedulesAsSet
  BY <1>1 DEF SchedulesInv, Sch!SchedulesAsSet
<1> QED BY <1>2, NoScheduleInv, SchedulesNextInv, PTL DEF Sch!Spec

-----------------------------------------------------------------------------
(* The configuration (Config): for any processes and rules, a rule put in     *)
(* force stays in a file that can be read, unless a write overlapped another  *)
(* or was over a file that could not be.                                      *)

CONSTANTS Writers, Allowed, Changing, MaxValue
VARIABLES file, legacy, doing, env, inForce, wroteOver, clobbered, mcpOk

Conf == INSTANCE Config WITH Procs <- Writers, Rules <- Allowed, op <- doing, raced <- wroteOver

SettingsFiles == [ok : BOOLEAN, value : Int, rules : SUBSET Allowed]
(* What a process is about to write: its file could be read, nothing goes but *)
(* what it takes back, and a migration holds all that it read to migrate.     *)
Written(o) ==
  /\ o.mcp \subseteq Allowed
  /\ o.at \notin {"idle", "adds"} =>
       /\ o.file \in Conf!Files /\ o.base.ok /\ o.next.ok /\ o.next \in SettingsFiles
       /\ o.base.rules \ o.next.rules \subseteq o.took
  /\ o.at \in {"migrates", "clears"} => o.file = "project" /\ o.mcp \subseteq o.next.rules
ConfigInv ==
  /\ file \in [Conf!Files -> SettingsFiles] /\ DOMAIN doing = Writers /\ legacy \subseteq Allowed
  /\ \A w \in Writers : Written(doing[w])
  /\ Conf!RulesStayInForce
  /\ Conf!OnlyMcpClobbered

(* The files hold nothing, and nobody is about to write one.                  *)
LEMMA NoConfigInv == Conf!Init => ConfigInv
BY DEF Conf!Init, SettingsFiles, ConfigInv, Written, Conf!Idle, Conf!RulesStayInForce, Conf!Held, Conf!Empty,
       Conf!OfMcp, Conf!OnlyMcpClobbered

(* A process reads a file, and works out what to write.                       *)
LEMMA ConfigReadsInv ==
  ASSUME ConfigInv, NEW w \in Writers, NEW f \in Conf!Files, NEW at \in {"writes", "migrates"},
         NEW then \in SettingsFiles, NEW took, NEW m \in SUBSET Allowed,
                         doing[w].at = "idle", Conf!Readable(f), then.ok, file[f].rules \ then.rules \subseteq took,
                         at = "migrates" => f = "project" /\ m \subseteq then.rules,
                         doing' = [doing EXCEPT ![w] = [at |-> at, file |-> f, base |-> file[f], next |-> then,
                                                        took |-> took, mcp |-> m]],
                         UNCHANGED <<Conf!files, env>>
                  PROVE  ConfigInv'
<1> DEFINE o == [at |-> at, file |-> f, base |-> file[f], next |-> then, took |-> took, mcp |-> m]
<1>1. o.at = at /\ o.file = f /\ o.base = file[f] /\ o.next = then /\ o.took = took /\ o.mcp = m
  OBVIOUS
<1>2. doing' = [doing EXCEPT ![w] = o]
  OBVIOUS
<1> HIDE DEF o
<1>3. Written(o)
  BY <1>1 DEF Written, Conf!Readable
<1>4. \A v \in Writers : Written(doing[v])'
  BY <1>2, <1>3 DEF Written, ConfigInv, Conf!files
<1> QED BY <1>2, <1>4 DEF ConfigInv, Conf!files, Conf!RulesStayInForce, Conf!Held, Conf!OfMcp,
                           Conf!OnlyMcpClobbered

(* It writes it: nothing goes but what it takes back, or what another one     *)
(* wrote since it was read.                                                   *)
LEMMA PutInv == ASSUME ConfigInv, NEW w \in Writers, doing[w].at \notin {"idle", "adds"}, Conf!Put(w),
                       UNCHANGED <<legacy, mcpOk>>
                PROVE  file' \in [Conf!Files -> SettingsFiles] /\ Conf!RulesStayInForce' /\ Conf!OnlyMcpClobbered'
<1> DEFINE o == doing[w]
           after == [file EXCEPT ![o.file] = o.next]
<1>1. /\ o.file \in Conf!Files /\ o.base.ok /\ o.next.ok
           /\ o.base.rules \ o.next.rules \subseteq o.took /\ o.next \in SettingsFiles
  BY DEF ConfigInv, Written
<1>2. /\ file' = after
      /\ wroteOver' = IF file[o.file] = o.base THEN wroteOver ELSE wroteOver \cup (inForce \ Conf!Held(after, Conf!OfMcp))
      /\ inForce' = (inForce \cup (o.next.rules \ o.base.rules)) \ (o.took \ Conf!Held(after, Conf!OfMcp))
      /\ clobbered' = clobbered
  BY <1>1 DEF Conf!Put
<1>3. DOMAIN after = Conf!Files /\ after[o.file] = o.next
           /\ \A f \in Conf!Files : f # o.file => after[f] = file[f]
  BY <1>1 DEF ConfigInv
<1> DEFINE stays == Conf!Held(after, Conf!OfMcp)
<1>4. o.next.rules \subseteq stays
  BY <1>1, <1>3 DEF Conf!Held
<1>5. ASSUME NEW r \in inForce, r \notin wroteOver, file[o.file] = o.base, r \notin stays PROVE r \in o.took
  <2>1. r \in Conf!Held(file, Conf!OfMcp)
    BY <1>5 DEF ConfigInv, Conf!RulesStayInForce
  <2>2. r \notin Conf!OfMcp
    BY <1>5 DEF Conf!Held
  <2>3. PICK f \in Conf!Files : file[f].ok /\ r \in file[f].rules
    BY <2>1, <2>2 DEF Conf!Held
  <2>4. f = o.file
    BY <1>3, <1>5, <2>3 DEF Conf!Held
  <2> QED BY <1>1, <1>4, <1>5, <2>3, <2>4
<1>6. ASSUME NEW r \in inForce', r \notin wroteOver' PROVE r \in stays
  <2> HIDE DEF stays
  <2>1. stays = Conf!Held(after, Conf!OfMcp)
    BY DEF stays
  <2>2. CASE r \in o.next.rules
    BY <1>4, <2>2
  <2>3. CASE r \in inForce /\ r \notin stays
    <3>1. r \notin o.took
      BY <1>2, <1>6, <2>1, <2>3
    <3>2. r \notin wroteOver /\ file[o.file] = o.base
      BY <1>2, <1>6, <2>1, <2>3
    <3> QED BY <1>5, <2>3, <3>1, <3>2
  <2> QED BY <1>2, <1>6, <2>2, <2>3
<1>7. stays = Conf!Held(file, Conf!OfMcp)'
  BY <1>2 DEF Conf!Held, Conf!OfMcp
<1>8. Conf!RulesStayInForce'
  BY <1>6, <1>7 DEF Conf!RulesStayInForce
<1> QED BY <1>1, <1>2, <1>3, <1>8 DEF ConfigInv, Conf!OnlyMcpClobbered

(* Whatever a process, a migration, a crash or a broken file does next.       *)
LEMMA ConfigNextInv ==
  ASSUME Changing \subseteq Conf!Files
  PROVE  ConfigInv /\ [Conf!Next]_(Conf!cfVars) => ConfigInv'
<1> SUFFICES ASSUME ConfigInv, [Conf!Next]_(Conf!cfVars) PROVE ConfigInv'
  OBVIOUS
<1>1. ASSUME NEW w \in Writers, NEW f \in Conf!Files, NEW then \in SettingsFiles, NEW took,
             Conf!Reads(w, f, then, took), then.ok,
             file[f].rules \ then.rules \subseteq took
      PROVE  ConfigInv'
  <2> DEFINE at == "writes"
             m == {}
  <2>1. /\ doing[w].at = "idle" /\ Conf!Readable(f) /\ UNCHANGED <<Conf!files, env>>
        /\ doing' = [doing EXCEPT ![w] = [at |-> at, file |-> f, base |-> file[f], next |-> then,
                                          took |-> took, mcp |-> m]]
    BY <1>1 DEF Conf!Reads
  <2>2. at \in {"writes", "migrates"} /\ at # "migrates" /\ m \in SUBSET Allowed
    OBVIOUS
  <2> HIDE DEF at, m
  <2> QED BY <1>1, <2>1, <2>2, ConfigReadsInv
<1>0. \A f \in Conf!Files : file[f] \in SettingsFiles /\ file[f].rules \in SUBSET Allowed
  BY DEF ConfigInv, SettingsFiles
<1>2. ASSUME NEW w \in Writers, NEW f \in Changing, NEW v \in 1..MaxValue, Conf!Sets(w, f, v)
      PROVE  ConfigInv'
  <2> DEFINE c == file[f]
             then == [c EXCEPT !.ok = TRUE, !.value = v]
  <2>0. c \in SettingsFiles /\ c.rules \in SUBSET Allowed
    BY <1>0
  <2>1. then \in SettingsFiles /\ then.ok /\ then.rules = c.rules
    <3> HIDE DEF c
    <3>1. v \in Int
      OBVIOUS
    <3>2. DOMAIN then = {"ok", "value", "rules"} /\ then.ok = TRUE /\ then.value = v
               /\ then.rules = c.rules
      BY <2>0 DEF SettingsFiles
    <3>3. then = [x \in {"ok", "value", "rules"} |-> then[x]]
      BY <2>0, <3>2 DEF SettingsFiles
    <3> QED BY <2>0, <3>1, <3>2, <3>3 DEF SettingsFiles
  <2>2. Conf!Reads(w, f, then, {})
    BY <1>2 DEF Conf!Sets
  <2> HIDE DEF then
  <2> QED BY <1>1, <2>1, <2>2
<1>3. ASSUME NEW w \in Writers, NEW f \in Changing, Conf!Unsets(w, f) PROVE ConfigInv'
  <2> DEFINE c == file[f]
             then == [c EXCEPT !.ok = TRUE, !.value = 0]
  <2>0. c \in SettingsFiles /\ c.rules \in SUBSET Allowed
    BY <1>0
  <2>1. then \in SettingsFiles /\ then.ok /\ then.rules = c.rules
    <3> HIDE DEF c
    <3>1. 0 \in Int
      OBVIOUS
    <3>2. DOMAIN then = {"ok", "value", "rules"} /\ then.ok = TRUE /\ then.value = 0
               /\ then.rules = c.rules
      BY <2>0 DEF SettingsFiles
    <3>3. then = [x \in {"ok", "value", "rules"} |-> then[x]]
      BY <2>0, <3>2 DEF SettingsFiles
    <3> QED BY <2>0, <3>1, <3>2, <3>3 DEF SettingsFiles
  <2>2. Conf!Reads(w, f, then, {})
    BY <1>3 DEF Conf!Unsets
  <2> HIDE DEF then
  <2> QED BY <1>1, <2>1, <2>2
<1>4. ASSUME NEW w \in Writers, NEW f \in Changing, NEW r \in Allowed, Conf!Grants(w, f, r) PROVE ConfigInv'
  <2> DEFINE then == [file[f] EXCEPT !.ok = TRUE, !.rules = @ \cup {r}]
  <2>1. then \in SettingsFiles /\ then.ok /\ then.rules = file[f].rules \cup {r}
    BY <1>0 DEF SettingsFiles, ConfigInv
  <2>2. Conf!Reads(w, f, then, {})
    BY <1>4 DEF Conf!Grants
  <2> HIDE DEF then
  <2> QED BY <1>1, <2>1, <2>2
<1>5. ASSUME NEW w \in Writers, NEW f \in Changing, NEW r \in Allowed, Conf!TakesBack(w, f, r)
      PROVE  ConfigInv'
  <2> DEFINE then == [file[f] EXCEPT !.ok = TRUE, !.rules = @ \ {r}]
  <2>1. then \in SettingsFiles /\ then.ok /\ then.rules = file[f].rules \ {r}
    BY <1>0 DEF SettingsFiles, ConfigInv
  <2>2. Conf!Reads(w, f, then, {r})
    BY <1>5 DEF Conf!TakesBack
  <2> HIDE DEF then
  <2> QED BY <1>1, <2>1, <2>2
<1>6. ASSUME NEW w \in Writers, Conf!Migrates(w) PROVE ConfigInv'
  <2> DEFINE then == [file["project"] EXCEPT !.ok = TRUE, !.rules = @ \cup legacy]
  <2>0. "project" \in Conf!Files
    BY DEF Conf!Files, Conf!Scopes
  <2>1. then \in SettingsFiles /\ then.ok /\ then.rules = file["project"].rules \cup legacy
    BY <1>0, <2>0 DEF SettingsFiles, ConfigInv
  <2>2. /\ doing[w].at = "idle" /\ Conf!Readable("project") /\ UNCHANGED <<Conf!files, env>>
        /\ doing' = [doing EXCEPT ![w] = [at |-> "migrates", file |-> "project", base |-> file["project"],
                                   next |-> then, took |-> {}, mcp |-> legacy]]
    BY <1>6 DEF Conf!Migrates
  <2>3. legacy \in SUBSET Allowed
    BY DEF ConfigInv
  <2> HIDE DEF then
  <2> QED BY <2>0, <2>1, <2>2, <2>3, ConfigReadsInv
<1>7. ASSUME NEW w \in Writers, Conf!Writes(w) PROVE ConfigInv'
  <2>1. file' \in [Conf!Files -> SettingsFiles] /\ Conf!RulesStayInForce' /\ Conf!OnlyMcpClobbered'
    BY <1>7, PutInv DEF Conf!Writes
  <2>2. doing' = [doing EXCEPT ![w] = Conf!Idle] /\ legacy' = legacy
    BY <1>7 DEF Conf!Writes
  <2>3. \A v \in Writers : Written(doing[v])'
    BY <2>2 DEF ConfigInv, Written, Conf!Idle
  <2> QED BY <2>1, <2>2, <2>3 DEF ConfigInv
<1>8. ASSUME NEW w \in Writers, Conf!MigratesConfig(w) PROVE ConfigInv'
  <2>1. file' \in [Conf!Files -> SettingsFiles] /\ Conf!RulesStayInForce' /\ Conf!OnlyMcpClobbered'
    BY <1>8, PutInv DEF Conf!MigratesConfig
  <2> DEFINE o == [doing[w] EXCEPT !.at = "clears"]
  <2>2. doing' = [doing EXCEPT ![w] = o] /\ legacy' = legacy /\ doing[w].at = "migrates"
    BY <1>8 DEF Conf!MigratesConfig
  <2>3. /\ o.file = doing[w].file /\ o.base = doing[w].base /\ o.next = doing[w].next /\ o.took = doing[w].took
        /\ o.mcp = doing[w].mcp
    OBVIOUS
  <2> HIDE DEF o
  <2>4. Written(o)
    BY <2>2, <2>3 DEF ConfigInv, Written
  <2>5. \A v \in Writers : Written(doing[v])'
    BY <2>2, <2>4 DEF ConfigInv, Written
  <2> QED BY <2>1, <2>2, <2>5 DEF ConfigInv
<1>9. ASSUME NEW w \in Writers, Conf!ClearsLegacy(w) PROVE ConfigInv'
  <2>1. /\ legacy' = {} /\ doing' = [doing EXCEPT ![w] = Conf!Idle] /\ UNCHANGED <<file, inForce, clobbered>>
        /\ wroteOver' = IF file["project"] = doing[w].next /\ Conf!OfMcp = doing[w].mcp THEN wroteOver
                        ELSE wroteOver \cup (inForce \ Conf!Held(file, {}))
        /\ doing[w].at = "clears"
    BY <1>9 DEF Conf!ClearsLegacy, Conf!Cleared
  <2>2. doing[w].next.ok /\ doing[w].mcp \subseteq doing[w].next.rules
    BY <2>1 DEF ConfigInv, Written
  <2>3. file["project"] = doing[w].next /\ Conf!OfMcp = doing[w].mcp
          => Conf!Held(file, Conf!OfMcp) \subseteq Conf!Held(file, {})
    BY <2>2 DEF Conf!Held, Conf!Files, Conf!Scopes
  <2>4. Conf!RulesStayInForce'
    <3>1. inForce \ wroteOver' \subseteq Conf!Held(file, {})
      BY <2>1, <2>3 DEF ConfigInv, Conf!RulesStayInForce
    <3> QED BY <2>1, <3>1 DEF Conf!RulesStayInForce, Conf!Held, Conf!OfMcp
  <2>5. \A v \in Writers : Written(doing[v])'
    BY <2>1 DEF ConfigInv, Written, Conf!Idle
  <2> QED BY <2>1, <2>4, <2>5 DEF ConfigInv, Conf!OnlyMcpClobbered
<1>10. ASSUME NEW w \in Writers, Conf!Dies(w) PROVE ConfigInv'
  <2>1. doing' = [doing EXCEPT ![w] = Conf!Idle] /\ UNCHANGED Conf!files
    BY <1>10 DEF Conf!Dies
  <2>2. \A v \in Writers : Written(doing[v])'
    BY <2>1 DEF ConfigInv, Written, Conf!Idle, Conf!files
  <2> QED BY <2>1, <2>2 DEF ConfigInv, Conf!files, Conf!RulesStayInForce, Conf!Held, Conf!OfMcp,
                            Conf!OnlyMcpClobbered
<1>11. ASSUME NEW f \in Changing, Conf!Breaks(f) PROVE ConfigInv'
  <2>1. file' = [file EXCEPT ![f].ok = FALSE] /\ UNCHANGED <<legacy, inForce, clobbered, doing, mcpOk>>
    BY <1>11 DEF Conf!Breaks
  <2>2. file' \in [Conf!Files -> SettingsFiles]
    BY <2>1 DEF ConfigInv, SettingsFiles
  <2>3. Conf!RulesStayInForce'
    BY <1>11 DEF Conf!Breaks, Conf!RulesStayInForce, Conf!Held, Conf!OfMcp
  <2> QED BY <2>1, <2>2, <2>3 DEF ConfigInv, Written, Conf!OnlyMcpClobbered
<1>12. ASSUME NEW f \in Changing, Conf!Mends(f) PROVE ConfigInv'
  <2>1. file' = [file EXCEPT ![f].ok = TRUE] /\ ~file[f].ok
             /\ UNCHANGED <<legacy, inForce, clobbered, doing, mcpOk>>
             /\ wroteOver' = wroteOver \ Conf!Held(file', Conf!OfMcp)
    BY <1>12 DEF Conf!Mends
  <2>2. file' \in [Conf!Files -> SettingsFiles]
    BY <2>1 DEF ConfigInv, SettingsFiles
  <2>3. \A g \in Conf!Files : file[g].ok => file'[g] = file[g]
    BY <2>1 DEF ConfigInv
  <2>4. Conf!Held(file, Conf!OfMcp) \subseteq Conf!Held(file, Conf!OfMcp)'
        /\ Conf!Held(file', Conf!OfMcp) = Conf!Held(file, Conf!OfMcp)'
    BY <2>1, <2>3 DEF Conf!Held, Conf!OfMcp
  <2>5. Conf!RulesStayInForce'
    BY <2>1, <2>4 DEF Conf!RulesStayInForce, ConfigInv
  <2> QED BY <2>1, <2>2, <2>5 DEF ConfigInv, Written, Conf!OnlyMcpClobbered
<1>13. ASSUME NEW w \in Writers, Conf!ReadsMcp(w) PROVE ConfigInv'
  <2> DEFINE o == [Conf!Idle EXCEPT !.at = "adds", !.base = [Conf!Empty EXCEPT !.ok = mcpOk], !.mcp = Conf!OfMcp]
  <2>1. doing' = [doing EXCEPT ![w] = o] /\ UNCHANGED Conf!files
    BY <1>13 DEF Conf!ReadsMcp
  <2>2. o.at = "adds" /\ o.mcp \subseteq Allowed
    BY DEF Conf!Idle, Conf!OfMcp, ConfigInv
  <2> HIDE DEF o
  <2>3. \A v \in Writers : Written(doing[v])'
    BY <2>1, <2>2 DEF ConfigInv, Written, Conf!files
  <2> QED BY <2>1, <2>3 DEF ConfigInv, Conf!files, Conf!RulesStayInForce, Conf!Held, Conf!OfMcp,
                            Conf!OnlyMcpClobbered
<1>14. ASSUME NEW w \in Writers, Conf!WritesMcp(w) PROVE ConfigInv'
  <2>1. /\ legacy' = doing[w].mcp /\ mcpOk' = TRUE /\ doing' = [doing EXCEPT ![w] = Conf!Idle]
        /\ wroteOver' = IF mcpOk /\ legacy = doing[w].mcp THEN wroteOver
                        ELSE wroteOver \cup (inForce \ Conf!Held(file, legacy'))
        /\ clobbered' \subseteq clobbered \cup {"mcp"} /\ UNCHANGED <<file, inForce>>
    BY <1>14 DEF Conf!WritesMcp
  <2>2. inForce \ wroteOver' \subseteq Conf!Held(file, legacy')
    BY <2>1 DEF ConfigInv, Conf!RulesStayInForce, Conf!OfMcp
  <2>3. Conf!RulesStayInForce'
    BY <2>1, <2>2 DEF Conf!RulesStayInForce, Conf!Held, Conf!OfMcp
  <2>4. legacy' \subseteq Allowed /\ \A v \in Writers : Written(doing[v])'
    BY <2>1 DEF ConfigInv, Written, Conf!Idle
  <2> QED BY <2>1, <2>3, <2>4 DEF ConfigInv, Conf!OnlyMcpClobbered
<1>15. CASE Conf!BreaksMcp
  <2>1. inForce \ wroteOver' \subseteq Conf!Held(file, {})
    BY <1>15 DEF Conf!BreaksMcp
  <2>2. Conf!RulesStayInForce'
    BY <1>15, <2>1 DEF Conf!BreaksMcp, Conf!RulesStayInForce, Conf!Held, Conf!OfMcp
  <2> QED BY <1>15, <2>2 DEF Conf!BreaksMcp, ConfigInv, Written, Conf!OnlyMcpClobbered
<1>16. CASE Conf!MendsMcp
  <2>1. Conf!Held(file, Conf!OfMcp) \subseteq Conf!Held(file, legacy)
    BY <1>16 DEF Conf!MendsMcp, Conf!Held, Conf!OfMcp
  <2>2. inForce \ wroteOver' \subseteq Conf!Held(file, legacy)
    BY <1>16, <2>1 DEF Conf!MendsMcp, ConfigInv, Conf!RulesStayInForce
  <2>3. Conf!RulesStayInForce'
    BY <1>16, <2>2 DEF Conf!MendsMcp, Conf!RulesStayInForce, Conf!Held, Conf!OfMcp
  <2> QED BY <1>16, <2>3 DEF Conf!MendsMcp, ConfigInv, Written, Conf!OnlyMcpClobbered
<1>17. CASE UNCHANGED Conf!cfVars
  BY <1>17 DEF Conf!cfVars, ConfigInv, Conf!RulesStayInForce, Conf!Held, Written, Conf!OfMcp,
               Conf!OnlyMcpClobbered
<1> QED BY <1>2, <1>3, <1>4, <1>5, <1>6, <1>7, <1>8, <1>9, <1>10, <1>11, <1>12, <1>13, <1>14, <1>15, <1>16,
           <1>17 DEF Conf!Next

(* One layer more: its value and its name, when it sets one.                  *)
LEMMA OneLayerMore ==
  ASSUME NEW v, NEW n, NEW it
  PROVE  Conf!Load([value |-> v, from |-> n], it) =
           IF Conf!Layer(it).ok
                /\ Conf!Layer(it).value # 0 THEN [value |-> Conf!Layer(it).value, from |-> Conf!NameOf[it]]
           ELSE [value |-> v, from |-> n]
<1> DEFINE m == [value |-> v, from |-> n]
           l == Conf!Layer(it)
           o == [value |-> Conf!Layer(it).value, from |-> Conf!NameOf[it]]
<1>1. Conf!MergeLayer(m, it) = IF l.value = 0 THEN m ELSE o
  <2>1. Conf!MergeLayer(m, it) = [m EXCEPT !.value = IF l.value = 0 THEN @ ELSE l.value,
                                     !.from = IF l.value = 0 THEN @ ELSE Conf!NameOf[it]]
    BY DEF Conf!MergeLayer
  <2> HIDE DEF l
  <2>2. CASE l.value = 0
    BY <2>1, <2>2
  <2>3. CASE l.value # 0
    BY <2>1, <2>3 DEF l
  <2> QED BY <2>2, <2>3
<1> QED BY <1>1 DEF Conf!Load

(* The value loaded, and where it is from: of the highest layer that sets it. *)
LEMMA Layered == Conf!LoadedByLayer
<1> DEFINE Given(it) == Conf!Layer(it).ok /\ Conf!Layer(it).value # 0
           Of(it) == [value |-> Conf!Layer(it).value, from |-> Conf!NameOf[it]]
           none == [value |-> 0, from |-> "none"]
<1> DEFINE one == Conf!Load(none, 1)
           two == Conf!Load(one, 2)
           three == Conf!Load(two, 3)
<1>2. one = IF Given(1) THEN Of(1) ELSE none
  BY OneLayerMore
<1>3. two = IF Given(2) THEN Of(2) ELSE one
  BY OneLayerMore, <1>2
<1>4. three = IF Given(3) THEN Of(3) ELSE two
  BY OneLayerMore, <1>2, <1>3
<1>5. Conf!LoadConfig = IF Given(4) THEN Of(4) ELSE three
  BY OneLayerMore, <1>2, <1>3, <1>4 DEF Conf!LoadConfig
<1>6. Conf!Setting = {k \in 1..4 : Given(k)}
  BY DEF Conf!Setting
<1> HIDE DEF one, two, three, Given
<1>7. CASE Conf!Setting = {}
  <2>1. Conf!LoadConfig = none
    BY <1>2, <1>3, <1>4, <1>5, <1>6, <1>7
  <2> QED BY <1>7, <2>1 DEF Conf!LoadedByLayer
<1>8. CASE Conf!Setting # {}
  <2> DEFINE highest(k) == k \in Conf!Setting /\ \A j \in Conf!Setting : j <= k
  <2>1. PICK k \in 1..4 : highest(k)
    BY <1>6, <1>8
  <2>2. \A j : highest(j) => j = k
    BY <1>6, <2>1
  <2>3. (CHOOSE j \in Conf!Setting : \A n \in Conf!Setting : n <= j) = k
    BY <2>1, <2>2
  <2>4. Conf!LoadConfig = Of(k)
    <3>1. Given(k) /\ \A j \in 1..4 : Given(j) => j <= k
      BY <1>6, <2>1
    <3> QED BY <1>2, <1>3, <1>4, <1>5, <2>1, <3>1
  <2> QED BY <1>8, <2>3, <2>4 DEF Conf!LoadedByLayer
<1> QED BY <1>7, <1>8

(* A rule put in force stays in force until it is taken back, through every   *)
(* step of a migration and wherever it is cut off, unless a write overlapped  *)
(* another, its file is broken or mcp.json was written over unread; of the    *)
(* files found unreadable only mcp.json is overwritten; and what is loaded is *)
(* of the highest layer that sets it (cli/config.ts migrate, cli/mcp.ts       *)
(* readMcpConfig, config/load.ts loadConfig).                                 *)
THEOREM ConfigAlwaysHolds == ASSUME Changing \subseteq Conf!Files PROVE Conf!Spec => []Conf!ConfigHolds
<1>1. ConfigInv => Conf!ConfigHolds
  BY Layered DEF ConfigInv, Conf!ConfigHolds
<1> QED BY <1>1, NoConfigInv, ConfigNextInv, PTL DEF Conf!Spec
=============================================================================
