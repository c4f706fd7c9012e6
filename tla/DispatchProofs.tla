--------------------------- MODULE DispatchProofs ---------------------------
(***************************************************************************)
(* Theorems about Dispatch, for every step length, cap, set of policies    *)
(* and set of hook verdicts.  Then about what a batch leaves behind: a     *)
(* child's worktree, a command's output, the checkpoints of its steps and  *)
(* the files its calls edit.                                               *)
(***************************************************************************)
EXTENDS Dispatch, Checkpoints, Sequences, FiniteSetTheorems, TLAPS

-----------------------------------------------------------------------------
(* The initial states.                                                     *)

LEMMA IInvInit == Init => IInv
<1> SUFFICES ASSUME Init PROVE IInv
  OBVIOUS
<1> USE NAssumption, CapAssumption, ClassesAssumption, PoliciesAssumption, HookAssumption
    DEF Calls, Statuses, Denials
<1>1. said \in [Calls -> Statuses \cup {"none"}] /\ times \in [Calls -> Nat]
  BY DEF Init
<1>2. class \in [Calls -> Classes] /\ policy \in [Calls -> {"allow", "ask_mode", "ask_rule", "deny"}]
  BY DEF Init
<1>3. TypeOK
  <2>1. /\ hook \in [Calls -> HookVerdicts \cup {"unrun"}]
        /\ results \in [Calls -> Statuses \cup {"none"}]
        /\ audit \in [Calls -> {"none", "allow", "deny", "user_deny"}]
    BY DEF Init
  <2>2. i \in 1..N+1 /\ last \in 0..N /\ capped \in 0..N /\ ran \in Nat
    BY DEF Init
  <2>3. QED
    BY <1>1, <1>2, <2>1, <2>2 DEF Init, TypeOK
<1>4. IndexInv /\ PlaceInv /\ ArrayInv
  BY DEF Init, IndexInv, PlaceInv, ArrayInv
<1>5. ClearedInv /\ DenialInv /\ CheckpointInv
  BY DEF Init, ClearedInv, DenialInv, CheckpointInv, CheckpointFirst
<1>6. QED
  BY <1>3, <1>4, <1>5 DEF IInv

-----------------------------------------------------------------------------
(* Each part of the invariant is preserved.                                *)

LEMMA TypeOKStep == IInv /\ [Next]_vars => TypeOK'
<1> SUFFICES ASSUME IInv, [Next]_vars PROVE TypeOK'
  OBVIOUS
<1> USE NAssumption, CapAssumption, ClassesAssumption, PoliciesAssumption, HookAssumption
    DEF IInv, TypeOK, IndexInv, Calls, Statuses, Denials,
        policyVars, loopVars, stopVars, countVars, toolVars, resultVars
<1>1. CASE SkipStopped
  BY <1>1 DEF SkipStopped, AnswerAll
<1>2. CASE SkipCapped
  BY <1>2 DEF SkipCapped, AnswerAll
<1>3. CASE BeginCall
  BY <1>3 DEF BeginCall
<1>4. CASE LeaveLoop
  BY <1>4 DEF LeaveLoop
<1>5. CASE HooksAnswer
  <2>1. PICK v \in HookVerdicts : hook' = [hook EXCEPT ![last + 1] = v]
    BY <1>5 DEF HooksAnswer
  <2>2. PICK p \in Rewrites \cup {policy[last + 1]} : policy' = [policy EXCEPT ![last + 1] = p]
    BY <1>5 DEF HooksAnswer
  <2>3. last + 1 \in Calls
    BY <1>5 DEF HooksAnswer
  <2>4. hook' \in [Calls -> HookVerdicts \cup {"unrun"}]
    BY <2>1, <2>3
  <2>5. policy' \in [Calls -> {"allow", "ask_mode", "ask_rule", "deny"}]
    BY <2>2, <2>3, RewritesAssumption
  <2>6. UNCHANGED <<class, signal, loopVars, stopVars, countVars, toolVars, resultVars>>
    BY <1>5 DEF HooksAnswer
  <2>7. QED
    BY <2>4, <2>5, <2>6
<1>6. CASE Classify
  BY <1>6 DEF Classify, Delegates
<1>7. CASE JoinGroup
  BY <1>7 DEF JoinGroup, GroupFull, Fits
<1>8. CASE StartReads
  BY <1>8 DEF StartReads, GroupClosed, GroupFull
<1>9. CASE DecideFanOut
  BY <1>9 DEF DecideFanOut, GroupClosed, GroupFull, Fits, Delegates
<1>10. CASE DeniedByPolicy
  BY <1>10 DEF DeniedByPolicy, RefuseIt, Proceed, AnswerAll
<1>11. CASE AllowedByPolicy
  BY <1>11 DEF AllowedByPolicy, RunIt, Proceed
<1>12. CASE AskPerson
  BY ZenonT(60), <1>12 DEF AskPerson, CancelIt, Proceed
<1>13. CASE AnsweredYes
  BY <1>13 DEF AnsweredYes, Waiting, RunIt, Proceed, Granted
<1>14. CASE AnsweredByNobody
  BY <1>14 DEF AnsweredByNobody, Waiting, RefuseIt, Proceed, AnswerAll
<1>15. CASE AnsweredNo
  BY <1>15 DEF AnsweredNo, Waiting, RefuseIt, Proceed, AnswerAll
<1>16. CASE AskCancelled
  BY <1>16 DEF AskCancelled, CancelIt, Proceed
<1>17. CASE Launch
  BY <1>17 DEF Launch, ChangeAhead, Start
<1>18. CASE AskNeeds
  <2>1. CASE signal = "aborted"
    <3>1. stopped' = "cancelled" /\ DropFanOut /\ UNCHANGED <<policyVars, kind, i, last, denial, ran, capped, audit>>
      BY <1>18, <2>1 DEF AskNeeds
    <3>2. QED
      BY <3>1 DEF DropFanOut, AnswerAll
  <2>2. CASE signal = "live"
    BY <1>18, <2>2 DEF AskNeeds
  <2>3. QED
    BY <2>1, <2>2
<1>19. CASE NeedsAnswered
  BY ZenonT(60), <1>19 DEF NeedsAnswered, ChangeAhead, Start, Granted
<1>20. CASE NeedsRefused
  BY <1>20 DEF NeedsRefused, DropFanOut, AnswerAll
<1>21. CASE NeedsCancelled
  BY <1>21 DEF NeedsCancelled, DropFanOut, AnswerAll
<1>22. CASE CheckpointTaken
  BY <1>22 DEF CheckpointTaken, Start
<1>23. ASSUME NEW c \in Calls, ToolEnds(c) PROVE TypeOK'
  BY <1>23 DEF ToolEnds
<1>24. CASE GroupDone
  <2> DEFINE group == {c \in executed : results[c] = "none"}
  <2>1. IsFiniteSet(1..N)
    <3>1. 1 \in Int /\ N \in Int
      OBVIOUS
    <3>2. QED
      BY ONLY <3>1, FS_Interval
  <2>9. group \in SUBSET (1..N)
    OBVIOUS
  <2>2. Cardinality(group) \in Nat
    BY ONLY <2>1, <2>9, FS_Subset, FS_CardinalityType
  <2>3. QED
    BY <1>24, <2>2 DEF GroupDone
<1>25. CASE Settled
  BY <1>25 DEF Settled
<1>26. CASE Abort
  BY <1>26 DEF Abort
<1>27. CASE SwitchMode
  BY <1>27 DEF SwitchMode
<1>28. CASE GrantElsewhere
  <2>1. PICK C \in SUBSET Calls : policy' = Granted(policy, C)
    BY <1>28 DEF GrantElsewhere
  <2>2. policy' \in [Calls -> {"allow", "ask_mode", "ask_rule", "deny"}]
    BY <2>1 DEF Granted
  <2>3. CASE RunIt /\ audit' = [audit EXCEPT ![i] = "allow"] /\ phase = "ask"
    BY <2>2, <2>3 DEF RunIt, Proceed
  <2>4. CASE UNCHANGED <<class, hook, signal, loopVars, stopVars, countVars, toolVars, resultVars>>
    BY <2>2, <2>4
  <2>5. QED
    BY <1>28, <2>3, <2>4 DEF GrantElsewhere
<1>29. CASE UNCHANGED vars
  BY <1>29 DEF vars
<1>30. QED
  BY <1>1, <1>2, <1>3, <1>4, <1>5, <1>6, <1>7, <1>8, <1>9, <1>10, <1>11, <1>12, <1>13, <1>14, <1>15, <1>16, <1>17, <1>18, <1>19, <1>20, <1>21, <1>22, <1>23, <1>24, <1>25, <1>26, <1>27, <1>28, <1>29
  DEF Next, Returned, Program, HeadStep, GatherStep, DecideStep, LaunchStep, PerformStep, Person, Environment

LEMMA IndexStep == IInv /\ [Next]_vars => IndexInv'
<1> SUFFICES ASSUME IInv, [Next]_vars PROVE IndexInv'
  OBVIOUS
<1> USE NAssumption, CapAssumption, ClassesAssumption, PoliciesAssumption, HookAssumption
    DEF IInv, TypeOK, IndexInv, Calls, Statuses, Denials, Remaining,
        policyVars, loopVars, stopVars, countVars, toolVars, resultVars
<1>1. CASE SkipStopped
  BY <1>1 DEF SkipStopped, AnswerAll
<1>2. CASE SkipCapped
  BY <1>2 DEF SkipCapped, AnswerAll
<1>3. CASE BeginCall
  BY <1>3 DEF BeginCall
<1>4. CASE LeaveLoop
  BY <1>4 DEF LeaveLoop
<1>5. CASE HooksAnswer
  BY <1>5 DEF HooksAnswer
<1>6. CASE Classify
  <2>1. phase = "gather" /\ UNCHANGED <<policyVars, i, runnable, stopVars, countVars, toolVars, resultVars>>
    BY <1>6 DEF Classify
  <2>2. CASE ReadOnly(i) /\ kind' = "reads" /\ UNCHANGED <<phase, last>>
    BY <2>1, <2>2
  <2>3. CASE Delegates(i) /\ kind' = "delegates" /\ UNCHANGED <<phase, last>>
    BY <2>1, <2>3 DEF Delegates
  <2>4. CASE phase' = "decide" /\ last' = i /\ UNCHANGED kind
    BY <2>1, <2>4
  <2>5. QED
    BY <1>6, <2>2, <2>3, <2>4 DEF Classify
<1>7. CASE JoinGroup
  BY <1>7 DEF JoinGroup, GroupFull, Fits
<1>8. CASE StartReads
  BY <1>8 DEF StartReads, GroupClosed, GroupFull
<1>9. CASE DecideFanOut
  BY <1>9 DEF DecideFanOut, GroupClosed, GroupFull, Fits, Delegates
<1>10. CASE DeniedByPolicy
  BY <1>10 DEF DeniedByPolicy, RefuseIt, Proceed, AnswerAll
<1>11. CASE AllowedByPolicy
  BY <1>11 DEF AllowedByPolicy, RunIt, Proceed
<1>12. CASE AskPerson
  BY <1>12 DEF AskPerson, CancelIt, Proceed
<1>13. CASE AnsweredYes
  BY <1>13 DEF AnsweredYes, Waiting, RunIt, Proceed, Granted
<1>14. CASE AnsweredByNobody
  BY <1>14 DEF AnsweredByNobody, Waiting, RefuseIt, Proceed, AnswerAll
<1>15. CASE AnsweredNo
  BY <1>15 DEF AnsweredNo, Waiting, RefuseIt, Proceed, AnswerAll
<1>16. CASE AskCancelled
  BY <1>16 DEF AskCancelled, CancelIt, Proceed
<1>17. CASE Launch
  BY <1>17 DEF Launch, ChangeAhead, Start
<1>18. CASE AskNeeds
  BY <1>18 DEF AskNeeds, DropFanOut, AnswerAll
<1>19. CASE NeedsAnswered
  BY <1>19 DEF NeedsAnswered, ChangeAhead, Start, Granted
<1>20. CASE NeedsRefused
  BY <1>20 DEF NeedsRefused, DropFanOut, AnswerAll
<1>21. CASE NeedsCancelled
  BY <1>21 DEF NeedsCancelled, DropFanOut, AnswerAll
<1>22. CASE CheckpointTaken
  BY <1>22 DEF CheckpointTaken, Start
<1>23. ASSUME NEW c \in Calls, ToolEnds(c) PROVE IndexInv'
  BY <1>23 DEF ToolEnds
<1>24. CASE GroupDone
  BY <1>24 DEF GroupDone
<1>25. CASE Settled
  BY <1>25 DEF Settled
<1>26. CASE Abort
  BY <1>26 DEF Abort
<1>27. CASE SwitchMode
  BY <1>27 DEF SwitchMode
<1>28. CASE GrantElsewhere
  <2>1. PICK C \in SUBSET Calls : policy' = Granted(policy, C)
    BY <1>28 DEF GrantElsewhere
  <2>2. policy' = [c \in Calls |-> IF c \in C /\ policy[c] # "deny" THEN "allow" ELSE policy[c]]
    BY <2>1 DEF Granted
  <2>3. CASE RunIt /\ audit' = [audit EXCEPT ![i] = "allow"] /\ phase = "ask"
    BY <2>2, <2>3 DEF RunIt, Proceed
  <2>4. CASE UNCHANGED <<class, hook, signal, loopVars, stopVars, countVars, toolVars, resultVars>>
    BY <2>2, <2>4
  <2>5. QED
    BY <1>28, <2>3, <2>4 DEF GrantElsewhere
<1>29. CASE UNCHANGED vars
  BY <1>29 DEF vars
<1>30. QED
  BY <1>1, <1>2, <1>3, <1>4, <1>5, <1>6, <1>7, <1>8, <1>9, <1>10, <1>11, <1>12, <1>13, <1>14, <1>15, <1>16, <1>17, <1>18, <1>19, <1>20, <1>21, <1>22, <1>23, <1>24, <1>25, <1>26, <1>27, <1>28, <1>29
  DEF Next, Returned, Program, HeadStep, GatherStep, DecideStep, LaunchStep, PerformStep, Person, Environment

LEMMA PlaceStep == IInv /\ [Next]_vars => PlaceInv'
<1> SUFFICES ASSUME IInv, [Next]_vars PROVE PlaceInv'
  OBVIOUS
<1> USE NAssumption, CapAssumption, ClassesAssumption, PoliciesAssumption, HookAssumption
    DEF IInv, TypeOK, PlaceInv, Calls, Statuses, Denials, IndexInv,
        policyVars, loopVars, stopVars, countVars, toolVars, resultVars
<1>1. CASE SkipStopped
  BY <1>1 DEF SkipStopped, AnswerAll
<1>2. CASE SkipCapped
  BY <1>2 DEF SkipCapped, AnswerAll
<1>3. CASE BeginCall
  BY <1>3 DEF BeginCall
<1>4. CASE LeaveLoop
  BY <1>4 DEF LeaveLoop
<1>5. CASE HooksAnswer
  BY <1>5 DEF HooksAnswer
<1>6. CASE Classify
  BY <1>6 DEF Classify, Delegates
<1>7. CASE JoinGroup
  BY <1>7 DEF JoinGroup, GroupFull, Fits
<1>8. CASE StartReads
  BY <1>8 DEF StartReads, GroupClosed, GroupFull
<1>9. CASE DecideFanOut
  BY <1>9 DEF DecideFanOut, GroupClosed, GroupFull, Fits, Delegates
<1>10. CASE DeniedByPolicy
  BY <1>10 DEF DeniedByPolicy, RefuseIt, Proceed, AnswerAll
<1>11. CASE AllowedByPolicy
  BY <1>11 DEF AllowedByPolicy, RunIt, Proceed
<1>12. CASE AskPerson
  <2>1. CASE signal = "aborted"
    <3>1. phase = "decide" /\ CancelIt /\ UNCHANGED policy
      BY <1>12, <2>1 DEF AskPerson
    <3>2. QED
      BY <3>1 DEF CancelIt, Proceed
  <2>2. CASE signal = "live"
    <3>1. /\ phase = "decide" /\ phase' = "ask"
          /\ UNCHANGED <<policyVars, kind, i, last, runnable, stopVars, countVars, toolVars, resultVars>>
      BY <1>12, <2>2 DEF AskPerson
    <3>2. QED
      BY <3>1
  <2>3. QED
    BY <2>1, <2>2
<1>13. CASE AnsweredYes
  BY <1>13 DEF AnsweredYes, Waiting, RunIt, Proceed, Granted
<1>14. CASE AnsweredByNobody
  BY <1>14 DEF AnsweredByNobody, Waiting, RefuseIt, Proceed, AnswerAll
<1>15. CASE AnsweredNo
  BY <1>15 DEF AnsweredNo, Waiting, RefuseIt, Proceed, AnswerAll
<1>16. CASE AskCancelled
  BY <1>16 DEF AskCancelled, CancelIt, Proceed
<1>17. CASE Launch
  BY <1>17 DEF Launch, ChangeAhead, Start
<1>18. CASE AskNeeds
  <2>1. CASE signal = "aborted"
    <3>1. /\ phase = "launch" /\ stopped' = "cancelled" /\ DropFanOut
          /\ UNCHANGED <<policyVars, kind, i, last, denial, ran, capped, audit>>
      BY <1>18, <2>1 DEF AskNeeds
    <3>2. QED
      BY <3>1 DEF DropFanOut, AnswerAll
  <2>2. CASE signal = "live"
    <3>1. /\ phase = "launch" /\ phase' = "preflight" /\ stopped = "no"
          /\ UNCHANGED <<runnable, stopped, checkpoint, toolVars, said, times, results>>
          /\ UNCHANGED <<policyVars, kind, i, last, denial, ran, capped, audit>>
      BY <1>18, <2>2 DEF AskNeeds
    <3>2. QED
      BY <3>1
  <2>3. QED
    BY <2>1, <2>2
<1>19. CASE NeedsAnswered
  BY <1>19 DEF NeedsAnswered, ChangeAhead, Start, Granted
<1>20. CASE NeedsRefused
  BY <1>20 DEF NeedsRefused, DropFanOut, AnswerAll
<1>21. CASE NeedsCancelled
  BY <1>21 DEF NeedsCancelled, DropFanOut, AnswerAll
<1>22. CASE CheckpointTaken
  BY <1>22 DEF CheckpointTaken, Start
<1>23. ASSUME NEW c \in Calls, ToolEnds(c) PROVE PlaceInv'
  BY <1>23 DEF ToolEnds
<1>24. CASE GroupDone
  BY <1>24 DEF GroupDone
<1>25. CASE Settled
  BY <1>25 DEF Settled
<1>26. CASE Abort
  BY <1>26 DEF Abort
<1>27. CASE SwitchMode
  BY <1>27 DEF SwitchMode
<1>28. CASE GrantElsewhere
  <2>1. PICK C \in SUBSET Calls : policy' = Granted(policy, C)
    BY <1>28 DEF GrantElsewhere
  <2>2. policy' = [c \in Calls |-> IF c \in C /\ policy[c] # "deny" THEN "allow" ELSE policy[c]]
    BY <2>1 DEF Granted
  <2>3. CASE RunIt /\ audit' = [audit EXCEPT ![i] = "allow"] /\ phase = "ask"
    BY <2>2, <2>3 DEF RunIt, Proceed
  <2>4. CASE UNCHANGED <<class, hook, signal, loopVars, stopVars, countVars, toolVars, resultVars>>
    BY <2>2, <2>4
  <2>5. QED
    BY <1>28, <2>3, <2>4 DEF GrantElsewhere
<1>29. CASE UNCHANGED vars
  BY <1>29 DEF vars
<1>30. QED
  BY <1>1, <1>2, <1>3, <1>4, <1>5, <1>6, <1>7, <1>8, <1>9, <1>10, <1>11, <1>12, <1>13, <1>14, <1>15, <1>16, <1>17, <1>18, <1>19, <1>20, <1>21, <1>22, <1>23, <1>24, <1>25, <1>26, <1>27, <1>28, <1>29
  DEF Next, Returned, Program, HeadStep, GatherStep, DecideStep, LaunchStep, PerformStep, Person, Environment

LEMMA ArrayStep == IInv /\ [Next]_vars => ArrayInv'
<1> SUFFICES ASSUME IInv, [Next]_vars PROVE ArrayInv'
  OBVIOUS
<1> USE NAssumption, CapAssumption, ClassesAssumption, PoliciesAssumption, HookAssumption
    DEF IInv, TypeOK, ArrayInv, Calls, Statuses, Denials, IndexInv, PlaceInv,
        policyVars, loopVars, stopVars, countVars, toolVars, resultVars
<1>1. CASE SkipStopped
  BY <1>1 DEF SkipStopped, AnswerAll
<1>2. CASE SkipCapped
  BY <1>2 DEF SkipCapped, AnswerAll
<1>3. CASE BeginCall
  BY <1>3 DEF BeginCall
<1>4. CASE LeaveLoop
  BY <1>4 DEF LeaveLoop
<1>5. CASE HooksAnswer
  BY <1>5 DEF HooksAnswer
<1>6. CASE Classify
  BY <1>6 DEF Classify, Delegates
<1>7. CASE JoinGroup
  BY <1>7 DEF JoinGroup, GroupFull, Fits
<1>8. CASE StartReads
  BY <1>8 DEF StartReads, GroupClosed, GroupFull
<1>9. CASE DecideFanOut
  BY <1>9 DEF DecideFanOut, GroupClosed, GroupFull, Fits, Delegates
<1>10. CASE DeniedByPolicy
  BY <1>10 DEF DeniedByPolicy, RefuseIt, Proceed, AnswerAll
<1>11. CASE AllowedByPolicy
  BY <1>11 DEF AllowedByPolicy, RunIt, Proceed
<1>12. CASE AskPerson
  BY <1>12 DEF AskPerson, CancelIt, Proceed
<1>13. CASE AnsweredYes
  BY <1>13 DEF AnsweredYes, Waiting, RunIt, Proceed, Granted
<1>14. CASE AnsweredByNobody
  BY <1>14 DEF AnsweredByNobody, Waiting, RefuseIt, Proceed, AnswerAll
<1>15. CASE AnsweredNo
  BY <1>15 DEF AnsweredNo, Waiting, RefuseIt, Proceed, AnswerAll
<1>16. CASE AskCancelled
  BY <1>16 DEF AskCancelled, CancelIt, Proceed
<1>17. CASE Launch
  BY <1>17 DEF Launch, ChangeAhead, Start
<1>18. CASE AskNeeds
  BY <1>18 DEF AskNeeds, DropFanOut, AnswerAll
<1>19. CASE NeedsAnswered
  BY <1>19 DEF NeedsAnswered, ChangeAhead, Start, Granted
<1>20. CASE NeedsRefused
  BY <1>20 DEF NeedsRefused, DropFanOut, AnswerAll
<1>21. CASE NeedsCancelled
  BY <1>21 DEF NeedsCancelled, DropFanOut, AnswerAll
<1>22. CASE CheckpointTaken
  BY <1>22 DEF CheckpointTaken, Start
<1>23. ASSUME NEW c \in Calls, ToolEnds(c) PROVE ArrayInv'
  BY <1>23 DEF ToolEnds
<1>24. CASE GroupDone
  BY <1>24 DEF GroupDone
<1>25. CASE Settled
  BY <1>25 DEF Settled
<1>26. CASE Abort
  BY <1>26 DEF Abort
<1>27. CASE SwitchMode
  BY <1>27 DEF SwitchMode
<1>28. CASE GrantElsewhere
  BY <1>28 DEF GrantElsewhere, Granted, RunIt, Proceed
<1>29. CASE UNCHANGED vars
  BY <1>29 DEF vars
<1>30. QED
  BY <1>1, <1>2, <1>3, <1>4, <1>5, <1>6, <1>7, <1>8, <1>9, <1>10, <1>11, <1>12, <1>13, <1>14, <1>15, <1>16, <1>17, <1>18, <1>19, <1>20, <1>21, <1>22, <1>23, <1>24, <1>25, <1>26, <1>27, <1>28, <1>29
  DEF Next, Returned, Program, HeadStep, GatherStep, DecideStep, LaunchStep, PerformStep, Person, Environment

LEMMA ClearedStep == IInv /\ [Next]_vars => ClearedInv'
<1> SUFFICES ASSUME IInv, [Next]_vars PROVE ClearedInv'
  OBVIOUS
<1> USE NAssumption, CapAssumption, ClassesAssumption, PoliciesAssumption, HookAssumption
    DEF IInv, TypeOK, ClearedInv, Calls, Statuses, Denials, IndexInv, PlaceInv, ReadOnly, Recorded, Delegates, Decide, DecideBy, Denies, Asks,
        policyVars, loopVars, stopVars, countVars, toolVars, resultVars
<1>1. CASE SkipStopped
  BY <1>1 DEF SkipStopped, AnswerAll
<1>2. CASE SkipCapped
  BY <1>2 DEF SkipCapped, AnswerAll
<1>3. CASE BeginCall
  BY <1>3 DEF BeginCall
<1>4. CASE LeaveLoop
  BY <1>4 DEF LeaveLoop
<1>5. CASE HooksAnswer
  BY <1>5 DEF HooksAnswer
<1>6. CASE Classify
  BY <1>6 DEF Classify, Delegates
<1>7. CASE JoinGroup
  BY <1>7 DEF JoinGroup, GroupFull, Fits
<1>8. CASE StartReads
  BY <1>8 DEF StartReads, GroupClosed, GroupFull
<1>9. CASE DecideFanOut
  BY <1>9 DEF DecideFanOut, GroupClosed, GroupFull, Fits, Delegates
<1>10. CASE DeniedByPolicy
  BY <1>10 DEF DeniedByPolicy, RefuseIt, Proceed, AnswerAll
<1>11. CASE AllowedByPolicy
  BY <1>11 DEF AllowedByPolicy, RunIt, Proceed
<1>12. CASE AskPerson
  <2>1. CASE signal = "aborted"
    <3>1. phase = "decide" /\ CancelIt /\ UNCHANGED policy
      BY <1>12, <2>1 DEF AskPerson
    <3>2. QED
      BY <3>1 DEF CancelIt, Proceed
  <2>2. CASE signal = "live"
    <3>1. /\ phase = "decide" /\ phase' = "ask"
          /\ UNCHANGED <<policyVars, kind, i, last, runnable, stopVars, countVars, toolVars, resultVars>>
      BY <1>12, <2>2 DEF AskPerson
    <3>2. QED
      BY <3>1
  <2>3. QED
    BY <2>1, <2>2
<1>13. CASE AnsweredYes
  BY <1>13 DEF AnsweredYes, Waiting, RunIt, Proceed, Granted
<1>14. CASE AnsweredByNobody
  BY <1>14 DEF AnsweredByNobody, Waiting, RefuseIt, Proceed, AnswerAll
<1>15. CASE AnsweredNo
  BY <1>15 DEF AnsweredNo, Waiting, RefuseIt, Proceed, AnswerAll
<1>16. CASE AskCancelled
  BY <1>16 DEF AskCancelled, CancelIt, Proceed
<1>17. CASE Launch
  BY <1>17 DEF Launch, ChangeAhead, Start
<1>18. CASE AskNeeds
  BY <1>18 DEF AskNeeds, DropFanOut, AnswerAll
<1>19. CASE NeedsAnswered
  <2>1. PICK C \in SUBSET Calls : policy' = policy \/ policy' = Granted(policy, C)
    BY <1>19 DEF NeedsAnswered
  <2>2. \A c \in Calls : policy'[c] = policy[c] \/ (policy'[c] = "allow" /\ policy[c] # "deny")
    BY <2>1 DEF Granted
  <2>3. /\ phase = "preflight" /\ ChangeAhead
        /\ UNCHANGED <<class, hook, signal, kind, i, last, stopVars, ran, capped, resultVars>>
    BY <1>19 DEF NeedsAnswered
  <2>4. QED
    BY <2>2, <2>3 DEF ChangeAhead, Start
<1>20. CASE NeedsRefused
  BY <1>20 DEF NeedsRefused, DropFanOut, AnswerAll
<1>21. CASE NeedsCancelled
  BY <1>21 DEF NeedsCancelled, DropFanOut, AnswerAll
<1>22. CASE CheckpointTaken
  BY <1>22 DEF CheckpointTaken, Start
<1>23. ASSUME NEW c \in Calls, ToolEnds(c) PROVE ClearedInv'
  BY <1>23 DEF ToolEnds
<1>24. CASE GroupDone
  BY <1>24 DEF GroupDone
<1>25. CASE Settled
  BY <1>25 DEF Settled
<1>26. CASE Abort
  BY <1>26 DEF Abort
<1>27. CASE SwitchMode
  BY <1>27 DEF SwitchMode
<1>28. CASE GrantElsewhere
  <2>1. PICK C \in SUBSET Calls : policy' = Granted(policy, C)
    BY <1>28 DEF GrantElsewhere
  <2>2. policy' = [c \in Calls |-> IF c \in C /\ policy[c] # "deny" THEN "allow" ELSE policy[c]]
    BY <2>1 DEF Granted
  <2>3. CASE RunIt /\ audit' = [audit EXCEPT ![i] = "allow"] /\ phase = "ask"
    BY <2>2, <2>3 DEF RunIt, Proceed
  <2>4. CASE UNCHANGED <<class, hook, signal, loopVars, stopVars, countVars, toolVars, resultVars>>
    BY <2>2, <2>4
  <2>5. QED
    BY <1>28, <2>3, <2>4 DEF GrantElsewhere
<1>29. CASE UNCHANGED vars
  BY <1>29 DEF vars
<1>30. QED
  BY <1>1, <1>2, <1>3, <1>4, <1>5, <1>6, <1>7, <1>8, <1>9, <1>10, <1>11, <1>12, <1>13, <1>14, <1>15, <1>16, <1>17, <1>18, <1>19, <1>20, <1>21, <1>22, <1>23, <1>24, <1>25, <1>26, <1>27, <1>28, <1>29
  DEF Next, Returned, Program, HeadStep, GatherStep, DecideStep, LaunchStep, PerformStep, Person, Environment

LEMMA DenialStep == IInv /\ [Next]_vars => DenialInv'
<1> SUFFICES ASSUME IInv, [Next]_vars PROVE DenialInv'
  OBVIOUS
<1> USE NAssumption, CapAssumption, ClassesAssumption, PoliciesAssumption, HookAssumption
    DEF IInv, TypeOK, DenialInv, Calls, Statuses, Denials, IndexInv, PlaceInv,
        policyVars, loopVars, stopVars, countVars, toolVars, resultVars
<1>1. CASE SkipStopped
  BY <1>1 DEF SkipStopped, AnswerAll
<1>2. CASE SkipCapped
  BY <1>2 DEF SkipCapped, AnswerAll
<1>3. CASE BeginCall
  BY <1>3 DEF BeginCall
<1>4. CASE LeaveLoop
  BY <1>4 DEF LeaveLoop
<1>5. CASE HooksAnswer
  BY <1>5 DEF HooksAnswer
<1>6. CASE Classify
  BY <1>6 DEF Classify, Delegates
<1>7. CASE JoinGroup
  BY <1>7 DEF JoinGroup, GroupFull, Fits
<1>8. CASE StartReads
  BY <1>8 DEF StartReads, GroupClosed, GroupFull
<1>9. CASE DecideFanOut
  BY <1>9 DEF DecideFanOut, GroupClosed, GroupFull, Fits, Delegates
<1>10. CASE DeniedByPolicy
  BY <1>10 DEF DeniedByPolicy, RefuseIt, Proceed, AnswerAll
<1>11. CASE AllowedByPolicy
  BY <1>11 DEF AllowedByPolicy, RunIt, Proceed
<1>12. CASE AskPerson
  BY <1>12 DEF AskPerson, CancelIt, Proceed
<1>13. CASE AnsweredYes
  BY <1>13 DEF AnsweredYes, Waiting, RunIt, Proceed, Granted
<1>14. CASE AnsweredByNobody
  BY <1>14 DEF AnsweredByNobody, Waiting, RefuseIt, Proceed, AnswerAll
<1>15. CASE AnsweredNo
  BY <1>15 DEF AnsweredNo, Waiting, RefuseIt, Proceed, AnswerAll
<1>16. CASE AskCancelled
  BY <1>16 DEF AskCancelled, CancelIt, Proceed
<1>17. CASE Launch
  BY <1>17 DEF Launch, ChangeAhead, Start
<1>18. CASE AskNeeds
  BY <1>18 DEF AskNeeds, DropFanOut, AnswerAll
<1>19. CASE NeedsAnswered
  BY <1>19 DEF NeedsAnswered, ChangeAhead, Start, Granted
<1>20. CASE NeedsRefused
  BY <1>20 DEF NeedsRefused, DropFanOut, AnswerAll
<1>21. CASE NeedsCancelled
  BY <1>21 DEF NeedsCancelled, DropFanOut, AnswerAll
<1>22. CASE CheckpointTaken
  BY <1>22 DEF CheckpointTaken, Start
<1>23. ASSUME NEW c \in Calls, ToolEnds(c) PROVE DenialInv'
  BY <1>23 DEF ToolEnds
<1>24. CASE GroupDone
  BY <1>24 DEF GroupDone
<1>25. CASE Settled
  BY <1>25 DEF Settled
<1>26. CASE Abort
  BY <1>26 DEF Abort
<1>27. CASE SwitchMode
  BY <1>27 DEF SwitchMode
<1>28. CASE GrantElsewhere
  <2>1. PICK C \in SUBSET Calls : policy' = Granted(policy, C)
    BY <1>28 DEF GrantElsewhere
  <2>2. policy' = [c \in Calls |-> IF c \in C /\ policy[c] # "deny" THEN "allow" ELSE policy[c]]
    BY <2>1 DEF Granted
  <2>3. CASE RunIt /\ audit' = [audit EXCEPT ![i] = "allow"] /\ phase = "ask"
    BY <2>2, <2>3 DEF RunIt, Proceed
  <2>4. CASE UNCHANGED <<class, hook, signal, loopVars, stopVars, countVars, toolVars, resultVars>>
    BY <2>2, <2>4
  <2>5. QED
    BY <1>28, <2>3, <2>4 DEF GrantElsewhere
<1>29. CASE UNCHANGED vars
  BY <1>29 DEF vars
<1>30. QED
  BY <1>1, <1>2, <1>3, <1>4, <1>5, <1>6, <1>7, <1>8, <1>9, <1>10, <1>11, <1>12, <1>13, <1>14, <1>15, <1>16, <1>17, <1>18, <1>19, <1>20, <1>21, <1>22, <1>23, <1>24, <1>25, <1>26, <1>27, <1>28, <1>29
  DEF Next, Returned, Program, HeadStep, GatherStep, DecideStep, LaunchStep, PerformStep, Person, Environment

LEMMA CheckpointStep == IInv /\ [Next]_vars => CheckpointInv'
<1> SUFFICES ASSUME IInv, [Next]_vars PROVE CheckpointInv'
  OBVIOUS
<1> USE NAssumption, CapAssumption, ClassesAssumption, PoliciesAssumption, HookAssumption
    DEF IInv, TypeOK, CheckpointInv, Calls, Statuses, Denials, IndexInv, PlaceInv, CheckpointFirst, ClearedInv, ReadOnly, Changes,
        policyVars, loopVars, stopVars, countVars, toolVars, resultVars
<1>1. CASE SkipStopped
  BY <1>1 DEF SkipStopped, AnswerAll
<1>2. CASE SkipCapped
  BY <1>2 DEF SkipCapped, AnswerAll
<1>3. CASE BeginCall
  BY <1>3 DEF BeginCall
<1>4. CASE LeaveLoop
  BY <1>4 DEF LeaveLoop
<1>5. CASE HooksAnswer
  BY <1>5 DEF HooksAnswer
<1>6. CASE Classify
  BY <1>6 DEF Classify, Delegates
<1>7. CASE JoinGroup
  BY <1>7 DEF JoinGroup, GroupFull, Fits
<1>8. CASE StartReads
  BY <1>8 DEF StartReads, GroupClosed, GroupFull
<1>9. CASE DecideFanOut
  BY <1>9 DEF DecideFanOut, GroupClosed, GroupFull, Fits, Delegates
<1>10. CASE DeniedByPolicy
  BY <1>10 DEF DeniedByPolicy, RefuseIt, Proceed, AnswerAll
<1>11. CASE AllowedByPolicy
  BY <1>11 DEF AllowedByPolicy, RunIt, Proceed
<1>12. CASE AskPerson
  BY <1>12 DEF AskPerson, CancelIt, Proceed
<1>13. CASE AnsweredYes
  BY <1>13 DEF AnsweredYes, Waiting, RunIt, Proceed, Granted
<1>14. CASE AnsweredByNobody
  BY <1>14 DEF AnsweredByNobody, Waiting, RefuseIt, Proceed, AnswerAll
<1>15. CASE AnsweredNo
  BY <1>15 DEF AnsweredNo, Waiting, RefuseIt, Proceed, AnswerAll
<1>16. CASE AskCancelled
  BY <1>16 DEF AskCancelled, CancelIt, Proceed
<1>17. CASE Launch
  BY <1>17 DEF Launch, ChangeAhead, Start
<1>18. CASE AskNeeds
  BY <1>18 DEF AskNeeds, DropFanOut, AnswerAll
<1>19. CASE NeedsAnswered
  BY <1>19 DEF NeedsAnswered, ChangeAhead, Start, Granted
<1>20. CASE NeedsRefused
  BY <1>20 DEF NeedsRefused, DropFanOut, AnswerAll
<1>21. CASE NeedsCancelled
  BY <1>21 DEF NeedsCancelled, DropFanOut, AnswerAll
<1>22. CASE CheckpointTaken
  BY <1>22 DEF CheckpointTaken, Start
<1>23. ASSUME NEW c \in Calls, ToolEnds(c) PROVE CheckpointInv'
  BY <1>23 DEF ToolEnds
<1>24. CASE GroupDone
  BY <1>24 DEF GroupDone
<1>25. CASE Settled
  BY <1>25 DEF Settled
<1>26. CASE Abort
  BY <1>26 DEF Abort
<1>27. CASE SwitchMode
  BY <1>27 DEF SwitchMode
<1>28. CASE GrantElsewhere
  BY <1>28 DEF GrantElsewhere, Granted, RunIt, Proceed
<1>29. CASE UNCHANGED vars
  BY <1>29 DEF vars
<1>30. QED
  BY <1>1, <1>2, <1>3, <1>4, <1>5, <1>6, <1>7, <1>8, <1>9, <1>10, <1>11, <1>12, <1>13, <1>14, <1>15, <1>16, <1>17, <1>18, <1>19, <1>20, <1>21, <1>22, <1>23, <1>24, <1>25, <1>26, <1>27, <1>28, <1>29
  DEF Next, Returned, Program, HeadStep, GatherStep, DecideStep, LaunchStep, PerformStep, Person, Environment

-----------------------------------------------------------------------------
(* Theorems.                                                               *)

\* The invariant behind every theorem below is inductive: whatever the number of calls, the cap,
\* the rules and the hooks, each step of executeBatch and of its surroundings keeps it.
THEOREM Inductive == Spec => []IInv
<1>1. Init => IInv
  BY IInvInit
<1>2. IInv /\ [Next]_vars => IInv'
  BY TypeOKStep, IndexStep, PlaceStep, ArrayStep, ClearedStep, DenialStep, CheckpointStep DEF IInv
<1>3. QED
  BY <1>1, <1>2, PTL DEF Spec

\* Every variable of the batch stays in its range.
THEOREM TypeCorrect == Spec => []TypeOK
<1>1. IInv => TypeOK
  BY DEF IInv
<1>2. QED
  BY <1>1, Inductive, PTL

\* Every call of a step gets exactly one result, and the returned array says what was announced.
THEOREM HonestResults == Spec => []OneResultEach
<1>1. IInv => OneResultEach
  <2> SUFFICES ASSUME IInv PROVE OneResultEach
    OBVIOUS
  <2>1. ASSUME NEW c \in Calls PROVE times[c] <= 1
    BY NAssumption DEF IInv, PlaceInv, TypeOK, Calls
  <2>2. ASSUME phase = "done", NEW c \in Calls PROVE times[c] = 1 /\ said[c] = results[c]
    BY <2>2, NAssumption DEF IInv, PlaceInv, IndexInv, ArrayInv, TypeOK, Calls
  <2>3. QED
    BY <2>1, <2>2 DEF OneResultEach
<1>2. QED
  BY <1>1, Inductive, PTL

\* No call of a step is executed that was not decided first, and allowed.
THEOREM NothingRunsUndecided == Spec => []DecidedBeforeRun
<1>1. IInv => DecidedBeforeRun
  BY DEF IInv, ClearedInv, DecidedBeforeRun
<1>2. QED
  BY <1>1, Inductive, PTL

\* After a person's denial nothing the model asked for later in the step is executed.
THEOREM DenialHolds == Spec => []DenialTakesBackTheRest
<1>1. IInv => DenialTakesBackTheRest
  BY DEF IInv, DenialInv, DenialTakesBackTheRest
<1>2. QED
  BY <1>1, Inductive, PTL

\* No change is made before the step's checkpoint was taken.
THEOREM ChangesAreUndoable == Spec => []CheckpointFirst
<1>1. IInv => CheckpointFirst
  BY DEF IInv, CheckpointInv
<1>2. QED
  BY <1>1, Inductive, PTL

\* Once the turn is cancelled no prompt goes up, and one that is up is only taken down.
THEOREM CancelSilencesPrompts == Spec => NoPromptAfterCancel
<1> DEFINE Silent == signal = "aborted" /\ phase' \in {"ask", "preflight"} => phase' = phase
<1>1. [Next]_vars => [Silent]_vars
  <2> SUFFICES ASSUME Next, signal = "aborted", phase' \in {"ask", "preflight"}
               PROVE  phase' = phase
    OBVIOUS
  <2>1. CASE HeadStep
    BY <2>1 DEF HeadStep, SkipStopped, SkipCapped, BeginCall, LeaveLoop
  <2>2. CASE GatherStep
    BY <2>2 DEF GatherStep, HooksAnswer, Classify, JoinGroup, StartReads, DecideFanOut, loopVars
  <2>3. CASE DecideStep
    BY <2>3 DEF DecideStep, DeniedByPolicy, AllowedByPolicy, AskPerson, AskCancelled, RunIt, RefuseIt, CancelIt, Proceed
  <2>4. CASE LaunchStep
    BY <2>4 DEF LaunchStep, Launch, AskNeeds, NeedsCancelled, CheckpointTaken, ChangeAhead, DropFanOut, Start
  <2>5. CASE PerformStep
    BY <2>5 DEF PerformStep, ToolEnds, GroupDone, Settled, loopVars
  <2>6. CASE Person
    BY <2>6 DEF Person, Waiting, AnsweredYes, AnsweredByNobody, AnsweredNo, NeedsAnswered, NeedsRefused
  <2>7. CASE Environment
    BY <2>7 DEF Environment, Abort, SwitchMode, GrantElsewhere, loopVars
  <2>8. CASE Returned
    BY <2>8 DEF Returned, vars, loopVars
  <2>9. QED
    BY <2>1, <2>2, <2>3, <2>4, <2>5, <2>6, <2>7, <2>8 DEF Next, Program
<1>2. QED
  BY <1>1, PTL DEF Spec, NoPromptAfterCancel

-----------------------------------------------------------------------------
(* Calls run in their turn.                                                *)

LEMMA GroupStep == IInv /\ GroupInv /\ [Next]_vars => GroupInv'
<1> SUFFICES ASSUME IInv, GroupInv, [Next]_vars PROVE GroupInv'
  OBVIOUS
<1> USE NAssumption, CapAssumption, ClassesAssumption, PoliciesAssumption, HookAssumption
    DEF GroupInv, IInv, TypeOK, PlaceInv, Calls, Statuses, Denials, IndexInv, ClearedInv, ReadOnly, Delegates,
        policyVars, loopVars, stopVars, countVars, toolVars, resultVars
<1>1. CASE SkipStopped
  BY <1>1 DEF SkipStopped, AnswerAll
<1>2. CASE SkipCapped
  BY <1>2 DEF SkipCapped, AnswerAll
<1>3. CASE BeginCall
  BY <1>3 DEF BeginCall
<1>4. CASE LeaveLoop
  BY <1>4 DEF LeaveLoop
<1>5. CASE HooksAnswer
  BY <1>5 DEF HooksAnswer
<1>6. CASE Classify
  BY <1>6 DEF Classify, Delegates
<1>7. CASE JoinGroup
  BY <1>7 DEF JoinGroup, GroupFull, Fits
<1>8. CASE StartReads
  BY <1>8 DEF StartReads, GroupClosed, GroupFull
<1>9. CASE DecideFanOut
  BY <1>9 DEF DecideFanOut, GroupClosed, GroupFull, Fits, Delegates
<1>10. CASE DeniedByPolicy
  BY <1>10 DEF DeniedByPolicy, RefuseIt, Proceed, AnswerAll
<1>11. CASE AllowedByPolicy
  BY <1>11 DEF AllowedByPolicy, RunIt, Proceed
<1>12. CASE AskPerson
  <2>1. CASE signal = "aborted"
    <3>1. phase = "decide" /\ CancelIt /\ UNCHANGED policy
      BY <1>12, <2>1 DEF AskPerson
    <3>2. QED
      BY <3>1 DEF CancelIt, Proceed
  <2>2. CASE signal = "live"
    <3>1. /\ phase = "decide" /\ phase' = "ask"
          /\ UNCHANGED <<policyVars, kind, i, last, runnable, stopVars, countVars, toolVars, resultVars>>
      BY <1>12, <2>2 DEF AskPerson
    <3>2. QED
      BY <3>1
  <2>3. QED
    BY <2>1, <2>2
<1>13. CASE AnsweredYes
  BY <1>13 DEF AnsweredYes, Waiting, RunIt, Proceed, Granted
<1>14. CASE AnsweredByNobody
  BY <1>14 DEF AnsweredByNobody, Waiting, RefuseIt, Proceed, AnswerAll
<1>15. CASE AnsweredNo
  BY <1>15 DEF AnsweredNo, Waiting, RefuseIt, Proceed, AnswerAll
<1>16. CASE AskCancelled
  BY <1>16 DEF AskCancelled, CancelIt, Proceed
<1>17. CASE Launch
  <2>1. class' = class /\ kind' = kind /\ i' = i /\ last' = last /\ ChangeAhead
    BY <1>17 DEF Launch
  <2>2. CASE phase' = "checkpoint" /\ UNCHANGED <<runnable, toolVars>>
    BY <2>1, <2>2
  <2>3. CASE Start
    <3>1. \A b, c \in runnable : b # c => class[b] = class[c] /\ class[b] \in {"read", "delegate"}
      OBVIOUS
    <3>2. QED
      BY <2>1, <2>3, <3>1 DEF Start
  <2>4. QED
    BY <2>1, <2>2, <2>3 DEF ChangeAhead
<1>18. CASE AskNeeds
  <2>1. CASE signal = "aborted"
    <3>1. /\ phase = "launch" /\ stopped' = "cancelled" /\ DropFanOut
          /\ UNCHANGED <<policyVars, kind, i, last, denial, ran, capped, audit>>
      BY <1>18, <2>1 DEF AskNeeds
    <3>2. QED
      BY <3>1 DEF DropFanOut, AnswerAll
  <2>2. CASE signal = "live"
    <3>1. /\ phase = "launch" /\ phase' = "preflight" /\ stopped = "no"
          /\ UNCHANGED <<runnable, stopped, checkpoint, toolVars, said, times, results>>
          /\ UNCHANGED <<policyVars, kind, i, last, denial, ran, capped, audit>>
      BY <1>18, <2>2 DEF AskNeeds
    <3>2. QED
      BY <3>1
  <2>3. QED
    BY <2>1, <2>2
<1>19. CASE NeedsAnswered
  <2>1. class' = class /\ kind' = kind /\ i' = i /\ last' = last /\ ChangeAhead
    BY <1>19 DEF NeedsAnswered
  <2>2. CASE phase' = "checkpoint" /\ UNCHANGED <<runnable, toolVars>>
    BY <2>1, <2>2
  <2>3. CASE Start
    <3>1. \A b, c \in runnable : b # c => class[b] = class[c] /\ class[b] \in {"read", "delegate"}
      OBVIOUS
    <3>2. QED
      BY <2>1, <2>3, <3>1 DEF Start
  <2>4. QED
    BY <2>1, <2>2, <2>3 DEF ChangeAhead
<1>20. CASE NeedsRefused
  BY <1>20 DEF NeedsRefused, DropFanOut, AnswerAll
<1>21. CASE NeedsCancelled
  BY <1>21 DEF NeedsCancelled, DropFanOut, AnswerAll
<1>22. CASE CheckpointTaken
  BY <1>22 DEF CheckpointTaken, Start
<1>23. ASSUME NEW c \in Calls, ToolEnds(c) PROVE GroupInv'
  BY <1>23 DEF ToolEnds
<1>24. CASE GroupDone
  BY <1>24 DEF GroupDone
<1>25. CASE Settled
  BY <1>25 DEF Settled
<1>26. CASE Abort
  BY <1>26 DEF Abort
<1>27. CASE SwitchMode
  BY <1>27 DEF SwitchMode
<1>28. CASE GrantElsewhere
  <2>1. PICK C \in SUBSET Calls : policy' = Granted(policy, C)
    BY <1>28 DEF GrantElsewhere
  <2>2. policy' = [c \in Calls |-> IF c \in C /\ policy[c] # "deny" THEN "allow" ELSE policy[c]]
    BY <2>1 DEF Granted
  <2>3. CASE RunIt /\ audit' = [audit EXCEPT ![i] = "allow"] /\ phase = "ask"
    BY <2>2, <2>3 DEF RunIt, Proceed
  <2>4. CASE UNCHANGED <<class, hook, signal, loopVars, stopVars, countVars, toolVars, resultVars>>
    BY <2>2, <2>4
  <2>5. QED
    BY <1>28, <2>3, <2>4 DEF GrantElsewhere
<1>29. CASE UNCHANGED vars
  BY <1>29 DEF vars
<1>30. QED
  BY <1>1, <1>2, <1>3, <1>4, <1>5, <1>6, <1>7, <1>8, <1>9, <1>10, <1>11, <1>12, <1>13, <1>14, <1>15, <1>16, <1>17, <1>18, <1>19, <1>20, <1>21, <1>22, <1>23, <1>24, <1>25, <1>26, <1>27, <1>28, <1>29
  DEF Next, Returned, Program, HeadStep, GatherStep, DecideStep, LaunchStep, PerformStep, Person, Environment

\* A call starts only when each earlier one was answered or runs beside it, and only reads, or
\* a fan-out, run together.
THEOREM OrderHolds == Spec => []OrderKept
<1>1. Init => GroupInv
  BY DEF Init, GroupInv
<1>2. IInv /\ GroupInv => OrderKept
  <2> SUFFICES ASSUME IInv, GroupInv PROVE OrderKept
    OBVIOUS
  <2>1. ASSUME NEW c \in executed, NEW b \in Calls, b < c PROVE b \in executed \/ times[b] = 1
    <3>1. c < i /\ b < i /\ b \notin runnable
      BY <2>1, NAssumption DEF IInv, TypeOK, PlaceInv, GroupInv, Calls
    <3>2. QED
      BY <2>1, <3>1 DEF IInv, PlaceInv
  <2>2. QED
    BY <2>1 DEF OrderKept, GroupInv
<1>3. QED
  BY Inductive, <1>1, <1>2, GroupStep, PTL DEF Spec

\* What runs was decided, runs in its turn, and on a checkpoint when it may change files.
THEOREM InTurn == Spec => []RunsInTurn
<1>1. DecidedBeforeRun /\ OrderKept /\ CheckpointFirst => RunsInTurn
  BY DEF RunsInTurn
<1>2. QED
  BY NothingRunsUndecided, OrderHolds, ChangesAreUndoable, <1>1, PTL

-----------------------------------------------------------------------------
(* executeBatch keeps the promise of HonestBatch.                          *)

\* A batch starts with no call answered.
LEMMA PromiseInit == Init => Batch!Init
BY DEF Init, Batch!Init, Calls

\* Each step of the batch announces results for calls that had none, returns with none missing,
\* or does nothing the promise can tell.
LEMMA PromiseStep == IInv /\ [Next]_vars => [Batch!Next]_(Batch!vars)
<1> SUFFICES ASSUME IInv, [Next]_vars PROVE [Batch!Next]_(Batch!vars)
  OBVIOUS
<1> USE NAssumption DEF policyVars, loopVars, stopVars, countVars, toolVars, resultVars
<1>1. ASSUME NEW C \in SUBSET Calls, NEW s \in Statuses, C \subseteq Batch!Unanswered,
             phase # "done", phase' # "done",
             said' = [c \in Calls |-> IF c \in C THEN s ELSE said[c]]
      PROVE  Batch!Next
  <2>1. Batch!Answer(C, s)
    BY <1>1 DEF Batch!Answer
  <2>2. QED
    BY <2>1 DEF Batch!Next
<1>2. ASSUME said' = said, phase # "done", phase' # "done" PROVE [Batch!Next]_(Batch!vars)
  BY <1>2 DEF Batch!vars
<1>3. \A c \in Calls : times[c] = 0 => c \in Batch!Unanswered
  BY DEF IInv, ArrayInv, Batch!Unanswered
<1>4. i \in Calls => {i} \subseteq Batch!Unanswered
  BY <1>3 DEF IInv, PlaceInv, TypeOK, Calls
<1>5. runnable \subseteq Batch!Unanswered
  BY <1>3 DEF IInv, PlaceInv, TypeOK, Calls
<1>6. {"denied", "cancelled"} \subseteq Statuses
  BY DEF Statuses
<1>7. CASE SkipStopped \/ SkipCapped
  <2>1. /\ i \in Calls /\ phase = "loop" /\ phase' = "loop"
        /\ said' = [c \in Calls |-> IF c \in {i} THEN "cancelled" ELSE said[c]]
    BY <1>7 DEF SkipStopped, SkipCapped, AnswerAll, IInv, TypeOK, Calls
  <2>2. QED
    BY <2>1, <1>1, <1>4, <1>6
<1>8. CASE BeginCall
  BY <1>8, <1>2 DEF BeginCall
<1>9. CASE LeaveLoop \/ Settled
  <2>1. CASE phase' = "done"
    <3>1. \A c \in Calls : said[c] # "none"
      BY <1>9 DEF LeaveLoop, Settled, IInv, IndexInv, PlaceInv, ArrayInv, TypeOK, Calls
    <3>2. Batch!Close
      BY <1>9, <2>1, <3>1 DEF LeaveLoop, Settled, Batch!Close, Batch!Unanswered
    <3>3. QED
      BY <3>2 DEF Batch!Next
  <2>2. CASE phase' # "done"
    BY <1>9, <2>2, <1>2 DEF LeaveLoop, Settled
  <2>3. QED
    BY <2>1, <2>2
<1>10. CASE GatherStep
  <2>1. said' = said /\ phase = "gather" /\ phase' # "done"
    BY <1>10 DEF GatherStep, HooksAnswer, Classify, JoinGroup, StartReads, DecideFanOut, GroupClosed
  <2>2. QED
    BY <2>1, <1>2
<1>11. CASE DeniedByPolicy \/ AnsweredByNobody \/ AnsweredNo
  <2>1. i \in Calls
    BY <1>11 DEF DeniedByPolicy, AnsweredByNobody, AnsweredNo, Waiting, IInv, IndexInv, TypeOK, Calls
  <2>2. /\ phase # "done" /\ phase' # "done"
        /\ said' = [c \in Calls |-> IF c \in {i} THEN "denied" ELSE said[c]]
    BY <1>11 DEF DeniedByPolicy, AnsweredByNobody, AnsweredNo, Waiting, RefuseIt, Proceed, AnswerAll
  <2>3. QED
    BY <2>1, <2>2, <1>1, <1>4, <1>6
<1>12. CASE AllowedByPolicy \/ AskPerson \/ AskCancelled \/ AnsweredYes
  <2>1. said' = said /\ phase # "done" /\ phase' # "done"
    BY <1>12 DEF AllowedByPolicy, AskPerson, AskCancelled, AnsweredYes, Waiting, RunIt, CancelIt, Proceed
  <2>2. QED
    BY <2>1, <1>2
<1>13. CASE Launch \/ CheckpointTaken \/ NeedsAnswered
  <2>1. said' = said /\ phase # "done" /\ phase' # "done"
    BY <1>13 DEF Launch, CheckpointTaken, NeedsAnswered, ChangeAhead, Start
  <2>2. QED
    BY <2>1, <1>2
<1>14. CASE AskNeeds \/ NeedsRefused \/ NeedsCancelled
  <2>1. CASE DropFanOut
    <3>1. /\ phase # "done" /\ phase' # "done"
          /\ said' = [c \in Calls |-> IF c \in runnable THEN "cancelled" ELSE said[c]]
      BY <1>14, <2>1 DEF AskNeeds, NeedsRefused, NeedsCancelled, DropFanOut, AnswerAll
    <3>2. runnable \in SUBSET Calls
      BY DEF IInv, TypeOK
    <3>3. QED
      BY <3>1, <3>2, <1>1, <1>5, <1>6
  <2>2. CASE phase = "launch" /\ phase' = "preflight" /\ said' = said
    BY <2>2, <1>2
  <2>3. QED
    BY <1>14, <2>1, <2>2 DEF AskNeeds, NeedsRefused, NeedsCancelled
<1>15. ASSUME NEW c \in Calls, ToolEnds(c) PROVE [Batch!Next]_(Batch!vars)
  <2>1. PICK s \in Statuses : said' = [said EXCEPT ![c] = s]
    BY <1>15 DEF ToolEnds, Statuses
  <2>2. said' = [b \in Calls |-> IF b \in {c} THEN s ELSE said[b]]
    BY <2>1 DEF IInv, TypeOK
  <2>3. {c} \subseteq Batch!Unanswered
    BY <1>15, <1>3 DEF ToolEnds, IInv, PlaceInv, TypeOK, Calls
  <2>4. phase # "done" /\ phase' # "done"
    BY <1>15 DEF ToolEnds
  <2>5. QED
    BY <2>2, <2>3, <2>4, <1>1
<1>16. CASE GroupDone
  BY <1>16, <1>2 DEF GroupDone
<1>17. CASE Abort \/ SwitchMode
  BY <1>17 DEF Abort, SwitchMode, Batch!vars
<1>18. CASE GrantElsewhere
  <2>1. CASE RunIt /\ phase = "ask"
    <3>1. said' = said /\ phase # "done" /\ phase' # "done"
      BY <2>1 DEF RunIt, Proceed
    <3>2. QED
      BY <3>1, <1>2
  <2>2. CASE phase' = phase /\ said' = said
    BY <2>2 DEF Batch!vars
  <2>3. QED
    BY <1>18, <2>1, <2>2 DEF GrantElsewhere
<1>19. CASE UNCHANGED vars
  BY <1>19 DEF vars, Batch!vars
<1>20. QED
  BY <1>7, <1>8, <1>9, <1>10, <1>11, <1>12, <1>13, <1>14, <1>15, <1>16, <1>17, <1>18, <1>19
  DEF Next, Returned, Program, HeadStep, DecideStep, LaunchStep, PerformStep, Person, Environment

\* The batch implements the promise: every behaviour of executeBatch, seen through the results
\* it announces and its return, is one HonestBatch allows.
THEOREM PromiseKept == Spec => KeepsPromise
BY Inductive, PromiseInit, PromiseStep, PTL DEF Spec, KeepsPromise, Batch!Spec
-----------------------------------------------------------------------------
(* The cap.                                                                *)

LEMMA SomeCalls ==
  ASSUME NEW S \in SUBSET Calls
  PROVE  IsFiniteSet(S) /\ Cardinality(S) \in Nat
<1>1. 1 \in Int /\ N \in Int
  BY NAssumption
<1>2. IsFiniteSet(1..N)
  BY ONLY <1>1, FS_Interval
<1>3. S \in SUBSET (1..N)
  BY DEF Calls
<1>4. IsFiniteSet(S)
  BY ONLY <1>2, <1>3, FS_Subset
<1>5. QED
  BY ONLY <1>4, FS_CardinalityType

LEMMA Disjoint ==
  ASSUME NEW S \in SUBSET Calls, NEW R \in SUBSET Calls, S \cap R = {}
  PROVE  Cardinality(S \cup R) = Cardinality(S) + Cardinality(R)
<1>1. IsFiniteSet(S) /\ IsFiniteSet(R) /\ Cardinality(S) \in Nat /\ Cardinality(R) \in Nat
  BY SomeCalls
<1>2. Cardinality(S \cap R) = 0
  BY FS_EmptySet
<1>3. Cardinality(S \cup R) = Cardinality(S) + Cardinality(R) - Cardinality(S \cap R)
  BY ONLY <1>1, FS_Union
<1>4. QED
  BY <1>1, <1>2, <1>3

\* Outside a running group every call that ran has its result in the array.
LEMMA AllCounted == IInv /\ phase # "perform" => Counted = executed
<1> SUFFICES ASSUME IInv, phase # "perform", NEW c \in executed PROVE results[c] # "none"
  BY DEF Counted
<1>1. c \in Calls /\ c < i /\ c \notin runnable /\ running = {}
  BY DEF IInv, TypeOK, PlaceInv, Calls
<1>2. times[c] = 1
  BY <1>1 DEF IInv, PlaceInv
<1>3. QED
  BY <1>1, <1>2 DEF IInv, ArrayInv

\* What a start adds to what ran was none of it, and is not counted before it is done.
LEMMA Started ==
  ASSUME IInv, CapInv, NEW S \in SUBSET Calls, S \cap executed = {}, phase # "perform",
         \A c \in S : times[c] = 0, Cardinality(S) <= Remaining,
         executed' = executed \cup S, results' = results, ran' = ran
  PROVE  Counted' = Counted /\ Cardinality(executed') <= Cap
<1>1. \A c \in S : results[c] = "none"
  BY DEF IInv, ArrayInv
<1>2. Counted' = Counted
  BY <1>1 DEF Counted
<1>3. executed \in SUBSET Calls
  BY DEF IInv, TypeOK
<1>4. Cardinality(executed') = Cardinality(executed) + Cardinality(S)
  BY <1>3, Disjoint
<1>5. ran = Cardinality(executed)
  BY AllCounted DEF CapInv
<1>6. Cardinality(executed) \in Nat /\ Cardinality(S) \in Nat
  BY <1>3, SomeCalls
<1>7. QED
  BY <1>2, <1>4, <1>5, <1>6, CapAssumption DEF Remaining

\* A result given to calls that did not run counts for nothing.
LEMMA NotCounted ==
  ASSUME NEW S, S \cap executed = {}, executed' = executed,
         results' = [c \in Calls |-> IF c \in S THEN "cancelled" ELSE results[c]]
           \/ results' = [c \in Calls |-> IF c \in S THEN "denied" ELSE results[c]],
         executed \subseteq Calls
  PROVE  Counted' = Counted
BY DEF Counted

\* What is left for the calls of a fan-out and of a call on its own.
LEMMA ProceedKeepsCap ==
  ASSUME IInv, CapInv, NEW fate \in {"run", "cancelled", "settled"}, NEW stop, Proceed(fate, stop),
         phase \in {"decide", "ask"}, Counted' = Counted
  PROVE  CapInv'
<1> USE NAssumption, CapAssumption DEF IInv, TypeOK
<1>1. i \in Calls /\ i <= last /\ i \notin runnable
  BY DEF IndexInv, PlaceInv, Calls
<1>2. runnable \in SUBSET Calls /\ Cardinality(runnable) \in Nat
  BY SomeCalls
<1>3. Cardinality(runnable \cup {i}) = Cardinality(runnable) + 1
  BY ONLY <1>1, <1>2, SomeCalls, FS_AddElement
<1>4. Cardinality(runnable) + (last - i + 1) <= Cap - ran
  BY DEF CapInv, Remaining
<1>5. ran' = ran /\ capped' = capped /\ capped = 0 /\ last' = last /\ ran <= Cap /\ executed' = executed
  BY DEF Proceed, countVars, toolVars, CapInv
<1>6. phase' \in {"decide", "launch", "loop"}
  BY DEF Proceed
<1>7. CASE fate = "run"
  <2>1. i' = i + 1 /\ runnable' = runnable \cup {i}
    BY <1>7 DEF Proceed
  <2>2. QED
    BY <1>1, <1>2, <1>3, <1>4, <1>5, <1>6, <2>1 DEF CapInv, Remaining
<1>8. CASE fate # "run"
  <2>1. i' \in {i, i + 1} /\ runnable' = runnable
    BY <1>8 DEF Proceed
  <2>2. phase' = "decide" => i' = i + 1 \/ i' = i
    BY <2>1
  <2>3. QED
    BY <1>1, <1>2, <1>4, <1>5, <1>6, <2>1 DEF CapInv, Remaining
<1>9. QED
  BY <1>7, <1>8

LEMMA CapStep == IInv /\ CapInv /\ [Next]_vars => CapInv'
<1> SUFFICES ASSUME IInv, CapInv, [Next]_vars PROVE CapInv'
  OBVIOUS
<1> USE NAssumption, CapAssumption DEF policyVars, loopVars, stopVars, countVars, toolVars, resultVars
<1>1. /\ executed \in SUBSET Calls /\ runnable \in SUBSET Calls
      /\ runnable \cap executed = {} /\ i \notin executed
      /\ i \in Int /\ last \in Int /\ ran \in Nat /\ capped \in Nat
  BY DEF IInv, TypeOK, PlaceInv, Calls
<1>2. Cardinality(executed) \in Nat /\ Cardinality(runnable) \in Nat
  BY <1>1, SomeCalls
<1>3. CASE SkipStopped
  <2>1. results' = [c \in Calls |-> IF c \in {i} THEN "cancelled" ELSE results[c]] /\ executed' = executed
    BY <1>3 DEF SkipStopped, AnswerAll
  <2>2. {i} \cap executed = {}
    BY <1>1
  <2>3. Counted' = Counted
    BY <1>1, <2>1, <2>2 DEF Counted
  <2>4. QED
    BY <1>3, <2>3 DEF SkipStopped, CapInv, Remaining
<1>4. CASE SkipCapped
  <2>1. results' = [c \in Calls |-> IF c \in {i} THEN "cancelled" ELSE results[c]] /\ executed' = executed
    BY <1>4 DEF SkipCapped, AnswerAll
  <2>2. {i} \cap executed = {}
    BY <1>1
  <2>3. Counted' = Counted
    BY <1>1, <2>1, <2>2 DEF Counted
  <2>4. QED
    BY <1>4, <1>1, <2>3 DEF SkipCapped, CapInv, Remaining
<1>5. CASE BeginCall \/ LeaveLoop \/ Settled
  BY <1>5, <1>1 DEF BeginCall, LeaveLoop, Settled, CapInv, Counted, Remaining
<1>6. CASE HooksAnswer
  BY <1>6 DEF HooksAnswer, CapInv, Counted, Remaining
<1>7. CASE Classify
  <2>1. /\ phase = "gather" /\ kind = "one" /\ last = i - 1 /\ Remaining > 0
        /\ UNCHANGED <<ran, capped, executed, results, runnable, i>>
    BY <1>7 DEF Classify, IInv, IndexInv
  <2>2. \/ phase' = "gather" /\ last' = last
        \/ phase' = "decide" /\ last' = i
    BY <1>7 DEF Classify
  <2>3. runnable = {} /\ Cardinality(runnable) = 0
    BY <2>1, FS_EmptySet DEF IInv, PlaceInv
  <2>4. QED
    BY <1>1, <2>1, <2>2, <2>3 DEF CapInv, Counted, Remaining
<1>8. CASE JoinGroup
  BY <1>8, <1>1 DEF JoinGroup, GroupFull, CapInv, Counted, Remaining
<1>9. CASE StartReads
  <2> DEFINE S == i..last
  <2>1. /\ phase = "gather" /\ kind = "reads" /\ last - i + 1 <= Remaining /\ 0 <= last - i + 1
        /\ S \in SUBSET Calls /\ S \cap executed = {} /\ \A c \in S : times[c] = 0
    BY <1>9, <1>1 DEF StartReads, GroupClosed, CapInv, IInv, IndexInv, TypeOK, PlaceInv, Calls
  <2>2. Cardinality(S) = last - i + 1
    BY ONLY <1>1, <2>1, FS_Interval
  <2>3. executed' = executed \cup S /\ UNCHANGED <<ran, capped, results>> /\ phase' = "perform"
    BY <1>9 DEF StartReads
  <2>4. Counted' = Counted /\ Cardinality(executed') <= Cap
    BY <2>1, <2>2, <2>3, Started
  <2>5. QED
    BY <2>1, <2>3, <2>4 DEF CapInv
<1>10. CASE DecideFanOut
  <2>1. runnable = {} /\ Cardinality(runnable) = 0
    BY <1>10, FS_EmptySet DEF DecideFanOut, GroupClosed, IInv, PlaceInv
  <2>2. QED
    BY <1>10, <1>1, <2>1 DEF DecideFanOut, GroupClosed, CapInv, Counted, Remaining
<1>11. CASE DeniedByPolicy \/ AnsweredByNobody \/ AnsweredNo
  <2>1. PICK stop \in {stopped, "denied"} : RefuseIt(stop)
    BY <1>11 DEF DeniedByPolicy, AnsweredByNobody, AnsweredNo
  <2>2. phase \in {"decide", "ask"}
    BY <1>11 DEF DeniedByPolicy, AnsweredByNobody, AnsweredNo, Waiting
  <2>3. Proceed("settled", stop) /\ AnswerAll({i}, "denied") /\ executed' = executed
    BY <2>1 DEF RefuseIt, Proceed
  <2>4. results' = [c \in Calls |-> IF c \in {i} THEN "denied" ELSE results[c]]
    BY <2>3 DEF AnswerAll
  <2>5. Counted' = Counted
    BY ONLY <1>1, <2>3, <2>4, NotCounted
  <2>6. QED
    BY <2>2, <2>3, <2>5, ProceedKeepsCap
<1>12. ASSUME RunIt \/ CancelIt, phase \in {"decide", "ask"} PROVE CapInv'
  <2>1. PICK fate \in {"run", "cancelled"}, stop \in {stopped, "cancelled"} : Proceed(fate, stop)
    BY <1>12 DEF RunIt, CancelIt
  <2>2. Counted' = Counted
    BY <1>12 DEF RunIt, CancelIt, Proceed, Counted
  <2>3. QED
    BY <1>12, <2>1, <2>2, ProceedKeepsCap
<1>13. CASE AllowedByPolicy \/ AskCancelled \/ AnsweredYes
  BY <1>12, <1>13 DEF AllowedByPolicy, AskCancelled, AnsweredYes, Waiting
<1>14. CASE AskPerson
  <2>1. CASE CancelIt
    BY <1>12, <1>14, <2>1 DEF AskPerson
  <2>2. CASE signal = "live"
    BY <1>14, <2>2 DEF AskPerson, CapInv, Counted, Remaining
  <2>3. QED
    BY <1>14, <2>1, <2>2 DEF AskPerson
<1>15. ASSUME Start, phase \in {"launch", "preflight", "checkpoint"}, UNCHANGED <<ran, capped, results>>
       PROVE  CapInv'
  <2>1. /\ Cardinality(runnable) <= Remaining /\ executed' = executed \cup runnable
        /\ phase' = "perform" /\ \A c \in runnable : times[c] = 0
    BY <1>15, <1>1 DEF Start, CapInv, IInv, PlaceInv, TypeOK, Calls
  <2>2. Counted' = Counted /\ Cardinality(executed') <= Cap
    BY <1>1, <1>15, <2>1, Started
  <2>3. QED
    BY <1>15, <2>1, <2>2 DEF CapInv
<1>16. ASSUME ChangeAhead, phase \in {"launch", "preflight"}, UNCHANGED <<ran, capped, results, i, last>>
       PROVE  CapInv'
  <2>1. CASE Start
    BY <1>15, <1>16, <2>1
  <2>2. CASE phase' = "checkpoint" /\ UNCHANGED <<runnable, toolVars>>
    BY <1>16, <2>2 DEF CapInv, Counted, Remaining
  <2>3. QED
    BY <1>16, <2>1, <2>2 DEF ChangeAhead
<1>17. CASE Launch \/ NeedsAnswered
  BY <1>16, <1>17 DEF Launch, NeedsAnswered
<1>18. CASE CheckpointTaken
  BY <1>15, <1>18 DEF CheckpointTaken
<1>19. ASSUME DropFanOut, phase \in {"launch", "preflight"}, UNCHANGED <<ran, capped>>
       PROVE  CapInv'
  <2>1. Counted' = Counted
    BY <1>1, <1>19, NotCounted DEF DropFanOut, AnswerAll
  <2>2. QED
    BY <1>19, <2>1 DEF DropFanOut, CapInv
<1>20. CASE AskNeeds
  <2>1. CASE DropFanOut
    BY <1>19, <1>20, <2>1 DEF AskNeeds
  <2>2. CASE signal = "live"
    BY <1>20, <2>2 DEF AskNeeds, CapInv, Counted, Remaining
  <2>3. QED
    BY <1>20, <2>1, <2>2 DEF AskNeeds
<1>21. CASE NeedsRefused \/ NeedsCancelled
  BY <1>19, <1>21 DEF NeedsRefused, NeedsCancelled
<1>22. ASSUME NEW c \in Calls, ToolEnds(c) PROVE CapInv'
  BY <1>22 DEF ToolEnds, CapInv, Counted
<1>23. CASE GroupDone
  <2> DEFINE group == {c \in executed : results[c] = "none"}
  <2>1. /\ results' = [c \in Calls |-> IF c \in group THEN said[c] ELSE results[c]]
        /\ ran' = ran + Cardinality(group) /\ phase' = "loop" /\ phase = "perform" /\ running = {}
        /\ executed' = executed /\ capped' = capped
    BY <1>23 DEF GroupDone
  <2>2. \A c \in executed : said[c] # "none"
    BY <1>1, <2>1 DEF IInv, PlaceInv, ArrayInv, TypeOK, Calls
  <2>3. Counted' = executed
    BY <1>1, <2>1, <2>2 DEF Counted
  <2>4. Counted \cup group = executed /\ Counted \cap group = {}
    BY DEF Counted
  <2>5. Cardinality(executed) = Cardinality(Counted) + Cardinality(group)
    BY <1>1, <2>4, Disjoint
  <2>6. ran' = Cardinality(executed) /\ ran' <= Cap /\ capped = 0
    BY <2>1, <2>5, <1>1 DEF CapInv
  <2>7. QED
    BY <2>1, <2>3, <2>6 DEF CapInv
<1>24. CASE Abort \/ SwitchMode
  BY <1>24 DEF Abort, SwitchMode, CapInv, Counted, Remaining
<1>25. CASE GrantElsewhere
  <2>1. CASE RunIt /\ phase = "ask"
    BY <1>12, <2>1
  <2>2. CASE UNCHANGED <<loopVars, stopVars, countVars, toolVars, resultVars>>
    BY <2>2 DEF CapInv, Counted, Remaining
  <2>3. QED
    BY <1>25, <2>1, <2>2 DEF GrantElsewhere
<1>26. CASE UNCHANGED vars
  BY <1>26 DEF vars, CapInv, Counted, Remaining
<1>27. QED
  BY <1>3, <1>4, <1>5, <1>6, <1>7, <1>8, <1>9, <1>10, <1>11, <1>13, <1>14, <1>17, <1>18, <1>20, <1>21, <1>22, <1>23, <1>24, <1>25, <1>26
  DEF Next, Returned, Program, HeadStep, GatherStep, DecideStep, LaunchStep, PerformStep, Person, Environment

\* No step runs more calls than the turn has left, however they were grouped and whatever was
\* granted meanwhile; the batch reports as many as it ran, and a call held back only for the cap.
THEOREM CapIsKept == Spec => []CapHolds
<1>1. Init => CapInv
  <2>1. Cardinality({}) = 0
    BY FS_EmptySet
  <2>2. QED
    BY <2>1, CapAssumption DEF Init, CapInv, Counted
<1>2. IInv /\ CapInv => CapHolds
  <2> SUFFICES ASSUME IInv, CapInv PROVE CapHolds
    OBVIOUS
  <2>1. phase # "perform" => ran = Cardinality(executed)
    BY AllCounted DEF CapInv
  <2>2. QED
    BY <2>1, CapAssumption DEF CapInv, CapHolds, IInv, TypeOK
<1>3. QED
  BY Inductive, CapStep, <1>1, <1>2, PTL DEF Spec

-----------------------------------------------------------------------------
(* The worktrees of child tasks (Worktrees): for any people, children and    *)
(* items, nothing a child wrote in its run goes with its worktree but what   *)
(* git ignores, what it could not count and what was left on a branch.       *)

CONSTANTS People, Children, Items, Ignored
VARIABLES tree, opener, lost, late, switched, uncounted

Wt == INSTANCE Worktrees

TreesTyped == [dir : {"absent", "tree", "other"}, known : BOOLEAN, branch : BOOLEAN, commits : SUBSET Items,
               head : {"branch", "elsewhere"}, files : SUBSET Items]
OpenersTyped == [at : {"none", "adds", "open", "refused", "runs", "counts", "reads", "settles", "settled", "closed"},
                 branch : BOOLEAN, saw : SUBSET Items]
Excused == late \cup switched \cup uncounted \cup Ignored

(* Of a child's own worktree, by where the child is: before it runs there is  *)
(* nothing in it; what it committed and is not at its head was left with the  *)
(* branch; and what a look at it did not see is of after the run.             *)
Untouched(t) == t.dir = "absent" /\ ~ t.known /\ ~ t.branch /\ t.commits = {} /\ t.files = {} /\ t.head = "branch"
OwnTree(t, o, left, excused) ==
  /\ o.at \in {"none", "adds", "refused"} => Untouched(t)
  /\ o.at = "adds" => ~ o.branch
  /\ o.at = "open" => t.commits = {} /\ t.files = {}
  /\ t.head = "elsewhere" => t.commits \subseteq left
  /\ o.at \in {"reads", "settles"} => t.commits \subseteq o.saw \cup excused
  /\ o.at = "settles" => t.files \subseteq o.saw \cup excused

TreesInv ==
  /\ tree \in [Wt!Trees -> TreesTyped] /\ opener \in [Wt!Openers -> OpenersTyped]
  /\ \A c \in Children : OwnTree(tree[c], opener[c], switched, Excused)
  /\ lost \subseteq Excused

(* There is no worktree.                                                      *)
LEMMA NoTreeInv == Wt!Init => TreesInv
<1> SUFFICES ASSUME Wt!Init PROVE TreesInv
  OBVIOUS
<1>1. Wt!NoTree \in TreesTyped /\ Untouched(Wt!NoTree)
  BY DEF Wt!NoTree, TreesTyped, Untouched
<1>2. [at |-> "none", branch |-> FALSE, saw |-> {}] \in OpenersTyped
  BY DEF OpenersTyped
<1>3. tree \in [Wt!Trees -> TreesTyped] /\ opener \in [Wt!Openers -> OpenersTyped] /\ lost = {}
  BY <1>1, <1>2 DEF Wt!Init
<1>4. \A c \in Children : tree[c] = Wt!NoTree /\ opener[c].at = "none"
  BY DEF Wt!Init, Wt!Trees, Wt!Openers
<1>5. QED
  BY <1>1, <1>3, <1>4 DEF TreesInv, OwnTree, Wt!NoTree

(* A step of one child's, in its own worktree.                                *)
LEMMA OneInv ==
  ASSUME TreesInv, Wt!Shared \notin Children, NEW c \in Children, NEW t \in TreesTyped, NEW o \in OpenersTyped,
         tree' = [tree EXCEPT ![c] = t] \/ (UNCHANGED tree /\ t = tree[c]),
         opener' = [opener EXCEPT ![c] = o] \/ (UNCHANGED opener /\ o = opener[c]),
         OwnTree(t, o, switched', Excused'), late \subseteq late', switched \subseteq switched', uncounted \subseteq uncounted', lost' \subseteq Excused'
  PROVE  TreesInv'
<1>1. /\ c \in Wt!Trees /\ c \in Wt!Openers /\ Children \subseteq Wt!Trees /\ Children \subseteq Wt!Openers
  BY DEF Wt!Trees, Wt!Openers
<1>2. /\ tree' \in [Wt!Trees -> TreesTyped] /\ tree'[c] = t /\ \A d \in Children \ {c} : tree'[d] = tree[d]
  BY <1>1 DEF TreesInv
<1>3. /\ opener' \in [Wt!Openers -> OpenersTyped] /\ opener'[c] = o /\ \A d \in Children \ {c} : opener'[d] = opener[d]
  BY <1>1 DEF TreesInv
<1>4. \A u, p : OwnTree(u, p, switched, Excused) => OwnTree(u, p, switched', Excused')
  BY DEF OwnTree, Excused
<1>5. \A d \in Children : (OwnTree(tree[d], opener[d], switched, Excused))'
  <2>1. (OwnTree(tree[c], opener[c], switched, Excused))'
    BY <1>2, <1>3
  <2>2. ASSUME NEW d \in Children \ {c} PROVE (OwnTree(tree[d], opener[d], switched, Excused))'
    <3>1. OwnTree(tree[d], opener[d], switched, Excused)
      BY DEF TreesInv
    <3>2. QED
      BY <1>2, <1>3, <1>4, <3>1
  <2>3. QED
    BY <2>1, <2>2
<1>6. QED
  BY <1>2, <1>3, <1>5 DEF TreesInv

(* A step in the worktree that people share leaves the children's alone.      *)
LEMMA SharedInv ==
  ASSUME TreesInv, Wt!Shared \notin Children, tree' \in [Wt!Trees -> TreesTyped], opener' \in [Wt!Openers -> OpenersTyped],
         \A c \in Children : tree'[c] = tree[c] /\ opener'[c] = opener[c],
         late \subseteq late', switched \subseteq switched', uncounted \subseteq uncounted', lost' = lost
  PROVE  TreesInv'
<1>1. \A u, p : OwnTree(u, p, switched, Excused) => OwnTree(u, p, switched', Excused')
  BY DEF OwnTree, Excused
<1>2. \A c \in Children : (OwnTree(tree[c], opener[c], switched, Excused))'
  BY <1>1 DEF TreesInv
<1>3. QED
  BY <1>2 DEF TreesInv, Excused

(* What a child's worktree and its opener are.                                *)
LEMMA ChildIs == ASSUME TreesInv, NEW c \in Children
                 PROVE  /\ tree[c] \in TreesTyped /\ opener[c] \in OpenersTyped /\ OwnTree(tree[c], opener[c], switched, Excused)
                        /\ Wt!Named(c) = c /\ lost \subseteq Excused
BY DEF TreesInv, Wt!Named, Wt!Trees, Wt!Openers

(* What a child, or whoever works in its worktree, does to open it.           *)
LEMMA OpensInv == ASSUME TreesInv, Wt!Shared \notin Children, NEW c \in Children,
                         Wt!Reopens(c) \/ Wt!NotATree(c) \/ Wt!LooksForIt(c) \/ Wt!Adds(c)
                  PROVE  TreesInv'
<1> DEFINE t == tree[c]
           o == opener[c]
<1>1. t \in TreesTyped /\ o \in OpenersTyped /\ OwnTree(t, o, switched, Excused) /\ Wt!Named(c) = c /\ lost \subseteq Excused
  BY ChildIs
<1>2. /\ UNCHANGED <<lost, late, switched, uncounted>>
  BY DEF Wt!Reopens, Wt!NotATree, Wt!LooksForIt, Wt!Adds
<1>3. \A u \in TreesTyped, p \in OpenersTyped :
        /\ tree' = [tree EXCEPT ![c] = u] \/ (UNCHANGED tree /\ u = t)
        /\ opener' = [opener EXCEPT ![c] = p] \/ (UNCHANGED opener /\ p = o)
        /\ OwnTree(u, p, switched, Excused)
        => TreesInv'
  <2> SUFFICES ASSUME NEW u \in TreesTyped, NEW p \in OpenersTyped,
                      tree' = [tree EXCEPT ![c] = u] \/ (UNCHANGED tree /\ u = t),
                      opener' = [opener EXCEPT ![c] = p] \/ (UNCHANGED opener /\ p = o),
                      OwnTree(u, p, switched, Excused)
               PROVE  TreesInv'
    OBVIOUS
  <2>1. OwnTree(u, p, switched', Excused') /\ lost' \subseteq Excused'
    BY <1>1, <1>2 DEF OwnTree, Excused
  <2>2. QED
    BY <1>2, <2>1, OneInv
<1>4. CASE Wt!Reopens(c) \/ Wt!NotATree(c)
  <2>1. FALSE
    BY <1>1, <1>4 DEF Wt!Reopens, Wt!NotATree, OwnTree, Untouched
  <2>2. QED
    BY <2>1
<1>5. CASE Wt!LooksForIt(c)
  <2> DEFINE u == [t EXCEPT !.known = FALSE]
             p == [o EXCEPT !.at = "adds", !.branch = t.branch]
  <2>1. /\ tree' = [tree EXCEPT ![c] = u] /\ opener' = [opener EXCEPT ![c] = p] /\ o.at = "none"
    BY <1>1, <1>5, Zenon DEF Wt!LooksForIt
  <2>2. Untouched(t)
    BY <1>1, <2>1 DEF OwnTree
  <2>3. u \in TreesTyped /\ Untouched(u) /\ p \in OpenersTyped /\ p.at = "adds" /\ p.branch = FALSE
    BY <1>1, <2>2 DEF TreesTyped, OpenersTyped, Untouched
  <2> HIDE DEF u, p
  <2>4. OwnTree(u, p, switched, Excused)
    BY <2>3 DEF OwnTree, Untouched
  <2>5. QED
    BY <1>3, <2>1, <2>3, <2>4
<1>6. CASE Wt!Adds(c)
  <2>1. Untouched(t) /\ o.at = "adds" /\ o.branch = FALSE
    BY <1>1, <1>6 DEF Wt!Adds, OwnTree, OpenersTyped
  <2> DEFINE u == [t EXCEPT !.dir = "tree", !.known = TRUE, !.branch = TRUE, !.head = "branch", !.files = {}]
             p == [o EXCEPT !.at = "open"]
  <2>2. tree' = [tree EXCEPT ![c] = u] /\ opener' = [opener EXCEPT ![c] = p]
    <3>1. t.dir = "absent" /\ ~ t.known /\ t.branch = o.branch
      BY <1>1, <2>1 DEF Untouched, TreesTyped
    <3>2. QED
      BY <1>1, <1>6, <3>1 DEF Wt!Adds
  <2>3. u \in TreesTyped /\ p \in OpenersTyped /\ p.at = "open" /\ u.commits = {} /\ u.files = {} /\ u.head = "branch"
    BY <1>1, <2>1 DEF TreesTyped, OpenersTyped, Untouched
  <2> HIDE DEF u, p
  <2>4. OwnTree(u, p, switched, Excused)
    BY <2>3 DEF OwnTree
  <2>5. QED
    BY <1>3, <2>2, <2>3, <2>4
<1>7. QED
  BY <1>4, <1>5, <1>6

(* A child, or a job it left, writes, commits, or leaves the branch.          *)
LEMMA WorksInv == ASSUME TreesInv, Wt!Shared \notin Children, NEW c \in Children,
                         Wt!Commits(c) \/ Wt!LeavesBranch(c) \/ (\E it \in Items : Wt!Writes(c, it))
                  PROVE  TreesInv'
<1> DEFINE t == tree[c]
           o == opener[c]
<1>1. t \in TreesTyped /\ o \in OpenersTyped /\ OwnTree(t, o, switched, Excused) /\ Wt!Named(c) = c /\ lost \subseteq Excused
  BY ChildIs
<1>2. o.at \in {"runs", "counts", "reads", "settles"} /\ UNCHANGED <<opener, lost, uncounted>>
  BY <1>1 DEF Wt!Commits, Wt!LeavesBranch, Wt!Writes, Wt!Works
<1>3. o.at \in {"reads", "settles"} => Wt!Ended(c)
  BY DEF Wt!Ended
<1>4. \A u \in TreesTyped : tree' = [tree EXCEPT ![c] = u] /\ late \subseteq late' /\ switched \subseteq switched'
                            /\ OwnTree(u, o, switched', Excused') => TreesInv'
  BY <1>1, <1>2, OneInv DEF Excused
<1>5. CASE Wt!Commits(c)
  <2> DEFINE u == [t EXCEPT !.commits = @ \cup Wt!Uncommitted(t), !.files = @ \cap Ignored]
  <2>1. /\ tree' = [tree EXCEPT ![c] = u] /\ t.head = "branch" /\ UNCHANGED switched /\ late \subseteq late'
        /\ Wt!Ended(c) => Wt!Uncommitted(t) \subseteq late'
    BY <1>1, <1>5 DEF Wt!Commits
  <2>2. u \in TreesTyped /\ u.commits = t.commits \cup Wt!Uncommitted(t) /\ u.files = t.files \cap Ignored /\ u.head = "branch"
    BY <1>1, <2>1 DEF TreesTyped, Wt!Uncommitted
  <2> HIDE DEF u
  <2>3. OwnTree(u, o, switched', Excused')
    BY <1>1, <1>2, <1>3, <2>1, <2>2 DEF OwnTree, Excused
  <2>4. QED
    BY <1>4, <2>1, <2>2, <2>3
<1>6. CASE Wt!LeavesBranch(c)
  <2> DEFINE u == [t EXCEPT !.head = "elsewhere"]
  <2>1. tree' = [tree EXCEPT ![c] = u] /\ switched' = switched \cup t.commits /\ UNCHANGED late
    BY <1>1, <1>6 DEF Wt!LeavesBranch
  <2>2. u \in TreesTyped /\ u.commits = t.commits /\ u.files = t.files
    BY <1>1 DEF TreesTyped
  <2> HIDE DEF u
  <2>3. OwnTree(u, o, switched', Excused')
    BY <1>1, <1>2, <2>1, <2>2 DEF OwnTree, Excused
  <2>4. QED
    BY <1>4, <2>1, <2>2, <2>3
<1>7. ASSUME NEW it \in Items, Wt!Writes(c, it) PROVE TreesInv'
  <2> DEFINE u == [t EXCEPT !.files = @ \cup {it}]
  <2>1. tree' = [tree EXCEPT ![c] = u] /\ late \subseteq late' /\ UNCHANGED switched /\ (Wt!Ended(c) => it \in late')
    BY <1>1, <1>7 DEF Wt!Writes
  <2>2. u \in TreesTyped /\ u.commits = t.commits /\ u.files = t.files \cup {it} /\ u.head = t.head
    BY <1>1 DEF TreesTyped
  <2> HIDE DEF u
  <2>3. OwnTree(u, o, switched', Excused')
    BY <1>1, <1>2, <1>3, <2>1, <2>2 DEF OwnTree, Excused
  <2>4. QED
    BY <1>4, <2>1, <2>2, <2>3
<1>8. QED
  BY <1>5, <1>6, <1>7

(* The harness goes on with a child: it runs, ends, is looked at and settled. *)
LEMMA GoesOnInv == ASSUME TreesInv, Wt!Shared \notin Children, NEW c \in Children,
                          \/ Wt!ChildRuns(c) \/ Wt!RunEnds(c) \/ Wt!CountsCommits(c) \/ Wt!ReadsStatus(c)
                          \/ Wt!Kept(c) \/ Wt!ChildCloses(c)
                   PROVE  TreesInv'
<1> DEFINE t == tree[c]
           o == opener[c]
<1>1. t \in TreesTyped /\ o \in OpenersTyped /\ OwnTree(t, o, switched, Excused) /\ lost \subseteq Excused
  BY ChildIs
<1>2. UNCHANGED <<tree, lost, late, switched>> /\ uncounted \subseteq uncounted'
  BY DEF Wt!ChildRuns, Wt!RunEnds, Wt!CountsCommits, Wt!ReadsStatus, Wt!Kept, Wt!ChildCloses
<1>3. \A p \in OpenersTyped : opener' = [opener EXCEPT ![c] = p] /\ OwnTree(t, p, switched, Excused') => TreesInv'
  <2> SUFFICES ASSUME NEW p \in OpenersTyped, opener' = [opener EXCEPT ![c] = p], OwnTree(t, p, switched, Excused') PROVE TreesInv'
    OBVIOUS
  <2>1. OwnTree(t, p, switched', Excused') /\ lost' \subseteq Excused'
    BY <1>1, <1>2 DEF OwnTree, Excused
  <2>2. QED
    BY <1>1, <1>2, <2>1, OneInv
<1>4. CASE Wt!ChildRuns(c) \/ Wt!RunEnds(c) \/ Wt!Kept(c) \/ Wt!ChildCloses(c)
  <2>1. PICK at \in {"runs", "counts", "settled", "closed"} :
          opener' = [opener EXCEPT ![c].at = at] /\ o.at \in {"open", "runs", "settles", "settled"}
    BY <1>4 DEF Wt!ChildRuns, Wt!RunEnds, Wt!Kept, Wt!ChildCloses
  <2> DEFINE p == [o EXCEPT !.at = at]
  <2>2. opener' = [opener EXCEPT ![c] = p] /\ p \in OpenersTyped /\ p.at = at
    BY <1>1, <2>1 DEF OpenersTyped
  <2> HIDE DEF p
  <2>3. OwnTree(t, p, switched, Excused')
    BY <1>1, <1>2, <2>1, <2>2 DEF OwnTree, Excused
  <2>4. QED
    BY <1>3, <2>2, <2>3
<1>5. CASE Wt!CountsCommits(c)
  <2> DEFINE p(failed) == [o EXCEPT !.at = "reads", !.saw = IF failed THEN {} ELSE Wt!AtHead(t)]
  <2>1. PICK failed \in BOOLEAN : /\ opener' = [opener EXCEPT ![c] = p(failed)]
                                  /\ uncounted' = IF failed THEN uncounted \cup Wt!AtHead(t) ELSE uncounted
    BY <1>5 DEF Wt!CountsCommits
  <2>2. o.at = "counts"
    BY <1>5 DEF Wt!CountsCommits
  <2>3. p(failed) \in OpenersTyped /\ p(failed).at = "reads" /\ p(failed).saw = IF failed THEN {} ELSE Wt!AtHead(t)
    BY <1>1 DEF OpenersTyped, Wt!AtHead, TreesTyped
  <2> HIDE DEF p
  <2>4. t.commits \subseteq Wt!AtHead(t) \cup switched
    BY <1>1 DEF Wt!AtHead, OwnTree, TreesTyped
  <2>5. OwnTree(t, p(failed), switched, Excused')
    BY <1>1, <1>2, <2>1, <2>2, <2>3, <2>4 DEF OwnTree, Excused
  <2>6. QED
    BY <1>3, <2>1, <2>3, <2>5
<1>6. CASE Wt!ReadsStatus(c)
  <2> DEFINE p == [o EXCEPT !.at = "settles", !.saw = @ \cup Wt!Uncommitted(t)]
  <2>1. opener' = [opener EXCEPT ![c] = p] /\ o.at = "reads"
    BY <1>6 DEF Wt!ReadsStatus
  <2>2. p \in OpenersTyped /\ p.at = "settles" /\ p.saw = o.saw \cup Wt!Uncommitted(t)
    BY <1>1 DEF OpenersTyped, Wt!Uncommitted, TreesTyped
  <2> HIDE DEF p
  <2>3. OwnTree(t, p, switched, Excused')
    BY <1>1, <1>2, <2>1, <2>2 DEF OwnTree, Excused, Wt!Uncommitted
  <2>4. QED
    BY <1>3, <2>1, <2>2, <2>3
<1>7. QED
  BY <1>4, <1>5, <1>6

(* A worktree that holds nothing, as far as was seen, is taken away.          *)
LEMMA TakenInv == ASSUME TreesInv, Wt!Shared \notin Children, NEW c \in Children, Wt!CreateFails(c) \/ Wt!TakenAway(c)
                  PROVE  TreesInv'
<1> DEFINE t == tree[c]
           o == opener[c]
           at == IF o.at = "open" THEN "closed" ELSE "settled"
           p == [o EXCEPT !.at = at]
<1>1. t \in TreesTyped /\ o \in OpenersTyped /\ OwnTree(t, o, switched, Excused) /\ lost \subseteq Excused
  BY ChildIs
<1>2. /\ tree' = [tree EXCEPT ![c] = Wt!NoTree] /\ lost' = lost \cup t.files \cup t.commits
      /\ opener' = [opener EXCEPT ![c] = p] /\ UNCHANGED <<late, switched, uncounted>>
      /\ o.at = "open" \/ (o.at = "settles" /\ o.saw = {})
  BY DEF Wt!CreateFails, Wt!TakenAway, Wt!Removed
<1>3. /\ p \in OpenersTyped /\ p.at \in {"closed", "settled"} /\ Wt!NoTree \in TreesTyped
      /\ Wt!NoTree.head = "branch"
  BY <1>1 DEF OpenersTyped, TreesTyped, Wt!NoTree
<1> HIDE DEF p
<1>4. OwnTree(Wt!NoTree, p, switched', Excused')
  BY <1>3 DEF OwnTree, Wt!NoTree
<1>5. lost' \subseteq Excused'
  BY <1>1, <1>2 DEF OwnTree, Excused
<1>6. QED
  BY <1>2, <1>3, <1>4, <1>5, OneInv

(* What people do, in the worktree of one name.                               *)
LEMMA PeopleInv == ASSUME TreesInv, Wt!Shared \notin Children, NEW o \in People \ Children,
                          \/ Wt!Reopens(o) \/ Wt!NotATree(o) \/ Wt!LooksForIt(o) \/ Wt!Adds(o) \/ Wt!Commits(o) \/ Wt!LeavesBranch(o)
                          \/ \E it \in Items : Wt!Writes(o, it)
                   PROVE  TreesInv'
<1> DEFINE t == tree[Wt!Shared]
           p == opener[o]
<1>1. /\ Wt!Shared \in Wt!Trees /\ o \in Wt!Openers /\ Wt!Named(o) = Wt!Shared /\ t \in TreesTyped /\ p \in OpenersTyped
      /\ tree \in [Wt!Trees -> TreesTyped] /\ opener \in [Wt!Openers -> OpenersTyped] /\ ~ Wt!Ended(o)
  BY DEF Wt!Trees, Wt!Openers, Wt!Named, TreesInv, Wt!Ended
<1>2. lost' = lost /\ late \subseteq late' /\ switched \subseteq switched' /\ uncounted \subseteq uncounted'
  BY DEF Wt!Reopens, Wt!NotATree, Wt!LooksForIt, Wt!Adds, Wt!Commits, Wt!LeavesBranch, Wt!Writes
<1>3. \A u \in TreesTyped, q \in OpenersTyped :
        /\ tree' = [tree EXCEPT ![Wt!Shared] = u] \/ UNCHANGED tree
        /\ opener' = [opener EXCEPT ![o] = q] \/ UNCHANGED opener
        => TreesInv'
  <2> SUFFICES ASSUME NEW u \in TreesTyped, NEW q \in OpenersTyped,
                      tree' = [tree EXCEPT ![Wt!Shared] = u] \/ UNCHANGED tree,
                      opener' = [opener EXCEPT ![o] = q] \/ UNCHANGED opener
               PROVE  TreesInv'
    OBVIOUS
  <2>1. tree' \in [Wt!Trees -> TreesTyped] /\ \A c \in Children : tree'[c] = tree[c]
    BY <1>1 DEF Wt!Trees
  <2>2. opener' \in [Wt!Openers -> OpenersTyped] /\ \A c \in Children : opener'[c] = opener[c]
    BY <1>1 DEF Wt!Openers
  <2>3. QED
    BY <1>2, <2>1, <2>2, SharedInv
<1>4. CASE Wt!Reopens(o) \/ Wt!NotATree(o)
  <2>1. PICK at \in {"open", "refused"} : opener' = [opener EXCEPT ![o].at = at] /\ UNCHANGED tree
    BY <1>4 DEF Wt!Reopens, Wt!NotATree
  <2>2. [p EXCEPT !.at = at] \in OpenersTyped
    BY <1>1 DEF OpenersTyped
  <2>3. QED
    BY <1>1, <1>3, <2>1, <2>2
<1>5. CASE Wt!LooksForIt(o)
  <2> DEFINE u == [t EXCEPT !.known = FALSE]
             q == [p EXCEPT !.at = "adds", !.branch = t.branch]
  <2>1. tree' = [tree EXCEPT ![Wt!Shared] = u] /\ opener' = [opener EXCEPT ![o] = q]
    BY <1>1, <1>5, Zenon DEF Wt!LooksForIt
  <2>2. u \in TreesTyped /\ q \in OpenersTyped
    BY <1>1 DEF TreesTyped, OpenersTyped
  <2>3. QED
    BY <1>3, <2>1, <2>2
<1>6. CASE Wt!Adds(o)
  <2> DEFINE u == [t EXCEPT !.dir = "tree", !.known = TRUE, !.branch = TRUE, !.head = "branch", !.files = {}]
  <2>1. /\ tree' = [tree EXCEPT ![Wt!Shared] = u] \/ UNCHANGED tree
        /\ \E at \in {"open", "refused"} : opener' = [opener EXCEPT ![o] = [p EXCEPT !.at = at]]
    BY <1>1, <1>6 DEF Wt!Adds
  <2>2. u \in TreesTyped /\ \A at \in {"open", "refused"} : [p EXCEPT !.at = at] \in OpenersTyped
    BY <1>1 DEF TreesTyped, OpenersTyped
  <2>3. QED
    BY <1>3, <2>1, <2>2
<1>7. CASE Wt!Commits(o)
  <2> DEFINE u == [t EXCEPT !.commits = @ \cup Wt!Uncommitted(t), !.files = @ \cap Ignored]
  <2>1. tree' = [tree EXCEPT ![Wt!Shared] = u] /\ UNCHANGED opener
    BY <1>1, <1>7 DEF Wt!Commits
  <2>2. u \in TreesTyped
    BY <1>1 DEF TreesTyped, Wt!Uncommitted
  <2>3. QED
    BY <1>1, <1>3, <2>1, <2>2
<1>8. CASE Wt!LeavesBranch(o)
  <2>1. tree' = [tree EXCEPT ![Wt!Shared] = [t EXCEPT !.head = "elsewhere"]] /\ UNCHANGED opener
    BY <1>1, <1>8 DEF Wt!LeavesBranch
  <2>2. [t EXCEPT !.head = "elsewhere"] \in TreesTyped
    BY <1>1 DEF TreesTyped
  <2>3. QED
    BY <1>1, <1>3, <2>1, <2>2
<1>9. ASSUME NEW it \in Items, Wt!Writes(o, it) PROVE TreesInv'
  <2> DEFINE u == [t EXCEPT !.files = @ \cup {it}]
  <2>1. tree' = [tree EXCEPT ![Wt!Shared] = u] /\ UNCHANGED opener
    BY <1>1, <1>9 DEF Wt!Writes
  <2>2. u \in TreesTyped
    BY <1>1 DEF TreesTyped
  <2>3. QED
    BY <1>1, <1>3, <2>1, <2>2
<1>10. QED
  BY <1>4, <1>5, <1>6, <1>7, <1>8, <1>9

(* Whatever a child, a person or another process does next.                   *)
LEMMA TreesNextInv == ASSUME Wt!Shared \notin Children PROVE TreesInv /\ [Wt!Next]_(Wt!wtVars) => TreesInv'
<1> SUFFICES ASSUME TreesInv, [Wt!Next]_(Wt!wtVars) PROVE TreesInv'
  OBVIOUS
<1>1. CASE Wt!DeletedByHand \/ Wt!PutByHand
  <2> DEFINE t == tree[Wt!Shared]
  <2>1. t \in TreesTyped /\ tree \in [Wt!Trees -> TreesTyped] /\ Wt!Shared \in Wt!Trees
    BY DEF TreesInv, Wt!Trees
  <2>2. PICK u \in TreesTyped : tree' = [tree EXCEPT ![Wt!Shared] = u]
    <3>1. [t EXCEPT !.dir = "absent", !.files = {}] \in TreesTyped /\ [t EXCEPT !.dir = "other"] \in TreesTyped
      BY <2>1 DEF TreesTyped
    <3>2. \/ tree' = [tree EXCEPT ![Wt!Shared] = [t EXCEPT !.dir = "absent", !.files = {}]]
          \/ tree' = [tree EXCEPT ![Wt!Shared] = [t EXCEPT !.dir = "other"]]
      BY <1>1 DEF Wt!DeletedByHand, Wt!PutByHand
    <3>3. QED
      BY <3>1, <3>2
  <2>3. tree' \in [Wt!Trees -> TreesTyped] /\ \A c \in Children : tree'[c] = tree[c]
    BY <2>1, <2>2 DEF Wt!Trees
  <2>4. UNCHANGED <<opener, lost, late, switched, uncounted>>
    BY <1>1 DEF Wt!DeletedByHand, Wt!PutByHand
  <2>5. opener' \in [Wt!Openers -> OpenersTyped]
    BY <2>4 DEF TreesInv
  <2>6. QED
    BY <2>3, <2>4, <2>5, SharedInv
<1>2. CASE UNCHANGED Wt!wtVars
  BY <1>2 DEF Wt!wtVars, TreesInv, OwnTree, Excused
<1>3. QED
  BY <1>1, <1>2, OpensInv, WorksInv, GoesOnInv, TakenInv, PeopleInv DEF Wt!Next, Wt!Openers

(* What a child wrote while its run lasted, committed or not, is not taken    *)
(* away with its worktree, whatever its background jobs, another process and  *)
(* a person do meanwhile, unless the worktree had left the branch, the        *)
(* commits could not be counted, or git ignores it (children.ts               *)
(* settleWorktree, worktrees.ts worktreeChanges).                             *)
THEOREM WorkHolds == ASSUME Wt!Shared \notin Children PROVE Wt!Spec => []Wt!WorkIsKept
<1>1. TreesInv => Wt!WorkIsKept
  BY DEF TreesInv, Wt!WorkIsKept, Excused
<1>2. QED
  BY <1>1, NoTreeInv, TreesNextInv, PTL DEF Wt!Spec

-----------------------------------------------------------------------------
(* A command's output (Shell): for any limit, whatever chunks it arrives in  *)
(* and whenever a job is read, what is kept is its first half and its last.  *)

CONSTANTS Limit, MaxOut
VARIABLES how, shell, kids, stubborn, timer, grace, stop, told, runs, aborted, total, head, tail, unread, readTo

Sh == INSTANCE Shell

(* What was written after a and up to b.                                      *)
Run(a, b) == [j \in 1..(b - a) |-> a + j]
Least(a, b) == IF a <= b THEN a ELSE b
Most(a, b) == IF a <= b THEN b ELSE a

(* The least and the most of two numbers.                                     *)
LEMMA MinMax == ASSUME NEW a \in Int, NEW b \in Int
  PROVE  Sh!Min({a, b}) = Least(a, b) /\ Sh!Max({a, b}) = Most(a, b)
<1>1. /\ Least(a, b) \in {a, b} /\ \A y \in {a, b} : Least(a, b) <= y
      /\ \A x \in {a, b} : (\A y \in {a, b} : x <= y) => x = Least(a, b)
  BY DEF Least
<1>2. /\ Most(a, b) \in {a, b} /\ \A y \in {a, b} : Most(a, b) >= y
      /\ \A x \in {a, b} : (\A y \in {a, b} : x >= y) => x = Most(a, b)
  BY DEF Most
<1>3. Sh!Min({a, b}) = Least(a, b)
  BY <1>1 DEF Sh!Min
<1>4. Sh!Max({a, b}) = Most(a, b)
  BY <1>2 DEF Sh!Max
<1>5. QED
  BY <1>3, <1>4

(* What a run of output is, as a sequence.                                    *)
LEMMA RunIs == ASSUME NEW a \in Nat, NEW b \in Nat, a <= b
  PROVE  Run(a, b) \in Seq(Nat) /\ Len(Run(a, b)) = b - a /\ \A j \in 1..(b - a) : Run(a, b)[j] = a + j
  BY DEF Run

(* Two runs, the one after the other.                                         *)
LEMMA JoinRun == ASSUME NEW a \in Nat, NEW b \in Nat, NEW c \in Nat, a <= b, b <= c
  PROVE  Run(a, b) \o Run(b, c) = Run(a, c)
  BY DEF Run

(* The first of a run.                                                        *)
LEMMA FirstOfRun == ASSUME NEW a \in Nat, NEW b \in Nat, NEW n \in Nat, a <= b
  PROVE  Sh!FirstOf(Run(a, b), n) = Run(a, Least(a + n, b))
<1>1. Len(Run(a, b)) = b - a
  BY RunIs
<1>2. Sh!Min({n, b - a}) = Least(n, b - a)
  BY MinMax
<1>3. Sh!FirstOf(Run(a, b), n) = SubSeq(Run(a, b), 1, Least(n, b - a))
  BY <1>1, <1>2 DEF Sh!FirstOf
<1>4. QED
  BY <1>3, RunIs DEF Run, Least

(* What follows the first of a run.                                           *)
LEMMA RestOfRun == ASSUME NEW a \in Nat, NEW b \in Nat, NEW n \in Nat, a + n <= b
  PROVE  Sh!Rest(Run(a, b), n) = Run(a + n, b)
  BY RunIs DEF Run, Sh!Rest

(* The last of a run.                                                         *)
LEMMA LastOfRun == ASSUME NEW a \in Nat, NEW b \in Nat, NEW n \in Nat, a <= b
  PROVE  Sh!LastOf(Run(a, b), n) = Run(Most(a, b - n), b)
<1>1. Len(Run(a, b)) = b - a
  BY RunIs
<1>2. Sh!Max({1, b - a - n + 1}) = Most(1, b - a - n + 1)
  BY MinMax
<1>3. Sh!LastOf(Run(a, b), n) = SubSeq(Run(a, b), Most(1, b - a - n + 1), b - a)
  BY <1>1, <1>2 DEF Sh!LastOf
<1>4. CASE b - a - n + 1 <= 1
  <2>2. Most(a, b - n) = a
    BY <1>4 DEF Most
  <2>3. SubSeq(Run(a, b), 1, b - a) = Run(a, b)
    BY RunIs DEF Run
  <2>4. Most(1, b - a - n + 1) = 1
    BY <1>4 DEF Most
  <2>5. QED
    BY <1>3, <2>2, <2>3, <2>4
<1>5. CASE b - a - n + 1 > 1
  <2>1. Most(1, b - a - n + 1) = b - a - n + 1 /\ Most(a, b - n) = b - n
    BY <1>5 DEF Most
  <2>2. SubSeq(Run(a, b), b - a - n + 1, b - a) = Run(b - n, b)
    BY <1>5, RunIs DEF Run
  <2>3. QED
    BY <1>3, <2>1, <2>2
<1>6. QED
  BY <1>4, <1>5

(* What is kept of the output: its first half and its last, and of a job what *)
(* was written since it was read.  A command that has not begun wrote nothing.*)
Kept == Least(Sh!Half, total)
ShellInv ==
  /\ total \in Nat /\ readTo \in Nat /\ readTo <= total /\ runs \in Nat /\ runs <= 1
  /\ head = Run(0, Kept)
  /\ tail = Run(Most(Kept, total - Sh!Half), total)
  /\ how = "job" => unread = Run(Most(readTo, total - Limit), total)
  /\ how = "none" => runs = 0 /\ total = 0 /\ readTo = 0 /\ unread = <<>>

(* A chunk is kept as it arrives.                                             *)
LEMMA WritesInv == ASSUME Sh!BoundsAreNat, ShellInv, NEW n \in 1..MaxOut, Sh!Writes(n) PROVE ShellInv'
<1> DEFINE chunk == [j \in 1..n |-> total + j]
           room == IF Len(head) < Sh!Half THEN Sh!Room(Len(head)) ELSE 0
<1>1. n \in Nat /\ Sh!Half \in Nat /\ Limit \in Nat /\ total \in Nat /\ total + n \in Nat /\ Kept \in Nat /\ Kept <= total
      /\ Sh!Half <= Limit
  BY DEF Sh!BoundsAreNat, ShellInv, Sh!Half, Kept, Least
<1>2. chunk = Run(total, total + n) /\ Len(chunk) = n
  BY <1>1, RunIs DEF Run
<1>3. room = Sh!Half - Kept /\ room \in Nat
  <2>1. Len(head) = Kept
    BY <1>1, RunIs DEF ShellInv
  <2>2. QED
    BY <1>1, <2>1 DEF Sh!Room, Kept, Least
<1>4. /\ Sh!Runs /\ total' = total + n
      /\ head' = head \o Sh!FirstOf(chunk, room)
      /\ tail' = IF Len(chunk) > room THEN Sh!LastOf(tail \o Sh!Rest(chunk, room), Sh!Half) ELSE tail
      /\ unread' = IF how = "job" THEN Sh!LastOf(unread \o chunk, Limit) ELSE unread
      /\ UNCHANGED <<how, runs, readTo>>
  BY DEF Sh!Writes
<1> HIDE DEF chunk, room
<1>5. head' = Run(0, Kept')
  <2>1. Sh!FirstOf(chunk, room) = Run(total, Least(total + room, total + n))
    BY <1>1, <1>2, <1>3, FirstOfRun
  <2>2. CASE total <= Sh!Half
    <3>1. Kept = total /\ Kept' = Least(total + room, total + n) /\ total <= Kept' /\ Kept' \in Nat
      BY <1>1, <1>3, <1>4, <2>2 DEF Kept, Least
    <3>2. head' = Run(0, total) \o Run(total, Kept')
      BY <1>4, <2>1, <3>1 DEF ShellInv
    <3>3. Run(0, total) \o Run(total, Kept') = Run(0, Kept')
      <4> DEFINE k == Kept'
      <4>1. 0 \in Nat /\ 0 <= total /\ total \in Nat /\ k \in Nat /\ total <= k
        BY <1>1, <3>1
      <4> HIDE DEF k
      <4>2. Run(0, total) \o Run(total, k) = Run(0, k)
        BY <4>1, JoinRun
      <4>3. QED
        BY <4>2 DEF k
    <3>4. QED
      BY <3>2, <3>3
  <2>3. CASE total > Sh!Half
    <3>1. Kept = Sh!Half /\ Kept' = Sh!Half /\ room = 0 /\ Least(total + room, total + n) = total
      BY <1>1, <1>3, <1>4, <2>3 DEF Kept, Least
    <3>2. head = Run(0, Sh!Half) /\ Sh!FirstOf(chunk, room) = Run(total, total)
      BY <2>1, <3>1 DEF ShellInv
    <3>3. Run(total, total) = <<>>
      BY <1>1 DEF Run
    <3>4. Run(0, Sh!Half) \in Seq(Nat)
      BY <1>1, RunIs
    <3>5. QED
      BY <1>4, <3>1, <3>2, <3>3, <3>4
  <2>4. QED
    BY <1>1, <2>2, <2>3
<1>6. tail' = Run(Most(Kept', (total + n) - Sh!Half), total + n)
  <2> DEFINE from == Most(Kept, total - Sh!Half)
  <2>1. from \in Nat /\ from <= total
    BY <1>1 DEF Most
  <2>2. CASE n > room
    <3>1. Sh!Rest(chunk, room) = Run(total + room, total + n)
      BY <1>1, <1>2, <1>3, <2>2, RestOfRun
    <3>2. CASE total <= Sh!Half
      <4>1. Kept = total /\ from = total /\ tail = <<>>
        BY <1>1, <3>2 DEF ShellInv, Kept, Least, Most, Run
      <4>2. total + room \in Nat /\ total + room = Sh!Half /\ total + room <= total + n
        BY <1>1, <1>3, <2>2, <4>1
      <4>3. Run(total + room, total + n) \in Seq(Nat)
        BY <1>1, <4>2, RunIs
      <4>4. tail \o Sh!Rest(chunk, room) = Run(Sh!Half, total + n)
        BY <3>1, <4>1, <4>2, <4>3
      <4>5. Sh!LastOf(Run(Sh!Half, total + n), Sh!Half) = Run(Most(Sh!Half, (total + n) - Sh!Half), total + n)
        BY <1>1, <4>2, LastOfRun
      <4>8. tail' = Run(Most(Sh!Half, (total + n) - Sh!Half), total + n)
        BY <1>2, <1>4, <2>2, <4>4, <4>5
      <4>6. Kept' = Sh!Half
        BY <1>1, <1>4, <4>2 DEF Kept, Least
      <4>7. QED
        BY <4>6, <4>8
    <3>3. CASE total > Sh!Half
      <4>1. Kept = Sh!Half /\ room = 0 /\ Kept' = Sh!Half
        BY <1>1, <1>3, <1>4, <3>3 DEF Kept, Least
      <4>2. tail \o Sh!Rest(chunk, room) = Run(from, total + n)
        <5>1. tail = Run(from, total) /\ Sh!Rest(chunk, room) = Run(total, total + n)
          BY <1>1, <3>1, <4>1 DEF ShellInv
        <5>2. total <= total + n
          BY <1>1
        <5> HIDE DEF from
        <5>3. Run(from, total) \o Run(total, total + n) = Run(from, total + n)
          BY <1>1, <2>1, <5>2, JoinRun
        <5>4. QED
          BY <5>1, <5>3
      <4>3. tail' = Run(Most(from, (total + n) - Sh!Half), total + n)
        <5>1. from <= total + n
          BY <1>1, <2>1
        <5> HIDE DEF from
        <5>2. Sh!LastOf(Run(from, total + n), Sh!Half) = Run(Most(from, (total + n) - Sh!Half), total + n)
          BY <1>1, <2>1, <5>1, LastOfRun
        <5>3. QED
          BY <1>2, <1>4, <2>2, <4>2, <5>2
      <4>4. Most(from, (total + n) - Sh!Half) = Most(Sh!Half, (total + n) - Sh!Half)
        BY <1>1, <4>1 DEF Most
      <4>5. QED
        <5> HIDE DEF from
        <5>2. QED
          BY <4>1, <4>3, <4>4
    <3>4. QED
      BY <1>1, <3>2, <3>3
  <2>3. CASE ~ (n > room)
    <3>1. tail' = tail /\ total + n <= Sh!Half
      BY <1>1, <1>2, <1>3, <1>4, <2>3 DEF Kept, Least
    <3>2. Kept = total /\ Kept' = total + n /\ tail = <<>>
      BY <1>1, <1>4, <3>1 DEF ShellInv, Kept, Least, Most, Run
    <3>3. Most(Kept', (total + n) - Sh!Half) = total + n
      BY <1>1, <3>1, <3>2 DEF Most
    <3>4. QED
      <4>1. tail' = <<>>
        BY <3>1, <3>2
      <4>2. Run(total + n, total + n) = <<>>
        BY <1>1 DEF Run
      <4>3. QED
        BY <3>2, <3>3, <4>1, <4>2
  <2>4. QED
    BY <1>1, <1>3, <2>2, <2>3
<1>7. ASSUME how = "job" PROVE unread' = Run(Most(readTo, (total + n) - Limit), total + n)
  <2> DEFINE from == Most(readTo, total - Limit)
  <2>1. from \in Nat /\ from <= total /\ unread = Run(from, total) /\ readTo \in Nat /\ readTo <= total
    BY <1>1, <1>7 DEF ShellInv, Most
  <2>2. unread \o chunk = Run(from, total + n)
    <3>1. total <= total + n
      BY <1>1
    <3> HIDE DEF from
    <3>2. Run(from, total) \o Run(total, total + n) = Run(from, total + n)
      BY <1>1, <2>1, <3>1, JoinRun
    <3>3. QED
      BY <1>2, <2>1, <3>2
  <2>3. unread' = Run(Most(from, (total + n) - Limit), total + n)
    <3>1. from <= total + n
      BY <1>1, <2>1
    <3> HIDE DEF from
    <3>2. Sh!LastOf(Run(from, total + n), Limit) = Run(Most(from, (total + n) - Limit), total + n)
      BY <1>1, <2>1, <3>1, LastOfRun
    <3>3. QED
      BY <1>4, <1>7, <2>2, <3>2
  <2>4. Most(from, (total + n) - Limit) = Most(readTo, (total + n) - Limit)
    BY <1>1, <2>1 DEF Most
  <2>5. QED
    BY <2>3, <2>4
<1>8. how # "none"
  BY <1>4 DEF Sh!Runs
<1>9. total + n \in Nat /\ readTo <= total + n /\ readTo \in Nat /\ runs \in Nat /\ runs <= 1
  BY <1>1 DEF ShellInv
<1>10. how' = how /\ total' = total + n /\ readTo' = readTo /\ runs' = runs
  BY <1>4
<1>11. how' = "job" => unread' = Run(Most(readTo', total' - Limit), total')
  <2>1. Most(readTo', total' - Limit) = Most(readTo, (total + n) - Limit) /\ total' = total + n
    BY <1>10
  <2>2. QED
    BY <1>7, <1>10, <2>1
<1>12. QED
  <2>1. tail' = Run(Most(Kept', total' - Sh!Half), total') /\ Sh!Half' = Sh!Half
    BY <1>6, <1>10 DEF Sh!Half
  <2>2. QED
    BY <1>5, <1>8, <1>9, <1>10, <1>11, <2>1 DEF ShellInv

(* A job is read: what is unread begins anew.                                 *)
LEMMA ReadsInv == ASSUME Sh!BoundsAreNat, ShellInv, Sh!ReadsJob PROVE ShellInv'
<1>1. how = "job" /\ unread' = <<>> /\ readTo' = total /\ UNCHANGED <<how, runs, total, head, tail>>
  BY DEF Sh!ReadsJob
<1>2. Most(total, total - Limit) = total /\ Run(total, total) = <<>> /\ total \in Nat
  BY DEF Sh!BoundsAreNat, ShellInv, Most, Run
<1>3. Kept' = Kept /\ Sh!Half' = Sh!Half
  BY <1>1 DEF Kept, Sh!Half
<1>4. QED
  BY <1>1, <1>2, <1>3 DEF ShellInv

(* Whatever the command, its descendants, its limits or the editor do next.   *)
LEMMA ShellNextInv == ASSUME Sh!BoundsAreNat PROVE ShellInv /\ [Sh!Next]_(Sh!shVars) => ShellInv'
<1> SUFFICES ASSUME ShellInv, [Sh!Next]_(Sh!shVars) PROVE ShellInv'
  OBVIOUS
<1>1. ASSUME UNCHANGED Sh!output,
             (how' = how /\ runs' = runs) \/ (how = "none" /\ runs' \in {runs, runs + 1} /\ how' # "none")
      PROVE  ShellInv'
  <2>1. how = "none" => unread = Run(Most(readTo, total - Limit), total)
    BY DEF ShellInv, Run, Most, Sh!BoundsAreNat
  <2>2. Kept' = Kept /\ Sh!Half' = Sh!Half
    BY <1>1 DEF Kept, Sh!Half, Sh!output
  <2>3. QED
    BY <1>1, <2>1, <2>2 DEF ShellInv, Sh!output
<1>2. CASE Sh!RunsHere \/ Sh!RunsJob \/ Sh!EditorStarts
  <2>1. UNCHANGED Sh!output /\ how = "none" /\ runs' \in {runs, runs + 1} /\ how' # "none"
    BY <1>2 DEF Sh!RunsHere, Sh!RunsJob, Sh!EditorStarts, Sh!StartsHere, Sh!Begins
  <2>2. QED
    BY <1>1, <2>1
<1>3. CASE \/ Sh!AbortedFirst \/ Sh!CannotStart \/ \E k \in Sh!Kinds : Sh!Forks(k) \/ Sh!KidExits(k)
           \/ Sh!ShellExits \/ Sh!TimesOut \/ Sh!Cancelled \/ Sh!KillsJob \/ Sh!GraceEnds \/ Sh!Closes
  <2>1. UNCHANGED Sh!output /\ how' = how /\ runs' = runs
    BY <1>3 DEF Sh!AbortedFirst, Sh!CannotStart, Sh!Forks, Sh!KidExits, Sh!ShellExits, Sh!TimesOut,
         Sh!Cancelled, Sh!KillsJob, Sh!GraceEnds, Sh!Closes
  <2>2. QED
    BY <1>1, <2>1
<1>4. CASE Sh!EditorExits \/ Sh!EditorTimesOut \/ Sh!EditorCancelled \/ Sh!EditorFails \/ UNCHANGED Sh!shVars
  <2>1. UNCHANGED Sh!output /\ how' = how /\ runs' = runs
    BY <1>4 DEF Sh!EditorExits, Sh!EditorTimesOut, Sh!EditorCancelled, Sh!EditorFails,
         Sh!EditorTells, Sh!shVars, Sh!output
  <2>2. QED
    BY <1>1, <2>1
<1>5. QED
  BY <1>2, <1>3, <1>4, WritesInv, ReadsInv DEF Sh!Next

(* Whatever chunks a command's output arrives in, what is kept is its first   *)
(* half and its last half, and what a job has unread is the end of what was   *)
(* written since it was read; and a command is started once at the most       *)
(* (HeadTailBuffer, commandOutputRunner, acp/editor.ts).                      *)
THEOREM OutputHolds == ASSUME Sh!BoundsAreNat PROVE Sh!Spec => []Sh!OutputIsKept
<1>1. Sh!Init => ShellInv
  <2>1. ASSUME Sh!Init PROVE Kept = 0 /\ Most(0, 0 - Sh!Half) = 0 /\ Run(0, 0) = <<>>
    BY <2>1 DEF Sh!Init, Kept, Least, Most, Sh!Half, Sh!BoundsAreNat, Run
  <2>2. ASSUME Sh!Init PROVE ShellInv
    <3>1. total = 0 /\ readTo = 0 /\ runs = 0 /\ head = <<>> /\ tail = <<>> /\ unread = <<>> /\ how = "none"
      BY <2>2 DEF Sh!Init
    <3>2. Kept = 0 /\ Most(Kept, total - Sh!Half) = 0 /\ Run(0, 0) = <<>>
      BY <2>1, <2>2, <3>1
    <3>3. QED
      BY <3>1, <3>2 DEF ShellInv
  <2>3. QED
    BY <2>2
<1>2. ShellInv => Sh!OutputIsKept
  <2> SUFFICES ASSUME ShellInv PROVE Sh!OutputIsKept
    OBVIOUS
  <2>1. Sh!Half \in Nat /\ Limit \in Nat /\ total \in Nat /\ Kept \in Nat /\ Kept <= total /\ readTo \in Nat /\ readTo <= total
    BY DEF Sh!BoundsAreNat, ShellInv, Sh!Half, Kept, Least
  <2>2. Sh!Written = Run(0, total)
    BY <2>1 DEF Sh!Written, Run
  <2>3. Sh!FirstOf(Sh!Written, Sh!Half) = Run(0, Kept)
    BY <2>1, <2>2, FirstOfRun DEF Kept
  <2>4. Len(head) = Kept
    BY <2>1, RunIs DEF ShellInv
  <2>5. Sh!Rest(Sh!Written, Kept) = Run(Kept, total) /\ Sh!Rest(Sh!Written, readTo) = Run(readTo, total)
    BY <2>1, <2>2, RestOfRun
  <2>6. Sh!LastOf(Run(Kept, total), Sh!Half) = Run(Most(Kept, total - Sh!Half), total)
    BY <2>1, LastOfRun
  <2>7. Sh!LastOf(Run(readTo, total), Limit) = Run(Most(readTo, total - Limit), total)
    BY <2>1, LastOfRun
  <2>8. QED
    BY <2>3, <2>4, <2>5, <2>6, <2>7 DEF Sh!OutputIsKept, ShellInv
<1>3. QED
  BY <1>1, <1>2, ShellNextInv, PTL DEF Sh!Spec

-----------------------------------------------------------------------------
(* The store that the trees come from (Checkpoints): that what a step or the  *)
(* person changed comes back, for any files and any number of records.        *)

HIDE CheckpointsAssumption

(* What the log, a step and a change of the person's hold.                    *)
RecordOf == [before : Trees, after : Trees, files : SUBSET Paths]
ChangeOf(ats, ofs) ==
  [at : ats, before : Trees, files : SUBSET Paths, was : Trees,
   touched : SUBSET Paths, outside : SUBSET Paths, calls : Nat, of : ofs, list : SUBSET Paths]
Steps == ChangeOf({"changing", "unguarded"}, {None})
Reverts == ChangeOf({"reverting", "changed"}, {None})
Restores == ChangeOf({"taken", "previewed", "written", "changed"}, RecordOf)

StoreTyped ==
  /\ repo \in BOOLEAN /\ wc \in Trees
  /\ records \in Seq(RecordOf)
  /\ step \in {None} \cup Steps
  /\ op \in {None} \cup Reverts \cup Restores

(* What a change touched was as it was before the change, and the rest still  *)
(* is, but for what others did.                                               *)
Own(change, found) ==
  \A p \in Paths \ change.outside :
    /\ change.was[p] = change.before[p]
    /\ p \notin change.touched => found[p] = change.before[p]

(* The list of a restore holds what its record changed and is not as it was. *)
ListInv ==
  op.at \in {"previewed", "written", "changed"} =>
  \A p \in Paths \ op.outside : p \in op.list <=> p \in Scope(op.of) /\ op.before[p] # op.of.before[p]

(* How much of the list a restore has put back.                               *)
PutBack ==
  CASE op.at \in {"taken", "previewed"} -> {}
    [] op.at = "written" -> {p \in op.list : op.of.before[p] # Absent}
    [] op.at = "changed" -> op.list

PutBackInv ==
  \A p \in Paths \ op.outside : wc[p] = IF p \in PutBack THEN op.of.before[p] ELSE op.before[p]

RestoreInv == op \in Restores => ListInv /\ PutBackInv

UndoInv ==
  /\ repo /\ step # None => Own(step, wc)
  /\ repo /\ op # None => Own(op, wc)
  /\ repo => whole

StoreInv == StoreTyped /\ UndoInv /\ RestoreInv

-----------------------------------------------------------------------------
(* Changes under way.                                                         *)

LEMMA ChangeIsSome == \A ats, ofs : None \notin ChangeOf(ats, ofs)
<1> SUFFICES ASSUME NEW ats, NEW ofs, None \in ChangeOf(ats, ofs) PROVE FALSE
  OBVIOUS
<1>1. "calls" \in DOMAIN None
  BY DEF ChangeOf
<1>2. DOMAIN None = {"at"}
  BY DEF None
<1>3. QED
  BY <1>1, <1>2

LEMMA RecordIsSome == None \notin RecordOf
<1> SUFFICES ASSUME None \in RecordOf PROVE FALSE
  OBVIOUS
<1>1. "files" \in DOMAIN None
  BY DEF RecordOf
<1>2. DOMAIN None = {"at"}
  BY DEF None
<1>3. QED
  BY <1>1, <1>2

LEMMA BegunIs ==
  ASSUME wc \in Trees, NEW ats, NEW at \in ats, NEW files \in SUBSET Paths, NEW ofs, NEW of \in ofs
  PROVE  /\ Begun(at, files, of) \in ChangeOf(ats, ofs)
         /\ Begun(at, files, of).at = at /\ Begun(at, files, of).of = of
         /\ Begun(at, files, of).before = wc /\ Begun(at, files, of).was = wc
BY DEF Begun, ChangeOf

(* What a change of the working copy does to the change that makes it.        *)
LEMMA TouchIs ==
  ASSUME wc \in Trees, NEW ats, NEW ofs, NEW change \in ChangeOf(ats, ofs), NEW ps \in SUBSET Paths
  PROVE  /\ Touch(change, ps) \in ChangeOf(ats, ofs)
         /\ Touch(change, ps).at = change.at /\ Touch(change, ps).of = change.of
         /\ Touch(change, ps).list = change.list /\ Touch(change, ps).before = change.before
         /\ Touch(change, ps).outside = change.outside
         /\ Touch(change, ps).touched = change.touched \cup ps
         /\ \A p \in Paths : Touch(change, ps).was[p] = IF p \in ps \ change.touched THEN wc[p] ELSE change.was[p]
<1> DEFINE was == [p \in Paths |-> IF p \in ps \ change.touched THEN wc[p] ELSE change.was[p]]
<1>1. was \in Trees
  BY DEF Trees, ChangeOf
<1>2. Touch(change, ps) = [change EXCEPT !.touched = change.touched \cup ps, !.was = was]
  BY DEF Touch, ChangeOf
<1>3. change.touched \cup ps \in SUBSET Paths
  BY DEF ChangeOf
<1> HIDE DEF was
<1>4. QED
  <2>1. Touch(change, ps) \in ChangeOf(ats, ofs)
    BY <1>1, <1>2, <1>3 DEF ChangeOf
  <2>2. Touch(change, ps).was = was
    BY <1>2 DEF ChangeOf
  <2>3. QED
    BY <1>2, <2>1, <2>2 DEF ChangeOf, was

LEMMA RacedIs ==
  ASSUME NEW ats, NEW ofs, NEW change \in {None} \cup ChangeOf(ats, ofs), NEW ps \in SUBSET Paths
  PROVE  /\ change = None => Raced(change, ps) = None
         /\ change # None =>
              /\ Raced(change, ps) \in ChangeOf(ats, ofs)
              /\ Raced(change, ps).at = change.at /\ Raced(change, ps).of = change.of
              /\ Raced(change, ps).list = change.list /\ Raced(change, ps).before = change.before
              /\ Raced(change, ps).was = change.was
              /\ Raced(change, ps).touched = change.touched /\ Raced(change, ps).outside = change.outside \cup ps
BY DEF Raced, ChangeOf

(* A change of the working copy that touches only some paths.                 *)
Only(ps) == wc' \in Trees /\ \A p \in Paths \ ps : wc'[p] = wc[p]

LEMMA TouchOwn ==
  ASSUME wc \in Trees, NEW ats, NEW ofs, NEW change \in ChangeOf(ats, ofs), NEW ps \in SUBSET Paths,
         Own(change, wc), Only(ps)
  PROVE  Own(Touch(change, ps), wc')
<1> DEFINE after == Touch(change, ps)
<1>1. SUFFICES ASSUME NEW p \in Paths \ after.outside
               PROVE  after.was[p] = after.before[p] /\ (p \notin after.touched => wc'[p] = after.before[p])
  BY DEF Own
<1>2. /\ after.before = change.before /\ after.outside = change.outside /\ after.touched = change.touched \cup ps
      /\ after.was[p] = IF p \in ps \ change.touched THEN wc[p] ELSE change.was[p]
  BY TouchIs
<1> HIDE DEF after
<1>3. QED
  BY <1>2 DEF Own, Only

LEMMA RacedOwn ==
  ASSUME NEW ats, NEW ofs, NEW change \in ChangeOf(ats, ofs), NEW ps \in SUBSET Paths, Own(change, wc), Only(ps)
  PROVE  Own(Raced(change, ps), wc')
<1>1. change # None
  BY ChangeIsSome
<1>2. /\ Raced(change, ps).before = change.before /\ Raced(change, ps).was = change.was
      /\ Raced(change, ps).touched = change.touched /\ Raced(change, ps).outside = change.outside \cup ps
  BY <1>1, RacedIs
<1>3. QED
  BY <1>2 DEF Own, Only

(* In a repository a change that finishes loses nothing.                      *)
LEMMA NothingLost ==
  ASSUME repo, NEW ats, NEW ofs, NEW change \in ChangeOf(ats, ofs), Own(change, wc)
  PROVE  Lost(change) = {}
<1>1. SUFFICES ASSUME NEW p \in change.touched \ change.outside, wc[p] # change.was[p]
               PROVE  /\ Recordable(change)
                      /\ p \in Scope([before |-> change.before, after |-> wc, files |-> change.files])
                      /\ change.before[p] = change.was[p]
  BY DEF Lost
<1>2. p \in Paths /\ change.was[p] = change.before[p]
  BY DEF ChangeOf, Own
<1>3. QED
  BY <1>1, <1>2 DEF Recordable, Taken, Scope, Differ

LEMMA RecordIs ==
  ASSUME wc \in Trees, records \in Seq(RecordOf), NEW ats, NEW ofs, NEW change \in ChangeOf(ats, ofs),
         Record(change)
  PROVE  records' \in Seq(RecordOf) /\ (repo /\ Own(change, wc) /\ whole => whole')
<1>1. [before |-> change.before, after |-> wc, files |-> change.files] \in RecordOf
  BY DEF ChangeOf, RecordOf
<1>2. records' \in Seq(RecordOf)
  BY <1>1 DEF Record
<1>3. ASSUME repo, Own(change, wc), whole PROVE whole'
  BY <1>3, NothingLost DEF Record
<1>4. QED
  BY <1>2, <1>3

-----------------------------------------------------------------------------
(* What a restore puts back, when others or it change the working copy.       *)

LEMMA RacedRestore ==
  ASSUME op \in Restores, RestoreInv, NEW ps \in SUBSET Paths, Only(ps), op' = Raced(op, ps), repo' = repo
  PROVE  RestoreInv'
<1>1. op # None
  BY ChangeIsSome DEF Restores
<1>2. /\ op'.at = op.at /\ op'.of = op.of /\ op'.list = op.list /\ op'.before = op.before
      /\ op'.outside = op.outside \cup ps
  BY <1>1, RacedIs DEF Restores
<1>3. ListInv'
  BY <1>2 DEF RestoreInv, ListInv, Scope, Differ
<1>4. PutBack' = PutBack
  BY <1>2 DEF PutBack
<1>5. PutBackInv'
  BY <1>2, <1>4 DEF RestoreInv, PutBackInv, Only
<1>6. QED
  BY <1>3, <1>5 DEF RestoreInv

LEMMA SameStore ==
  ASSUME StoreInv, UNCHANGED <<repo, wc, records, step, op, whole>>
  PROVE  StoreInv'
BY DEF StoreInv, StoreTyped, UndoInv, RestoreInv, ListInv, PutBackInv, PutBack, Scope, Differ, Own

(* Putting back the files ps of a restore's list.                             *)
LEMMA PutIs ==
  ASSUME StoreInv, op \in Restores, NEW ps \in SUBSET op.list, Put(ps), NEW at \in {"written", "changed"},
         op' = [Touch(op, ps) EXCEPT !.at = at], UNCHANGED <<repo, records, whole>>
  PROVE  /\ op' \in Restores /\ Only(ps) /\ StoreTyped' /\ UndoInv'
         /\ op'.at = at /\ op'.of = op.of /\ op'.list = op.list /\ op'.before = op.before /\ op'.outside = op.outside
         /\ \A p \in Paths : wc'[p] = IF p \in ps THEN op.of.before[p] ELSE wc[p]
<1> DEFINE after == Touch(op, ps)
<1>1. ps \in SUBSET Paths /\ op.of.before \in Trees /\ wc \in Trees /\ op # None
  BY ChangeIsSome DEF StoreInv, StoreTyped, Restores, ChangeOf, RecordOf
<1>2. wc' \in Trees /\ Only(ps) /\ \A p \in Paths : wc'[p] = IF p \in ps THEN op.of.before[p] ELSE wc[p]
  BY <1>1 DEF Put, Only, Trees
<1>3. /\ after \in Restores
      /\ after.of = op.of /\ after.list = op.list /\ after.before = op.before /\ after.outside = op.outside
  BY <1>1, TouchIs DEF Restores
<1>4. repo => Own(op, wc)
  BY <1>1 DEF StoreInv, UndoInv
<1>5. repo => Own(after, wc')
  BY <1>1, <1>2, <1>4, TouchOwn DEF Restores
<1> HIDE DEF after
<1>6. /\ op' \in Restores /\ op'.at = at
      /\ op'.of = after.of /\ op'.list = after.list /\ op'.before = after.before /\ op'.outside = after.outside
      /\ op'.was = after.was /\ op'.touched = after.touched
  <2>1. op' = [after EXCEPT !.at = at]
    BY DEF after
  <2>2. QED
    BY <1>3, <2>1 DEF Restores, ChangeOf
<1>7. step' \in {None} \cup Steps /\ (repo /\ step' # None => Own(step', wc'))
  <2>1. step' = Raced(step, ps)
    BY DEF Put
  <2>2. step # None => Raced(step, ps) \in Steps
    BY <1>1, RacedIs DEF StoreInv, StoreTyped, Steps
  <2>3. repo /\ step # None => Own(Raced(step, ps), wc')
    BY <1>1, <1>2, RacedOwn DEF StoreInv, StoreTyped, UndoInv, Steps
  <2>4. QED
    BY <2>1, <2>2, <2>3 DEF Raced
<1>8. repo' => Own(op', wc')
  BY <1>5, <1>6 DEF Own
<1>9. QED
  BY <1>2, <1>3, <1>6, <1>7, <1>8 DEF StoreInv, StoreTyped, UndoInv

-----------------------------------------------------------------------------
(* Every action.                                                              *)

LEMMA RacedStep ==
  ASSUME StoreTyped, UndoInv, NEW ps \in SUBSET Paths, Only(ps)
  PROVE  /\ Raced(step, ps) \in {None} \cup Steps
         /\ repo /\ Raced(step, ps) # None => Own(Raced(step, ps), wc')
<1>1. CASE step = None
  BY <1>1 DEF Raced
<1>2. CASE step \in Steps
  <2>1. step # None
    BY <1>2, ChangeIsSome DEF Steps
  <2>2. QED
    BY <1>2, <2>1, RacedIs, RacedOwn DEF Steps, UndoInv
<1>3. QED
  BY <1>1, <1>2 DEF StoreTyped

LEMMA RacedOp ==
  ASSUME StoreInv, NEW ps \in SUBSET Paths, Only(ps), op' = Raced(op, ps), repo' = repo
  PROVE  op' \in {None} \cup Reverts \cup Restores /\ (repo /\ op' # None => Own(op', wc')) /\ RestoreInv'
<1>1. CASE op = None
  <2>1. op' = None
    BY <1>1 DEF Raced
  <2>2. QED
    BY <2>1, ChangeIsSome DEF RestoreInv, Restores
<1>2. CASE op \in Reverts
  <2>1. op # None
    BY <1>2, ChangeIsSome DEF Reverts
  <2>2. op' \in Reverts
    BY <1>2, <2>1, RacedIs DEF Reverts
  <2>3. repo => Own(op', wc')
    BY <1>2, <2>1, RacedOwn DEF Reverts, StoreInv, UndoInv
  <2>4. op' \notin Restores
    BY <2>2, RecordIsSome DEF Reverts, Restores, ChangeOf
  <2>5. QED
    BY <2>2, <2>3, <2>4 DEF RestoreInv
<1>3. CASE op \in Restores
  <2>1. op # None
    BY <1>3, ChangeIsSome DEF Restores
  <2>2. op' \in Restores
    BY <1>3, <2>1, RacedIs DEF Restores
  <2>3. repo => Own(op', wc')
    BY <1>3, <2>1, RacedOwn DEF Restores, StoreInv, UndoInv
  <2>4. RestoreInv'
    BY <1>3, RacedRestore DEF StoreInv
  <2>5. QED
    BY <2>2, <2>3, <2>4
<1>4. QED
  BY <1>1, <1>2, <1>3 DEF StoreInv, StoreTyped

(* Nothing of the restore changes.                                            *)
LEMMA SameRestore ==
  ASSUME RestoreInv, UNCHANGED <<repo, wc, op>>
  PROVE  RestoreInv'
BY DEF RestoreInv, ListInv, PutBackInv, PutBack, Scope, Differ

LEMMA TakeInv == ASSUME StoreInv, Take PROVE StoreInv'
<1>1. PICK at \in {"changing", "unguarded"}, files \in SUBSET Paths : step' = Begun(at, files, None)
  BY DEF Take
<1>2. step' \in Steps /\ step'.before = wc /\ step'.was = wc
  BY <1>1, BegunIs DEF StoreInv, StoreTyped, Steps
<1>3. Own(step', wc)
  BY <1>2 DEF Own
<1>4. RestoreInv'
  BY SameRestore DEF StoreInv, Take
<1>5. QED
  BY <1>2, <1>3, <1>4 DEF StoreInv, StoreTyped, UndoInv, Take

LEMMA ChangeInv == ASSUME StoreInv, Change PROVE StoreInv'
<1>1. PICK p \in Paths, c \in Contents \cup {Absent}, edit \in BOOLEAN :
        /\ wc' = [wc EXCEPT ![p] = c] /\ op' = Raced(op, {p})
        /\ LET after == [step EXCEPT !.calls = @ + 1] IN step' = IF repo \/ edit THEN Touch(after, {p}) ELSE after
  BY DEF Change
<1>2. Only({p})
  BY <1>1 DEF Only, StoreInv, StoreTyped, Trees
<1>3. step \in Steps /\ step # None
  BY DEF Change, StoreInv, StoreTyped
<1> DEFINE after == [step EXCEPT !.calls = @ + 1]
<1>4. after \in Steps /\ after.was = step.was /\ after.before = step.before /\ after.touched = step.touched
      /\ after.outside = step.outside
  BY <1>3 DEF Steps, ChangeOf
<1>5. repo => Own(after, wc)
  BY <1>3, <1>4 DEF Own, StoreInv, UndoInv
<1>6. step' = IF repo \/ edit THEN Touch(after, {p}) ELSE after
  BY <1>1
<1> HIDE DEF after
<1>7. step' \in Steps
  BY <1>4, <1>6, TouchIs DEF Steps, StoreInv, StoreTyped
<1>8. repo => Own(step', wc')
  BY <1>2, <1>4, <1>5, <1>6, TouchOwn DEF Steps, StoreInv, StoreTyped
<1>9. /\ op' \in {None} \cup Reverts \cup Restores /\ (repo /\ op' # None => Own(op', wc')) /\ RestoreInv'
  BY <1>1, <1>2, RacedOp DEF Change
<1>10. QED
  BY <1>2, <1>7, <1>8, <1>9 DEF StoreInv, StoreTyped, UndoInv, Only, Change

LEMMA SettleInv == ASSUME StoreInv, Settle PROVE StoreInv'
<1>1. step \in Steps
  BY DEF Settle, StoreInv, StoreTyped
<1>2. records' \in Seq(RecordOf) /\ (repo => whole')
  <2>1. CASE Record(step)
    BY <1>1, <2>1, RecordIs, ChangeIsSome DEF Steps, StoreInv, StoreTyped, UndoInv
  <2>2. CASE UNCHANGED <<records, whole>>
    BY <2>2 DEF StoreInv, StoreTyped, UndoInv
  <2>3. QED
    BY <2>1, <2>2 DEF Settle
<1>3. RestoreInv'
  BY SameRestore DEF StoreInv, Settle
<1>4. QED
  BY <1>2, <1>3 DEF StoreInv, StoreTyped, UndoInv, Settle

LEMMA RevertInv == ASSUME StoreInv, Revert PROVE StoreInv'
<1>1. op' \in Reverts /\ op'.before = wc /\ op'.was = wc
  <2>1. op' = Begun("reverting", {}, None) /\ wc \in Trees
    BY DEF Revert, StoreInv, StoreTyped
  <2>2. QED
    BY <2>1, BegunIs, "reverting" \in {"reverting", "changed"}, {} \in SUBSET Paths, None \in {None} DEF Reverts
<1>2. Own(op', wc)
  BY <1>1 DEF Own
<1>3. op' \notin Restores
  BY <1>1, RecordIsSome DEF Reverts, Restores, ChangeOf
<1>4. QED
  BY <1>1, <1>2, <1>3 DEF StoreInv, StoreTyped, UndoInv, RestoreInv, Revert

LEMMA RevertedInv == ASSUME StoreInv, Reverted PROVE StoreInv'
<1>1. PICK p \in Paths, c \in Contents \cup {Absent} :
        /\ wc' = [wc EXCEPT ![p] = c] /\ step' = Raced(step, {p})
        /\ op' = [Touch(op, {p}) EXCEPT !.at = "changed"]
  BY DEF Reverted
<1>2. Only({p})
  BY <1>1 DEF Only, StoreInv, StoreTyped, Trees
<1>3. op \in Reverts /\ op # None
  BY ChangeIsSome DEF Reverted, StoreInv, StoreTyped, Restores, Reverts, ChangeOf, None
<1>4. Touch(op, {p}) \in Reverts /\ (repo => Own(Touch(op, {p}), wc'))
  BY <1>2, <1>3, TouchIs, TouchOwn DEF Reverts, StoreInv, StoreTyped, UndoInv
<1> DEFINE after == Touch(op, {p})
<1>5. op' = [after EXCEPT !.at = "changed"]
  BY <1>1
<1> HIDE DEF after
<1>6. after \in Reverts /\ (repo => Own(after, wc'))
  BY <1>4 DEF after
<1>7. op' \in Reverts /\ (repo => Own(op', wc'))
  BY <1>5, <1>6 DEF Reverts, ChangeOf, Own
<1>8. op' \notin Restores
  BY <1>7, RecordIsSome DEF Reverts, Restores, ChangeOf
<1>9. step' \in {None} \cup Steps /\ (repo /\ step' # None => Own(step', wc'))
  BY <1>1, <1>2, RacedStep DEF StoreInv
<1>10. QED
  BY <1>2, <1>7, <1>8, <1>9 DEF StoreInv, StoreTyped, UndoInv, RestoreInv, Reverted, Only

LEMMA RestoreBegins == ASSUME StoreInv, Restore PROVE StoreInv'
<1>1. PICK n \in DOMAIN records : op' = Begun("taken", records[n].files, records[n])
  BY DEF Restore
<1>2. records[n] \in RecordOf /\ records[n].files \in SUBSET Paths
  <2>1. records \in Seq(RecordOf)
    BY DEF StoreInv, StoreTyped
  <2>2. records[n] \in RecordOf
    BY <2>1
  <2>3. QED
    BY <2>2 DEF RecordOf
<1>3. op' \in Restores /\ op'.at = "taken" /\ op'.before = wc /\ op'.was = wc
  <2>1. wc \in Trees
    BY DEF StoreInv, StoreTyped
  <2>2. QED
    BY <1>1, <1>2, <2>1, BegunIs, "taken" \in {"taken", "previewed", "written", "changed"} DEF Restores
<1>4. Own(op', wc)
  BY <1>3 DEF Own
<1>5. RestoreInv'
  <2>1. ListInv'
    BY <1>3 DEF ListInv
  <2>2. PutBackInv'
    BY <1>3 DEF PutBackInv, PutBack, Restore
  <2>3. QED
    BY <2>1, <2>2 DEF RestoreInv
<1>6. QED
  BY <1>3, <1>4, <1>5 DEF StoreInv, StoreTyped, UndoInv, Restore

LEMMA PreviewInv == ASSUME StoreInv, Preview PROVE StoreInv'
<1>1. op \in Restores /\ op # None
  BY ChangeIsSome DEF Preview, StoreInv, StoreTyped, Restores, Reverts, ChangeOf, None
<1>2. ToRestore(op.of) \in SUBSET Paths
  BY DEF ToRestore, Differ
<1>3. /\ op' \in Restores /\ op'.at = "previewed" /\ op'.list = ToRestore(op.of)
      /\ op'.of = op.of /\ op'.before = op.before /\ op'.outside = op.outside
      /\ op'.was = op.was /\ op'.touched = op.touched
  BY <1>1, <1>2 DEF Preview, Restores, ChangeOf
<1>4. repo => Own(op', wc)
  BY <1>1, <1>3 DEF StoreInv, UndoInv, Own
<1>5. \A p \in Paths \ op.outside : wc[p] = op.before[p]
  BY <1>1 DEF StoreInv, RestoreInv, PutBackInv, PutBack, Preview
<1>6. ListInv'
  BY <1>3, <1>5 DEF ListInv, ToRestore, Scope, Differ, Preview
<1>7. PutBackInv'
  BY <1>3, <1>5 DEF PutBackInv, PutBack, Preview
<1>8. QED
  BY <1>3, <1>4, <1>6, <1>7 DEF StoreInv, StoreTyped, UndoInv, RestoreInv, Preview

LEMMA WriteInv == ASSUME StoreInv, Write PROVE StoreInv'
<1> DEFINE ps == {p \in op.list : op.of.before[p] # Absent}
<1>1. op \in Restores
  BY DEF Write, StoreInv, StoreTyped, Restores, Reverts, ChangeOf, None
<1>2. Put(ps) /\ op' = [Touch(op, ps) EXCEPT !.at = "written"]
  BY DEF Write
<1>3. ps \in SUBSET op.list
  OBVIOUS
<1> HIDE DEF ps
<1>4. /\ op' \in Restores /\ StoreTyped' /\ UndoInv'
      /\ op'.at = "written" /\ op'.of = op.of /\ op'.list = op.list /\ op'.before = op.before /\ op'.outside = op.outside
      /\ \A p \in Paths : wc'[p] = IF p \in ps THEN op.of.before[p] ELSE wc[p]
  BY <1>1, <1>2, <1>3, PutIs DEF Write
<1>5. ListInv'
  BY <1>1, <1>4 DEF StoreInv, RestoreInv, ListInv, Scope, Differ, Write
<1>6. PutBack = {} /\ PutBack' = ps
  BY <1>4 DEF PutBack, Write, ps
<1>7. PutBackInv'
  BY <1>1, <1>4, <1>6 DEF StoreInv, RestoreInv, PutBackInv
<1>8. QED
  BY <1>4, <1>5, <1>7 DEF StoreInv, RestoreInv

LEMMA RemoveInv == ASSUME StoreInv, Remove PROVE StoreInv'
<1> DEFINE ps == {p \in op.list : op.of.before[p] = Absent}
<1>1. op \in Restores
  BY DEF Remove, StoreInv, StoreTyped, Restores, Reverts, ChangeOf, None
<1>2. Put(ps) /\ op' = [Touch(op, ps) EXCEPT !.at = "changed"]
  BY DEF Remove
<1>3. ps \in SUBSET op.list
  OBVIOUS
<1>4. \A p \in Paths : p \in op.list <=> p \in PutBack \/ p \in ps
  BY DEF PutBack, Remove
<1> HIDE DEF ps
<1>5. /\ op' \in Restores /\ StoreTyped' /\ UndoInv'
      /\ op'.at = "changed" /\ op'.of = op.of /\ op'.list = op.list /\ op'.before = op.before /\ op'.outside = op.outside
      /\ \A p \in Paths : wc'[p] = IF p \in ps THEN op.of.before[p] ELSE wc[p]
  BY <1>1, <1>2, <1>3, PutIs DEF Remove
<1>6. ListInv'
  BY <1>1, <1>5 DEF StoreInv, RestoreInv, ListInv, Scope, Differ, Remove
<1>7. PutBack' = op.list
  BY <1>5 DEF PutBack
<1>8. PutBackInv'
  BY <1>1, <1>4, <1>5, <1>7 DEF StoreInv, RestoreInv, PutBackInv
<1>9. QED
  BY <1>5, <1>6, <1>8 DEF StoreInv, RestoreInv

LEMMA SettleChangeInv == ASSUME StoreInv, SettleChange PROVE StoreInv'
<1>1. op \in Reverts \/ op \in Restores
  BY DEF SettleChange, StoreInv, StoreTyped, None
<1>2. records' \in Seq(RecordOf) /\ (repo => whole')
  BY <1>1, RecordIs, ChangeIsSome DEF SettleChange, Reverts, Restores, StoreInv, StoreTyped, UndoInv
<1>3. op' \notin Restores
  BY ChangeIsSome DEF SettleChange, Restores
<1>4. QED
  BY <1>2, <1>3 DEF StoreInv, StoreTyped, UndoInv, RestoreInv, SettleChange

LEMMA EditInv == ASSUME StoreInv, Edit PROVE StoreInv'
<1>1. PICK p \in Paths, c \in Contents \cup {Absent} :
        wc' = [wc EXCEPT ![p] = c] /\ step' = Raced(step, {p}) /\ op' = Raced(op, {p})
  BY DEF Edit
<1>2. Only({p})
  BY <1>1 DEF Only, StoreInv, StoreTyped, Trees
<1>3. step' \in {None} \cup Steps /\ (repo /\ step' # None => Own(step', wc'))
  BY <1>1, <1>2, RacedStep DEF StoreInv
<1>4. op' \in {None} \cup Reverts \cup Restores /\ (repo /\ op' # None => Own(op', wc')) /\ RestoreInv'
  BY <1>1, <1>2, RacedOp DEF Edit
<1>5. QED
  BY <1>2, <1>3, <1>4 DEF StoreInv, StoreTyped, UndoInv, Edit, Only

LEMMA EndsInv == ASSUME StoreInv, ChangeFails \/ Restart PROVE StoreInv'
<1>1. op' \notin Restores
  BY ChangeIsSome DEF ChangeFails, Restart, Restores
<1>2. QED
  BY <1>1 DEF StoreInv, StoreTyped, UndoInv, RestoreInv, ChangeFails, Restart

LEMMA StoreStep == ASSUME StoreInv, [StoreNext]_storeVars PROVE StoreInv'
<1>1. CASE TurnStarts \/ TurnEnds \/ UNCHANGED storeVars
  BY <1>1, SameStore DEF TurnStarts, TurnEnds, storeVars
<1>2. CASE Take
  BY <1>2, TakeInv
<1>3. CASE Change
  BY <1>3, ChangeInv
<1>4. CASE Settle
  BY <1>4, SettleInv
<1>5. CASE Revert
  BY <1>5, RevertInv
<1>6. CASE Reverted
  BY <1>6, RevertedInv
<1>7. CASE Restore
  BY <1>7, RestoreBegins
<1>8. CASE Preview
  BY <1>8, PreviewInv
<1>9. CASE Write
  BY <1>9, WriteInv
<1>10. CASE Remove
  BY <1>10, RemoveInv
<1>11. CASE SettleChange
  BY <1>11, SettleChangeInv
<1>12. CASE ChangeFails \/ Restart
  BY <1>12, EndsInv
<1>13. CASE Edit
  BY <1>13, EditInv
<1>14. QED
  BY <1>1, <1>2, <1>3, <1>4, <1>5, <1>6, <1>7, <1>8, <1>9, <1>10, <1>11, <1>12, <1>13 DEF StoreNext

LEMMA StoreBegins == StoreInit => StoreInv
BY ChangeIsSome DEF StoreInit, StoreInv, StoreTyped, UndoInv, RestoreInv, Restores

(* The store's invariant holds throughout, whoever else changes the copy.      *)
THEOREM StoreInvariant == StoreSpec => []StoreInv
BY StoreBegins, StoreStep, PTL DEF StoreSpec

(* What a restore put back is what the property says.                         *)
LEMMA StoreMeans == StoreInv => ChangesComeBack
<1> SUFFICES ASSUME StoreInv PROVE ChangesComeBack
  OBVIOUS
<1>1. ChangesCanBeUndone
  BY DEF StoreInv, UndoInv, ChangesCanBeUndone
<1>2. RestoreReturns
  <2>1. SUFFICES ASSUME op.at = "changed", op.of # None, NEW p \in Paths \ op.outside
                 PROVE  wc[p] = IF p \in Scope(op.of) THEN op.of.before[p] ELSE op.before[p]
    BY DEF RestoreReturns, Scope
  <2>2. op \in Restores
    BY <2>1 DEF StoreInv, StoreTyped, Reverts, ChangeOf, None
  <2>3. wc[p] = IF p \in op.list THEN op.of.before[p] ELSE op.before[p]
    BY <2>1, <2>2 DEF StoreInv, RestoreInv, PutBackInv, PutBack
  <2>4. p \in op.list <=> p \in Scope(op.of) /\ op.before[p] # op.of.before[p]
    BY <2>1, <2>2 DEF StoreInv, RestoreInv, ListInv
  <2>5. QED
    BY <2>3, <2>4
<1>3. QED
  BY <1>1, <1>2 DEF ChangesComeBack

(* A restore puts back what its record changed and touches nothing else, and  *)
(* in a repository every change that finished can be taken back whole.        *)
THEOREM ComesBack == StoreSpec => []ChangesComeBack
BY StoreInvariant, StoreMeans, PTL

-----------------------------------------------------------------------------
(* The tools that change files (Files): for any agents, files and patches,    *)
(* and whoever else writes them, an edit lands where its text was read.       *)

CONSTANTS Editors, FilePaths, Size, Patches, MaxWrites
VARIABLES disk, shown, call, writes, wiped, astray

Fl == INSTANCE Files WITH Agents <- Editors, Paths <- FilePaths, lost <- wiped

Texts == [Fl!Regions -> Nat]
FileStates == [there : BOOLEAN, text : Texts]
AnyPlans == [path : FilePaths, base : FileStates, next : FileStates, named : SUBSET Nat, meant : SUBSET Fl!Regions]
(* A plan changes only what it was for, and what it takes away it named.      *)
GoodPlans == {p \in AnyPlans : \A r \in Fl!Changes(p) : (p.base.there => p.base.text[r] \in p.named) /\ r \in p.meant}
EditCalls == [at : {"none", "checks", "writes"}, left : Seq(FilePaths), planned : Seq(GoodPlans), begun : BOOLEAN]
BegunWell(c) == (c.at = "checks" => c.left # <<>>) /\ (c.at = "writes" => c.planned # <<>>)
FilesInv ==
  /\ disk \in [FilePaths -> FileStates] /\ shown \in [Editors -> [FilePaths -> Texts]]
  /\ writes \in Nat
  /\ call \in [Editors -> EditCalls]
  /\ \A a \in Editors : BegunWell(call[a])
  /\ wiped = {} /\ astray = FALSE

(* No call is well begun.                                                     *)
LEMMA NoCallIs == Fl!NoCall \in EditCalls /\ BegunWell(Fl!NoCall)
BY DEF Fl!NoCall, EditCalls, BegunWell

(* Nothing at all reads as a file.                                            *)
LEMMA EmptyIs == Fl!Empty \in Texts /\ Fl!Missing \in FileStates /\ ~Fl!Missing.there
BY DEF Fl!Empty, Fl!Missing, Texts, FileStates

(* The first state.                                                           *)
LEMMA NoEditInv == Fl!Init => FilesInv
<1> SUFFICES ASSUME Fl!Init PROVE FilesInv
  OBVIOUS
<1> DEFINE emptyFile == [there |-> TRUE, text |-> Fl!Empty]
<1>1. emptyFile \in FileStates
  BY EmptyIs DEF FileStates
<1>2. disk = [f \in FilePaths |-> emptyFile]
  BY DEF Fl!Init
<1> HIDE DEF emptyFile
<1>3. disk \in [FilePaths -> FileStates]
  BY <1>1, <1>2
<1>4. shown \in [Editors -> [FilePaths -> Texts]]
  BY EmptyIs DEF Fl!Init
<1>5. call \in [Editors -> EditCalls] /\ \A a \in Editors : BegunWell(call[a])
  BY NoCallIs DEF Fl!Init
<1>6. writes \in Nat /\ wiped = {} /\ astray = FALSE
  BY DEF Fl!Init
<1> QED BY <1>3, <1>4, <1>5, <1>6 DEF FilesInv

(* What is planned from what is there is good, when what it changes of a file *)
(* that is there was named and meant.                                         *)
LEMMA PlanIsGood ==
  ASSUME FilesInv, NEW f \in FilePaths, NEW newFile \in FileStates, NEW named \in SUBSET Nat,
         NEW meant \in SUBSET Fl!Regions,
         \A r \in Fl!Regions : ~(newFile.there /\ newFile.text[r] = disk[f].text[r])
                            => (disk[f].there => disk[f].text[r] \in named) /\ r \in meant
  PROVE  Fl!Plan(f, newFile, named, meant) \in GoodPlans
<1> DEFINE p == Fl!Plan(f, newFile, named, meant)
<1>1. p.path = f /\ p.base = disk[f] /\ p.next = newFile /\ p.named = named /\ p.meant = meant
  BY DEF Fl!Plan
<1>2. disk[f] \in FileStates
  BY DEF FilesInv
<1>3. p \in AnyPlans
  BY <1>2 DEF Fl!Plan, AnyPlans
<1> HIDE DEF p
<1>4. \A r \in Fl!Changes(p) : (p.base.there => p.base.text[r] \in p.named) /\ r \in p.meant
  BY <1>1 DEF Fl!Changes
<1>5. p \in GoodPlans
  BY <1>3, <1>4 DEF GoodPlans
<1> QED BY <1>5 DEF p

(* The call of one agent becomes another one.                                 *)
LEMMA CallBecomes ==
  ASSUME FilesInv, NEW a \in Editors, NEW c \in EditCalls, BegunWell(c),
         call' = [call EXCEPT ![a] = c], UNCHANGED <<shown, wiped, astray>>,
         disk' \in [FilePaths -> FileStates], writes' \in Nat
  PROVE  FilesInv'
BY DEF FilesInv

(* One plan, to be written at once.                                           *)
LEMMA OnePlan ==
  ASSUME NEW p \in GoodPlans
  PROVE  LET c == [Fl!NoCall EXCEPT !.at = "writes", !.planned = <<p>>] IN c \in EditCalls /\ BegunWell(c)
<1> DEFINE planned == <<p>>
           c == [Fl!NoCall EXCEPT !.at = "writes", !.planned = planned]
<1>1. planned \in Seq(GoodPlans) /\ planned # <<>>
  OBVIOUS
<1> HIDE DEF planned
<1>3. c.at = "writes" /\ c.planned = planned
  BY DEF Fl!NoCall
<1>4. c \in EditCalls
  BY <1>1, NoCallIs DEF EditCalls
<1> HIDE DEF c
<1>5. c \in EditCalls /\ BegunWell(c)
  BY <1>1, <1>3, <1>4 DEF BegunWell
<1> QED BY <1>5 DEF c, planned

(* What is left when more than the first was.                                 *)
LEMMA MoreIsLeft ==
  ASSUME NEW S, NEW s \in Seq(S), s # <<>>
  PROVE  Head(s) \in S /\ Tail(s) \in Seq(S) /\ (Len(s) # 1 => Tail(s) # <<>>)
<1>1. Len(s) \in Nat /\ Len(s) # 0
  OBVIOUS
<1>2. Head(s) \in S /\ Tail(s) \in Seq(S) /\ Len(Tail(s)) = Len(s) - 1
  BY <1>1
<1>3. Len(<<>>) = 0
  OBVIOUS
<1> QED BY <1>1, <1>2, <1>3

(* A new text of a file.                                                      *)
LEMMA Replacing ==
  ASSUME FilesInv, NEW a \in Editors, NEW f \in FilePaths, NEW targets \in SUBSET Fl!Regions
  PROVE  LET newFile == [there |-> TRUE, text |-> Fl!Replaced(a, f, targets)] IN
         /\ newFile \in FileStates /\ newFile.there
         /\ \A r \in Fl!Regions : newFile.text[r] # disk[f].text[r] => r \in targets
<1> DEFINE text == Fl!Replaced(a, f, targets)
           newFile == [there |-> TRUE, text |-> text]
<1>1. disk[f].text \in Texts
  BY DEF FilesInv, FileStates
<1>2. text \in Texts /\ \A r \in Fl!Regions : text[r] # disk[f].text[r] => r \in targets
  BY <1>1 DEF Fl!Replaced, Fl!FromDisk, Texts, FilesInv
<1>3. newFile.there /\ newFile.text = text
  OBVIOUS
<1>4. newFile \in FileStates
  BY <1>2 DEF FileStates
<1> QED BY <1>2, <1>3, <1>4

(* A section that has been checked.                                           *)
LEMMA CheckedInv ==
  ASSUME FilesInv, NEW a \in Editors, NEW p \in GoodPlans, Fl!Checked(a, p), call[a].at = "checks",
         UNCHANGED <<disk, shown, wiped, astray>>, writes' \in Nat
  PROVE  FilesInv'
<1> DEFINE c == call[a]
           left == Tail(c.left)
           planned == Append(c.planned, p)
           at == IF Len(c.left) = 1 THEN "writes" ELSE "checks"
           d == [c EXCEPT !.left = left, !.planned = planned, !.at = at]
<1>1. c \in EditCalls /\ c.left # <<>>
  BY DEF FilesInv, BegunWell
<1>2. c.left \in Seq(FilePaths) /\ c.planned \in Seq(GoodPlans)
  BY <1>1 DEF EditCalls
<1>3. left \in Seq(FilePaths) /\ (Len(c.left) # 1 => left # <<>>)
  BY <1>1, <1>2, MoreIsLeft
<1>4. planned \in Seq(GoodPlans) /\ planned # <<>>
  BY <1>2
<1>5. call' = [call EXCEPT ![a] = d]
  BY DEF Fl!Checked, FilesInv
<1>6. at \in {"writes", "checks"} /\ (at = "checks" => Len(c.left) # 1)
  OBVIOUS
<1> HIDE DEF left, planned, at
<1>7. d \in EditCalls /\ d.left = left /\ d.planned = planned /\ d.at = at
  BY <1>1, <1>3, <1>4, <1>6 DEF EditCalls
<1>8. BegunWell(d)
  BY <1>3, <1>4, <1>6, <1>7 DEF BegunWell
<1> HIDE DEF d, c
<1>9. disk' \in [FilePaths -> FileStates]
  BY DEF FilesInv
<1> QED BY <1>5, <1>7, <1>8, <1>9, CallBecomes

(* Every step keeps it.                                                       *)
LEMMA FilesNextInv == ASSUME Fl!Bounded PROVE FilesInv /\ [Fl!Next]_(Fl!flVars) => FilesInv'
<1> SUFFICES ASSUME FilesInv, [Fl!Next]_(Fl!flVars) PROVE FilesInv'
  OBVIOUS
<1>0. disk \in [FilePaths -> FileStates] /\ writes \in Nat
           /\ \A f \in FilePaths : disk[f] \in FileStates /\ disk[f].text \in Texts
  BY DEF FilesInv, FileStates
<1>1. ASSUME NEW a \in Editors, NEW f \in FilePaths, Fl!Reads(a, f) PROVE FilesInv'
  BY <1>0, <1>1 DEF Fl!Reads, Fl!ghosts, FilesInv
<1>2. ASSUME NEW a \in Editors, NEW f \in FilePaths, NEW r \in Fl!Regions, Fl!RefusesStale(a, f, r)
      PROVE  FilesInv'
  <2>1. shown' \in [Editors -> [FilePaths -> Texts]]
    BY <1>0, <1>2 DEF Fl!RefusesStale, FilesInv, Texts
  <2> QED BY <1>2, <2>1 DEF Fl!RefusesStale, Fl!ghosts, FilesInv
<1>3. ASSUME NEW a \in Editors, NEW f \in FilePaths, NEW r \in Fl!Regions,
             NEW anchored \in BOOLEAN, NEW which \in 0..(Size + 1),
             Fl!Edits(a, f, r, anchored, which) PROVE FilesInv'
  <2> DEFINE text == shown[a][f][r]
             targets == Fl!Targets(f, text, which)
             newFile == [there |-> TRUE, text |-> Fl!Replaced(a, f, targets)]
             meant == IF anchored /\ which = Fl!Only THEN {r} ELSE Fl!Regions
             p == Fl!Plan(f, newFile, {text}, meant)
             c == [Fl!NoCall EXCEPT !.at = "writes", !.planned = <<p>>]
  <2>1. targets \in SUBSET Fl!Regions /\ \A q \in targets : disk[f].text[q] = text
    BY DEF Fl!Targets, Fl!Matches, Fl!Nth
  <2>2. \A q \in targets : anchored /\ which = Fl!Only => q = r
    <3> SUFFICES ASSUME anchored, which = Fl!Only, NEW q \in targets PROVE q = r
      OBVIOUS
    <3>1. disk[f].text[r] = text
      BY <1>3 DEF Fl!Edits, Fl!Stale
    <3>2. Fl!Matches(f, text) = {q} /\ r \in Fl!Matches(f, text)
      BY <3>1 DEF Fl!Targets, Fl!Matches, Fl!Only, Fl!All
    <3> QED BY <3>2
  <2>3. /\ newFile \in FileStates /\ newFile.there
        /\ \A q \in Fl!Regions : newFile.text[q] # disk[f].text[q] => q \in targets
    BY <2>1, Replacing
  <2>4. text \in Nat
    BY DEF FilesInv, Texts
  <2>5. call' = [call EXCEPT ![a] = c] /\ UNCHANGED <<disk, shown, wiped, astray>> /\ writes' \in Nat
    BY <1>0, <1>3 DEF Fl!Edits, Fl!Fresh, Fl!ghosts
  <2>6. meant \in SUBSET Fl!Regions /\ \A q \in targets : q \in meant
    BY <2>1, <2>2
  <2> HIDE DEF text, targets, newFile, meant
  <2>7. p \in GoodPlans
    BY <2>1, <2>3, <2>4, <2>6, PlanIsGood
  <2> HIDE DEF p
  <2>8. c \in EditCalls /\ BegunWell(c)
    BY <2>7, OnePlan
  <2> HIDE DEF c
  <2> QED BY <1>0, <2>5, <2>8, CallBecomes
<1>4. ASSUME NEW a \in Editors, NEW f \in FilePaths, NEW overwrite \in BOOLEAN, Fl!WritesFile(a, f, overwrite)
      PROVE  FilesInv'
  <2> DEFINE newFile == [there |-> TRUE, text |-> [r \in Fl!Regions |-> writes + 1]]
             named == IF overwrite THEN Fl!TextsOf(disk[f]) ELSE {}
             p == Fl!Plan(f, newFile, named, Fl!Regions)
             c == [Fl!NoCall EXCEPT !.at = "writes", !.planned = <<p>>]
  <2>1. newFile \in FileStates
    BY <1>0 DEF FileStates, Texts
  <2>2. named \in SUBSET Nat
    BY <1>0 DEF Fl!TextsOf, Texts
  <2>3. disk[f].there => \A r \in Fl!Regions : disk[f].text[r] \in named
    BY <1>4 DEF Fl!WritesFile, Fl!Exists, Fl!TextsOf
  <2>4. call' = [call EXCEPT ![a] = c] /\ UNCHANGED <<disk, shown, wiped, astray>> /\ writes' \in Nat
    BY <1>0, <1>4 DEF Fl!WritesFile, Fl!Fresh, Fl!ghosts
  <2> HIDE DEF newFile, named
  <2>5. p \in GoodPlans
    BY <2>1, <2>2, <2>3, PlanIsGood
  <2> HIDE DEF p
  <2>6. c \in EditCalls /\ BegunWell(c)
    BY <2>5, OnePlan
  <2> HIDE DEF c
  <2> QED BY <1>0, <2>4, <2>6, CallBecomes
<1>5. ASSUME NEW a \in Editors, NEW paths \in Patches, Fl!PatchBegins(a, paths) PROVE FilesInv'
  <2> DEFINE c == [Fl!NoCall EXCEPT !.at = "checks", !.left = paths]
  <2>1. paths \in Seq(FilePaths) /\ paths # <<>>
    BY DEF Fl!Bounded
  <2>2. c \in EditCalls /\ BegunWell(c)
    <3>1. c.at = "checks" /\ c.left = paths
      BY DEF Fl!NoCall
    <3>2. c \in EditCalls
      BY <2>1, NoCallIs DEF EditCalls
    <3> QED BY <2>1, <3>1, <3>2 DEF BegunWell
  <2>3. call' = [call EXCEPT ![a] = c] /\ UNCHANGED <<disk, shown, wiped, astray, writes>>
    BY <1>5 DEF Fl!PatchBegins, Fl!ghosts
  <2> HIDE DEF c
  <2> QED BY <1>0, <2>2, <2>3, CallBecomes
<1>6. ASSUME NEW a \in Editors, Fl!AddsSection(a) PROVE FilesInv'
  <2> DEFINE f == Head(call[a].left)
             newFile == [there |-> TRUE, text |-> [r \in Fl!Regions |-> writes + 1]]
             p == Fl!Plan(f, newFile, {}, Fl!Regions)
  <2>1. call[a].at = "checks" /\ ~disk[f].there /\ Fl!Checked(a, p) /\ writes' \in Nat
             /\ UNCHANGED <<disk, shown, wiped, astray>>
    BY <1>0, <1>6 DEF Fl!AddsSection, Fl!Exists, Fl!Fresh, Fl!ghosts
  <2>2. f \in FilePaths
    BY <2>1 DEF FilesInv, BegunWell, EditCalls
  <2>3. newFile \in FileStates
    BY <1>0 DEF FileStates, Texts
  <2> HIDE DEF f, newFile
  <2>4. p \in GoodPlans
    BY <2>1, <2>2, <2>3, PlanIsGood
  <2> HIDE DEF p
  <2> QED BY <2>1, <2>4, CheckedInv
<1>7. ASSUME NEW a \in Editors, NEW r \in Fl!Regions, Fl!ModifiesSection(a, r) PROVE FilesInv'
  <2> DEFINE f == Head(call[a].left)
             text == shown[a][f][r]
  <2>1. call[a].at = "checks" /\ disk[f].there /\ writes' \in Nat
             /\ UNCHANGED <<disk, shown, wiped, astray>>
    BY <1>0, <1>7 DEF Fl!ModifiesSection, Fl!Fresh, Fl!ghosts
  <2>2. f \in FilePaths
    BY <2>1 DEF FilesInv, BegunWell, EditCalls
  <2>3. PICK q \in Fl!Lands(f, text, r) :
          Fl!Checked(a, Fl!Plan(f, [there |-> TRUE, text |-> Fl!Replaced(a, f, {q})], {text}, Fl!Regions))
    BY <1>7 DEF Fl!ModifiesSection
  <2> DEFINE newFile == [there |-> TRUE, text |-> Fl!Replaced(a, f, {q})]
             p == Fl!Plan(f, newFile, {text}, Fl!Regions)
  <2>4. q \in Fl!Regions /\ disk[f].text[q] = text
    BY <2>3 DEF Fl!Lands
  <2>5. /\ newFile \in FileStates /\ newFile.there
        /\ \A s \in Fl!Regions : newFile.text[s] # disk[f].text[s] => s \in {q}
    <3>1. {q} \in SUBSET Fl!Regions
      BY <2>4
    <3> QED BY <2>2, <3>1, Replacing
  <2>6. text \in Nat
    BY <2>2 DEF FilesInv, Texts
  <2>7. Fl!Checked(a, p)
    BY <2>3
  <2> HIDE DEF f, newFile, text
  <2>8. p \in GoodPlans
    BY <2>2, <2>4, <2>5, <2>6, PlanIsGood
  <2> HIDE DEF p
  <2> QED BY <2>1, <2>7, <2>8, CheckedInv
<1>8. ASSUME NEW a \in Editors, NEW r \in Fl!Regions, Fl!DeletesSection(a, r) PROVE FilesInv'
  <2> DEFINE f == Head(call[a].left)
             p == Fl!Plan(f, Fl!Missing, Fl!TextsOf(disk[f]), Fl!Regions)
  <2>1. call[a].at = "checks" /\ Fl!Checked(a, p) /\ UNCHANGED <<disk, shown, writes, wiped, astray>>
    BY <1>8 DEF Fl!DeletesSection, Fl!ghosts
  <2>2. f \in FilePaths
    BY <2>1 DEF FilesInv, BegunWell, EditCalls
  <2> HIDE DEF f
  <2>3. Fl!TextsOf(disk[f]) \in SUBSET Nat
             /\ (disk[f].there => \A q \in Fl!Regions : disk[f].text[q] \in Fl!TextsOf(disk[f]))
    BY <1>0, <2>2 DEF Fl!TextsOf, Texts
  <2>4. p \in GoodPlans
    BY <2>2, <2>3, EmptyIs, PlanIsGood
  <2> HIDE DEF p
  <2> QED BY <1>0, <2>1, <2>4, CheckedInv
<1>9. ASSUME NEW a \in Editors, Fl!PatchRefused(a) \/ Fl!WriteFails(a) PROVE FilesInv'
  BY <1>0, <1>9, NoCallIs, CallBecomes DEF Fl!PatchRefused, Fl!WriteFails, Fl!ghosts
<1>10. ASSUME NEW a \in Editors, Fl!Writes(a) PROVE FilesInv'
  <2> DEFINE c == call[a]
             p == Head(c.planned)
             left == Tail(c.planned)
             d == IF Len(c.planned) = 1 THEN Fl!NoCall ELSE [c EXCEPT !.planned = left, !.begun = TRUE]
  <2>1. c \in EditCalls /\ c.at = "writes" /\ c.planned \in Seq(GoodPlans) /\ c.planned # <<>>
    BY <1>10 DEF Fl!Writes, FilesInv, BegunWell, EditCalls
  <2>2. p \in GoodPlans /\ left \in Seq(GoodPlans) /\ (Len(c.planned) # 1 => left # <<>>)
    BY <2>1, MoreIsLeft
  <2>3. /\ call' = [call EXCEPT ![a] = d] /\ disk' = [disk EXCEPT ![p.path] = p.next]
        /\ wiped' = wiped \cup Fl!TakesUnnamed(p)
             /\ astray' = (astray \/ ~(Fl!Changes(p) \subseteq p.meant)) /\ UNCHANGED <<shown, writes>>
    BY <1>10 DEF Fl!Writes
  <2> HIDE DEF p, left
  <2>4. d \in EditCalls /\ BegunWell(d)
    BY <2>1, <2>2, NoCallIs DEF EditCalls, BegunWell
  <2> HIDE DEF d, c
  <2>5. Fl!TakesUnnamed(p) = {} /\ Fl!Changes(p) \subseteq p.meant
    <3>1. Fl!Changes(p) \subseteq p.meant
      BY <2>2 DEF GoodPlans
    <3>2. \A r \in Fl!Changes(p) : p.base.there => p.base.text[r] \in p.named
      BY <2>2 DEF GoodPlans
    <3> QED BY <3>1, <3>2 DEF Fl!TakesUnnamed
  <2>6. disk' \in [FilePaths -> FileStates]
    <3>1. p.next \in FileStates
      BY <2>2 DEF GoodPlans, AnyPlans
    <3> QED BY <1>0, <2>3, <3>1
  <2>7. wiped' = wiped /\ astray' = astray
    BY <2>3, <2>5 DEF FilesInv
  <2> QED BY <1>0, <2>3, <2>4, <2>6, <2>7, CallBecomes
<1>11. ASSUME NEW f \in FilePaths, NEW r \in Fl!Regions, Fl!Outside(f, r) PROVE FilesInv'
  <2> DEFINE new == [disk[f] EXCEPT !.text = [disk[f].text EXCEPT ![r] = writes + 1]]
  <2>1. [disk[f].text EXCEPT ![r] = writes + 1] \in Texts
    BY <1>0 DEF Texts
  <2>2. new \in FileStates
    BY <1>0, <2>1 DEF FileStates
  <2>3. disk' = [disk EXCEPT ![f] = new]
    BY <1>0, <1>11 DEF Fl!Outside
  <2> HIDE DEF new
  <2>4. disk' \in [FilePaths -> FileStates]
    BY <1>0, <2>2, <2>3
  <2>5. writes' \in Nat /\ UNCHANGED <<shown, call, wiped, astray>>
    BY <1>0, <1>11 DEF Fl!Outside, Fl!Fresh, Fl!ghosts
  <2> QED BY <2>4, <2>5 DEF FilesInv
<1>12. ASSUME NEW f \in FilePaths, Fl!OutsideDeletes(f) PROVE FilesInv'
  <2>1. disk' \in [FilePaths -> FileStates]
    BY <1>0, <1>12, EmptyIs DEF Fl!OutsideDeletes
  <2> QED BY <1>12, <2>1 DEF Fl!OutsideDeletes, Fl!ghosts, FilesInv
<1>13. CASE UNCHANGED Fl!flVars
  BY <1>13 DEF Fl!flVars, FilesInv
<1> QED BY <1>1, <1>2, <1>3, <1>4, <1>5, <1>6, <1>7, <1>8, <1>9, <1>10, <1>11, <1>12, <1>13 DEF Fl!Next

(* Whoever changes the files between what an agent was shown, what its call   *)
(* read and what it wrote, a call takes nothing away that it read and did not *)
(* name, and an anchored edit changes the region that was read or nothing     *)
(* (edit.ts editRunner, write_file.ts, patch.ts).                             *)
THEOREM EditsLand == ASSUME Fl!Bounded PROVE Fl!Spec => []Fl!EditsLandWhereRead
<1>1. FilesInv => Fl!EditsLandWhereRead
  BY DEF FilesInv, Fl!EditsLandWhereRead
<1> QED BY <1>1, NoEditInv, FilesNextInv, PTL DEF Fl!Spec
=============================================================================
