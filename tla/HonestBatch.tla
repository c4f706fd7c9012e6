---------------------------- MODULE HonestBatch ----------------------------
(***************************************************************************)
(* What one step's batch of tool calls promises, whatever happens inside:  *)
(* "every tool call the model makes [gets] exactly one recorded result"    *)
(* (Honest Tool Batches).  A call is unanswered, then answered once; the   *)
(* batch closes only when no call is left unanswered, and a closed batch   *)
(* never changes.  Dispatch implements this.                               *)
(***************************************************************************)
CONSTANTS Calls,      \* the calls of the step
          Statuses    \* what a result may say; "none" is none of them

VARIABLES said,       \* [Calls -> Statuses \cup {"none"}]: the result announced of a call
          closed      \* whether the batch has returned

vars == <<said, closed>>

Unanswered == {c \in Calls : said[c] = "none"}

Init == /\ said = [c \in Calls |-> "none"]
        /\ closed = FALSE

\* Some calls without a result get one each: a stopped fan-out answers all its members at once.
Answer(C, s) ==
  /\ ~closed
  /\ C \subseteq Unanswered
  /\ said' = [c \in Calls |-> IF c \in C THEN s ELSE said[c]]
  /\ UNCHANGED closed

Close ==
  /\ Unanswered = {}
  /\ closed' = TRUE
  /\ UNCHANGED said

Next == Close \/ \E C \in SUBSET Calls, s \in Statuses : Answer(C, s)

Spec == Init /\ [][Next]_vars
=============================================================================
