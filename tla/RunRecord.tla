----------------------------- MODULE RunRecord -----------------------------
(***************************************************************************)
(* What a workflow run's log promises whoever reads it (Workflow Execution *)
(* and Resumption): whatever was stopped, killed and resumed, a step is    *)
(* marked running only when every step it needs has finished well enough,  *)
(* a finished step stays as it finished, and a step that waits for a       *)
(* person goes on only with an answer.  Workflow implements this.          *)
(***************************************************************************)
CONSTANT Steps

VARIABLES flow,     \* the workflow file: needs and tolerant of each step
          record    \* [Steps -> status]: the last the log says of each step

vars == <<flow, record>>

Finished == {"ok", "failed", "skipped"}

\* What a step's need may be when the step starts.
GoodFor(s) == {"ok", "skipped"} \cup (IF s \in flow.tolerant THEN {"failed"} ELSE {})
InOrder(s) == \A n \in flow.needs[s] : record[n] \in GoodFor(s)

Init == record = [s \in Steps |-> "pending"]

Start(s) ==
  /\ record[s] \in {"pending", "running", "cancelled"}
  /\ InOrder(s)
  /\ record' = [record EXCEPT ![s] = "running"]

Finish(s) ==
  /\ record[s] = "running"
  /\ InOrder(s)
  /\ \E st \in {"ok", "failed", "waiting"} : record' = [record EXCEPT ![s] = st]

\* A step that never ran, or was cut off, is passed over or given up.
PassOver(s) ==
  /\ record[s] \in {"pending", "running", "cancelled"}
  /\ \E st \in {"failed", "skipped", "cancelled"} : record' = [record EXCEPT ![s] = st]

\* A resume takes in the answers the waiting steps were given.
Answered(S) ==
  /\ \A s \in S : record[s] = "waiting"
  /\ \E st \in [S -> {"ok", "failed"}] :
       record' = [s \in Steps |-> IF s \in S THEN st[s] ELSE record[s]]

Next ==
  /\ UNCHANGED flow
  /\ \/ \E s \in Steps : Start(s) \/ Finish(s) \/ PassOver(s)
     \/ \E S \in SUBSET Steps : Answered(S)

Spec == Init /\ [][Next]_vars
=============================================================================
