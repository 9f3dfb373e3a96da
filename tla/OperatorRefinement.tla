------------------------- MODULE OperatorRefinement -------------------------
(***************************************************************************)
(* OperatorExecution implements OperatorRun: an item is settled by the     *)
(* record of its terminal status, finalization publishes, and an execution *)
(* outlives its lease when the clock passes lease_expires_at under it.     *)
(***************************************************************************)
EXTENDS OperatorExecution

SettledResult(i) ==
    IF task[i].status \in Terminal THEN <<task[i].status, task[i].answer>> ELSE <<>>

Abstract ==
    INSTANCE OperatorRun WITH
        results <- [i \in Items |-> SettledResult(i)],
        published <- run.artifact,
        outlived <- stalls

(* Every step of the executors, the store and the clock is a step of the   *)
(* abstract run or leaves it unchanged: no outcome is replaced before a    *)
(* lease has run out under a working executor, nothing is published before *)
(* every item is settled, and there is one publication and one handle,     *)
(* with the outcomes the items had then, whatever is recorded later.  The  *)
(* status of a run whose items all failed is not compared: there the code  *)
(* and the design document disagree (README, "Disagreements").             *)
ImplementsOperatorRun == Abstract!Spec
=============================================================================
