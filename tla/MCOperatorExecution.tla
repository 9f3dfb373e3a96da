------------------------ MODULE MCOperatorExecution ------------------------
(* Constants for model-checking OperatorExecution, and three statements of *)
(* the operator design document that the executors do not keep.            *)
EXTENDS OperatorRefinement

CONSTANTS w1, w2

(* "completion writes are conditional so only the first terminal           *)
(* transition wins": once a task is terminal no later completion write     *)
(* changes its status.  The three completion writes ask for nothing but    *)
(* the task id.                                                            *)
FirstTerminalTransitionWins ==
    [][\A i \in Items : task[i].status \in Terminal =>
           task'[i].status = task[i].status]_vars

(* "if finalization fails transiently, durable persistence must mark the   *)
(* run as needing finalization retry so polling workers can re-drive" it:  *)
(* the run is finalized in the end even if an executor dies after the last *)
(* record.  Nothing ever sets the mark.                                    *)
RunIsFinalized == <>(run.stage = "completed")

(* "bootstrap appends must be idempotent": a child conversation receives   *)
(* its bootstrap events once.  The append and markBootstrapCompleted are   *)
(* two transactions, and the append carries no idempotency key.            *)
BootstrapAppendedOnce == \A c \in DOMAIN children : children[c] <= 1
=============================================================================
