---------------------------- MODULE OperatorRun ----------------------------
(***************************************************************************)
(* What a recursive operator run promises the conversation that started    *)
(* it, with no executors, leases or retries in sight: every item gets an   *)
(* outcome, and when all have one the outcomes are published once, with    *)
(* one handle in the parent conversation that summarises them.  An item    *)
(* keeps its first outcome as long as no execution outlives its lease;     *)
(* after that the outcomes may still be replaced, and are published once   *)
(* all the same.                                                           *)
(***************************************************************************)
EXTENDS Naturals

CONSTANT Items

VARIABLES
    results,    \* the outcome of each item, <<>> until it is settled
    published,  \* the output artifact, <<>> until it is written
    handles,    \* the handles the parent conversation received
    outlived    \* how many executions have outlived their lease

runVars == <<results, published, handles, outlived>>

Outcomes == {"succeeded", "failed"} \X Nat

Settled(i) == results[i] \in Outcomes

(* How the outcomes may be summarised.  Items that all failed are left     *)
(* open: the design document calls such a run completed_with_failures, the *)
(* program publishes it as failed.                                         *)
Summaries(r) ==
    CASE \A i \in Items : r[i][1] = "succeeded" -> {"completed"}
      [] \A i \in Items : r[i][1] = "failed" -> {"completed_with_failures", "failed"}
      [] OTHER -> {"completed_with_failures"}

Init ==
    /\ results = [i \in Items |-> <<>>]
    /\ published = <<>>
    /\ handles = <<>>
    /\ outlived = 0

Settle(i) ==
    /\ ~Settled(i)
    /\ results'[i] \in Outcomes
    /\ results' = [results EXCEPT ![i] = results'[i]]
    /\ UNCHANGED <<published, handles, outlived>>

Outlive ==
    /\ outlived' = outlived + 1
    /\ UNCHANGED <<results, published, handles>>

Replace(i) ==
    /\ outlived > 0
    /\ Settled(i)
    /\ results'[i] \in Outcomes \cup {<<>>}
    /\ results' = [results EXCEPT ![i] = results'[i]]
    /\ UNCHANGED <<published, handles, outlived>>

Publish ==
    /\ \A i \in Items : Settled(i)
    /\ published = <<>>
    /\ published' = results
    /\ \E status \in Summaries(results) :
        handles' = <<[status |-> status, artifact |-> results]>>
    /\ UNCHANGED <<results, outlived>>

Next == Publish \/ Outlive \/ \E i \in Items : Settle(i) \/ Replace(i)

Spec == Init /\ [][Next]_runVars
=============================================================================
