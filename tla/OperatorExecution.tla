------------------------- MODULE OperatorExecution -------------------------
(***************************************************************************)
(* One llmMap or agenticMap run being executed by several executors that   *)
(* share a SQLite store.  An executor is one call chain of                 *)
(* ExecuteOperatorTaskUseCase.execute: it claims a task lease, runs the    *)
(* item (for agenticMap: in a bootstrapped child conversation), records    *)
(* the outcome and tries to finalize the run.  Executors are separate      *)
(* processes: each store call and each unit of work is one SQLite          *)
(* transaction, and everything between two of them can interleave.         *)
(*                                                                         *)
(* Time is abstracted to the two comparisons the code makes: a lease is    *)
(* live or expired, a retry backoff has elapsed or not.                    *)
(***************************************************************************)
EXTENDS Naturals, FiniteSets, Sequences

CONSTANTS
    Workers,          \* concurrent executors
    N,                \* run.taskCount: items are 0..N-1
    Kinds,            \* the operator kinds a run may have
    ConcurrencyLimit, \* run.concurrencyLimit
    MaxRetries,       \* run.retryPolicy.maxRetries
    MaxCrashes,       \* bound: executors that die or throw after a claim
    MaxStalls         \* bound: leases that expire under a working executor

ASSUME WorkersAssumption == IsFiniteSet(Workers)
ASSUME NAssumption == N \in Nat \ {0}
ASSUME KindsAssumption == Kinds \subseteq {"llmMap", "agenticMap"}
ASSUME LimitAssumption == ConcurrencyLimit \in Nat \ {0}
ASSUME BoundsAssumption ==
    MaxRetries \in Nat /\ MaxCrashes \in Nat /\ MaxStalls \in Nat

VARIABLES
    kind,      \* run.operatorKind
    task,      \* the operator_tasks rows, by item index
    run,       \* the operator_runs row
    handles,   \* result-handle events in the parent conversation's ledger
    children,  \* child conversations in creation order: bootstrap batches in each
    exec,      \* what each executor is doing
    crashes,
    stalls

vars == <<kind, task, run, handles, children, exec, crashes, stalls>>

Items == 0 .. N - 1

NoArtifact == <<>>

TaskStatus == {"pending", "running", "retryable_failure", "succeeded", "failed"}
Terminal == {"succeeded", "failed"}
RunStatus == {"pending", "running", "completed", "completed_with_failures", "failed"}
BootstrapState ==
    {"bootstrap_not_started", "bootstrap_in_progress", "bootstrap_completed"}

(* Where an executor is between two transactions.                          *)
(*   claimed     holds a claim, has not looked for a child conversation    *)
(*   childless   has read that the task has no child conversation          *)
(*   hasChild    knows its child conversation                              *)
(*   marking     has read bootstrap_not_started                            *)
(*   appending   is about to append the bootstrap events                   *)
(*   completing  has appended them, not yet marked the bootstrap complete  *)
(*   executing   waits for the model or the sub-agent                      *)
(*   recorded    has recorded a terminal status, is about to finalize      *)
Bootstrapping ==
    {"claimed", "childless", "hasChild", "marking", "appending", "completing"}
Working == Bootstrapping \cup {"executing"}
Phase == Working \cup {"idle", "recorded"}

TaskRow ==
    [status : TaskStatus, attempts : Nat, lease : {"none", "live", "expired"},
     retryDue : BOOLEAN, answer : Nat, child : Nat, bootstrap : BootstrapState]

Artifact == [Items -> TaskStatus \X Nat]

RunRow ==
    [status : RunStatus, counts : [TaskStatus -> Nat],
     stage : {"not_started", "completed"}, artifact : {NoArtifact} \cup Artifact,
     needsRetry : BOOLEAN]

Handle == [status : RunStatus, artifact : Artifact]

Executor == [phase : Phase, item : Items, attempt : Nat, child : Nat]

Idle == [phase |-> "idle", item |-> 0, attempt |-> 0, child |-> 0]

-----------------------------------------------------------------------------
(* What the store derives from the task rows. *)

WithStatus(t, s) == {i \in Items : t[i].status = s}

Counts(t) == [s \in TaskStatus |-> Cardinality(WithStatus(t, s))]

(* Mutant: a row waiting for its retry counts as finished. *)
AllTerminalMutant(t) == \A i \in Items : t[i].status \notin {"pending", "running"}

AllTerminal(t) == \A i \in Items : t[i].status \in Terminal

(* Mutant: one failed task decides the status while others still wait. *)
DerivedStatusMutant(t) ==
    CASE WithStatus(t, "running") # {} -> "running"
      [] WithStatus(t, "running") = {} /\ WithStatus(t, "failed") # {} -> "completed_with_failures"
      [] WithStatus(t, "succeeded") = Items -> "completed"
      [] OTHER -> "pending"

DerivedStatus(t) ==
    CASE WithStatus(t, "running") # {} -> "running"
      [] WithStatus(t, "running") = {} /\ ~AllTerminal(t) -> "pending"
      [] AllTerminal(t) /\ WithStatus(t, "succeeded") = {} -> "failed"
      [] AllTerminal(t) /\ WithStatus(t, "failed") = {} -> "completed"
      [] OTHER -> "completed_with_failures"

refreshRunFromTasks(r, t) ==
    [r EXCEPT !.counts = Counts(t), !.status = DerivedStatus(t)]

LiveLeases(t) ==
    {i \in Items : t[i].status = "running" /\ t[i].lease = "live"}

(* Mutant: off by one at the limit. *)
BelowLimitMutant(t) == Cardinality(LiveLeases(t)) <= ConcurrencyLimit

BelowLimit(t) == Cardinality(LiveLeases(t)) < ConcurrencyLimit

(* Mutant: running rows are never taken over. *)
ReclaimableNever(t, i) == FALSE

Reclaimable(t, i) == t[i].status = "running" /\ t[i].lease = "expired"

Claimable(t, i) ==
    /\ \/ t[i].status = "pending"
       \/ t[i].status = "retryable_failure" /\ t[i].retryDue
       \/ Reclaimable(t, i)
    /\ BelowLimit(t)

(* The JSONL artifact: one entry per item in item order.  An entry is the  *)
(* task's status and the attempt whose output or failure the row stores.   *)
Entries(t) == [i \in Items |-> <<t[i].status, t[i].answer>>]

(* The run status FinalizeOperatorRunUseCase computes from the entries.    *)
deriveRunStatus(entries) ==
    LET failed == {i \in Items : entries[i][1] = "failed"} IN
    CASE failed = {} -> "completed"
      [] failed = Items -> "failed"
      [] OTHER -> "completed_with_failures"

-----------------------------------------------------------------------------
NewTask ==
    [status |-> "pending", attempts |-> 0, lease |-> "none", retryDue |-> TRUE,
     answer |-> 0, child |-> 0, bootstrap |-> "bootstrap_not_started"]

createRunWithTasks ==
    /\ task = [i \in Items |-> NewTask]
    /\ run = [status |-> "pending",
              counts |-> [s \in TaskStatus |-> IF s = "pending" THEN N ELSE 0],
              stage |-> "not_started", artifact |-> NoArtifact,
              needsRetry |-> FALSE]

Init ==
    /\ kind \in Kinds
    /\ createRunWithTasks
    /\ handles = <<>>
    /\ children = <<>>
    /\ exec = [w \in Workers |-> Idle]
    /\ crashes = 0
    /\ stalls = 0

-----------------------------------------------------------------------------
(* The store's updates of one task row. *)

(* Mutant: the lease ends the moment it is taken. *)
ClaimedRowMutant(row) ==
    [row EXCEPT !.status = "running", !.attempts = row.attempts + 1,
                !.lease = "expired", !.retryDue = TRUE]

ClaimedRow(row) ==
    [row EXCEPT !.status = "running", !.attempts = row.attempts + 1,
                !.lease = "live", !.retryDue = TRUE]

RecordedRow(row, status, answer, due) ==
    [row EXCEPT !.status = status, !.lease = "none", !.retryDue = due,
                !.answer = answer]

(* Mutant: a completed bootstrap is reopened. *)
StartedRowMutant(row) == [row EXCEPT !.bootstrap = "bootstrap_in_progress"]

StartedRow(row) ==
    [row EXCEPT !.bootstrap =
        IF row.bootstrap = "bootstrap_completed" THEN row.bootstrap
        ELSE "bootstrap_in_progress"]

CompletedRow(row) == [row EXCEPT !.bootstrap = "bootstrap_completed"]

(* ... and what the passing of time makes of it. *)
ExpiredRow(row) == [row EXCEPT !.lease = "expired"]

DueRow(row) == [row EXCEPT !.retryDue = TRUE]

-----------------------------------------------------------------------------
(* The executor. *)

Goto(w, phase) == exec' = [exec EXCEPT ![w] = [@ EXCEPT !.phase = phase]]

claimTaskLease(w) ==
    /\ exec[w].phase = "idle"
    /\ \E i \in Items :
        /\ Claimable(task, i)
        /\ \A j \in Items : Claimable(task, j) => i <= j
        /\ task' = [task EXCEPT ![i] = ClaimedRow(@)]
        /\ exec' = [exec EXCEPT ![w] =
                      [phase |-> IF kind = "llmMap" THEN "executing" ELSE "claimed",
                       item |-> i, attempt |-> task[i].attempts + 1, child |-> 0]]
    /\ run' = refreshRunFromTasks(run, task')
    /\ UNCHANGED <<kind, handles, children, crashes, stalls>>

(* ensureChildConversation reads the task outside the unit of work ...     *)
ReadChild(w) ==
    /\ exec[w].phase = "claimed"
    /\ LET c == task[exec[w].item].child IN
        exec' = [exec EXCEPT ![w] =
                   [@ EXCEPT !.phase = IF c = 0 THEN "childless" ELSE "hasChild",
                             !.child = c]]
    /\ UNCHANGED <<kind, task, run, handles, children, crashes, stalls>>

(* Mutant: the last assignment wins. *)
AssignedChildMutant(row, new) == new

(* Mutant: the conversation id is off by one. *)
AssignedChildDangling(row, new) == IF row.child = 0 THEN new + 1 ELSE row.child

AssignedChild(row, new) == IF row.child = 0 THEN new ELSE row.child

(* ... and inside it creates a conversation and assigns it: the first      *)
(* assignment wins and every later one is answered with the winner.        *)
assignTaskChildConversation(w) ==
    /\ exec[w].phase = "childless"
    /\ children' = Append(children, 0)
    /\ LET i == exec[w].item
           c == AssignedChild(task[i], Len(children) + 1)
       IN /\ task' = [task EXCEPT ![i] = [task[i] EXCEPT !.child = c]]
          /\ exec' = [exec EXCEPT ![w] = [@ EXCEPT !.phase = "hasChild", !.child = c]]
    /\ UNCHANGED <<kind, run, handles, crashes, stalls>>

getTaskBootstrapState(w) ==
    /\ exec[w].phase = "hasChild"
    /\ LET b == task[exec[w].item].bootstrap IN
        Goto(w, CASE b = "bootstrap_not_started" -> "marking"
                  [] b = "bootstrap_in_progress" -> "appending"
                  [] b = "bootstrap_completed" -> "executing")
    /\ UNCHANGED <<kind, task, run, handles, children, crashes, stalls>>

markBootstrapStarted(w) ==
    /\ exec[w].phase = "marking"
    /\ task' = [task EXCEPT ![exec[w].item] = StartedRow(@)]
    /\ Goto(w, "appending")
    /\ UNCHANGED <<kind, run, handles, children, crashes, stalls>>

AppendBootstrapEvents(w) ==
    /\ exec[w].phase = "appending"
    /\ children' = [children EXCEPT ![exec[w].child] = @ + 1]
    /\ Goto(w, "completing")
    /\ UNCHANGED <<kind, task, run, handles, crashes, stalls>>

markBootstrapCompleted(w) ==
    /\ exec[w].phase = "completing"
    /\ task' = [task EXCEPT ![exec[w].item] = CompletedRow(@)]
    /\ Goto(w, "executing")
    /\ UNCHANGED <<kind, run, handles, children, crashes, stalls>>

(* The three writes an outcome can cause.  None of them asks whether the   *)
(* executor still holds the lease or what status the row has.              *)
Record(w, status, answer, due, next) ==
    /\ exec[w].phase = "executing"
    /\ task' = [task EXCEPT ![exec[w].item] = RecordedRow(@, status, answer, due)]
    /\ run' = refreshRunFromTasks(run, task')
    /\ exec' = [exec EXCEPT ![w] = next]
    /\ UNCHANGED <<kind, handles, children, crashes, stalls>>

recordTaskSuccess(w) ==
    Record(w, "succeeded", exec[w].attempt, TRUE, [exec[w] EXCEPT !.phase = "recorded"])

(* Mutant: the executor finalizes only after a success. *)
recordTaskFailureMutant(w) == Record(w, "failed", exec[w].attempt, TRUE, Idle)

(* A failure that is not retryable, fails schema validation, or comes from *)
(* the last attempt the policy allows is terminal.                         *)
recordTaskFailure(w) ==
    Record(w, "failed", exec[w].attempt, TRUE, [exec[w] EXCEPT !.phase = "recorded"])

(* Mutant: one retry too many. *)
HasRetriesRemainingMutant(w) == exec[w].attempt <= MaxRetries + 1

HasRetriesRemaining(w) == exec[w].attempt < MaxRetries + 1

markTaskRetryableFailure(w) ==
    /\ HasRetriesRemaining(w)
    /\ Record(w, "retryable_failure", 0, FALSE, Idle)

(* Mutant: the stage is not consulted. *)
UnfinalizedMutant(r) == TRUE

Unfinalized(r) == r.stage = "not_started"

(* FinalizeOperatorRunUseCase.execute, one unit of work.  A run with an    *)
(* unfinished task makes it throw OperatorFinalizationError, which the     *)
(* executor swallows; a completed run is left alone.                       *)
FinalizeRun ==
    IF AllTerminal(task) /\ Unfinalized(run)
    THEN /\ run' = [refreshRunFromTasks(run, task) EXCEPT
                      !.status = deriveRunStatus(Entries(task)),
                      !.stage = "completed",
                      !.artifact = Entries(task),
                      !.needsRetry = FALSE]
         /\ handles' = Append(handles, [status |-> deriveRunStatus(Entries(task)),
                                        artifact |-> Entries(task)])
    ELSE UNCHANGED <<run, handles>>

finalizeRunIfReady(w) ==
    /\ exec[w].phase = "recorded"
    /\ FinalizeRun
    /\ exec' = [exec EXCEPT ![w] = Idle]
    /\ UNCHANGED <<kind, task, children, crashes, stalls>>

(* The poll loop's second half, once nothing is claimable: finalize a run  *)
(* that is flagged for a finalization retry.                               *)
finalizeNextRun(w) ==
    /\ exec[w].phase = "idle"
    /\ \A i \in Items : ~Claimable(task, i)
    /\ IF run.needsRetry /\ run.stage # "completed"
       THEN FinalizeRun
       ELSE UNCHANGED <<run, handles>>
    /\ UNCHANGED <<kind, task, children, exec, crashes, stalls>>

-----------------------------------------------------------------------------
(* The environment. *)

(* The process dies, or the provider, the store or the finalization throws *)
(* out of execute(): nothing the executor knew survives.                   *)
Crash(w) ==
    /\ exec[w].phase # "idle"
    /\ crashes < MaxCrashes
    /\ crashes' = crashes + 1
    /\ exec' = [exec EXCEPT ![w] = Idle]
    /\ UNCHANGED <<kind, task, run, handles, children, stalls>>

(* Some executor is still working under the current claim of item i.       *)
Holds(w, i) ==
    /\ exec[w].phase \in Working
    /\ exec[w].item = i
    /\ exec[w].attempt = task[i].attempts

ExpireLease(i) ==
    /\ i \in LiveLeases(task)
    /\ task' = [task EXCEPT ![i] = ExpiredRow(@)]
    /\ UNCHANGED <<kind, run, handles, children, exec, crashes>>

(* The clock passes lease_expires_at after the claim's executor is gone.   *)
LeaseExpires(i) ==
    /\ \A w \in Workers : ~Holds(w, i)
    /\ ExpireLease(i)
    /\ UNCHANGED stalls

(* It passes while the executor is still at work: execution outlived the   *)
(* lease.  The design wants leases long enough to rule this out, the store *)
(* has to live with it.                                                    *)
LeaseExpiresEarly(i) ==
    /\ \E w \in Workers : Holds(w, i)
    /\ stalls < MaxStalls
    /\ ExpireLease(i)
    /\ stalls' = stalls + 1

(* The clock passes next_retry_at. *)
BackoffElapses(i) ==
    /\ task[i].status = "retryable_failure"
    /\ ~task[i].retryDue
    /\ task' = [task EXCEPT ![i] = DueRow(@)]
    /\ UNCHANGED <<kind, run, handles, children, exec, crashes, stalls>>

-----------------------------------------------------------------------------
WorkerStep(w) ==
    \/ claimTaskLease(w)
    \/ ReadChild(w)
    \/ assignTaskChildConversation(w)
    \/ getTaskBootstrapState(w)
    \/ markBootstrapStarted(w)
    \/ AppendBootstrapEvents(w)
    \/ markBootstrapCompleted(w)
    \/ recordTaskSuccess(w)
    \/ recordTaskFailure(w)
    \/ markTaskRetryableFailure(w)
    \/ finalizeRunIfReady(w)
    \/ finalizeNextRun(w)

ClockStep(i) == LeaseExpires(i) \/ BackoffElapses(i)

Next ==
    \/ \E w \in Workers : WorkerStep(w) \/ Crash(w)
    \/ \E i \in Items : ClockStep(i) \/ LeaseExpiresEarly(i)

Spec == Init /\ [][Next]_vars

(* Executors that are not crashed keep polling, the provider answers       *)
(* (within executionTimeoutSeconds), and the clock advances.               *)
Fairness ==
    /\ \A w \in Workers : WF_vars(WorkerStep(w))
    /\ \A i \in Items : WF_vars(ClockStep(i))

FairSpec == Spec /\ Fairness
-----------------------------------------------------------------------------
(* Properties. *)

(* Every variable holds a value of its type; a task's child is one of the  *)
(* conversations that were created.                                        *)
TypeOK ==
    /\ kind \in Kinds
    /\ task \in [Items -> TaskRow]
    /\ run \in RunRow
    /\ handles \in Seq(Handle)
    /\ children \in Seq(Nat)
    /\ exec \in [Workers -> Executor]
    /\ crashes \in 0 .. MaxCrashes
    /\ stalls \in 0 .. MaxStalls
    /\ \A i \in Items : task[i].child <= Len(children)
    /\ \A w \in Workers : exec[w].child <= Len(children)

(* However claims, expiries, late records and crashes interleave, no more  *)
(* than concurrencyLimit tasks hold a live lease.                          *)
LeaseLimit == Cardinality(LiveLeases(task)) <= ConcurrencyLimit

(* As long as no lease has run out under a working executor, each working  *)
(* executor holds the live lease of the claim it works under.              *)
LeaseAgreement ==
    stalls = 0 =>
        \A w \in Workers : exec[w].phase \in Working =>
            LET row == task[exec[w].item] IN
            /\ row.status = "running"
            /\ row.lease = "live"
            /\ row.attempts = exec[w].attempt

(* ... so that an item is never executed by two executors at once.         *)
ExclusiveExecution ==
    stalls = 0 =>
        \A v, w \in Workers :
            /\ exec[v].phase \in Working
            /\ exec[w].phase \in Working
            /\ exec[v].item = exec[w].item
            => v = w

(* The counters and the status of the run row, written by every record,    *)
(* claim and finalization, always describe the task rows, and the status   *)
(* is terminal exactly when every task is.  This is the rule of the code:  *)
(* refreshRunFromTasks sets the terminal status with the last record,      *)
(* before there is an artifact, and failed when every task failed.  The    *)
(* design document leaves the terminal status to finalization and failed   *)
(* to runs that could not be finalized: README, "Disagreements".           *)
RunMirrorsTasks ==
    /\ \A s \in TaskStatus : run.counts[s] = Cardinality(WithStatus(task, s))
    /\ run.status = "running" <=> \E i \in Items : task[i].status = "running"
    /\ run.status \in {"completed", "completed_with_failures", "failed"}
         <=> \A i \in Items : task[i].status \in Terminal
    /\ run.status = "completed" <=> \A i \in Items : task[i].status = "succeeded"

(* The parent conversation gets one result handle per run, when the run    *)
(* completes, and never a second one, whoever races or retries: the handle *)
(* names the artifact the run row names.                                   *)
OneHandle ==
    /\ run.stage = "completed" <=> Len(handles) = 1
    /\ Len(handles) <= 1
    /\ \A k \in DOMAIN handles : handles[k].artifact = run.artifact

(* While leases outlive executions, the published artifact is what the     *)
(* task rows say, for good.                                                *)
ArtifactIsFinal ==
    stalls = 0 /\ run.stage = "completed" => run.artifact = Entries(task)

(* Every executor past ensureChildConversation uses the task's one child   *)
(* conversation, and distinct tasks never share one.                       *)
ChildAgreement ==
    /\ \A w \in Workers :
        exec[w].phase \in {"hasChild", "marking", "appending", "completing"} =>
            exec[w].child = task[exec[w].item].child /\ exec[w].child # 0
    /\ \A i, j \in Items :
        i # j /\ task[i].child # 0 => task[i].child # task[j].child

(* A sub-agent runs only in a child whose bootstrap events were appended   *)
(* and whose bootstrap is marked complete.                                 *)
BootstrapBeforeExecution ==
    \A w \in Workers : kind = "agenticMap" /\ exec[w].phase = "executing" =>
        /\ task[exec[w].item].bootstrap = "bootstrap_completed"
        /\ children[exec[w].child] > 0

(* Retries are bounded: an attempt beyond maxRetries + 1 is paid for by an *)
(* executor that died or a lease that ran out.                             *)
AttemptBudget ==
    \A i \in Items : task[i].attempts <= MaxRetries + 1 + crashes + stalls

(* The first terminal status of a task is its last, while leases outlive   *)
(* executions.                                                             *)
TerminalIsFinal ==
    [][stalls' = 0 => \A i \in Items :
        task[i].status \in Terminal => task'[i] = task[i]]_vars

(* Crashes, expired leases, retries and late records notwithstanding,      *)
(* every task ends up terminal.                                            *)
TasksSettle == <>[]AllTerminal(task)

(* If no executor dies, the run is finalized.                              *)
FinalizedUnlessCrash == <>(run.stage = "completed" \/ crashes > 0)
=============================================================================
