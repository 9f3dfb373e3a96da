------------------------ MODULE PgOperatorExecution ------------------------
(***************************************************************************)
(* The executors of OperatorExecution over the PostgreSQL store.  There a  *)
(* store call is a READ COMMITTED transaction of several statements: each  *)
(* statement reads what was committed when it began, an UPDATE waits for   *)
(* the row lock of an open transaction and then sees the row's latest      *)
(* version, and SKIP LOCKED passes locked rows over.  `task' and `run'     *)
(* hold the committed rows; tx holds what an open transaction has read or  *)
(* written.                                                                *)
(*                                                                         *)
(* Only the row locks a transaction keeps across one of these steps are    *)
(* visible: a record's lock on its task row, and a finalization's lock on  *)
(* the artifact it inserts.  The run row is locked and released within a   *)
(* step, because nothing else is waited for while it is held.              *)
(***************************************************************************)
EXTENDS OperatorExecution

VARIABLE tx

pgVars == <<vars, tx>>

NoTx == [op |-> "none"]

Begin(w, t) == tx' = [tx EXCEPT ![w] = t]

End(w) == Begin(w, NoTx)

(* An uncommitted record holds the lock of its task row.                   *)
RowLocked(i) ==
    \E w \in Workers : tx[w].op \in {"record", "refresh"} /\ exec[w].item = i

PgInit == Init /\ tx = [w \in Workers |-> NoTx]

(* refreshRunFromTasks: the status by the first of its WHEN clauses that    *)
(* holds.  One failed task makes it completed_with_failures as soon as      *)
(* nothing runs, whatever still waits.                                      *)
PgDerivedStatus(t) ==
    LET has(s) == WithStatus(t, s) # {} IN
    CASE has("running") -> "running"
      [] ~has("running") /\ WithStatus(t, "failed") = Items -> "failed"
      [] ~has("running") /\ has("failed") /\ WithStatus(t, "failed") # Items ->
            "completed_with_failures"
      [] WithStatus(t, "succeeded") = Items -> "completed"
      [] OTHER -> "pending"

PgRefreshed(r, t) == [r EXCEPT !.counts = Counts(t), !.status = PgDerivedStatus(t)]

-----------------------------------------------------------------------------
(* claimTaskLease: the candidates are those of the statement's snapshot,   *)
(* the limit with them ...                                                 *)
(* Mutant: running rows are never taken over. *)
ReadyMutant(row) ==
    row.status = "pending" \/ (row.status = "retryable_failure" /\ row.retryDue)

Ready(row) ==
    \/ row.status = "pending"
    \/ row.status = "retryable_failure" /\ row.retryDue
    \/ row.status = "running" /\ row.lease = "expired"

(* Mutant: the limit is not consulted. *)
PgCandidatesMutant(t) == {i \in Items : Ready(t[i])}

PgCandidates(t) ==
    {i \in Items : Ready(t[i]) /\ Cardinality(LiveLeases(t)) < ConcurrencyLimit}

PgClaimSnapshot(w) ==
    /\ exec[w].phase = "idle"
    /\ tx[w] = NoTx
    /\ PgCandidates(task) # {}
    /\ Begin(w, [op |-> "claim", candidates |-> PgCandidates(task), stale |-> FALSE])
    /\ UNCHANGED vars

(* ... and the row that is locked is the first one that is free and, in    *)
(* its latest version, still passes the conditions on the row itself.      *)
(* The snapshot's count is not taken again.                                *)
(* Mutant: the latest version is not looked at. *)
LockableMutant(w) == {i \in tx[w].candidates : ~RowLocked(i)}

Lockable(w) == {i \in tx[w].candidates : ~RowLocked(i) /\ Ready(task[i])}

(* A claim that commits makes the snapshots of the other open claims old.  *)
Overtake(w) ==
    tx' = [v \in Workers |->
             IF v = w THEN NoTx
             ELSE IF tx[v].op = "claim" THEN [tx[v] EXCEPT !.stale = TRUE]
             ELSE tx[v]]

PgClaim(w) ==
    /\ tx[w].op = "claim"
    /\ \E i \in Lockable(w) :
        /\ \A j \in Lockable(w) : i <= j
        /\ task' = [task EXCEPT ![i] = ClaimedRow(@)]
        /\ exec' = [exec EXCEPT ![w] =
                      [phase |-> IF kind = "llmMap" THEN "executing" ELSE "claimed",
                       item |-> i, attempt |-> task[i].attempts + 1, child |-> 0]]
    /\ run' = PgRefreshed(run, task')
    /\ Overtake(w)
    /\ UNCHANGED <<kind, handles, children, crashes, stalls>>

PgClaimNothing(w) ==
    /\ tx[w].op = "claim"
    /\ Lockable(w) = {}
    /\ End(w)
    /\ UNCHANGED vars

-----------------------------------------------------------------------------
(* The single-statement updates of a task row wait for its lock.           *)
Unlocked(w) == ~RowLocked(exec[w].item) /\ UNCHANGED tx

PgBootstrap(w) ==
    \/ ReadChild(w) /\ UNCHANGED tx
    \/ assignTaskChildConversation(w) /\ Unlocked(w)
    \/ getTaskBootstrapState(w) /\ UNCHANGED tx
    \/ markBootstrapStarted(w) /\ Unlocked(w)
    \/ AppendBootstrapEvents(w) /\ UNCHANGED tx
    \/ markBootstrapCompleted(w) /\ Unlocked(w)

-----------------------------------------------------------------------------
(* A record: the UPDATE of the task row ...                                *)
PgRecord(w, status, answer, due, next) ==
    /\ exec[w].phase = "executing"
    /\ tx[w] = NoTx
    /\ ~RowLocked(exec[w].item)
    /\ Begin(w, [op |-> "record", next |-> next,
                 row |-> RecordedRow(task[exec[w].item], status, answer, due)])
    /\ UNCHANGED vars

PgRecordSuccess(w) ==
    PgRecord(w, "succeeded", exec[w].attempt, TRUE, [exec[w] EXCEPT !.phase = "recorded"])

PgRecordFailure(w) ==
    PgRecord(w, "failed", exec[w].attempt, TRUE, [exec[w] EXCEPT !.phase = "recorded"])

PgRetryableFailure(w) ==
    /\ HasRetriesRemaining(w)
    /\ PgRecord(w, "retryable_failure", 0, FALSE, Idle)

(* ... refreshRunFromTasks counting the rows it can see: the committed     *)
(* ones and its own ...                                                    *)
Seen(w) == [task EXCEPT ![exec[w].item] = tx[w].row]

PgCount(w) ==
    /\ tx[w].op = "record"
    /\ Begin(w, [op |-> "refresh", next |-> tx[w].next, row |-> tx[w].row,
                 counts |-> Counts(Seen(w)), status |-> PgDerivedStatus(Seen(w))])
    /\ UNCHANGED vars

(* ... and its UPDATE of the run row with those counts, once the run row   *)
(* is free, and COMMIT.                                                    *)
(* Mutant: the transaction commits without its task row. *)
PgRecordCommitMutant(w) ==
    /\ tx[w].op = "refresh"
    /\ run' = [run EXCEPT !.counts = tx[w].counts, !.status = tx[w].status]
    /\ exec' = [exec EXCEPT ![w] = tx[w].next]
    /\ End(w)
    /\ UNCHANGED <<kind, task, handles, children, crashes, stalls>>

PgRecordCommit(w) ==
    /\ tx[w].op = "refresh"
    /\ task' = Seen(w)
    /\ run' = [run EXCEPT !.counts = tx[w].counts, !.status = tx[w].status]
    /\ exec' = [exec EXCEPT ![w] = tx[w].next]
    /\ End(w)
    /\ UNCHANGED <<kind, handles, children, crashes, stalls>>

-----------------------------------------------------------------------------
(* The entries over this store: toStoredTask reads every column of a task  *)
(* but result_json, where recordTaskSuccess put the output, so the entry   *)
(* of a succeeded task has none.                                           *)
PgEntries(t) ==
    [i \in Items |->
        <<t[i].status, IF t[i].status = "succeeded" THEN 0 ELSE t[i].answer>>]

(* FinalizeOperatorRunUseCase.execute, one transaction.  It reads the run  *)
(* and its tasks; an unfinished task makes it throw, a completed run is    *)
(* answered as it is.                                                      *)
PgFinalizeRead(w) ==
    /\ exec[w].phase = "recorded"
    /\ tx[w] = NoTx
    /\ IF AllTerminal(task) /\ Unfinalized(run)
       THEN Begin(w, [op |-> "finalize", entries |-> PgEntries(task)]) /\ UNCHANGED exec
       ELSE Goto(w, "idle") /\ UNCHANGED tx
    /\ UNCHANGED <<kind, task, run, handles, children, crashes, stalls>>

(* The artifact's INSERT waits for an open one of the same content id.     *)
PgStoreArtifact(w) ==
    /\ tx[w].op = "finalize"
    /\ \A v \in Workers : tx[v].op \in {"stored", "advancing"} =>
          tx[v].entries # tx[w].entries
    /\ Begin(w, [tx[w] EXCEPT !.op = "stored"])
    /\ UNCHANGED vars

(* advanceFinalizationStage reads the stage ...                            *)
PgReadStage(w) ==
    /\ tx[w].op = "stored"
    /\ IF Unfinalized(run)
       THEN Begin(w, [tx[w] EXCEPT !.op = "advancing"]) /\ UNCHANGED exec
       ELSE End(w) /\ Goto(w, "idle")
    /\ UNCHANGED <<kind, task, run, handles, children, crashes, stalls>>

(* ... and updates the row whatever the stage has become meanwhile.  What  *)
(* keeps a second finalization out is the ledger: the handle carries the   *)
(* run's idempotency key, and appendEvents refuses the key with another    *)
(* digest, which rolls the transaction back.                               *)
(* Mutant: the handle event carries no key. *)
HandleAcceptedMutant(w) == TRUE

HandleAccepted(w) == handles = <<>>

(* Mutant: finalizeRun keeps the counters it finds. *)
PgFinalizedRunMutant(r, entries) ==
    [r EXCEPT !.status = deriveRunStatus(entries), !.stage = "completed",
              !.artifact = entries, !.needsRetry = FALSE]

PgFinalizedRun(r, entries) ==
    [PgRefreshed(r, task) EXCEPT !.status = deriveRunStatus(entries),
              !.stage = "completed", !.artifact = entries, !.needsRetry = FALSE]

PgFinalizeCommit(w) ==
    /\ tx[w].op = "advancing"
    /\ IF HandleAccepted(w)
       THEN /\ run' = PgFinalizedRun(run, tx[w].entries)
            /\ handles' = Append(handles, [status |-> deriveRunStatus(tx[w].entries),
                                           artifact |-> tx[w].entries])
       ELSE UNCHANGED <<run, handles>>
    /\ Goto(w, "idle")
    /\ End(w)
    /\ UNCHANGED <<kind, task, children, crashes, stalls>>

(* claimRunForFinalizationRetry, the poll loop's second half: it locks     *)
(* nothing, and finds nothing, because no statement sets the flag.         *)
PgFinalizeNextRun(w) ==
    /\ exec[w].phase = "idle"
    /\ tx[w] = NoTx
    /\ PgCandidates(task) = {}
    /\ IF run.needsRetry /\ run.stage # "completed"
       THEN Goto(w, "recorded")
       ELSE UNCHANGED exec
    /\ UNCHANGED <<kind, task, run, handles, children, crashes, stalls, tx>>

-----------------------------------------------------------------------------
(* A crash rolls the open transaction back.  After the step that commits   *)
(* it is the ambiguous commit: committed, and nobody was told.             *)
PgCrash(w) == Crash(w) /\ End(w)

PgWorkerStep(w) ==
    \/ PgClaimSnapshot(w)
    \/ PgClaim(w)
    \/ PgClaimNothing(w)
    \/ PgBootstrap(w)
    \/ PgRecordSuccess(w)
    \/ PgRecordFailure(w)
    \/ PgRetryableFailure(w)
    \/ PgCount(w)
    \/ PgRecordCommit(w)
    \/ PgFinalizeRead(w)
    \/ PgStoreArtifact(w)
    \/ PgReadStage(w)
    \/ PgFinalizeCommit(w)
    \/ PgFinalizeNextRun(w)

PgClockStep(i) == ClockStep(i) /\ UNCHANGED tx

PgNext ==
    \/ \E w \in Workers : PgWorkerStep(w) \/ PgCrash(w)
    \/ \E i \in Items : PgClockStep(i) \/ (LeaseExpiresEarly(i) /\ UNCHANGED tx)

PgSpec == PgInit /\ [][PgNext]_pgVars

-----------------------------------------------------------------------------
(* Properties. *)

(* concurrencyLimit holds for every claim but one that another overtook:   *)
(* a claim leaves more live leases than the limit only if another claim    *)
(* committed between its snapshot and its lock (claimTaskLease's count is  *)
(* a subquery on the snapshot).                                            *)
LimitKeptUnlessOvertaken ==
    [][\A w \in Workers :
         /\ tx[w].op = "claim" /\ ~tx[w].stale
         /\ exec[w].phase = "idle" /\ exec'[w].phase # "idle"
         => Cardinality(LiveLeases(task')) <= ConcurrencyLimit]_pgVars

(* Two records that overlap each count the other's task as running, and    *)
(* the later one leaves the run row wrong.  The finalization counts again: *)
(* while leases outlive executions, a completed run's counters and status  *)
(* are those of its tasks.  The status is the one deriveRunStatus gives,   *)
(* which for a run whose tasks all failed is not the one that the design   *)
(* document wants (completed_with_failures): README, "Disagreements".      *)
SettledRun ==
    stalls = 0 /\ run.stage = "completed" =>
        /\ run.counts = Counts(task)
        /\ run.status = deriveRunStatus(Entries(task))
=============================================================================
