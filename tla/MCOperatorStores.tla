-------------------------- MODULE MCOperatorStores --------------------------
(* The executors over the stores that OperatorExecution does not describe: *)
(* the PostgreSQL store shared by several processes, and the in-memory and *)
(* SQLite stores inside one process.  No deployment mixes them, so the     *)
(* behaviours checked are those of the one or of the other.                *)
EXTENDS PgOperatorExecution, EmbeddedOperatorExecution, TLC

CONSTANTS w1, w2, postgres, embedded

ASSUME DeploymentsAssumption == postgres # embedded

VARIABLE deployment

storesVars == <<vars, tx, backend, round, rounds, upsets, deployment>>

StoresInit ==
    /\ deployment \in {postgres, embedded}
    /\ Init
    /\ tx = [w \in Workers |-> NoTx]
    /\ IF deployment = embedded THEN backend \in Backends ELSE backend = "postgres"
    /\ round = NoRound /\ rounds = 0 /\ upsets = 0

StoresNext ==
    \/ /\ deployment = postgres
       /\ PgNext
       /\ UNCHANGED <<backend, round, rounds, upsets, deployment>>
    \/ /\ deployment = embedded
       /\ EmbNext
       /\ UNCHANGED <<tx, deployment>>

StoresSpec == StoresInit /\ [][StoresNext]_storesVars

(* Every executor goes on, in its store; rounds of compaction end (the     *)
(* summarizer answers); the clock advances.                                *)
StoresStep(w) ==
    \/ deployment = postgres /\ PgWorkerStep(w) /\ UNCHANGED <<backend, round, rounds, upsets, deployment>>
    \/ deployment = embedded /\ EmbWorkerStep(w) /\ UNCHANGED <<tx, deployment>>

StoresClock(i) ==
    \/ deployment = postgres /\ PgClockStep(i) /\ UNCHANGED <<backend, round, rounds, upsets, deployment>>
    \/ deployment = embedded /\ EmbClockStep(i) /\ UNCHANGED <<tx, deployment>>

StoresFairness ==
    /\ \A w \in Workers : WF_storesVars(StoresStep(w))
    /\ \A i \in Items : WF_storesVars(StoresClock(i))
    /\ WF_storesVars(EndRound /\ UNCHANGED <<tx, deployment>>)

Retrying ==
    \/ \E i \in Items : task[i].status = "retryable_failure"
    \/ \E w \in Workers : tx[w].op = "record" /\ tx[w].row.status = "retryable_failure"

(* Bounds of the runs.  An llmMap run may meet a crash, a lease that runs  *)
(* out early and a round of compaction, all of them and in every order.    *)
(* For an agenticMap run, with its longer executions, the safety run has   *)
(* any two of the three and no retries, ...                                *)
BoundedNext ==
    /\ StoresNext
    /\ kind = "agenticMap" =>
          /\ crashes' + stalls' + rounds' <= 2
          /\ ~Retrying'

BoundedSpec == StoresInit /\ [][BoundedNext]_storesVars

(* ... and the liveness run an early expiry alone, or a crash next to a    *)
(* round.                                                                  *)
SettleNext ==
    /\ StoresNext
    /\ kind = "agenticMap" /\ stalls' > 0 => crashes' = 0 /\ rounds' = 0

SettleSpec == StoresInit /\ [][SettleNext]_storesVars /\ StoresFairness

(* The executors of the safety run are interchangeable.                    *)
Interchangeable == Permutations(Workers)

(* No claim takes over a row that another executor holds: an item has one  *)
(* executor, whatever snapshots the claims worked from, until a lease runs *)
(* out early or an overlapping unit of work undoes a claim.                *)
StoresExclusive == upsets = 0 => ExclusiveExecution

(* A completed run's counters and status are those of its tasks, unless an *)
(* overlapping unit of work undid a claim: the executor that had it can    *)
(* then record after the run was finalized without it.                     *)
StoresSettledRun == upsets = 0 => SettledRun

(* Every task ends up terminal for good, whatever was lost or refused and  *)
(* also if a lease runs out and its executor records late, and the run is  *)
(* finalized, unless an executor died or an overlapping unit of work lost  *)
(* or refused work: then nobody is left who knows it is due.               *)
StoresSettle ==
    <>[](/\ AllTerminal(task)
         /\ run.stage = "completed" \/ crashes > 0 \/ upsets > 0)
=============================================================================
