# LedgerMind in TLA+

LedgerMind keeps the memory of conversations with a language model: an append-only ledger of
events, a bounded *active context* that refers to it, a DAG of summaries that replace old parts
of the context, and *operators* that run a prompt or a sub-agent over every item of a dataset.
This directory models the parts of it in which independent actors share state, and the parts whose
one promise several implementations keep: operator runs over four stores, the ledger with its
context and compaction, the memory stores side by side, the read path that fits a context into a
budget, the processes of an agent's host, and the submission of runs.

Operator runs:

    OperatorRun.tla              what a run promises its parent conversation (abstract)
    OperatorExecution.tla        executors, rows, leases, finalization, over SQLite files
    OperatorRefinement.tla       the refinement mapping from the second to the first
    PgOperatorExecution.tla      the same executors over PostgreSQL, statement by statement
    EmbeddedOperatorExecution.tla  ... inside one process, over the in-memory or SQLite preset
    OperatorSubmission.tla       llmMap and agenticMap, overlapping, over the three stores

Memory:

    Transcript.tla               what the active context promises (abstract)
    ConversationMemory.tla       appends, compactions, PostgreSQL's visibility and locks
    Lists.tla                    filter, sort, flat and the elements of a map
    MemoryStore.tla              the in-memory stores
    SqlTables.tla                the tables and queries that both SQL stores share
    SqliteStore.tla, PostgresStore.tla   the SQL stores
    StoreConformance.tla         the same use-case calls on all three
    RetrievalUseCases.tla        grep, describe and expand, over all three
    RetrievalPacking.tla         trimming, retrieval units and packing, as operators
    ContextMaterialization.tla   materializeContext, read by read, while others write
    ContinuityRecords.tla        records, the state folded from them, the recall block
    AgentSessions.tla            hooks, MCP requests and CLI calls over two shared files

Proofs:

    FoldTheorems.tla             induction over the naturals, recursion, what a fold keeps
    ListTheorems.tla             lists: filter, stable sort, rows by a column, concatenation
    OperatorProofs.tla           operator runs: types, limit, exclusion, finality, handle, run row,
                                 refinement, attempt budget, child conversations; what survives over
                                 PostgreSQL and next to compaction rounds; submission
    ConversationMemoryProofs.tla types, the transcript, losslessness, order, DAG, pins, batches
    AgentSessionsProofs.tla      bindings, checkpoints, the state folded from a conversation's records
    RetrievalPackingProofs.tla   what trimming, filling, displacing and coalescing do to lists of units
    ContextMaterializationProofs.tla  what an answer gives, and when a read fails, while others write
    RetrievalUseCasesProofs.tla  the three stores keep one ledger, and grep's pages show all of it

Besides, `MC*.tla` and `*.cfg` are the instances for TLC, and `PROJECT.json` has the components,
runs, mutants, source map, hazards and theorems.

Run `tlc -config operator_execution.cfg MCOperatorExecution`, and likewise for the other
configurations; check the proofs with `tlapm OperatorProofs.tla` and so on.

## 1. Inventory of the system

Paths are relative to `src/packages/` unless they begin with `src/`.

| Component | State it keeps | Operations | What is hard |
|---|---|---|---|
| Operator executors (`application/src/use-cases/execute-operator-task.ts`, `src/apps/operator-worker`) | none between calls; one claim per call | claim a lease, ensure and bootstrap a child conversation (agenticMap), execute, record, retry, finalize | several processes poll one store; a model call may outlast its lease; a process may die between any two transactions |
| Finalization (`finalize-operator-run.ts`) | the run's `finalization_stage` | derive the status, write the artifact, append the handle, complete | raced by every executor that records a last item |
| Operator stores (SQLite, PostgreSQL, in-memory) | `operator_runs`, `operator_tasks` | create, claim, record, child assignment, bootstrap state, finalization claims | denormalised counters; the limit and the lease expiry are conditions of one statement, on a snapshot in PostgreSQL; a store call inside another chain's open unit of work |
| Submission (`llm-map.ts`, `agentic-map.ts`) | none | create the run and its tasks, or return the one with the same key | resubmission while the first is still open |
| Append (`append-ledger-events.ts`) | none | idempotency check, sequence numbers, ledger and context rows, soft threshold | the check and a token count are read before the conversation row is locked |
| Compaction (`run-compaction.ts`, `domain/src/services/compaction-policy.service.ts`) | none between calls | read a snapshot, choose a block, summarize, write a node with edges, replace the block, retry when stale | the summarizer runs for seconds between the read and the write; optimistic versions; two reads on two connections |
| Ledger, context and DAG stores (PostgreSQL, SQLite, in-memory) | `ledger_events`, `context_items`, `context_versions`, `summary_nodes`, edges | append, token count, snapshot, replace, nodes, edges, expansion | READ COMMITTED queries see different states within one transaction; content-addressed ids repeat |
| Units of work (`pg-unit-of-work.ts` and `transaction.ts`, SQLite, in-memory) | an open transaction, or a clone of the state | begin, commit, roll back, retry | ambiguous commits; overlapping units on one connection or one map |
| Materialization and retrieval (`materialize-context.ts`, `grep.ts`, `describe.ts`, `expand.ts`) | none | budgeted selection, search, expansion | several reads of a store that others write; five kinds of units compete for one budget; three stores answer the same search |
| Continuity (`record-continuity.ts`, ..., `recall-for-task.ts`) | ledger events with metadata | record, mark, hand off, fold into a current state | a hand-off is several transactions that a retried hook repeats |
| Artifacts and explorers | artifact rows | store, explore | none that interleaves |
| Session bindings (`mcp-server/src`) | a JSON file | resolve or create a conversation for a session | read, truncate and write of a file by several processes, no lock |
| Transcript checkpoints (`claude-code/src`) | a file per session | append new transcript lines, save the checkpoint | two writes, a file that is read while it is written |
| Job queue (`adapters/src/jobs`) | a list of handlers | enqueue | errors are swallowed |
| Adapters, tool schemas, SDK, CLI, migrations, benchmarks | none of their own | | |

They interact as follows. An operator's submission writes rows; workers claim them; an executor
uses the append path to bootstrap a child conversation and finalization uses it to put one handle
into the parent's ledger. Appends and compactions meet in the conversation row's lock and in
`context_versions.version`; an append that crosses the soft threshold enqueues a job. Materializing
may run a hard compaction. Everything above reads the ledger by expansion through the DAG. Hooks,
MCP requests and the CLI find the conversation of their session in a file of bindings before they
append, record or read.

What makes them correct:

* operator runs: never more live leases than the limit; no item executed twice at once; a
  terminal outcome stays; the run row always describes the task rows; one artifact and one
  handle, with the outcomes that were recorded; retries bounded; every item settles;
* memory: no event is lost from, repeated in or moved within what the context stands for; a call
  with an idempotency key is stored once or not at all; the DAG is acyclic and well-kinded; a
  stale compaction changes nothing; a compaction ends; pinned items stay;
* stores: every sequence of calls leaves the three of them with the same answers;
* reading: an answer fits its budget, shows nothing twice, keeps pins, and says what it left out;
* sessions: one conversation per session, every archived line once, a handoff that is recalled.

The complete list of components, with the source files and what is left out of each, and the list
of hazards with the property that covers each, are in `PROJECT.json`.

## 2. Operator execution

### Model and code

`OperatorExecution` has one run with `N` items. `task[i]` is the `operator_tasks` row (`attempts`
is `attempt_count`, `lease` compares `lease_expires_at` with the clock, `retryDue` compares
`next_retry_at` with it, `answer` stands for the output and names the attempt that produced it),
`run` the `operator_runs` row, `handles` the handle events in the parent's ledger, `children` the child
conversations with the number of bootstrap batches each received, `exec[w]` what executor `w`
holds in its local variables between two awaits. Executors are separate processes with an SQLite connection
each. Every store call and every unit of work is one SQLite transaction, so one action.

| Action | Code |
|---|---|
| `claimTaskLease` | `SqliteOperatorExecutionStore.claimTaskLease`, with its candidate conditions (pending, due retry, expired running; limit) and `refreshRunFromTasks` |
| `ReadChild`, `assignTaskChildConversation` | `ensureChildConversation`: the read outside, the creation inside a unit of work that adopts an existing child |
| `getTaskBootstrapState`, `markBootstrapStarted`, `AppendBootstrapEvents`, `markBootstrapCompleted` | `bootstrapChildConversation`, four transactions |
| `recordTaskSuccess`, `recordTaskFailure`, `markTaskRetryableFailure` | the outcome, and the choice between retry and failure; the row is named by task id alone |
| `finalizeRunIfReady`, `finalizeNextRun` | `FinalizeOperatorRunUseCase.execute`, from the executor that recorded or from the poll |
| `Crash` | process death, or any error that escapes `execute` |
| `LeaseExpires`, `LeaseExpiresEarly`, `BackoffElapses` | the clock; a lease expires *early* when its holder is still working |

### Runs

`operator_execution` (two executors, two items, both kinds, limit 1, one retry, one crash, one
lease that expires under a working executor; 159,820 states) checks every invariant, that terminal
rows are final, that every item settles whatever dies (`TasksSettle`), and that a run without a
crash is finalized. Two executors and two items are the smallest instance in which a stale
executor, its successor and a finalization of the other item interleave; one crash and one
stall each suffice to break any property that a second would break, since a row remembers
nothing of how its former holders were lost. The limit of 1 makes the executors compete for it.

The run also checks `ImplementsOperatorRun`: the execution implements `OperatorRun`, where each item
gets an outcome and the outcomes that the items have when all are settled are published once, with
one handle. The abstract run counts the executions that outlived their leases (`Outlive`): before
the first of them an outcome is for good, and after it outcomes may be replaced (`Replace`), which
is what records that name only the task id do. What status summarises a run whose items all failed
is left open there, because the design document and the code disagree about it (see Disagreements).

`FirstTerminalTransitionWins`, `RunIsFinalized` and `BootstrapAppendedOnce` are statements of the design document
`src/docs/superpowers/specs/2026-04-13-operator-level-recursion-design.md` that the code does not
keep; `operator_stale_record`, `operator_lost_finalization` and `operator_double_bootstrap` each
find a behaviour that breaks one:

* a record names only the task id, so an executor whose lease ran out replaces the outcome that
  its successor recorded (hence the guard `stalls = 0` in `LeaseAgreement`, `ExclusiveExecution`,
  `ArtifactIsFinal` and `TerminalIsFinal`: those hold as long as leases outlive executions);
* nothing ever sets `needs_finalization_retry`, so a process that dies between the last record
  and the finalization leaves a settled run unfinalized for ever;
* the bootstrap append has no idempotency key, so it is repeated after a crash.

### Fairness

`FairSpec` gives weak fairness to each executor's own steps: a worker that is not crashed polls
again after each iteration (`poll-loop.ts`), SQLite answers (a busy timeout is set), and a model
call returns because execution is under a timeout. `Crash` and `LeaseExpiresEarly` have none. The clock
is fair: a lease whose holder is gone expires and a backoff elapses. A dead executor's process
is restarted and polls again; `Crash` returns it to `idle`.

### Proofs

The theorems hold for every finite set of executors, every number of items, retries, crashes and
stalls, every positive limit and both kinds, from the assumptions named in `OperatorExecution`.

* `TypeCorrect` (`OperatorProofs`): `TypeOK` is inductive as it stands, because it
  contains that a task's and an executor's child have been created.
* `StepKinds` classifies every step once: a claim, a step that writes
  bootstrap columns only, a record, the clock, a finalization, or none of the rows. The later
  proofs argue by these kinds instead of by the sixteen actions.
* `LeaseLimitHolds`: every kind but a claim keeps or shrinks the set of live leases; a claim
  adds one row, and was below the limit (`OneMore`).
* `ExclusiveHolds`: `LeaseAgreement` is the strengthening. Exclusiveness alone is not inductive: that the
  claimed row is not somebody's follows from that an executor's row has a live lease, and a claim asks
  for a row without one.
* `TerminalIsFinalHolds`: from `LeaseAgreement`, no executor is working on a terminal row.
* `OneHandleHolds`: inductive with `TypeOK`, because the finalization checks the stage in its transaction.
* `ArtifactIsFinalHolds`: strengthened by `Settled`, that a completed run's tasks are terminal
  and the artifact was made from them.
* `RunMirrorsTasksHolds`: every writer of a status ends in `refreshRunFromTasks`; the lemma
  `RefreshMirrors` is about that operator, the rest shows that other steps change no status.
* `RefinementHolds`: a record is `Settle`, or `Replace` when a lease has run out under its executor, the
  early expiry is `Outlive`, a finalization is `Publish`, and the rest stutters; it needs `Exclusive`,
  `OneHandle` and `Unpublished` (no artifact before completion).
* `LeaseAgreementHolds`: the first half of `ExclusiveHolds` by itself.
* `ChildAgreementHolds`, `BootstrapBeforeExecutionHolds`: the inductive
  invariant is `Bootstrapped`, `ChildAgreement` with `BootstrapKept`. An executor reads "completed"
  and starts later, so what it relies on must stay: a task's child is assigned once,
  a child's batches only grow, and a bootstrap is marked complete only after an
  executor appended to the task's own child. A stale executor uses that same child, which is what
  `ChildAgreement` contributes.
* `AttemptBudgetHolds`: whether a retry is left is judged by the
  executor's own attempt number, so a stale executor may put a task back that its successor is
  still working on. The proof counts what may still be claimed: `Potential` of an item is the
  claims made (at least `MaxRetries`), one if the row can be claimed now or when the clock has
  advanced, and one for each executor under way that could still ask for a retry. Only a crash
  or a lease that runs out early adds to it, and by one (`Budgeted`).

Only model-checked: the two liveness properties.

### Other stores

`OperatorExecution` makes each store call atomic, which is right for processes on one SQLite file.
Two modules replace the store and keep the executor.

`PgOperatorExecution`: the store calls are READ COMMITTED transactions of several statements.
`tx[w]` is what executor `w`'s open transaction has read or written; `task` and `run` are what
is committed. A claim is a snapshot (`PgClaimSnapshot`, with the candidates and the count of live
leases) and a lock (`PgClaim`): `FOR UPDATE SKIP LOCKED` passes over rows that an uncommitted
record has locked, and checks the row's own conditions again on its latest version, but not the
count. `Overtake` marks the open claims that another claim made old. A record is the UPDATE of
the task row, `PgCount` (the counts of the committed rows and its own) and the UPDATE of the run
row with COMMIT. A finalization has four steps, and reads the stage before the UPDATE
that does not look at it: what makes it single is the ledger's idempotency key on the handle. The entries
of its artifact have no output of a succeeded item (`PgEntries`): the store never reads the column it writes it to.
`PgCrash` rolls back; after the committing step it is a commit whose answer was lost. The run row's
lock is taken and released inside one step, because nothing is waited for while it is held. A run row
that another transaction has locked makes SKIP LOCKED find nothing, which is a later poll here.

`EmbeddedOperatorExecution`: executors and a compaction are call chains on one thread, and the
compaction holds a unit of work open while its summarizer answers (`BeginRound`, `EndRound`). In
memory that unit of work is a copy which overwrites everything at its commit. In SQLite it is
the transaction of the only connection: a second unit of work is refused (`EmbUowFails`), a
single store call becomes a savepoint of it and is lost with it. `upsets` counts refusals
and rounds that ended by losing another chain's writes. Nobody renews a lease here either: while a chain waits for
its model or sub-agent its lease can run out (`EmbLeaseExpiresEarly`) and another chain of the process
takes the item over. The clock that makes a lease expired in a row makes it expired in the row's copy (`Aged`), as
long as both are under the same claim.

`MCOperatorStores` runs one or the other. `operator_stores` (two executors, two items, both
kinds, limit 1, one retry, one crash, one lease that runs out under its executor, one round, one refusal; both
embedded backends; executors are symmetric; 1,800,955 states) checks the safety properties. For `llmMap` all of that
may happen in one behaviour; for `agenticMap`, whose executions have many more steps, any two of crash, early expiry and
round, and no retry, which goes through the same claim and record (`BoundedNext`). Checked:

* `StoresSettledRun`: overlapping records leave the run row with counts that miss each other's task
  until the finalization counts again; a completed run's row is right, unless an overlapping unit of
  work undid a claim, whose executor may then record after a finalization that did not know of it.
* `StoresExclusive`, `OneHandle`: no item has two executors while nothing was upset; one handle always.
* `LossesArePaidFor`: work undone by an overlapping unit of work is done again, and no more than that.
* `EmbLeaseLimit`, `LimitKeptUnlessOvertaken`: in one process the live leases stay within the limit,
  whatever rounds restore and undo. The in-memory store takes expired leases over without counting, but
  claims another task only when none is expired, and then all running ones count; SQLite's claims count. In
  PostgreSQL only a claim that another overtook exceeds the limit.

`operator_settle` checks `StoresSettle` in the same deployments (551,546 states): every item settles for good, also
when a stale executor records next to its successor, and the run is finalized unless an executor died or
was upset. Retries are 0 there; with the crash, the early expiry and the refusal there are still three further
claims of an item. For `agenticMap` an early expiry does not meet a crash or a round (`SettleNext`). The fairness is that of
`FairSpec` over the respective store, and that an open round ends, because the summarizer returns.

`OperatorProofs` proves over PostgreSQL, for all constants: `PgTypeCorrect`;
`PgLimitHolds`, by `SnapshotCount` (as long as a claim is not overtaken, every other step keeps
or shrinks the live leases it counted); `PgExclusiveHolds`, where `LeaseAgreement` is again the
strengthening and the second look at the row is what makes the claim safe; `PgOneHandleHolds`;
and `SettledRunHolds`, by `Sealed` (a finalization under way read only terminal rows, which no
step changes). `PgStepKinds` reduces the steps to those that are steps of `OperatorExecution`
(whose lemmas are reused), those that change no row, and three commits.

It proves the rest, for the embedded stores and for all deployments together, from `BackendsAssumption` (the presets are `memory` and `sqlite`) and `DeploymentsAssumption` (the
names of the deployments differ). A round's image is typed like the tables, and equals them
as long as nobody else wrote (`RoundFaithful`, in `EmbTypeCorrect`); so ending a
round is one of two things, no change or the restoring of an older image, and each invariant is shown
for the tables *and* for the image: `EmbWithin` for the limit, `EmbExclusive` while nothing is
upset, `EmbHandled` for the one handle, `EmbSettled` for the run row. The budget (`LossesArePaidFor`)
is `Potential` again, where an upset pays for what it undoes (`EmbBudgeted`); over
PostgreSQL it is about rows and open transactions at once, a record counting from its decision
although it takes effect at its commit (`PgAttemptBudgetHolds`). `StoresInvariant` joins both
sides; `StoresExclusiveHolds`, `StoresSettledRunHolds`, `StoresOneHandleHolds`, `StoresLossesHold`,
`StoresLimitHolds` and `StoresOvertakenHolds` follow for `StoresSpec`, without the bounds that `BoundedNext` adds, and with
leases that run out under their executors in every deployment. Only
`StoresSettle`, a liveness property, is left to TLC.

## 3. Conversation memory

### Model and code

`ConversationMemory` has one conversation. `ledger` is `ledger_events` by sequence number (an
event is its idempotency key, payload identity, token count, whether its role is system, and
whether it is in the context), `context` and `version` are `context_items` and
`context_versions.version`, `nodes` the summary nodes with both kinds of edges. A summary's text
is its token count and whether it repeats an older node's text: the id is the hash of
conversation, kind and content, so a repeated text *is* the older node. `compactor[c]` holds a
compaction's local variables, `client[c]` an append's.

The transactions are READ COMMITTED, and the actions are cut where a statement can see what
another transaction committed meanwhile:

| Action | Code |
|---|---|
| `CheckIdempotency` | the ledger read through the pool and the token count, before the lock |
| `appendEvents`, `DuplicateFails` | from `getNextSequence` (`FOR UPDATE` on the conversation) to the commit; a key that was committed in the meantime makes the transaction fail |
| `AppendHandle` | `FinalizeOperatorRunUseCase` appends to the ledger and not to the context |
| `getCurrentContext`, `getEvents` | the two concurrent reads of `resolveContextSnapshot`, in either order |
| `UnknownMessage` | the snapshot names an event the ledger read did not see |
| `createNode` | candidate selection, the summarizer's answer, node and edges, and `replaceContextItems`' comparison of versions |
| `RereadItems` | its second read and range check |
| `replaceContextItems` | the compare-and-swap, the new token count, the commit |
| `Return` | the loop's exits |

A compaction that inserted a new node holds `FOR KEY SHARE` on the conversation by the node's foreign key,
so appends wait for it (`Locked`); `ON CONFLICT DO NOTHING` on an existing node locks nothing. An abort undoes the
node and edges, so they become visible with the commit. Two compactions exclude each other only by the version.

`Transcript` is the abstract specification: the context is a list of blocks of events; recording
adds single events at the end, condensing joins neighbours. The mapping is `View`, each item
expanded through the DAG. `Scope`, what a node covers, is the least set that is closed under parent edges, as the
recursive query computes it; `Replaced` puts the summary in the place of its block, whose items are neighbours.

### Runs

`conversation_memory` (two clients, two compactions, a batch of two under a key, a different call
under the same key, a system message, one handle, one repeated summary text, minimum block sizes
1 and 2, summaries of one or two tokens; clients and compactions are symmetric; 713,778 states). Blocks of
messages, of a summary and messages (a leaf over the expansion) and of summaries (condensed),
stale retries, failed convergence, unknown messages, and refused edges all occur within these
bounds: four events are the fewest that leave something to condense behind a pinned tail after a
first round. Checked:

* `Lossless`, `InOrder`, `ImplementsTranscript`: what the context stands for. `InOrder` and the
  refinement stop at a repeated summary text: the old node's edges then grow, and an item that refers to it
  covers more than it did; `Lossless` holds even then.
* `SnapshotAgreement`: a compaction whose version is current has the current items; this is why
  positions may be replaced after seconds of summarizing.
* `DagSound`: the checks of `CheckIntegrityUseCase`, with repeated texts.
* `OneBatchPerKey`, `PinnedStay`.

`compaction_liveness` (one client, two compactions; 39,385 states) checks `CompactionEnds`: a compaction returns
or fails. Fairness is on each compaction's own steps: the database answers and the summarizer
returns. Nothing is assumed of clients. The default of ten rounds is cut to two.

Three runs find behaviours that contradict the code's own messages or the documents:

* `memory_unknown_message`: an append that commits between the ledger read and the context read
  makes the compaction throw "Context references unknown message"; the error is not retried;
* `memory_out_of_range`: a compaction that commits between another's version comparison and its
  second read makes the other throw an `InvariantViolationError`, where `StaleContextError` and
  a retry are documented;
* `memory_unscheduled`: a token count read before a compaction commits hides that the append
  crosses the soft threshold, and no job is enqueued.

Two more disagreements with the documents are part of the model and listed without a run: a
result handle enters the parent's ledger but never its active context (`AppendHandle`), and a
concurrent duplicate of a call fails where a no-op is documented (`DuplicateFails`).

### Proofs

`ConversationMemoryProofs` proves for every set of clients, requests and compactions:

* `SnapshotAgreementHolds`. The inductive `SnapshotInv` adds that no compaction's snapshot is
  newer than the context: a step that changes the items takes the version past every snapshot,
  so that none becomes current by accident.
* `OneBatchPerKeyHolds`. `OneBatchPerKey` looks at each event; inductive is `BatchInv`, in which the batches
  are whole (`BatchesWhole`): the events under one key are one client's request, in one piece. The
  append decides after it has the lock, so its earlier look at the ledger is not needed.
* `MemoryTypeCorrect`: `MemoryTypeOK` is inductive, as a node's edges lead to nodes there are. A token
  count is a sum over the context (`CountType`), a natural number by `TotalType`.
* `LosslessHolds`, `InOrderHolds`, `DagSoundHolds`, `PinnedStayHolds` and `TranscriptImplemented`, from one
  invariant, `TranscriptInv`. Its centre is `PlansHold`: a compaction whose version is still current
  will commit a block of unpinned neighbours of the *present* context, with a node that stands for
  them and edges that close no cycle (`Plan`). What it chose from an old snapshot is thereby
  right at its commit, because `SnapshotInv` says that a current version means current items, and appends,
  which do not change the version, only add behind. A replacement with a new summary joins neighbours in `View`
  (`Transcript`'s condensing); one with a repeated text lets `Scope` of an older node grow, which
  loses nothing and keeps the DAG acyclic, but ends `InOrder` and the refinement, as they state.

Induction and recursion come from `FoldTheorems`. The library's induction theorems take an operator as
parameter of the theorem; here the step of a fold, `Op`, and its invariant, `Inv`, are constants of the
module, and an `INSTANCE` gives them their values. `Induction` takes as hypothesis that a set of naturals has
a least member, which `LeastNatural` of `ListTheorems` derives from the well-foundedness of the naturals;
`Recursion` says that what is defined step by step along a rank
exists. A fold of the community modules is a `CHOOSE` of such a function, so its value is then known:
`FoldKeeps` and `SetFoldKeeps` say that it satisfies what its steps keep. The operators of `Lists` are such
folds, and `ListTheorems` says once what they return: `ThoseAre` (a filter keeps the order), `RearrangedAre`
(a stable sort is a permutation), `OrderedByIs` (the rows of a table by a column, each at the place that the number of
smaller ones gives it), `ConcatAre`.

Only model-checked: `CompactionEnds`, a liveness property.

## 4. Stores, reading, sessions, submission

These are four scenarios of one run, `agent_memory`: they share no state, and `MCAgentMemory`
starts in one of them and stays there. 286,474 states; interchangeable callers and clients are
symmetric. All its properties are safety properties: the calls are those of a client who
may stop at any time, which is also why the run does not check for deadlock.

### The stores side by side (`stores`)

`MemoryStore`, `SqliteStore` and `PostgresStore` translate the conversation, ledger, context, DAG and artifact
stores as operators from a state to a state, an error and an answer, each with its own
representation: maps and arrays against rows, positions against indices, edges as rows with an
ordinal. `StoreConformance` makes each call of a use case on all three as one unit of work,
which is undone if it throws: a conversation, an append, an append whose key another has used
meanwhile, a compaction round with a current or a stale version, an artifact with its
exploration, a later exploration. Calls are sequential; overlapping ones are the subject of
`ConversationMemory` and `EmbeddedOperatorExecution`.

`StoresAlike` says that the stores refuse and answer alike and that afterwards every read (ranges, both
searches, grep, expansion, describe, context, token count, ancestors, integrity checks) agrees. Two
differences are stated where they are: the SQL stores leave stop words out and PostgreSQL asks
for all words of a query (`SearchesAgree`), and PostgreSQL walks the scope of a summary search to
the condensing summaries (`Isolated`). `PagesComplete`: following `nextOffset` gives every match of a grep once.
Bounds: two conversations (one may be the other's child), three events, two summaries, so that a
summary of a summary exists, one artifact.

`RetrievalUseCasesProofs` proves `PagesComplete` (`PagesAlwaysComplete`) for every finite set of conversations, every set of
batches, words and keys, and any `MaxEvents`, from `StoresAssumption` (a batch has a list of texts).

* The invariant is `LedgersAlike` (`LedgersStayAlike`): the tables of SQLite and of PostgreSQL have one row for each
  event of the in-memory arrays and no other, with its number, id and text (`Mirrors`), and the arrays
  number their events without a gap (`Ledger`). `PagesComplete` does not suffice by itself: that an append puts a row where the
  array puts an event needs that `MAX(seq) + 1` is the length of the array (`NextSeqIs`), that no row has the
  new id (`Unseen`), and that no row has the key of the batch (`KeyUnseen`).
* The stores append differently. In memory an event is pushed at a time, in SQLite a row, with lookups that see the
  rows before it; PostgreSQL prepares all rows from what was stored before the batch and inserts them at once. Each
  is a fold with an invariant of its own (`TakenUpto`, `LiteUpto`, `PgUpto`) that ends in the same ledger
  (`MemAppends`, `LiteAppends`, `PgAppends`).
* All other calls keep the ledger whether they are refused or not, and so does a unit of work that is
  rolled back between its steps (`ListsThrough`, `KeptThrough`).
* A page of any of the three is a stretch of the matches that begins at its offset (`PageOf`, `GrepsArePages`): what is
  filtered from the array is what `ORDER BY seq` makes of the rows (`MatchesAre`). PostgreSQL's total is 0 on an empty page,
  but a page that says `hasMore` is followed by one that is not empty, and so `RestFollows` and `FollowedIs`,
  by recursion from the last offset down, give all matches in sequence.

### Materialization (`read`)

`ContextMaterialization` has the reads of `MaterializeContextUseCase` as steps (context, events,
searches per hint, in the order of the code), and between any two of them an append or a
compaction by others. `RetrievalPacking` has the rest as operators: trimming the context to the
budget, staging of matches, ranking, the bridge summary and its compression, runs of messages (a hint with an
empty query searches nothing, but its scope is looked at all the same),
coalescing over hints, packing and displacement. Texts are sets of words, a summary's retrieval text a
sequence of facts, and tokens the sums of parts.

`BudgetHonoured`, `LeftOutIsReported` (nothing twice, pins kept, what is missing is counted) and
`ReadFailsOnlyIfOvertaken`. The one exception to the budget, a bridge that was compressed again for
another run of messages, is part of the model (`recompressed`). The seven reads in `MCReads` are the smallest found
that reach each branch: a fit, trimming, a pin, an unsearchable scope, an empty query, two hints, a foreign
artifact, displacement with recompression. Two changes suffice to put the context ahead of, or behind, the
events. A context window smaller than the budget is left out: the code then only lowers the budget.

`RetrievalPackingProofs` and `ContextMaterializationProofs` prove the three for every conversation, every
request, any reserve and fact sizes, and any number of appends and compactions between the queries.
`MaterializeAssumption` asks that texts are finite sets of words, that budgets, token counts and block lengths
are natural numbers and that a request has a list of hints: `tokenBudget` and `TokenCount` are validated
as such. What the proofs say of `StableSort` holds of every way to sort: they only use that
the sorted list has the elements of the other, each in one place (`Drawn`).

* Units. In a packed context (`IsPacked`) no two units share a message (`Apart`), the pins are there, and `used`
  is the sum of the tokens; this is what filling up keeps unit by unit and displacement
  bridge by bridge (`PackWithBridgesIs`). A swap keeps the budget because the victim was chosen by what the
  swap would use; a second compression in place is the one way past that, and sets `recompressed`.
* Contenders. A hint adds runs of messages that nobody selected before (`selected` only grows, and
  starts with the messages of the base), so that runs are `Apart` and apart from the base. Coalescing
  joins runs of one hint and keeps this (`JoinTouchingIs`, `CoalesceIs`).
* Counts. What is missing from an answer was trimmed or is a unit that is not kept, and a unit counts as kept if
  one with the same messages and summaries is, so that the reported counts cover what is missing.
* The inductive invariant `ReadInv`. The tables are sound at every moment (`TablesSound`: sequence numbers
  without gaps, positions without gaps, references to rows that exist), which appends and
  compactions keep statement by statement (`AppendStep`, `CompactedIs`). The read's snapshot, base and search
  results are sound relative to the tables as they are *now* (`SnapshotSound`, `BaseSound`, `FoundSound`), because rows
  are never taken back (`Grown`); unless it was overtaken, the snapshot equals the tables, and then every message it names
  is among the events it read. TLC checked the invariant on the run's instance before it was proved.

### Sessions and continuity (`sessions`)

`AgentSessions` has the processes: PreCompact, Stop and PostToolUse hooks, MCP requests that
record or mark, CLI calls. Each resolves its session (find, parent, create, read, truncate,
write), then does its work step by step. Transcripts grow while hooks read them and may end in half a
line. A process may be killed before any step. `ContinuityRecords` has the records, the state that is folded from
them, next steps and the recall block with its rounds of trimming.

A batch is a set of events: its lines stand in the order of the transcript. What line `i` of a session says is
`Text(i)`, which a cast gives, so that a session may repeat itself; `Digest` of a batch has the texts of its lines in
their order and not where they stand, and this is what the key of PreCompact and the comparison with an earlier batch
go by. `SessionsAssumption` says that parents are sessions and that casts are made of sessions.

`ArchivedExactlyOnce` asks that *what* a counted line says is in the ledger: of lines that say the same, a later one is
taken for a replay of the earlier one and dropped (see Disagreements), so it cannot ask for the line itself.
`ArchivedExactlyOnce`, `BindingStable` and `HandoffRecalled` name the mishaps they except,
which `mishaps` remembers: a torn line that was counted, a hook that died between append and
checkpoint or overlapped with another, two processes that both found no binding. Everything
else (retries, crashes elsewhere, other sessions) may not break them. `CurrentStateIsReplay`: the
fold of `GetCurrentState` is what a replay of the ledger leaves. The seven casts of `MCCasts` bound
who takes part: two processes at a time, up to three calls, two lines, one crash; in the second of them the
two lines say the same.

`AgentSessionsProofs` proves, for all sessions, processes and casts:

* `BindingStableHolds`. The file is not always there to be read: between a truncation and a write it
  is torn, and after an unlucky pair of writers it stays so. The proof carries what the bindings *should* be,
  a set `B` that is quantified (`BindingInv`): the file has them or is torn by the one process that
  is about to write them back with a row of its own (`FileHolds`), two processes on their way to the file have different
  sessions and conversations (`PathsApart`), and what was archived for a session is in its conversation.
* `ArchivedExactlyOnceHolds`, two invariants. `CoverInv`: a checkpoint, read, noted or under way, only counts
  lines that say what the ledger has, that were torn, or that are no messages (`Covered`); it holds through every
  mishap. An append leaves a batch with the digest of the one it was asked to append, and a batch with the same digest
  says the same (`SaidBy`), whether it was appended or found.
  `CheckpointInv`, until a mishap: marks only move up, and a line beyond its mark is in the
  ledger only if the one process that appended it still `Keeps` it for its checkpoint.

It also proves `CurrentStateIsReplayHolds`: the code looks at all records at once, a bucket per
kind ordered by a rank (`Places`, `BucketHolds`), and asks of each whether a later one hides it; a replay looks at them
batch by batch. They agree because a batch with a record is that one record (`RecordsInv`), so that a record's place in the
ledger is its own (`RecordsStand`), and what the first `k` batches leave is `ActiveUpto` (`ReplayStep`, then
`FoldKeeps`, for the fold `Ledger`).

`HandoffRecalled` is only model-checked, and could not be proved for every cast: it is about casts whose
next steps fit the ten that `NextSteps` returns, and whose recall block fits its budget.

### Submission (`submission`)

`OperatorSubmission` has `llmMap` and `agenticMap` in their one unit of work, cut where another client's can
overlap: PostgreSQL shows what is committed and makes an insert of the same unique key wait,
SQLite refuses the second unit of work, in memory each works on a copy. `SubmissionAnswered`:
an answered client can rely on the run, and a resubmission gets it or a conflict, unless an
in-memory commit replaced one it had not seen (`lost`). Two clients, three submissions, seven
requests: one key for two inputs, an input with and without a key, inline or as an artifact, an empty
dataset, an unknown conversation.

`SubmissionAnsweredHolds` (`OperatorProofs`), for all clients and requests: a unit of work keeps a
sound copy of what it has seen (`OpenSound`, per engine), two that are open do not hold rows of one
key (`Apart`: SQLite has one, PostgreSQL makes the second insert wait, in memory a commit over an unseen one is `lost`), and so what
an answer named is still there after any commit (`SubmissionInvariant`).

### Disagreements

Met while translating these parts, visible in the model at the definition named, and listed under
`findings` in `PROJECT.json` with the line of the code and the document (no run is set against them):

* a run that is finalized after all its items failed is `failed`, where the design document wants
  `completed_with_failures` and keeps `failed` for runs that could not be finalized (`deriveRunStatus`); `StoresSettledRun`
  states the rule of the code, `OperatorRun` allows both;
* a run's terminal status is set with the record of its last item, before there is an artifact, where the
  document leaves it to the finalization (`refreshRunFromTasks`); `RunMirrorsTasks` states the rule of the code;
* over PostgreSQL the finalized entries of succeeded items have no output (`PgEntries`);
* PreCompact's key has what the lines say but not where they stand: lines that repeat an earlier batch are
  dropped as a replay, and the checkpoint moves past them (`Digest`);
* an overtaken PostgreSQL claim may exceed the limit (`PgClaim`);
* a run becomes `completed_with_failures` while items wait (`PgDerivedStatus`, `MemDerivedStatus`);
* a session that no CLI bound gets a conversation id that no store has (`CreateBinding`), and the
  three runtimes' names keep their sessions apart;
* a torn last line is counted as read (`ParseTranscript`), and Stop's idempotency key does not
  depend on the lines (`AppendTranscript`);
* a recall that six rounds of trimming do not fit drops constraints and decisions too (`RecallBlock`);
* a bridge may exceed the budget (`recompressed`);
* PostgreSQL's summary search walks a scope upwards (`PgSearchSummaries`);
* a summary that names another conversation's artifact cannot be materialized (`UnknownArtifact`);
* the loser of two PostgreSQL submissions gets a database error, a run's id does not depend on its
  key, and an empty run's output is not attached (`InsertRun`, `RunId`, `StoreOutput`).

## 5. Limits

* Out of the prover's reach, and only model-checked: liveness (`StoresSettle`, `CompactionEnds` and the two of
  operator execution). Not proved, and only model-checked: `StoresAlike` and `HandoffRecalled`.
* SQLite transactions are atomic in the models. Executors in one process and a compaction's unit of
  work are interleaved; two compactions in one process are not.
* Token counts are small numbers and budgets are constants; convergence of hard compactions under
  the default fractions is not stated.
* A text is a set of words, and a regular expression one word.

## 6. Not modelled

* `getOperatorRun` and the worker's wake-up hint: a read, and a timer that only shortens a poll.
* A PostgreSQL transaction's retry: after a rollback by the database the closure runs again over
  variables that its first run has set. The models let the call be made again instead.
* The job queue: an enqueue calls its handlers, and none is registered outside of tests.
* Tool adapters, SDK, CLI parsing and printing: wiring without state. Tokenizers, language-model and
  authorization adapters: their answers are choices or constants here. Explorers: text in, text out.
* Migrations: the tables, keys and foreign keys are in the models; the triggers that keep the
  full-text mirrors are taken to be exact.
* Which tools the MCP server exposes, redaction, artifact indexing, and the text that hooks inject.
* Benchmarks, examples and tests.

## 7. Plan

In this order:

1. The proof of `StoresAlike`: a relation like `Mirrors` for the nodes, edges, items and versions
   beside that for the ledger, which every call keeps.
2. `ContextBudget`: token budget, candidate selection and convergence of repeated rounds as
   operators over bounded contexts, against a reference definition.
3. PostgreSQL's transaction retries with ambiguous commits, against an abstract unit of work that is
   atomic and durable.
