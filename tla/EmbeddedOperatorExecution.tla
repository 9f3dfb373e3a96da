--------------------- MODULE EmbeddedOperatorExecution ---------------------
(***************************************************************************)
(* The executors of OperatorExecution inside one process, as the SDK runs  *)
(* them over its in-memory or its SQLite persistence, next to a client     *)
(* that compacts a conversation through the same engine.  Executors and    *)
(* client are asynchronous call chains on one thread.  A store call, and a *)
(* unit of work that waits for nothing but the store, run to completion;   *)
(* a compaction round waits for the summarizer inside its unit of work,    *)
(* and everything else can happen meanwhile.                               *)
(*                                                                         *)
(* The two backends give that unit of work opposite isolation.  In memory  *)
(* it works on a copy of the whole state, which its commit writes over     *)
(* whatever happened meanwhile.  The SQLite one works in place, in the     *)
(* transaction of the only connection, which every store call of another   *)
(* chain joins, and is lost with when the unit of work rolls back.         *)
(***************************************************************************)
EXTENDS OperatorExecution

CONSTANTS
    Backends,     \* the persistence presets: "memory", "sqlite"
    MaxRounds,    \* bound: compaction rounds of the client
    MaxRefusals   \* bound: executors' units of work refused for an open round

ASSUME BackendsAssumption == Backends \subseteq {"memory", "sqlite"}

VARIABLES
    backend,
    round,    \* the client's open unit of work
    rounds,   \* how many it has begun
    upsets    \* units of work refused, and rounds that ended by losing writes

embVars == <<vars, backend, round, rounds, upsets>>

NoRound == [open |-> FALSE]

Tables == [task |-> task, run |-> run, handles |-> handles, children |-> children]

Install(s) ==
    /\ task' = s.task
    /\ run' = s.run
    /\ handles' = s.handles
    /\ children' = s.children

EmbInit ==
    /\ Init
    /\ backend \in Backends
    /\ round = NoRound
    /\ rounds = 0
    /\ upsets = 0

-----------------------------------------------------------------------------
(* deriveRunStatus of the in-memory store.                                 *)
MemDerivedStatus(t) ==
    CASE WithStatus(t, "running") # {} -> "running"
      [] WithStatus(t, "failed") = Items -> "failed"
      [] WithStatus(t, "running") = {} /\ WithStatus(t, "failed") \notin {{}, Items} ->
            "completed_with_failures"
      [] WithStatus(t, "succeeded") = Items -> "completed"
      [] OTHER -> "pending"

updateRunFromTasks(r, t) ==
    IF backend = "memory"
    THEN [r EXCEPT !.counts = Counts(t), !.status = MemDerivedStatus(t)]
    ELSE refreshRunFromTasks(r, t)

(* selectClaimableTask: the expired leases come first, and taking one over *)
(* does not count against the limit.                                       *)
(* Mutant: neither pass counts. *)
MemClaimableMutant(t) ==
    LET expired == {i \in Items : Reclaimable(t, i)} IN
    IF expired # {} THEN expired
    ELSE {i \in Items :
            t[i].status = "pending" \/ (t[i].status = "retryable_failure" /\ t[i].retryDue)}

MemClaimable(t) ==
    LET expired == {i \in Items : Reclaimable(t, i)} IN
    IF expired # {} THEN expired ELSE {i \in Items : Claimable(t, i)}

EmbClaimable(t) ==
    IF backend = "memory" THEN MemClaimable(t) ELSE {i \in Items : Claimable(t, i)}

-----------------------------------------------------------------------------
(* A write of another chain while a round is open: in memory it goes to    *)
(* the shared state, in SQLite it joins the round's transaction            *)
(* (withImmediateWrite falls back to a savepoint).                         *)
Beside ==
    /\ round' = IF round.open THEN [round EXCEPT !.touched = TRUE] ELSE round
    /\ UNCHANGED <<backend, rounds>>

EmbClaim(w) ==
    /\ exec[w].phase = "idle"
    /\ \E i \in EmbClaimable(task) :
        /\ \A j \in EmbClaimable(task) : i <= j
        /\ task' = [task EXCEPT ![i] = ClaimedRow(@)]
        /\ exec' = [exec EXCEPT ![w] =
                      [phase |-> IF kind = "llmMap" THEN "executing" ELSE "claimed",
                       item |-> i, attempt |-> task[i].attempts + 1, child |-> 0]]
    /\ run' = updateRunFromTasks(run, task')
    /\ Beside
    /\ UNCHANGED <<kind, handles, children, crashes, stalls, upsets>>

EmbRecord(w, status, answer, due, next) ==
    /\ exec[w].phase = "executing"
    /\ task' = [task EXCEPT ![exec[w].item] = RecordedRow(@, status, answer, due)]
    /\ run' = updateRunFromTasks(run, task')
    /\ exec' = [exec EXCEPT ![w] = next]
    /\ Beside
    /\ UNCHANGED <<kind, handles, children, crashes, stalls, upsets>>

EmbRecordOutcome(w) ==
    \/ \E status \in Terminal :
        EmbRecord(w, status, exec[w].attempt, TRUE, [exec[w] EXCEPT !.phase = "recorded"])
    \/ /\ HasRetriesRemaining(w)
       /\ EmbRecord(w, "retryable_failure", 0, FALSE, Idle)

EmbBootstrapState(w) ==
    /\ \/ ReadChild(w) /\ UNCHANGED round
       \/ getTaskBootstrapState(w) /\ UNCHANGED round
       \/ (markBootstrapStarted(w) \/ markBootstrapCompleted(w)) /\ Beside
    /\ UNCHANGED <<backend, rounds, upsets>>

-----------------------------------------------------------------------------
(* The executor's units of work.  While a round is open SQLite refuses     *)
(* them ("Nested SQLite unit of work is not supported."), and the          *)
(* executor's call fails.                                                  *)
Refused == backend = "sqlite" /\ round.open

(* The bootstrap finds no child conversation if a round undid its creation.*)
Fails(w) == exec[w].phase = "appending" /\ exec[w].child > Len(children)

EmbFinalized(s) ==
    IF AllTerminal(s.task) /\ Unfinalized(s.run)
    THEN [s EXCEPT
            !.run = [@ EXCEPT !.counts = Counts(s.task), !.stage = "completed",
                              !.status = deriveRunStatus(Entries(s.task)),
                              !.artifact = Entries(s.task), !.needsRetry = FALSE],
            !.handles = Append(@, [status |-> deriveRunStatus(Entries(s.task)),
                                   artifact |-> Entries(s.task)])]
    ELSE s

EmbUow(w) ==
    /\ exec[w].phase \in {"childless", "appending", "recorded"}
    /\ ~Refused
    /\ ~Fails(w)
    /\ CASE exec[w].phase = "childless" -> assignTaskChildConversation(w)
         [] exec[w].phase = "appending" -> AppendBootstrapEvents(w)
         [] exec[w].phase = "recorded" ->
               /\ Install(EmbFinalized(Tables))
               /\ Goto(w, "idle")
               /\ UNCHANGED <<kind, crashes, stalls>>
    /\ Beside
    /\ UNCHANGED upsets

EmbUowFails(w) ==
    /\ exec[w].phase \in {"childless", "appending", "recorded"}
    /\ Refused \/ Fails(w)
    /\ Refused => upsets < MaxRefusals
    /\ upsets' = upsets + 1
    /\ exec' = [exec EXCEPT ![w] = Idle]
    /\ UNCHANGED <<kind, task, run, handles, children, crashes, stalls, backend, round, rounds>>

-----------------------------------------------------------------------------
(* The client's compaction round, which writes no operator table itself.   *)
BeginRound ==
    /\ ~round.open
    /\ rounds < MaxRounds
    /\ rounds' = rounds + 1
    /\ round' = [open |-> TRUE, image |-> Tables, touched |-> FALSE]
    /\ UNCHANGED <<vars, backend, upsets>>

(* What is left when the round ends: in memory its copy, if it commits; in *)
(* SQLite what the tables were, if it rolls back.                          *)
Left(committed) ==
    IF committed = (backend = "memory") THEN round.image ELSE Tables

EndRound ==
    /\ round.open
    /\ \E committed \in BOOLEAN :
        /\ Install(Left(committed))
        /\ upsets' = IF round.touched /\ committed = (backend = "memory")
                     THEN upsets + 1 ELSE upsets
    /\ round' = NoRound
    /\ UNCHANGED <<kind, exec, crashes, stalls, backend, rounds>>

EmbPoll(w) ==
    /\ exec[w].phase = "idle"
    /\ EmbClaimable(task) = {}
    /\ UNCHANGED embVars

-----------------------------------------------------------------------------
(* A provider throws out of execute().                                     *)
EmbThrow(w) == Crash(w) /\ UNCHANGED <<backend, round, rounds, upsets>>

(* The process dies and is restarted on its database file: every chain is  *)
(* gone, the open transaction rolled back.                                 *)
Restart ==
    /\ backend = "sqlite"
    /\ crashes < MaxCrashes
    /\ Install(IF round.open THEN round.image ELSE Tables)
    /\ exec' = [w \in Workers |-> Idle]
    /\ round' = NoRound
    /\ crashes' = crashes + 1
    /\ UNCHANGED <<kind, stalls, backend, rounds, upsets>>

(* The clock advances for a row and for the row's copy alike, as long as   *)
(* the two are under the same claim or wait for the same retry; what else  *)
(* was written to the row since the round began is not in the copy.        *)
SameClaim(copy, row) == copy.status = row.status /\ copy.attempts = row.attempts

Aged(i) ==
    IF round.open /\ SameClaim(round.image.task[i], task[i])
    THEN [round EXCEPT !.image.task[i] =
            [@ EXCEPT !.lease = task'[i].lease, !.retryDue = task'[i].retryDue]]
    ELSE round

EmbClockStep(i) ==
    /\ ClockStep(i)
    /\ round' = Aged(i)
    /\ UNCHANGED <<backend, rounds, upsets>>

(* Nothing renews a lease here either: it can run out under a chain that   *)
(* still waits for its model or its sub-agent.                             *)
EmbLeaseExpiresEarly(i) ==
    /\ LeaseExpiresEarly(i)
    /\ round' = Aged(i)
    /\ UNCHANGED <<backend, rounds, upsets>>

EmbWorkerStep(w) ==
    \/ EmbClaim(w)
    \/ EmbRecordOutcome(w)
    \/ EmbBootstrapState(w)
    \/ EmbUow(w)
    \/ EmbUowFails(w)
    \/ EmbPoll(w)

EmbNext ==
    \/ \E w \in Workers : EmbWorkerStep(w) \/ EmbThrow(w)
    \/ BeginRound
    \/ EndRound
    \/ Restart
    \/ \E i \in Items : EmbClockStep(i) \/ EmbLeaseExpiresEarly(i)

EmbSpec == EmbInit /\ [][EmbNext]_embVars

-----------------------------------------------------------------------------
(* Properties. *)

(* Work that an overlapping unit of work undid is done again, and nothing  *)
(* else is: an attempt beyond the retry policy is paid for by an executor  *)
(* that died or stalled, a unit of work that was refused, or a round that  *)
(* lost the writes of others.                                              *)
LossesArePaidFor ==
    \A i \in Items : task[i].attempts <= MaxRetries + 1 + crashes + stalls + upsets

(* The in-memory store takes expired leases over without counting the live *)
(* ones, and SQLite counts them but not the expired ones.  Neither exceeds *)
(* the limit, whatever rounds restore and undo, and also when a lease runs *)
(* out under its executor, which works on beside the one that takes over.  *)
EmbLeaseLimit == backend \in Backends => LeaseLimit
=============================================================================
