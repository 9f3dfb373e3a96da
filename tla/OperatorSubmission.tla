------------------------- MODULE OperatorSubmission -------------------------
(* llmMap and agenticMap: one unit of work that stores the dataset, looks   *)
(* the idempotency key up and creates the run with its tasks, over each of  *)
(* the three stores.  Units of work of several clients overlap: PostgreSQL  *)
(* shows what others committed and makes a second insert of one key wait,   *)
(* SQLite refuses a second one, and the in-memory store gives each a copy   *)
(* that replaces everything when it commits.                                *)
EXTENDS Integers, FiniteSets

CONSTANTS Clients,
          SubmitRequests,      \* conv, kind, items, inline, key: datasets differ by their number of items
          KnownConversations,
          Anonymous,       \* no idempotency key
          MaxSubmissions   \* bound

VARIABLES
    engine,       \* "memory", "sqlite", "postgres"
    stored,       \* what is committed: runs, keys, artifacts
    client,       \* what each client is at
    lost,         \* a commit replaced one that it had not seen
    submissions

submissionVars == <<engine, stored, client, lost, submissions>>

Nothing == [runs |-> {}, keys |-> {}, artifacts |-> {}]

Merge(db, own) == [table \in DOMAIN db |-> db[table] \cup own[table]]

(* Artifacts are told apart by their content.                               *)
Dataset(items) == <<"dataset", items>>

EmptyOutput == <<"output", 0>>

Input(r) == [of |-> Dataset(r.items), conv |-> r.conv]

SubmissionInit ==
    /\ engine \in {"memory", "sqlite", "postgres"}
    /\ \E artifacts \in SUBSET {Input(r) : r \in {x \in SubmitRequests : ~ x.inline}} :
           stored = [Nothing EXCEPT !.artifacts = artifacts]
    /\ client = [p \in Clients |-> [pc |-> "idle"]]
    /\ lost = FALSE
    /\ submissions = 0

(* The digest covers the conversation and the input, not the key.          *)
RunId(r) == <<r.conv, r.kind, r.items>>

KeysOf(db, r) == {k \in db.keys : k.conv = r.conv /\ k.key = r.key}

Open(p) == client[p].pc \notin {"idle", "answered"}

(* What the unit of work of p sees: its copy, or what is committed by now. *)
Sees(p) == Merge(IF engine = "memory" THEN client[p].copy ELSE stored, client[p].own)

(* The unique keys of inserted rows.                                        *)
Uniques(own) ==
    {<<"artifact", a.of>> : a \in own.artifacts} \cup {<<"run", run.id>> : run \in own.runs}
        \cup {<<"key", <<k.conv, k.key>>>> : k \in own.keys}

(* PostgreSQL: a row with the same unique key, not yet committed.           *)
Waits(p, wanted) ==
    engine = "postgres" /\ \E q \in Clients \ {p} : Open(q) /\ Uniques(client[q].own) \cap wanted # {}

Proceeds(p, pc, own) ==
    /\ client' = [client EXCEPT ![p].pc = pc, ![p].own = own]
    /\ UNCHANGED <<engine, stored, lost, submissions>>

(* An error rolls back.                                                     *)
AnswersWith(p, r, seen, outcome) ==
    client' = [client EXCEPT ![p] = [pc |-> "answered", request |-> r, seen |-> seen, outcome |-> outcome]]

FailsWith(p, outcome) ==
    /\ AnswersWith(p, client[p].request, client[p].seen, outcome)
    /\ UNCHANGED <<engine, stored, lost, submissions>>

-----------------------------------------------------------------------------
(* Input that does not validate is refused before anything is read.         *)
Submit(p, r) ==
    /\ ~ Open(p) /\ submissions < MaxSubmissions
    /\ submissions' = submissions + 1
    /\ IF r.conv \notin KnownConversations \/ (engine = "sqlite" /\ \E q \in Clients \ {p} : Open(q))
       THEN AnswersWith(p, r, KeysOf(stored, r), "refused")
       ELSE client' = [client EXCEPT ![p] =
                [pc |-> "dataset", request |-> r, seen |-> KeysOf(stored, r), copy |-> stored, own |-> Nothing]]
    /\ UNCHANGED <<engine, stored, lost>>

(* ON CONFLICT DO NOTHING: the first conversation to store a content keeps it. *)
StoredOnce(p, of) ==
    [client[p].own EXCEPT !.artifacts = @ \cup
        {a \in {[of |-> of, conv |-> client[p].request.conv]} : \A b \in Sees(p).artifacts : b.of # of}]

LoadDataset(p) ==
    LET r == client[p].request
    IN /\ client[p].pc = "dataset"
       /\ \/ /\ r.inline /\ ~ Waits(p, {<<"artifact", Dataset(r.items)>>})
             /\ Proceeds(p, "lookup", StoredOnce(p, Dataset(r.items)))
          \/ ~ r.inline /\ Input(r) \in Sees(p).artifacts /\ Proceeds(p, "lookup", client[p].own)
          \/ ~ r.inline /\ Input(r) \notin Sees(p).artifacts /\ FailsWith(p, "refused")

(* An empty dataset leads on to the finalization, for an existing run too. *)
After(r) == IF r.items = 0 THEN "output" ELSE "commit"

(* Mutant: the digest of the run found is not compared. *)
LookupKeyMutant(p) ==
    LET r == client[p].request
        found == IF r.key = Anonymous THEN {} ELSE KeysOf(Sees(p), r)
    IN /\ client[p].pc = "lookup"
       /\ Proceeds(p, IF found = {} THEN "insert" ELSE After(r), client[p].own)

LookupKey(p) ==
    LET r == client[p].request
        found == IF r.key = Anonymous THEN {} ELSE KeysOf(Sees(p), r)
    IN /\ client[p].pc = "lookup"
       /\ \/ found = {} /\ Proceeds(p, "insert", client[p].own)
          \/ found # {} /\ (\A k \in found : k.run = RunId(r)) /\ Proceeds(p, After(r), client[p].own)
          \/ (\E k \in found : k.run # RunId(r)) /\ FailsWith(p, "conflict")

(* The SQL stores refuse a second run of one input, under whatever key, and *)
(* a second run of one key: the latter's handler looks up in a transaction  *)
(* that is aborted by then.  The in-memory store replaces the run.          *)
InsertRun(p) ==
    LET r == client[p].request
        wanted == {<<"run", RunId(r)>>} \cup {<<"key", <<r.conv, k>>>> : k \in {r.key} \ {Anonymous}}
        run == [id |-> RunId(r), items |-> r.items, output |-> FALSE,
                stage |-> IF r.items = 0 /\ engine # "sqlite" THEN "completed" ELSE "not_started"]
    IN /\ client[p].pc = "insert" /\ ~ Waits(p, wanted)
       /\ IF engine # "memory" /\ Uniques(Sees(p)) \cap wanted # {} THEN FailsWith(p, "error")
          ELSE Proceeds(p, After(r), [client[p].own EXCEPT
                   !.runs = {run}, !.keys = {[conv |-> r.conv, key |-> k, run |-> RunId(r)] : k \in {r.key} \ {Anonymous}}])

(* finalizeRun leaves a run alone whose stage is completed.                 *)
StoreOutput(p) ==
    LET own == StoredOnce(p, EmptyOutput)
    IN /\ client[p].pc = "output" /\ ~ Waits(p, {<<"artifact", EmptyOutput>>})
       /\ Proceeds(p, "commit", [own EXCEPT !.runs =
              {IF run.stage = "completed" THEN run ELSE [run EXCEPT !.stage = "completed", !.output = TRUE] : run \in @}])

Commit(p) ==
    /\ client[p].pc = "commit"
    /\ stored' = Sees(p)
    /\ lost' = (lost \/ (engine = "memory" /\ stored # client[p].copy))
    /\ AnswersWith(p, client[p].request, client[p].seen, "run")
    /\ UNCHANGED <<engine, submissions>>

(* The process is killed or its connection lost.                            *)
Abandon(p) ==
    /\ Open(p)
    /\ client' = [client EXCEPT ![p] = [pc |-> "idle"]]
    /\ UNCHANGED <<engine, stored, lost, submissions>>

SubmissionNext ==
    \E p \in Clients :
        \/ \E r \in SubmitRequests : Submit(p, r)
        \/ LoadDataset(p) \/ LookupKey(p) \/ InsertRun(p) \/ StoreOutput(p) \/ Commit(p) \/ Abandon(p)

SubmissionSpec == SubmissionInit /\ [][SubmissionNext]_submissionVars

-----------------------------------------------------------------------------
(* Unless an in-memory commit replaced one it had not seen, a client that   *)
(* is told of a run can rely on it: the run is there, with the dataset it   *)
(* was created for, and is all that its key names; an empty one is          *)
(* completed.  A submission repeated after its key was bound is answered    *)
(* with that run, or as a conflict if its input is another, never with a    *)
(* second run or an error of the database.                                  *)
SubmissionAnswered ==
    ~ lost =>
        /\ \A p \in {q \in Clients : client[q].pc = "answered"} :
               LET r == client[p].request
                   known == {k.run : k \in client[p].seen}
               IN /\ client[p].outcome = "run" =>
                         /\ \E run \in stored.runs : run.id = RunId(r) /\ (r.items = 0 => run.stage = "completed")
                         /\ {k.run : k \in KeysOf(stored, r)} = {RunId(r) : k \in {r.key} \ {Anonymous}}
                  /\ known # {} /\ client[p].outcome # "refused" =>
                         client[p].outcome = IF known = {RunId(r)} THEN "run" ELSE "conflict"
        /\ \A run \in stored.runs : \E a \in stored.artifacts : a.of = Dataset(run.items)
        /\ \A k \in stored.keys : Cardinality({x \in stored.keys : <<x.conv, x.key>> = <<k.conv, k.key>>}) = 1
=============================================================================
