------------------------- MODULE StoreConformance --------------------------
(* The same calls, made by the same use cases, on the in-memory, SQLite and *)
(* PostgreSQL stores side by side. The store ports promise one behaviour;   *)
(* the use cases are written against it and do not know which store they    *)
(* have. Calls are sequential here: each is one unit of work.               *)
EXTENDS SqliteStore, PostgresStore

CONSTANTS Batches,        \* what is appended at once: texts, each a set of words,
                          \* and their idempotency key, or NoKey
          Artifacts,      \* ids of artifacts: hashes of their contents
          Queries,        \* what is searched for, as sets of words
          Explorers,
          MaxEvents, MaxItems   \* bounds of the model

ASSUME StoresAssumption ==
    /\ IsFiniteSet(Conversations) /\ MaxEvents \in Nat
    /\ \A b \in Batches : b.texts \in Seq(ToSet(b.texts))

VARIABLES memory, sqlite, postgres,
          agreed          \* the stores answered the last call alike

storeVars == <<memory, sqlite, postgres, agreed>>

StoresInit ==
    /\ memory = EmptyMemory
    /\ sqlite = EmptyTables
    /\ postgres = EmptyTables
    /\ agreed = TRUE

(* One unit of work on each of the stores. It stops at a disagreement.     *)
Call(m, l, p) ==
    /\ agreed
    /\ memory' = m.store /\ sqlite' = l.store /\ postgres' = p.store
    /\ agreed' = (/\ m.error = l.error /\ l.error = p.error
                  /\ m.answer = l.answer /\ l.answer = p.answer)

(* A unit of work that throws is rolled back.                              *)
UnitOfWork(start, result) ==
    IF result.error # "none" THEN Refused(start, result.error) ELSE result

(* One of two steps: the second is not reached if the first one throws.    *)
Then(start, first, Next(_)) ==
    UnitOfWork(start, IF first.error # "none" THEN first ELSE Next(first.store))

-----------------------------------------------------------------------------
(* ConversationPort.create *)

CreateConversation(parent) ==
    /\ Len(memory.conversations) < Cardinality(Conversations)
    /\ Call(MemCreate(memory, parent), LiteCreate(sqlite, parent), PgCreate(postgres, parent))

(* The messages of AppendLedgerEventsUseCase: numbered from the next       *)
(* sequence, with ids hashed from the conversation, sequence and content,  *)
(* and with the artifacts of the conversation in their metadata.           *)
Batch(c, texts, key) ==
    [i \in DOMAIN texts |->
        LET seq == MemNextSequence(memory, c) + i - 1
        IN [id |-> <<c, seq, texts[i]>>, conv |-> c, seq |-> seq, text |-> texts[i],
            tokens |-> Cardinality(texts[i]), key |-> key,
            digest |-> IF key = NoKey THEN <<>> ELSE texts, artifacts |-> {a.id : a \in {x \in ToSet(memory.artifacts) : x.conv = c}}]]

MessageRefs(batch) == [i \in DOMAIN batch |-> [type |-> "message", id |-> batch[i].id]]

Known(c) == c \in DOMAIN memory.conversations

KeyUsed(c, key) == \E e \in ToSet(memory.events[c]) : e.key = key

(* A batch whose key the ledger does not have yet, or without a key.       *)
AppendLedgerEvents(c, texts, key) ==
    LET batch == Batch(c, texts, key)
        refs == MessageRefs(batch)
    IN /\ Known(c) /\ Cardinality(MemEvents(memory)) + Len(texts) <= MaxEvents
       /\ Len(memory.items[c]) + Len(texts) <= MaxItems
       /\ key # NoKey => ~ KeyUsed(c, key)
       /\ Call(Then(memory, MemAppendEvents(memory, c, batch), LAMBDA s : MemAppendContextItems(s, c, refs)),
               Then(sqlite, LiteAppendEvents(sqlite, c, batch), LAMBDA t : LiteAppendContextItems(t, c, refs)),
               Then(postgres, PgAppendEvents(postgres, c, batch), LAMBDA t : PgAppendContextItems(t, c, refs)))

(* A batch that passed the check of its key before another appended under  *)
(* it: the SQL stores find the key themselves; the in-memory store, whose  *)
(* units of work do not overlap here, never sees one. The unit of work is  *)
(* given up: it goes on to context items whose messages were not inserted. *)
DuplicateBatch(c, texts, key) ==
    LET batch == Batch(c, texts, key)
    IN /\ Known(c) /\ KeyUsed(c, key)
       /\ agreed
       /\ agreed' = (LiteAppendEvents(sqlite, c, batch).error = PgAppendEvents(postgres, c, batch).error)
       /\ UNCHANGED <<memory, sqlite, postgres>>

-----------------------------------------------------------------------------
(* The round of RunCompactionUseCase, with the block that the policy gave  *)
(* it and the version of the snapshot it took.                             *)

BlockRefs(c, positions) == {memory.items[c][p + 1] : p \in positions}

RefText(r) ==
    IF r.type = "summary" THEN MemNode(memory, r.id).text
    ELSE (CHOOSE e \in MemEvents(memory) : e.id = r.id).text

RefArtifacts(r) ==
    IF r.type = "summary" THEN MemNode(memory, r.id).artifacts
    ELSE (CHOOSE e \in MemEvents(memory) : e.id = r.id).artifacts

(* Ids are hashes of contents: any unused one stands for the next.          *)
NewNode == CHOOSE n \in Nodes : n \notin MemNodeIds(memory)

(* Condensed over summaries only, else a leaf over all the messages.       *)
SummaryOf(c, n, positions) ==
    LET refs == BlockRefs(c, positions)
        text == UNION {RefText(r) : r \in refs}
    IN [id |-> n, conv |-> c, text |-> text, tokens |-> 1,
        kind |-> IF \A r \in refs : r.type = "summary" THEN "condensed" ELSE "leaf",
        artifacts |-> UNION {RefArtifacts(r) : r \in refs}]

InOrder(c, ids) ==
    LET events == Where(memory.events[c], LAMBDA e : e.id \in ids)
    IN [i \in DOMAIN events |-> events[i].id]

EdgesOf(c, kind, positions) ==
    LET refs == BlockRefs(c, positions)
        block == Where(memory.items[c], LAMBDA r : r \in refs)
    IN IF kind = "condensed" THEN [i \in DOMAIN block |-> block[i].id]
       ELSE InOrder(c, UNION {IF r.type = "message" THEN {r.id}
                              ELSE {e.id : e \in ToSet(MemExpandToMessages(memory, r.id))} : r \in refs})

CompactionRound(c, positions, snapshot) ==
    LET n == NewNode
        node == SummaryOf(c, n, positions)
        edges == EdgesOf(c, node.kind, positions)
        ref == [type |-> "summary", id |-> n]
        MemEdges(s) == IF node.kind = "leaf" THEN MemAddLeafEdges(s, n, edges) ELSE MemAddCondensedEdges(s, n, edges)
        LiteEdges(t) == IF node.kind = "leaf" THEN LiteAddLeafEdges(t, n, edges) ELSE LiteAddCondensedEdges(t, n, edges)
        PgEdges(t) == IF node.kind = "leaf" THEN PgAddLeafEdges(t, n, edges) ELSE PgAddCondensedEdges(t, n, edges)
    IN /\ Known(c) /\ MemNodeIds(memory) # Nodes
       /\ snapshot \in {memory.version[c], memory.version[c] - 1} \ {-1}
       /\ Call(Then(memory, Then(memory, MemCreateNode(memory, node), MemEdges),
                    LAMBDA s : MemReplaceContextItems(s, c, snapshot, positions, ref)),
               Then(sqlite, Then(sqlite, LiteCreateNode(sqlite, node), LiteEdges),
                    LAMBDA t : LiteReplaceContextItems(t, c, snapshot, positions, ref)),
               Then(postgres, Then(postgres, PgCreateNode(postgres, node), PgEdges),
                    LAMBDA t : PgReplaceContextItems(t, c, snapshot, positions, ref)))

-----------------------------------------------------------------------------
(* StoreArtifactUseCase: content that is new is explored in the same unit  *)
(* of work; content that is known, from whichever conversation, is not.    *)
StoreArtifact(c, a, explorer) ==
    LET artifact == [id |-> a, conv |-> c, explorer |-> "none"]
        Explored(start, stored, Update(_)) ==
            IF stored.answer = 0 THEN stored ELSE Then(start, stored, Update)
    IN /\ Known(c)
       /\ Call(Explored(memory, MemStoreArtifact(memory, artifact), LAMBDA s : MemUpdateExploration(s, a, explorer)),
               Explored(sqlite, LiteStoreArtifact(sqlite, artifact), LAMBDA t : LiteUpdateExploration(t, a, explorer)),
               Explored(postgres, PgStoreArtifact(postgres, artifact), LAMBDA t : PgUpdateExploration(t, a, explorer)))

(* ExploreArtifactUseCase, not in a unit of work.                          *)
ExploreArtifact(a, explorer) ==
    /\ MemArtifact(memory, a) # {}
    /\ Call(MemUpdateExploration(memory, a, explorer), LiteUpdateExploration(sqlite, a, explorer),
            PgUpdateExploration(postgres, a, explorer))

-----------------------------------------------------------------------------
StoresNext ==
    \/ \E parent \in 0..Cardinality(Conversations) : CreateConversation(parent)
    \/ \E c \in Conversations, b \in Batches : AppendLedgerEvents(c, b.texts, b.key)
    \/ \E c \in Conversations, b, earlier \in Batches :
           earlier.key # NoKey /\ DuplicateBatch(c, b.texts, earlier.key)
    \/ \E c \in Conversations : \E first, last \in 0..(Len(memory.items[c]) - 1) :
           \E snapshot \in {memory.version[c], memory.version[c] - 1} :
               first <= last /\ CompactionRound(c, first..last, snapshot)
    \/ \E c \in Conversations, a \in Artifacts, e \in Explorers : StoreArtifact(c, a, e)
    \/ \E a \in Artifacts, e \in Explorers : ExploreArtifact(a, e)

StoresSpec == StoresInit /\ [][StoresNext]_storeVars
=============================================================================
