----------------------------- MODULE SqlTables -----------------------------
(* The tables that both SQL stores keep, as sets of rows, and the queries   *)
(* that both of them issue in the same words. Reading the code: the parent  *)
(* of a summary (parent_summary_id) is one of the SOURCES it condenses.     *)
EXTENDS MemoryStore

EmptyTables ==
    [conversations |-> {},   \* id, parent (0 for none)
     events        |-> {},   \* an event (key and digest are metadata) and keyColumn
     nodes         |-> {},   \* id, conv, kind, text, tokens, artifacts
     leaf          |-> {},   \* summary, message, ord
     parents       |-> {},   \* summary, parent, ord
     items         |-> {},   \* conv, position, ref
     versions      |-> {},   \* conv, version
     artifacts     |-> {}]   \* id, conv, explorer

Rows(table, column, value) == {r \in table : r[column] = value}

NextOrdinal(t) == Maximum({r.id : r \in t.conversations}, 0) + 1

(* The chain CTE: depth 0 is the conversation itself and is left out, the  *)
(* rest comes deepest first.                                               *)
AncestorRows(t, id) ==
    LET at[depth \in 0..Cardinality(t.conversations)] ==
            IF depth = 0 THEN Rows(t.conversations, "id", id)
            ELSE {r \in t.conversations : \E below \in at[depth - 1] : r.id = below.parent}
        chain == UNION {{[id |-> r.id, rank |-> -depth] : r \in at[depth]} :
                           depth \in 1..Cardinality(t.conversations)}
        ordered == OrderedBy(chain, "rank")
    IN [i \in DOMAIN ordered |-> ordered[i].id]

NextSeq(t, c) == Maximum({r.seq : r \in Rows(t.events, "conv", c)}, 0) + 1

(* toDomainEvent: a row without the idempotency_key column.                *)
Event(r) == [f \in DOMAIN r \ {"keyColumn"} |-> r[f]]

Events(rows) == LET ordered == OrderedBy(rows, "seq")
                IN SubSeq([i \in DOMAIN ordered |-> Event(ordered[i])], 1, Len(ordered))

EventRow(e, key) == [f \in DOMAIN e \cup {"keyColumn"} |-> IF f = "keyColumn" THEN key ELSE e[f]]

EventRange(t, c, start, end) ==
    Events({r \in Rows(t.events, "conv", c) : start <= r.seq /\ r.seq <= end})

KeyedRow(t, c, key) == {r \in Rows(t.events, "conv", c) : r.keyColumn = key}

(* The recursive CTE over summary_parent_edges, from a summary downwards.  *)
SourceRows(t, root) ==
    LET reach[k \in 0..Cardinality(t.nodes)] ==
            IF k = 0 THEN {root}
            ELSE reach[k - 1] \cup {e.parent : e \in {x \in t.parents : x.summary \in reach[k - 1]}}
    IN reach[Cardinality(t.nodes)]

ScopedMessages(t, scope) == {e.message : e \in {x \in t.leaf : x.summary \in SourceRows(t, scope)}}

SignificantWords(query) == query \ Stopwords

MessageConv(t, m) == {r.conv : r \in Rows(t.events, "id", m)}

NodeConv(t, n) == {r.conv : r \in Rows(t.nodes, "id", n)}

NodeKind(t, n) == {r.kind : r \in Rows(t.nodes, "id", n)}

(* SUM over the context items joined with the messages and the summaries.  *)
ItemTokens(t, ref) ==
    IF ref.type = "message" THEN (CHOOSE e \in t.events : e.id = ref.id).tokens
    ELSE (CHOOSE n \in t.nodes : n.id = ref.id).tokens

VersionOf(t, c) == Maximum({r.version : r \in Rows(t.versions, "conv", c)}, 0)

(* One check of the integrity report, by its name if it fails.            *)
FailedIf(problem, check) == {k \in {check} : problem}

ItemRefs(t, c) ==
    LET ordered == OrderedBy(Rows(t.items, "conv", c), "position")
    IN [i \in DOMAIN ordered |-> ordered[i].ref]
=============================================================================
