--------------------------- MODULE PostgresStore ---------------------------
(* The PostgreSQL stores (infrastructure/src/postgres) over SqlTables, one  *)
(* call at a time: what two transactions do to each other is the subject of *)
(* ConversationMemory. A call that throws is rolled back.                   *)
EXTENDS SqlTables

-----------------------------------------------------------------------------
(* pg-conversation-store.ts *)

PgCreate(t, parent) ==
    IF parent # 0 /\ Rows(t.conversations, "id", parent) = {}
    THEN Refused(t, "InvariantViolationError")
    ELSE Done([t EXCEPT !.conversations = @ \cup {[id |-> NextOrdinal(t), parent |-> parent]}],
              NextOrdinal(t))

PgAncestorChain(t, id) == AncestorRows(t, id)

-----------------------------------------------------------------------------
(* pg-ledger-store.ts *)

(* INSERT ... ON CONFLICT (id) DO NOTHING, of all the rows at once.        *)
PgInsertPrepared(t, rows) ==
    [t EXCEPT !.events = @ \cup {rows[i] : i \in {j \in DOMAIN rows : MessageConv(t, rows[j].id) = {}}}]

(* The rows are collected first: the lookups by key and by id see only     *)
(* what was stored before the batch.                                       *)
PgPrepare(t, c, acc, e) ==
    LET fresh == e.key # NoKey /\ e.key \notin acc.keys
        held == IF fresh THEN KeyedRow(t, c, e.key) ELSE {}
    IN IF acc.answer # "ok" THEN acc
       ELSE IF held # {}
            THEN IF \A r \in held : r.digest = e.digest
                 THEN [acc EXCEPT !.keys = @ \cup {e.key}]
                 ELSE [acc EXCEPT !.answer = "IdempotencyConflictError"]
       ELSE IF e.seq # acc.expected
            THEN IF MessageConv(t, e.id) # {} THEN acc
                 ELSE [acc EXCEPT !.answer = "NonMonotonicSequenceError"]
       ELSE [acc EXCEPT !.rows = Append(@, EventRow(e, IF fresh THEN e.key ELSE NoKey)),
                        !.keys = @ \cup {e.key},
                        !.expected = @ + 1]

PgPrepared(t, c, start, batch) == FoldLeft(LAMBDA acc, e : PgPrepare(t, c, acc, e), start, batch)

PgAppendEvents(t, c, batch) ==
    LET start == [rows |-> <<>>, keys |-> {}, expected |-> NextSeq(t, c), answer |-> "ok"]
        end == PgPrepared(t, c, start, batch)
    IN IF end.answer = "ok" THEN Done(PgInsertPrepared(t, end.rows), 0) ELSE Refused(t, end.answer)

PgNextSequence(t, c) == NextSeq(t, c)

PgGetEvents(t, c, start, end) == EventRange(t, c, start, end)

(* plainto_tsquery joins the significant words with AND; a query of stop   *)
(* words alone matches nothing.                                            *)
PgMatches(text, query) == SignificantWords(query) # {} /\ SignificantWords(query) \subseteq text

PgSearchEvents(t, c, query, scope) ==
    Events({r \in Rows(t.events, "conv", c) :
               /\ scope # NoScope => r.id \in ScopedMessages(t, scope)
               /\ PgMatches(r.text, query)})

(* DISTINCT ON (message_id) ... ORDER BY position *)
PgCoverage(t, c, m) ==
    LET rows == {[position |-> r.position, covering |-> r.ref.id] :
                    r \in {x \in Rows(t.items, "conv", c) :
                              x.ref.type = "summary" /\ m \in ScopedMessages(t, x.ref.id)}}
    IN IF rows = {} THEN NoScope ELSE OrderedBy(rows, "position")[1].covering

(* Mutant: the total is that of the page alone. *)
PgRegexSearchEventsMutant(t, c, word, scope, offset, limit) ==
    LET found == OrderedBy({r \in Rows(t.events, "conv", c) :
                               /\ scope # NoScope => r.id \in ScopedMessages(t, scope)
                               /\ word \in r.text}, "seq")
        all == [i \in DOMAIN found |->
                   [id |-> found[i].id,
                    covering |-> IF scope # NoScope THEN scope ELSE PgCoverage(t, c, found[i].id)]]
        page == Page(all, offset, limit)
    IN [matches |-> page, total |-> Len(page)]

(* COUNT( * ) OVER () is read from the rows of the page: an empty page has *)
(* none, and the answer is 0.                                              *)
PgRegexSearchEvents(t, c, word, scope, offset, limit) ==
    LET found == OrderedBy({r \in Rows(t.events, "conv", c) :
                               /\ scope # NoScope => r.id \in ScopedMessages(t, scope)
                               /\ word \in r.text}, "seq")
        all == [i \in DOMAIN found |->
                   [id |-> found[i].id,
                    covering |-> IF scope # NoScope THEN scope ELSE PgCoverage(t, c, found[i].id)]]
        page == Page(all, offset, limit)
    IN [matches |-> page, total |-> IF page = <<>> THEN 0 ELSE Len(all)]

-----------------------------------------------------------------------------
(* pg-summary-dag.ts *)

PgCreateNode(t, node) ==
    Done(IF NodeKind(t, node.id) # {} THEN t ELSE [t EXCEPT !.nodes = @ \cup {node}], 0)

PgGetNode(t, n) == Rows(t.nodes, "id", n)

PgNextLeafOrd(t, n) == Maximum({e.ord : e \in Rows(t.leaf, "summary", n)}, -1) + 1

PgNextCondensedOrd(t, n) == Maximum({e.ord : e \in Rows(t.parents, "summary", n)}, -1) + 1

PgHasLeafEdge(t, n, m) == \E e \in t.leaf : e.summary = n /\ e.message = m

PgHasCondensedEdge(t, n, p) == \E e \in t.parents : e.summary = n /\ e.parent = p

PgAddLeafEdge(t, n, acc, m) ==
    IF acc.answer # "ok" THEN acc
    ELSE IF MessageConv(t, m) # NodeConv(t, n) THEN [acc EXCEPT !.answer = "InvariantViolationError"]
    ELSE IF PgHasLeafEdge(acc.t, n, m) THEN acc
    ELSE [acc EXCEPT !.t.leaf = @ \cup {[summary |-> n, message |-> m, ord |-> PgNextLeafOrd(acc.t, n)]}]

PgAllLeafEdges(t, n, start, messages) == FoldLeft(LAMBDA acc, m : PgAddLeafEdge(t, n, acc, m), start, messages)

PgAddLeafEdges(t, n, messages) ==
    LET end == PgAllLeafEdges(t, n, [t |-> t, answer |-> "ok"], messages)
    IN IF messages = <<>> THEN Done(t, 0)
       ELSE IF NodeKind(t, n) # {"leaf"} THEN Refused(t, "InvariantViolationError")
       ELSE IF end.answer = "ok" THEN Done(end.t, 0) ELSE Refused(t, end.answer)

(* The walk CTE of assertCondensedEdgeNoCycle.                             *)
PgReaches(t, from, target) == target \in SourceRows(t, from)

PgAddCondensedEdge(t, n, acc, p) ==
    IF acc.answer # "ok" THEN acc
    ELSE IF NodeConv(t, p) # NodeConv(t, n) THEN [acc EXCEPT !.answer = "InvariantViolationError"]
    ELSE IF PgReaches(acc.t, p, n) THEN [acc EXCEPT !.answer = "InvalidDagEdgeError"]
    ELSE IF PgHasCondensedEdge(acc.t, n, p) THEN acc
    ELSE [acc EXCEPT !.t.parents = @ \cup {[summary |-> n, parent |-> p, ord |-> PgNextCondensedOrd(acc.t, n)]}]

PgAllCondensedEdges(t, n, start, sources) ==
    FoldLeft(LAMBDA acc, p : PgAddCondensedEdge(t, n, acc, p), start, sources)

PgAddCondensedEdges(t, n, sources) ==
    LET end == PgAllCondensedEdges(t, n, [t |-> t, answer |-> "ok"], sources)
    IN IF sources = <<>> THEN Done(t, 0)
       ELSE IF NodeKind(t, n) # {"condensed"} THEN Refused(t, "InvariantViolationError")
       ELSE IF end.answer = "ok" THEN Done(end.t, 0) ELSE Refused(t, end.answer)

PgParentSummaryIds(t, n) ==
    LET edges == OrderedBy(Rows(t.parents, "summary", n), "ord")
    IN [i \in DOMAIN edges |-> edges[i].parent]

PgExpandToMessages(t, n) ==
    Events({r \in t.events : NodeKind(t, n) # {} /\ r.id \in ScopedMessages(t, n)})

(* The CTE joins on the source and selects the node that condenses it: a   *)
(* scope is walked UPWARDS, to the summaries that cover it.                *)
PgSummaryScope(t, c, scope) ==
    LET reach[k \in 0..Cardinality(t.nodes)] ==
            IF k = 0 THEN {scope} \cap {r.id : r \in Rows(t.nodes, "conv", c)}
            ELSE reach[k - 1] \cup {e.summary : e \in {x \in t.parents : x.parent \in reach[k - 1]}}
    IN reach[Cardinality(t.nodes)]

PgSearchSummaries(t, c, query, scope) ==
    {r \in Rows(t.nodes, "conv", c) :
        /\ scope # NoScope => r.id \in PgSummaryScope(t, c, scope)
        /\ PgMatches(r.text, query)}

(* The lineage CTE: the artifacts of all messages under a summary.         *)
PgExpectedArtifacts(t, c, n) ==
    LET lineage == SourceRows(t, n) \cap {r.id : r \in Rows(t.nodes, "conv", c)}
    IN UNION {UNION {r.artifacts : r \in Rows(t.events, "id", e.message)} :
                 e \in {x \in t.leaf : x.summary \in lineage}}

(* checkIntegrity: the names of the checks that fail; first those of the   *)
(* references and of the graph they form.                                  *)
PgGraphChecks(t, c, leafEdges, parentEdges) ==
    UNION {
        FailedIf(\/ \E e \in leafEdges : Rows(t.events, "id", e.message) = {}
                 \/ \E e \in parentEdges : Rows(t.nodes, "id", e.parent) = {}, "no_orphan_edges"),
        FailedIf(\E r \in Rows(t.items, "conv", c) :
            Rows(IF r.ref.type = "message" THEN t.events ELSE t.nodes, "id", r.ref.id) = {},
            "no_orphan_context_refs"),
        FailedIf(\E e \in parentEdges : PgReaches(t, e.parent, e.summary), "acyclic_dag")}

(* The rows, read in the order of the column, are numbered from first.     *)
PgRanked(rows, column, first) ==
    \A r \in rows : r[column] = first + Cardinality({x \in rows : x[column] < r[column]})

PgFailedChecks(t, c) ==
    LET mine == Rows(t.nodes, "conv", c)
        leafEdges == {e \in t.leaf : e.summary \in {n.id : n \in mine}}
        parentEdges == {e \in t.parents : e.summary \in {n.id : n \in mine}}
    IN UNION {
        PgGraphChecks(t, c, leafEdges, parentEdges),
        FailedIf(\E n \in mine : n.kind = "leaf" /\ Rows(leafEdges, "summary", n.id) = {}, "leaf_coverage"),
        FailedIf(\E n \in mine : n.kind = "condensed" /\ Rows(parentEdges, "summary", n.id) = {},
                 "condensed_coverage"),
        FailedIf(~ PgRanked(Rows(t.items, "conv", c), "position", 0), "contiguous_positions"),
        FailedIf(~ PgRanked(Rows(t.events, "conv", c), "seq", 1), "monotonic_sequence"),
        FailedIf(\E n \in mine : ~ (PgExpectedArtifacts(t, c, n.id) \subseteq n.artifacts), "artifact_propagation")}

-----------------------------------------------------------------------------
(* pg-context-projection.ts *)

PgEnsureVersionRow(t, c) ==
    IF Rows(t.versions, "conv", c) # {} THEN t
    ELSE [t EXCEPT !.versions = @ \cup {[conv |-> c, version |-> 0]}]

(* UPDATE ... SET version = version + 1, by one statement with the items.  *)
PgBumpVersion(t, c) ==
    [t EXCEPT !.versions = {IF r.conv = c THEN [r EXCEPT !.version = @ + 1] ELSE r : r \in @}]

PgCurrentContext(t, c) == [items |-> ItemRefs(t, c), version |-> VersionOf(t, c)]

PgContextTokenCount(t, c) == FoldLeft(LAMBDA sum, r : sum + ItemTokens(t, r), 0, ItemRefs(t, c))

(* max_position + ordinality, and ordinality counts from 1.                *)
PgAppendContextItems(t, c, refs) ==
    LET ready == PgEnsureVersionRow(t, c)
        last == Maximum({r.position : r \in Rows(t.items, "conv", c)}, -1)
        payload == {[conv |-> c, position |-> last + i, ref |-> refs[i]] : i \in DOMAIN refs}
    IN IF refs = <<>> THEN Done(ready, VersionOf(t, c))
       ELSE Done(PgBumpVersion([ready EXCEPT !.items = @ \cup payload], c), VersionOf(t, c) + 1)

(* Mutant: the positions that the new list no longer has stay behind. *)
PgReplaceContextItemsMutant(t, c, expected, positions, ref) ==
    LET ready == PgEnsureVersionRow(t, c)
        merged == Merged(ItemRefs(t, c), positions, ref)
        payload == {[conv |-> c, position |-> i - 1, ref |-> merged[i]] : i \in DOMAIN merged}
        overwritten == {r \in Rows(t.items, "conv", c) : \E x \in payload : x.position = r.position}
    IN IF VersionOf(t, c) # expected THEN Refused(t, "StaleContextVersionError")
       ELSE Done(PgBumpVersion([ready EXCEPT !.items = (@ \ overwritten) \cup payload], c), expected + 1)

(* The new items are upserted by position, and the positions that the new  *)
(* list no longer has are deleted.                                         *)
PgReplaceContextItems(t, c, expected, positions, ref) ==
    LET ready == PgEnsureVersionRow(t, c)
        merged == Merged(ItemRefs(t, c), positions, ref)
        payload == {[conv |-> c, position |-> i - 1, ref |-> merged[i]] : i \in DOMAIN merged}
        overwritten == {r \in Rows(t.items, "conv", c) : \E x \in payload : x.position = r.position}
        dropped == {r \in Rows(t.items, "conv", c) : r.position \notin {x.position : x \in payload}}
    IN IF VersionOf(t, c) # expected THEN Refused(t, "StaleContextVersionError")
       ELSE IF positions = {} THEN Done(ready, expected)
       ELSE IF \E p \in positions : p >= Len(ItemRefs(t, c)) THEN Refused(t, "InvariantViolationError")
       ELSE Done(PgBumpVersion([ready EXCEPT !.items = ((@ \ overwritten) \ dropped) \cup payload], c),
                 expected + 1)

-----------------------------------------------------------------------------
(* pg-artifact-store.ts *)

PgArtifact(t, a) == Rows(t.artifacts, "id", a)

PgStoreArtifact(t, artifact) ==
    IF PgArtifact(t, artifact.id) # {} THEN Done(t, 0)
    ELSE Done([t EXCEPT !.artifacts = @ \cup {artifact}], 1)

PgUpdateExploration(t, a, explorer) ==
    IF PgArtifact(t, a) = {} THEN Refused(t, "InvariantViolationError")
    ELSE Done([t EXCEPT !.artifacts = {IF r.id = a THEN [r EXCEPT !.explorer = explorer] ELSE r : r \in @}], 0)
=============================================================================
