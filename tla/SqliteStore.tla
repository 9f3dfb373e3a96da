---------------------------- MODULE SqliteStore ----------------------------
(* The SQLite stores (infrastructure/src/sqlite) over SqlTables. A unit of  *)
(* work is one BEGIN IMMEDIATE transaction on the one connection, so a call *)
(* that throws leaves the tables as they were.                              *)
EXTENDS SqlTables

-----------------------------------------------------------------------------
(* sqlite-conversation-store.ts *)

LiteCreate(t, parent) ==
    IF parent # 0 /\ Rows(t.conversations, "id", parent) = {}
    THEN Refused(t, "InvariantViolationError")
    ELSE Done([t EXCEPT !.conversations = @ \cup {[id |-> NextOrdinal(t), parent |-> parent]}],
              NextOrdinal(t))

LiteAncestorChain(t, id) == AncestorRows(t, id)

-----------------------------------------------------------------------------
(* sqlite-ledger-store.ts *)

LiteInsertEvent(t, e, key) ==
    IF MessageConv(t, e.id) # {} THEN t
    ELSE [t EXCEPT !.events = @ \cup {EventRow(e, key)}]

(* Rows are inserted one by one: a later event of the batch sees them. The *)
(* key of a batch is on its first row only.                                *)
LiteTake(c, acc, e) ==
    LET fresh == e.key # NoKey /\ e.key \notin acc.keys
        held == IF fresh THEN KeyedRow(acc.t, c, e.key) ELSE {}
    IN IF acc.answer # "ok" THEN acc
       ELSE IF held # {}
            THEN IF \A r \in held : r.digest = e.digest
                 THEN [acc EXCEPT !.keys = @ \cup {e.key}]
                 ELSE [acc EXCEPT !.answer = "IdempotencyConflictError"]
       ELSE IF e.seq # acc.expected
            THEN IF MessageConv(acc.t, e.id) # {} THEN acc
                 ELSE [acc EXCEPT !.answer = "NonMonotonicSequenceError"]
       ELSE [acc EXCEPT !.t = LiteInsertEvent(@, e, IF fresh THEN e.key ELSE NoKey),
                        !.keys = @ \cup {e.key},
                        !.expected = @ + 1]

LiteTaken(c, start, batch) == FoldLeft(LAMBDA acc, e : LiteTake(c, acc, e), start, batch)

LiteAppendEvents(t, c, batch) ==
    LET end == LiteTaken(c, [t |-> t, keys |-> {}, expected |-> NextSeq(t, c), answer |-> "ok"], batch)
    IN IF end.answer = "ok" THEN Done(end.t, 0) ELSE Refused(t, end.answer)

LiteNextSequence(t, c) == NextSeq(t, c)

LiteGetEvents(t, c, start, end) == EventRange(t, c, start, end)

LiteScopedMessageIds(t, scope) == ScopedMessages(t, scope)

(* Active summaries are walked in the order of their positions; the first  *)
(* one that reaches a message covers it.                                   *)
LiteCoverage(t, c, m) ==
    LET active == {r \in Rows(t.items, "conv", c) : r.ref.type = "summary"}
        covers == {r \in active : m \in ScopedMessages(t, r.ref.id)}
    IN IF covers = {} THEN NoScope ELSE OrderedBy(covers, "position")[1].ref.id

(* A token matches anywhere in the content, also inside a longer word.     *)
LiteSearchEvents(t, c, query, scope) ==
    Events({r \in Rows(t.events, "conv", c) :
               /\ r.text \cap SignificantWords(query) # {}
               /\ scope # NoScope => r.id \in LiteScopedMessageIds(t, scope)})

LiteRegexSearchEvents(t, c, word, scope, offset, limit) ==
    LET found == OrderedBy({r \in Rows(t.events, "conv", c) :
                               /\ word \in r.text
                               /\ scope # NoScope => r.id \in LiteScopedMessageIds(t, scope)}, "seq")
        all == [i \in DOMAIN found |->
                   [id |-> found[i].id,
                    covering |-> IF scope # NoScope THEN scope ELSE LiteCoverage(t, c, found[i].id)]]
    IN [matches |-> Page(all, offset, limit), total |-> Len(all)]

-----------------------------------------------------------------------------
(* sqlite-summary-dag.ts *)

LiteCreateNode(t, node) ==
    Done(IF NodeKind(t, node.id) # {} THEN t ELSE [t EXCEPT !.nodes = @ \cup {node}], 0)

LiteGetNode(t, n) == Rows(t.nodes, "id", n)

LiteNextLeafOrd(t, n) == Maximum({e.ord : e \in Rows(t.leaf, "summary", n)}, -1) + 1

LiteNextCondensedOrd(t, n) == Maximum({e.ord : e \in Rows(t.parents, "summary", n)}, -1) + 1

(* assertOrdersContiguous *)
LiteOrdersContiguous(edges, n) ==
    LET ords == {e.ord : e \in Rows(edges, "summary", n)} IN ords = 0..(Cardinality(ords) - 1)

LiteAddLeafEdge(t, n, acc, m) ==
    IF acc.answer # "ok" THEN acc
    ELSE IF MessageConv(t, m) # NodeConv(t, n) THEN [acc EXCEPT !.answer = "InvariantViolationError"]
    ELSE IF \E e \in acc.t.leaf : e.summary = n /\ e.message = m THEN acc
    ELSE [acc EXCEPT !.t.leaf = @ \cup {[summary |-> n, message |-> m, ord |-> LiteNextLeafOrd(acc.t, n)]}]

LiteAllLeafEdges(t, n, start, messages) == FoldLeft(LAMBDA acc, m : LiteAddLeafEdge(t, n, acc, m), start, messages)

LiteAddLeafEdges(t, n, messages) ==
    LET end == LiteAllLeafEdges(t, n, [t |-> t, answer |-> "ok"], messages)
    IN IF messages = <<>> THEN Done(t, 0)
       ELSE IF NodeKind(t, n) # {"leaf"} THEN Refused(t, "InvariantViolationError")
       ELSE IF ~ LiteOrdersContiguous(t.leaf, n) THEN Refused(t, "InvalidDagEdgeError")
       ELSE IF end.answer = "ok" THEN Done(end.t, 0) ELSE Refused(t, end.answer)

(* assertCondensedEdgeNoCycle *)
LiteReaches(t, from, target) == target \in SourceRows(t, from)

LiteAddCondensedEdge(t, n, acc, p) ==
    IF acc.answer # "ok" THEN acc
    ELSE IF NodeConv(t, p) # NodeConv(t, n) THEN [acc EXCEPT !.answer = "InvariantViolationError"]
    ELSE IF LiteReaches(acc.t, p, n) THEN [acc EXCEPT !.answer = "InvalidDagEdgeError"]
    ELSE IF \E e \in acc.t.parents : e.summary = n /\ e.parent = p THEN acc
    ELSE [acc EXCEPT !.t.parents = @ \cup {[summary |-> n, parent |-> p, ord |-> LiteNextCondensedOrd(acc.t, n)]}]

LiteAllCondensedEdges(t, n, start, sources) ==
    FoldLeft(LAMBDA acc, p : LiteAddCondensedEdge(t, n, acc, p), start, sources)

LiteAddCondensedEdges(t, n, sources) ==
    LET end == LiteAllCondensedEdges(t, n, [t |-> t, answer |-> "ok"], sources)
    IN IF sources = <<>> THEN Done(t, 0)
       ELSE IF NodeKind(t, n) # {"condensed"} THEN Refused(t, "InvariantViolationError")
       ELSE IF ~ LiteOrdersContiguous(t.parents, n) THEN Refused(t, "InvalidDagEdgeError")
       ELSE IF end.answer = "ok" THEN Done(end.t, 0) ELSE Refused(t, end.answer)

LiteParentSummaryIds(t, n) ==
    LET edges == OrderedBy(Rows(t.parents, "summary", n), "ord")
    IN [i \in DOMAIN edges |-> edges[i].parent]

LiteExpandToMessages(t, n) ==
    IF NodeKind(t, n) = {} THEN <<>>
    ELSE Events({r \in t.events : r.id \in ScopedMessages(t, n)})

LiteSearchSummaries(t, c, query, scope) ==
    {r \in Rows(t.nodes, "conv", c) :
        /\ r.text \cap SignificantWords(query) # {}
        /\ scope # NoScope => r.id \in SourceRows(t, scope)}

(* computeExpectedArtifactIds *)
LiteExpectedArtifacts(t, n) ==
    UNION {r.artifacts : r \in {x \in t.events : x.id \in ScopedMessages(t, n)}}

(* checkIntegrity: the names of the checks that fail; first those of the   *)
(* references and of the graph they form.                                  *)
LiteGraphChecks(t, c) ==
    LET mine == Rows(t.nodes, "conv", c)
        messageIds == {r.id : r \in t.events}
        nodeIds == {r.id : r \in t.nodes}
    IN UNION {
        FailedIf(\E n \in mine :
            \/ \E e \in Rows(t.leaf, "summary", n.id) : e.message \notin messageIds
            \/ \E e \in Rows(t.parents, "summary", n.id) : e.parent \notin nodeIds, "no_orphan_edges"),
        FailedIf(\E r \in Rows(t.items, "conv", c) :
            r.ref.id \notin (IF r.ref.type = "message" THEN messageIds ELSE nodeIds), "no_orphan_context_refs"),
        FailedIf(\E n \in mine : \E e \in Rows(t.parents, "summary", n.id) :
            LiteReaches(t, e.parent, n.id), "acyclic_dag")}

LiteFailedChecks(t, c) ==
    LET mine == Rows(t.nodes, "conv", c)
        positions == {r.position : r \in Rows(t.items, "conv", c)}
        sequences == {r.seq : r \in Rows(t.events, "conv", c)}
    IN UNION {
        LiteGraphChecks(t, c),
        FailedIf(\E n \in mine : n.kind = "leaf" /\ Rows(t.leaf, "summary", n.id) = {}, "leaf_coverage"),
        FailedIf(\E n \in mine : n.kind = "condensed" /\ Rows(t.parents, "summary", n.id) = {},
                 "condensed_coverage"),
        FailedIf(positions # 0..(Cardinality(positions) - 1), "contiguous_positions"),
        FailedIf(sequences # 1..Cardinality(sequences), "monotonic_sequence"),
        FailedIf(\E n \in mine : ~ (LiteExpectedArtifacts(t, n.id) \subseteq n.artifacts), "artifact_propagation")}

-----------------------------------------------------------------------------
(* sqlite-context-projection.ts *)

LiteEnsureVersionRow(t, c) ==
    IF Rows(t.versions, "conv", c) # {} THEN t
    ELSE [t EXCEPT !.versions = @ \cup {[conv |-> c, version |-> 0]}]

LiteBumpVersion(t, c) ==
    [t EXCEPT !.versions = {IF r.conv = c THEN [r EXCEPT !.version = @ + 1] ELSE r : r \in @}]

LiteCurrentContext(t, c) == [items |-> ItemRefs(t, c), version |-> VersionOf(t, c)]

LiteContextTokenCount(t, c) == FoldLeft(LAMBDA sum, r : sum + ItemTokens(t, r), 0, ItemRefs(t, c))

LiteInsertItems(t, c, refs, from) ==
    [t EXCEPT !.items = @ \cup {[conv |-> c, position |-> from + i - 1, ref |-> refs[i]] : i \in DOMAIN refs}]

LiteAppendContextItems(t, c, refs) ==
    LET ready == LiteEnsureVersionRow(t, c) IN
    IF refs = <<>> THEN Done(ready, VersionOf(t, c))
    ELSE Done(LiteBumpVersion(LiteInsertItems(ready, c, refs, Len(ItemRefs(t, c))), c), VersionOf(t, c) + 1)

(* All items of the conversation are deleted and written again.            *)
LiteReplaceContextItems(t, c, expected, positions, ref) ==
    LET ready == LiteEnsureVersionRow(t, c)
        emptied == [ready EXCEPT !.items = @ \ Rows(@, "conv", c)]
    IN IF VersionOf(t, c) # expected THEN Refused(t, "StaleContextVersionError")
       ELSE IF positions = {} THEN Done(ready, expected)
       ELSE IF \E p \in positions : p >= Len(ItemRefs(t, c)) THEN Refused(t, "InvariantViolationError")
       ELSE Done(LiteBumpVersion(LiteInsertItems(emptied, c, Merged(ItemRefs(t, c), positions, ref), 0), c),
                 expected + 1)

-----------------------------------------------------------------------------
(* sqlite-artifact-store.ts *)

LiteArtifact(t, a) == Rows(t.artifacts, "id", a)

LiteStoreArtifact(t, artifact) ==
    IF LiteArtifact(t, artifact.id) # {} THEN Done(t, 0)
    ELSE Done([t EXCEPT !.artifacts = @ \cup {artifact}], 1)

LiteUpdateExploration(t, a, explorer) ==
    IF LiteArtifact(t, a) = {} THEN Refused(t, "InvariantViolationError")
    ELSE Done([t EXCEPT !.artifacts = {IF r.id = a THEN [r EXCEPT !.explorer = explorer] ELSE r : r \in @}], 0)
=============================================================================
