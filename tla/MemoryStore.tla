---------------------------- MODULE MemoryStore ----------------------------
(* The in-memory stores (adapters/src/storage/in-memory): maps and arrays.  *)
(* A call is an operator from the state to [store, answer]; a call that     *)
(* throws leaves the state as it was, because it runs in a unit of work.    *)
(* A text is the set of its words; a regular expression is one word.        *)
EXTENDS Lists

CONSTANTS Conversations,   \* 1..n, the ordinals of the conversation ids
          Nodes,           \* ids of summary nodes
          Stopwords,       \* words that the SQL stores leave out of a search
          NoKey, NoScope

(* What a call returns is a number here: an ordinal, a version, 1 for true.*)
Done(s, n) == [store |-> s, error |-> "none", answer |-> n]
Refused(s, error) == [store |-> s, error |-> error, answer |-> 0]

EmptyMemory ==
    [conversations |-> <<>>,
     events    |-> [c \in Conversations |-> <<>>],
     nodes     |-> <<>>,
     leaf      |-> [n \in Nodes |-> <<>>],
     parents   |-> [n \in Nodes |-> <<>>],
     items     |-> [c \in Conversations |-> <<>>],
     version   |-> [c \in Conversations |-> 0],
     artifacts |-> <<>>]

MemEvents(s) == UNION {ToSet(s.events[c]) : c \in Conversations}
MemNode(s, n) == CHOOSE x \in ToSet(s.nodes) : x.id = n
MemNodeIds(s) == {x.id : x \in ToSet(s.nodes)}

-----------------------------------------------------------------------------
(* in-memory-conversation-store.ts *)

MemCreate(s, parent) ==
    IF parent # 0 /\ parent \notin DOMAIN s.conversations
    THEN Refused(s, "InvariantViolationError")
    ELSE Done([s EXCEPT !.conversations = Append(@, parent)], Len(s.conversations) + 1)

MemAncestorChain(s, id) ==
    LET chain[c \in {0} \cup Conversations] ==
            IF c \notin DOMAIN s.conversations \/ s.conversations[c] = 0 THEN <<>>
            ELSE Append(chain[s.conversations[c]], s.conversations[c])
    IN chain[id]

-----------------------------------------------------------------------------
(* in-memory-ledger-store.ts *)

(* An event whose id is known is skipped; keys are not looked at.          *)
MemTake(known, acc, e) ==
    IF acc.answer # "ok" \/ e.id \in known THEN acc
    ELSE IF e.seq # Len(acc.next) + 1 THEN [acc EXCEPT !.answer = "NonMonotonicSequenceError"]
    ELSE [acc EXCEPT !.next = Append(@, e)]

MemTaken(known, start, batch) == FoldLeft(LAMBDA acc, e : MemTake(known, acc, e), start, batch)

MemAppendEvents(s, c, batch) ==
    LET known == {e.id : e \in MemEvents(s)}
        end == MemTaken(known, [next |-> s.events[c], answer |-> "ok"], batch)
    IN IF end.answer = "ok" THEN Done([s EXCEPT !.events[c] = end.next], 0)
       ELSE Refused(s, end.answer)

MemNextSequence(s, c) == Len(s.events[c]) + 1

MemGetEvents(s, c, start, end) ==
    Where(s.events[c], LAMBDA e : start <= e.seq /\ e.seq <= end)

(* The nodes reached from a summary over the edges to its sources.         *)
MemSources(s, root) ==
    LET reach[k \in 0..Cardinality(Nodes)] ==
            IF k = 0 THEN {root} \cap MemNodeIds(s)
            ELSE reach[k - 1] \cup UNION {ToSet(s.parents[n]) : n \in reach[k - 1]}
    IN reach[Cardinality(Nodes)]

MemScopedMessageIds(s, scope) == UNION {ToSet(s.leaf[n]) : n \in MemSources(s, scope)}

(* The first active summary, by position, under which a message lies.      *)
MemCoverage(s, c, m) ==
    LET covers == {i \in DOMAIN s.items[c] :
                       /\ s.items[c][i].type = "summary"
                       /\ m \in MemScopedMessageIds(s, s.items[c][i].id)}
    IN IF covers = {} THEN NoScope
       ELSE s.items[c][CHOOSE i \in covers : \A j \in covers : i <= j].id

(* s.slice(offset, offset + limit) *)
Page(s, offset, limit) ==
    SubSeq(s, offset + 1, IF offset + limit < Len(s) THEN offset + limit ELSE Len(s))

MemHasTokenOverlap(text, query) == text \cap query # {}

MemSearchEvents(s, c, query, scope) ==
    Where(s.events[c], LAMBDA e :
        /\ scope # NoScope => e.id \in MemScopedMessageIds(s, scope)
        /\ MemHasTokenOverlap(e.text, query))

MemRegexSearchEvents(s, c, word, scope, offset, limit) ==
    LET found == Where(s.events[c], LAMBDA e :
                     /\ scope # NoScope => e.id \in MemScopedMessageIds(s, scope)
                     /\ word \in e.text)
        match(e) == [id |-> e.id,
                     covering |-> IF scope = NoScope THEN MemCoverage(s, c, e.id) ELSE scope]
        all == [i \in DOMAIN found |-> match(found[i])]
    IN [matches |-> Page(all, offset, limit), total |-> Len(all)]

-----------------------------------------------------------------------------
(* in-memory-summary-dag.ts *)

MemCreateNode(s, node) ==
    IF node.id \in MemNodeIds(s) THEN Done(s, 0)
    ELSE Done([s EXCEPT !.nodes = Append(@, node)], 0)

MemGetNode(s, n) == {x \in ToSet(s.nodes) : x.id = n}

(* uniquePush *)
MemPush(edges, new) == FoldLeft(LAMBDA acc, x : IF Contains(acc, x) THEN acc ELSE Append(acc, x), edges, new)

MemAddLeafEdges(s, n, messages) ==
    IF \/ n \notin MemNodeIds(s) \/ MemNode(s, n).kind # "leaf"
       \/ \E m \in ToSet(messages) : ~ \E e \in ToSet(s.events[MemNode(s, n).conv]) : e.id = m
    THEN Refused(s, "InvariantViolationError")
    ELSE Done([s EXCEPT !.leaf[n] = MemPush(@, messages)], 0)

(* checkForCycleOnEdge: the source must not reach the summary.             *)
MemAddCondensedEdges(s, n, sources) ==
    IF \/ n \notin MemNodeIds(s) \/ MemNode(s, n).kind # "condensed"
       \/ \E p \in ToSet(sources) : p \notin MemNodeIds(s) \/ MemNode(s, p).conv # MemNode(s, n).conv
    THEN Refused(s, "InvariantViolationError")
    ELSE IF \E p \in ToSet(sources) : n \in MemSources(s, p) THEN Refused(s, "InvalidDagEdgeError")
    ELSE Done([s EXCEPT !.parents[n] = MemPush(@, sources)], 0)

MemParentSummaryIds(s, n) == s.parents[n]

MemExpandToMessages(s, n) ==
    IF n \notin MemNodeIds(s) THEN <<>>
    ELSE Where(s.events[MemNode(s, n).conv], LAMBDA e : e.id \in MemScopedMessageIds(s, n))

MemSearchSummaries(s, c, query, scope) ==
    {x \in ToSet(s.nodes) :
        /\ x.conv = c
        /\ scope # NoScope => x.id \in MemSources(s, scope)
        /\ MemHasTokenOverlap(x.text, query)}

(* computeExpectedArtifactIds *)
MemExpectedArtifacts(s, n) ==
    UNION {e.artifacts : e \in {x \in MemEvents(s) : x.id \in MemScopedMessageIds(s, n)}}

MemOrphanEdges(s, c) ==
    \E x \in {y \in ToSet(s.nodes) : y.conv = c} :
        \/ ~ (ToSet(s.leaf[x.id]) \subseteq {e.id : e \in MemEvents(s)})
        \/ ~ (ToSet(s.parents[x.id]) \subseteq MemNodeIds(s))

MemOrphanItems(s, c) ==
    \E r \in ToSet(s.items[c]) :
        r.id \notin (IF r.type = "message" THEN {e.id : e \in MemEvents(s)} ELSE MemNodeIds(s))

(* checkIntegrity: the names of the checks that fail.                      *)
MemFailedChecks(s, c) ==
    LET mine == {x \in ToSet(s.nodes) : x.conv = c} IN
    {k \in {"no_orphan_edges"} : MemOrphanEdges(s, c)}
    \cup {k \in {"no_orphan_context_refs"} : MemOrphanItems(s, c)}
    \cup {k \in {"acyclic_dag"} : \E x \in mine : \E p \in ToSet(s.parents[x.id]) : x.id \in MemSources(s, p)}
    \cup {k \in {"leaf_coverage"} : \E x \in mine : x.kind = "leaf" /\ s.leaf[x.id] = <<>>}
    \cup {k \in {"condensed_coverage"} : \E x \in mine : x.kind = "condensed" /\ s.parents[x.id] = <<>>}
    \cup {k \in {"monotonic_sequence"} : \E i \in DOMAIN s.events[c] : s.events[c][i].seq # i}
    \cup {k \in {"artifact_propagation"} : \E x \in mine : ~ (MemExpectedArtifacts(s, x.id) \subseteq x.artifacts)}

-----------------------------------------------------------------------------
(* in-memory-context-projection.ts; an item's position is its index - 1.   *)

MemCurrentContext(s, c) == [items |-> s.items[c], version |-> s.version[c]]

MemContextTokenCount(s, c) ==
    FoldLeft(LAMBDA sum, r : sum + (IF r.type = "message"
                                    THEN (CHOOSE e \in MemEvents(s) : e.id = r.id).tokens
                                    ELSE MemNode(s, r.id).tokens), 0, s.items[c])

MemAppendContextItems(s, c, refs) ==
    IF refs = <<>> THEN Done(s, s.version[c])
    ELSE Done([s EXCEPT !.items[c] = @ \o refs, !.version[c] = @ + 1], s.version[c] + 1)

(* What is kept, renumbered, with the replacement where the first removed  *)
(* position was.                                                           *)
Merged(refs, positions, ref) ==
    LET insertion == CHOOSE p \in positions : \A q \in positions : p <= q
        keptPositions == Where([i \in DOMAIN refs |-> i - 1], LAMBDA p : p \notin positions)
        retained == [i \in DOMAIN keptPositions |-> refs[keptPositions[i] + 1]]
    IN SubSeq(retained, 1, insertion) \o <<ref>> \o SubSeq(retained, insertion + 1, Len(retained))

MemReplaceContextItems(s, c, expected, positions, ref) ==
    IF s.version[c] # expected THEN Refused(s, "StaleContextVersionError")
    ELSE IF positions = {} THEN Done(s, s.version[c])
    ELSE IF \E p \in positions : p >= Len(s.items[c]) THEN Refused(s, "InvariantViolationError")
    ELSE Done([s EXCEPT !.items[c] = Merged(@, positions, ref), !.version[c] = @ + 1], s.version[c] + 1)

-----------------------------------------------------------------------------
(* in-memory-artifact-store.ts *)

MemArtifact(s, a) == {x \in ToSet(s.artifacts) : x.id = a}

MemStoreArtifact(s, artifact) ==
    IF MemArtifact(s, artifact.id) # {} THEN Done(s, 0)
    ELSE Done([s EXCEPT !.artifacts = Append(@, artifact)], 1)

MemUpdateExploration(s, a, explorer) ==
    IF MemArtifact(s, a) = {} THEN Refused(s, "InvariantViolationError")
    ELSE Done([s EXCEPT !.artifacts =
                   [i \in DOMAIN @ |-> IF @[i].id = a THEN [@[i] EXCEPT !.explorer = explorer] ELSE @[i]]], 0)
=============================================================================
