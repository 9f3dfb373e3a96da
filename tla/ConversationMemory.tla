------------------------ MODULE ConversationMemory ------------------------
(***************************************************************************)
(* One conversation's ledger, its active context and its summary DAG, used *)
(* by clients that append events and by compactions, over PostgreSQL.      *)
(*                                                                         *)
(* Every unit of work is a READ COMMITTED transaction, so each query sees  *)
(* what was committed before it.  A client reads the ledger (through the   *)
(* pool) and the token count before it locks the conversation row; from    *)
(* there to its commit nothing else commits: a compaction holds the same   *)
(* row in share mode from the insertion of its node to its own commit.     *)
(* Two compactions do not exclude each other: only                         *)
(* context_versions.version does.                                          *)
(***************************************************************************)
EXTENDS Naturals, FiniteSets, Sequences, Functions

CONSTANTS
    Clients,        \* concurrent AppendLedgerEvents calls
    Compactors,     \* concurrent RunCompaction calls
    HardCompactors, \* those with trigger 'hard'; the others have 'soft'
    Requests,       \* what clients may append
    MinBlocks,      \* the values minBlockSize may have
    TailWindow,     \* tailWindowSize
    BlockTarget,    \* tokens a compaction block aims for
    Available,      \* budget.available
    Target,         \* targetTokens
    Soft,           \* the soft threshold in tokens
    SummarySizes,   \* token counts of summaries
    FallbackMax,    \* deterministicFallbackMaxTokens
    MaxRounds,      \* maxRounds
    MaxEvents,      \* bound: ledger length
    MaxHandles,     \* bound: operator handles in the ledger
    MaxCollisions,  \* bound: summaries whose content repeats an older one
    MaxCompactions  \* bound: compactions that may start

Request ==
    [key : Nat, payload : Nat, events : Seq([tokens : Nat, system : BOOLEAN])]

ASSUME RequestsAssumption ==
    Requests # {} /\ Requests \subseteq Request /\ \A r \in Requests : r.events # <<>>
ASSUME PolicyAssumption ==
    /\ HardCompactors \subseteq Compactors
    /\ MinBlocks \subseteq Nat \ {0}
    /\ TailWindow \in Nat
    /\ BlockTarget \in Nat \ {0}
    /\ MaxRounds \in Nat \ {0}
ASSUME TokensAssumption ==
    /\ Available \in Nat /\ Target \in Nat /\ Soft \in Nat
    /\ SummarySizes \subseteq Nat /\ FallbackMax \in Nat
    /\ \E size \in SummarySizes : size <= FallbackMax
ASSUME MemoryBoundsAssumption ==
    /\ MaxEvents \in Nat /\ MaxHandles \in Nat
    /\ MaxCollisions \in Nat /\ MaxCompactions \in Nat

VARIABLES
    minBlock,     \* the compaction policy's minBlockSize
    ledger,       \* ledger_events by sequence number
    context,      \* context_items by position (from 1)
    version,      \* context_versions.version
    nodes,        \* summary_nodes with their edges
    scheduled,    \* a soft job was enqueued since the context was last within Soft
    client,       \* what each appending client is doing
    compactor,    \* what each compaction is doing
    collisions,
    compactions

shared == <<ledger, context, version, nodes, scheduled>>
memoryVars == <<minBlock, shared, client, compactor, collisions, compactions>>

NoKey == 0

Event ==
    [key : Nat, payload : Nat, tokens : Nat, system : BOOLEAN, projected : BOOLEAN]

Ref == [type : {"message", "summary"}, id : Nat]

Message(e) == [type |-> "message", id |-> e]
Summary(n) == [type |-> "summary", id |-> n]

Node ==
    [kind : {"leaf", "condensed"}, messages : SUBSET Nat, parents : SUBSET Nat,
     tokens : Nat]

NoNode == [kind |-> "leaf", messages |-> {}, parents |-> {}, tokens |-> 0]

Client == [phase : {"idle", "checked"}, request : Requests, under : BOOLEAN]

IdleClient ==
    [phase |-> "idle", request |-> CHOOSE r \in Requests : TRUE, under |-> FALSE]

(* Where a compaction is between two queries.                              *)
(*   round        at the head of the loop                                  *)
(*   contextRead  has read the context, not yet the ledger                 *)
(*   ledgerRead   the other way round: the two reads are concurrent        *)
(*   summarizing  has both, waits for the summarizer                       *)
(*   replacing    has written the node and found its version current       *)
(*   swapping     has read the items again                                 *)
CompactorPhase ==
    {"idle", "round", "contextRead", "ledgerRead", "summarizing", "replacing",
     "swapping"}
(* The error a compaction ended with, "none" if it returned. *)
Outcome ==
    {"none", "not_converged", "unknown_message", "out_of_range", "dag_edge"}

Compactor ==
    [phase : CompactorPhase, current : Nat,
     rounds : Nat, stale : Nat, items : Seq(Ref), version : Nat, seen : Nat,
     block : SUBSET Nat, node : Node, id : Nat, outcome : Outcome]

IdleCompactor ==
    [phase |-> "idle", current |-> 0, rounds |-> 0, stale |-> 0,
     items |-> <<>>, version |-> 0, seen |-> 0, block |-> {}, node |-> NoNode,
     id |-> 0, outcome |-> "none"]

-----------------------------------------------------------------------------
(* The summary DAG. *)

(* The sets of nodes that hold the parents of each of their members.       *)
Closed(d) == {S \in SUBSET DOMAIN d : \A m \in S : d[m].parents \subseteq S}

(* summary_scope: a node and everything its parent edges lead to, the      *)
(* least set the recursive query's two branches are closed under.          *)
Scope(d, n) ==
    LET closed == Closed(d) IN {m \in DOMAIN d : \A S \in closed : n \in S => m \in S}

expandToMessages(d, n) == UNION {d[m].messages : m \in Scope(d, n)}

(* The events a context item stands for. *)
Covers(d, ref) ==
    IF ref.type = "message" THEN {ref.id} ELSE expandToMessages(d, ref.id)

ReadByKey(l, key) == {e \in DOMAIN l : l[e].key = key}

Tokens(l, d, ref) ==
    IF ref.type = "message" THEN l[ref.id].tokens ELSE d[ref.id].tokens

TokensAt(l, d, items, positions) ==
    FoldFunction(LAMBDA a, b : a + b, 0, [p \in positions |-> Tokens(l, d, items[p])])

getContextTokenCount(l, d, items) == TokensAt(l, d, items, DOMAIN items)

(* Mutant: summaries in a mixed block are not expanded. *)
LeafMessagesMutant(d, refs) == UNION {Covers(d, r) : r \in {q \in refs : q.type = "message"}}

LeafMessages(d, refs) == UNION {Covers(d, r) : r \in refs}

(* Mutant: one summary in the block makes the node condensed. *)
NodeForMutant(d, refs, size) ==
    IF \E r \in refs : r.type = "summary"
    THEN [kind |-> "condensed", messages |-> {}, parents |-> {r.id : r \in refs},
          tokens |-> size]
    ELSE [kind |-> "leaf", messages |-> LeafMessages(d, refs), parents |-> {},
          tokens |-> size]

(* The node a round creates for its block: condensed if there are only     *)
(* summaries in it, else a leaf over all its messages.                     *)
NodeFor(d, refs, size) ==
    IF \A r \in refs : r.type = "summary"
    THEN [kind |-> "condensed", messages |-> {}, parents |-> {r.id : r \in refs},
          tokens |-> size]
    ELSE [kind |-> "leaf", messages |-> LeafMessages(d, refs), parents |-> {},
          tokens |-> size]

(* Mutant: only the node itself is refused as its parent. *)
EdgesAllowedMutant(d, id, node) == id \notin node.parents

(* assertCondensedEdgeNoCycle for every parent; a new id cannot cycle.     *)
EdgesAllowed(d, id, node) ==
    id # 0 => \A p \in node.parents : id \notin Scope(d, p)

(* createNode and the edges.  A summary's id is the hash of its content    *)
(* and kind: content that repeats adds its edges to the existing node.     *)
Stored(d, id, node) ==
    IF id = 0 THEN Append(d, node)
    ELSE [d EXCEPT ![id].messages = @ \cup node.messages,
                   ![id].parents = @ \cup node.parents]

-----------------------------------------------------------------------------
(* The compaction policy. *)

isPinned(l, items, p) ==
    \/ p = 1 /\ items[p].type = "message" /\ l[items[p].id].system
    \/ p + TailWindow > Len(items)

(* The oldest unpinned items, up to the first one that makes the block     *)
(* large enough; none if there are fewer than minBlockSize.                *)
selectCandidates(l, d, items) ==
    LET unpinned == {p \in DOMAIN items : ~isPinned(l, items, p)}
        upTo(p) == {q \in unpinned : q <= p}
        full(p) == /\ Cardinality(upTo(p)) >= minBlock
                   /\ TokensAt(l, d, items, upTo(p)) >= BlockTarget
        block == {p \in unpinned : \A q \in unpinned : q < p => ~full(q)}
    IN IF Cardinality(block) >= minBlock THEN block ELSE {}

(* What the escalation may return: a summary smaller than its block, or,   *)
(* at level 3, the block's own text cut to FallbackMax.                    *)
SummarySize(l, d, items, block) ==
    {s \in SummarySizes : s < TokensAt(l, d, items, block) \/ s <= FallbackMax}

-----------------------------------------------------------------------------
Init ==
    /\ minBlock \in MinBlocks
    /\ ledger = <<>>
    /\ context = <<>>
    /\ version = 0
    /\ nodes = <<>>
    /\ scheduled = FALSE
    /\ client = [c \in Clients |-> IdleClient]
    /\ compactor = [c \in Compactors |-> IdleCompactor]
    /\ collisions = 0
    /\ compactions = 0

-----------------------------------------------------------------------------
(* Appending. *)

(* A compaction that inserted a node holds FOR KEY SHARE on the            *)
(* conversation row, by the foreign key: SELECT ... FOR UPDATE waits for   *)
(* it.  ON CONFLICT DO NOTHING inserts nothing and locks nothing.          *)
Locked ==
    \E c \in Compactors :
        compactor[c].phase \in {"replacing", "swapping"} /\ compactor[c].id = 0

(* The call reads the ledger through the pool (a key that is already there *)
(* ends it at once, with the existing events or IdempotencyConflictError)  *)
(* and then the token count, of which only the comparison with the soft    *)
(* threshold is used.  The two reads are one step: if the key is committed *)
(* between them, the call fails without effect later instead.              *)
CheckIdempotency(c) ==
    /\ client[c].phase = "idle"
    /\ \E r \in Requests :
        /\ r.key # NoKey => ReadByKey(ledger, r.key) = {}
        /\ Len(ledger) + Len(r.events) <= MaxEvents
        /\ client' = [client EXCEPT
             ![c] = [phase |-> "checked", request |-> r,
                     under |-> getContextTokenCount(ledger, nodes, context) <= Soft]]
    /\ UNCHANGED <<minBlock, shared, compactor, collisions, compactions>>

(* Mutant: the store trusts the check that was made before the lock. *)
AlreadyStoredMutant(r) == FALSE

AlreadyStored(r) == r.key # NoKey /\ ReadByKey(ledger, r.key) # {}

(* Mutant: only a replacement counts as a change. *)
AppendedVersionMutant(v) == v

AppendedVersion(v) == v + 1

Persisted(r) ==
    [k \in DOMAIN r.events |->
        [key |-> r.key, payload |-> r.payload, tokens |-> r.events[k].tokens,
         system |-> r.events[k].system, projected |-> TRUE]]

Goodbye(c) == client' = [client EXCEPT ![c] = IdleClient]

appendEvents(c) ==
    LET r == client[c].request
        base == Len(ledger)
    IN
    /\ client[c].phase = "checked"
    /\ ~Locked
    /\ ~AlreadyStored(r)
    /\ base + Len(r.events) <= MaxEvents
    /\ ledger' = ledger \o Persisted(r)
    /\ context' = context \o [k \in DOMAIN r.events |-> Message(base + k)]
    /\ version' = AppendedVersion(version)
    /\ LET post == getContextTokenCount(ledger', nodes, context') IN
        scheduled' = \/ client[c].under /\ post > Soft
                     \/ scheduled /\ post > Soft
    /\ Goodbye(c)
    /\ UNCHANGED <<minBlock, nodes, compactor, collisions, compactions>>

(* Another client committed the key first.  The store skips the event; the *)
(* context items then name an event that does not exist, or the next event *)
(* of the batch is out of sequence: the transaction fails either way.      *)
DuplicateFails(c) ==
    /\ client[c].phase = "checked"
    /\ ~Locked
    /\ AlreadyStored(client[c].request)
    /\ Goodbye(c)
    /\ UNCHANGED <<minBlock, shared, compactor, collisions, compactions>>

(* FinalizeOperatorRun appends a run's handle to the ledger only.          *)
AppendHandle ==
    /\ ~Locked
    /\ Cardinality({e \in DOMAIN ledger : ~ledger[e].projected}) < MaxHandles
    /\ Len(ledger) < MaxEvents
    /\ ledger' = Append(ledger, [key |-> NoKey, payload |-> 0, tokens |-> 1,
                                 system |-> FALSE, projected |-> FALSE])
    /\ UNCHANGED <<minBlock, context, version, nodes, scheduled, client, compactor,
                   collisions, compactions>>

-----------------------------------------------------------------------------
(* Compaction. *)

Set(c, r) == compactor' = [compactor EXCEPT ![c] = r]

Ended(outcome) == [IdleCompactor EXCEPT !.outcome = outcome]

Returned(c, r) ==
    Ended(IF c \in HardCompactors /\ r.current > Available THEN "not_converged" ELSE "none")

AtHead(r) ==
    [IdleCompactor EXCEPT !.phase = "round", !.current = r.current,
                          !.rounds = r.rounds, !.stale = r.stale]

AfterStale(c, r) ==
    IF r.stale + 1 > MaxRounds * 3 THEN Returned(c, r)
    ELSE AtHead([r EXCEPT !.stale = @ + 1])

StartCompaction(c) ==
    /\ compactor[c].phase = "idle"
    /\ compactions < MaxCompactions
    /\ Set(c, [IdleCompactor EXCEPT
                 !.phase = "round",
                 !.current = getContextTokenCount(ledger, nodes, context)])
    /\ compactions' = compactions + 1
    /\ UNCHANGED <<minBlock, shared, client, collisions>>

NeedsRound(r) == r.phase = "round" /\ r.current > Target /\ r.rounds < MaxRounds

getCurrentContext(c) ==
    /\ NeedsRound(compactor[c]) \/ compactor[c].phase = "ledgerRead"
    /\ Set(c, [compactor[c] EXCEPT
                 !.phase = IF @ = "round" THEN "contextRead" ELSE "summarizing",
                 !.items = context, !.version = version])
    /\ UNCHANGED <<minBlock, shared, client, collisions, compactions>>

getEvents(c) ==
    /\ NeedsRound(compactor[c]) \/ compactor[c].phase = "contextRead"
    /\ Set(c, [compactor[c] EXCEPT
                 !.phase = IF @ = "round" THEN "ledgerRead" ELSE "summarizing",
                 !.seen = Len(ledger)])
    /\ UNCHANGED <<minBlock, shared, client, collisions, compactions>>

Resolves(r) ==
    \A p \in DOMAIN r.items : r.items[p].type = "message" => r.items[p].id <= r.seen

Block(r) == selectCandidates(ledger, nodes, r.items)

UnknownMessage(c) ==
    /\ compactor[c].phase = "summarizing"
    /\ ~Resolves(compactor[c])
    /\ Set(c, Ended("unknown_message"))
    /\ UNCHANGED <<minBlock, shared, client, collisions, compactions>>

(* Mutant: an empty candidate list starts the round again. *)
NoCandidatesMutant(c, r) == AtHead(r)

AfterNoCandidates(c, r) == Returned(c, r)

Return(c) ==
    LET r == compactor[c] IN
    /\ \/ r.phase = "round" /\ ~NeedsRound(r) /\ Set(c, Returned(c, r))
       \/ /\ r.phase = "summarizing" /\ Resolves(r) /\ Block(r) = {}
          /\ Set(c, AfterNoCandidates(c, r))
    /\ UNCHANGED <<minBlock, shared, client, collisions, compactions>>

(* Mutant: the version is not compared. *)
CurrentMutant(r) == TRUE

Current(r) == r.version = version

(* The summarizer has answered: the node and its edges are written (but    *)
(* not committed) and replaceContextItems compares versions.               *)
createNode(c) ==
    LET r == compactor[c]
        block == Block(r)
    IN
    /\ r.phase = "summarizing" /\ Resolves(r) /\ block # {}
    /\ \E size \in SummarySize(ledger, nodes, r.items, block) :
        LET node == NodeFor(nodes, {r.items[p] : p \in block}, size) IN
        \E id \in {0} \cup {n \in DOMAIN nodes : /\ nodes[n].kind = node.kind
                                               /\ nodes[n].tokens = size} :
            /\ id # 0 => collisions < MaxCollisions
            /\ collisions' = IF id = 0 THEN collisions ELSE collisions + 1
            /\ Set(c, IF ~EdgesAllowed(nodes, id, node) THEN Ended("dag_edge")
                      ELSE IF ~Current(r) THEN AfterStale(c, r)
                      ELSE [r EXCEPT !.phase = "replacing", !.items = <<>>, !.seen = 0,
                                     !.block = block, !.node = node, !.id = id])
    /\ UNCHANGED <<minBlock, shared, client, compactions>>

(* The items are read again; another compaction may have committed since   *)
(* the versions were compared.                                             *)
RereadItems(c) ==
    LET r == compactor[c] IN
    /\ r.phase = "replacing"
    /\ Set(c, IF r.block \subseteq DOMAIN context
              THEN [r EXCEPT !.phase = "swapping", !.items = context]
              ELSE Ended("out_of_range"))
    /\ UNCHANGED <<minBlock, shared, client, collisions, compactions>>

FirstPosition(block) == CHOOSE p \in block : \A q \in block : p <= q
LastPosition(block) == CHOOSE p \in block : \A q \in block : q <= p

(* Mutant: the summary goes behind the first retained item. *)
ReplacedMutant(items, block, ref) ==
    SubSeq(items, 1, FirstPosition(block) - 1)
        \o SubSeq(items, LastPosition(block) + 1, LastPosition(block) + 1) \o <<ref>>
        \o SubSeq(items, LastPosition(block) + 2, Len(items))

(* The retained items with the summary where the block began.  Nothing is  *)
(* retained inside a block: candidates are neighbours (CandidatesShape in  *)
(* ConversationMemoryProofs).                                              *)
Replaced(items, block, ref) ==
    SubSeq(items, 1, FirstPosition(block) - 1) \o <<ref>> \o SubSeq(items, LastPosition(block) + 1, Len(items))

(* UPDATE ... WHERE version = expected, and COMMIT.                        *)
replaceContextItems(c) ==
    LET r == compactor[c] IN
    /\ r.phase = "swapping"
    /\ IF Current(r)
       THEN /\ nodes' = Stored(nodes, r.id, r.node)
            /\ LET n == IF r.id = 0 THEN Len(nodes) + 1 ELSE r.id IN
                context' = Replaced(r.items, r.block, Summary(n))
            /\ version' = version + 1
            /\ LET post == getContextTokenCount(ledger, nodes', context') IN
                /\ scheduled' = (scheduled /\ post > Soft)
                /\ Set(c, AtHead([r EXCEPT !.current = post, !.rounds = @ + 1, !.stale = 0]))
       ELSE /\ Set(c, AfterStale(c, r))
            /\ UNCHANGED <<nodes, context, version, scheduled>>
    /\ UNCHANGED <<minBlock, ledger, client, collisions, compactions>>

-----------------------------------------------------------------------------
ClientStep(c) ==
    CheckIdempotency(c) \/ appendEvents(c) \/ DuplicateFails(c)

CompactorStep(c) ==
    \/ getCurrentContext(c)
    \/ getEvents(c)
    \/ UnknownMessage(c)
    \/ Return(c)
    \/ createNode(c)
    \/ RereadItems(c)
    \/ replaceContextItems(c)

Next ==
    \/ \E c \in Clients : ClientStep(c)
    \/ AppendHandle
    \/ \E c \in Compactors : StartCompaction(c) \/ CompactorStep(c)

Spec == Init /\ [][Next]_memoryVars

(* The database answers every query and the summarizer every call.         *)
FairSpec == Spec /\ \A c \in Compactors : WF_memoryVars(CompactorStep(c))
-----------------------------------------------------------------------------
(* Properties. *)

(* Every variable holds a value of its type, and every reference names an  *)
(* event or a node that exists.                                            *)
MemoryTypeOK ==
    /\ minBlock \in MinBlocks
    /\ ledger \in Seq(Event)
    /\ context \in Seq(Ref)
    /\ version \in Nat
    /\ nodes \in Seq(Node)
    /\ scheduled \in BOOLEAN
    /\ client \in [Clients -> Client]
    /\ compactor \in [Compactors -> Compactor]
    /\ collisions \in 0 .. MaxCollisions
    /\ compactions \in 0 .. MaxCompactions
    /\ \A p \in DOMAIN context :
        context[p].id \in IF context[p].type = "message" THEN DOMAIN ledger ELSE DOMAIN nodes
    /\ \A n \in DOMAIN nodes :
        nodes[n].messages \subseteq DOMAIN ledger /\ nodes[n].parents \subseteq DOMAIN nodes

View == [p \in DOMAIN context |-> Covers(nodes, context[p])]

Events(v) == UNION {v[p] : p \in DOMAIN v}

Projected == {e \in DOMAIN ledger : ledger[e].projected}

(* Lossless: whatever appends and compactions interleave, and whatever     *)
(* summaries repeat, every event that entered the context can be reached   *)
(* from it by expansion, and nothing else can.                             *)
Lossless == Events(View) = Projected

(* Unless a summary's content repeated an older one, the items expand to   *)
(* disjoint blocks of the ledger in ledger order.                          *)
InOrder ==
    collisions = 0 =>
        LET v == View IN
        \A p, q \in DOMAIN v : p < q => \A d \in v[p], e \in v[q] : d < e

(* The optimistic lock: a compaction whose version is current has, in its  *)
(* snapshot, the current context.                                          *)
SnapshotAgreement ==
    \A c \in Compactors :
        /\ compactor[c].phase \in {"contextRead", "summarizing", "swapping"}
        /\ compactor[c].version = version
        => compactor[c].items = context

(* What checkIntegrity asks of the DAG: it is acyclic, a leaf covers       *)
(* messages only and a condensed node summaries only, and neither is       *)
(* empty.                                                                  *)
DagSound ==
    \A n \in DOMAIN nodes :
        /\ \A p \in nodes[n].parents : n \notin Scope(nodes, p)
        /\ (nodes[n].kind = "leaf") = (nodes[n].messages # {})
        /\ (nodes[n].kind = "condensed") = (nodes[n].parents # {})

(* However calls with one idempotency key race, retry or conflict, one     *)
(* call's events are stored: all of its batch, next to each other, with    *)
(* one payload.                                                            *)
OneBatchPerKey ==
    \A d \in DOMAIN ledger :
        ledger[d].key # NoKey =>
            \E r \in Requests :
                LET batch == ReadByKey(ledger, ledger[d].key)
                    first == CHOOSE e \in batch : \A f \in batch : e <= f
                IN /\ r.key = ledger[d].key
                   /\ batch = first .. first + Len(r.events) - 1
                   /\ SubSeq(ledger, first, first + Len(r.events) - 1) = Persisted(r)

(* A compaction, however stale its snapshot was, never replaces the system *)
(* message at the head nor one of the last TailWindow items.               *)
PinnedStay ==
    [][nodes' # nodes =>
        /\ \A k \in 0 .. TailWindow - 1 :
            k < Len(context) => context'[Len(context') - k] = context[Len(context) - k]
        /\ isPinned(ledger, context, 1) => context'[1] = context[1]]_memoryVars

(* Rounds that find their snapshot stale, rounds without candidates and    *)
(* summaries that free nothing notwithstanding, a compaction returns.      *)
CompactionEnds ==
    \A c \in Compactors : compactor[c].phase # "idle" ~> compactor[c].phase = "idle"

Abstract == INSTANCE Transcript WITH view <- View

(* The context behaves as the abstract transcript: every append records,   *)
(* every committed round condenses neighbours, nothing else changes what   *)
(* the context stands for (until a summary's content repeats).             *)
ImplementsTranscript ==
    Abstract!Init /\ [][collisions' = 0 => Abstract!Next]_(View)
=============================================================================
