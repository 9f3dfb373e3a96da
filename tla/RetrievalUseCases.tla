------------------------- MODULE RetrievalUseCases -------------------------
(* GrepUseCase, DescribeUseCase and ExpandUseCase over the three stores of  *)
(* StoreConformance, and what the stores promise these readers.             *)
EXTENDS StoreConformance

(* toPublicGroups: consecutive matches under one summary are one group: a  *)
(* match joins that of the match before it, or begins one. An uncovered    *)
(* match is compared as undefined with null, so it never joins.            *)
ToPublicGroups(matches) ==
    [i \in DOMAIN matches |->
        [id |-> matches[i].id, covering |-> matches[i].covering,
         joins |-> /\ i > 1 /\ matches[i].covering # NoScope
                   /\ matches[i].covering = matches[i - 1].covering]]

(* page is what regexSearchEvents of a store answers from the offset on,   *)
(* scopeNode what getNode found.                                           *)
Grep(c, scope, scopeNode, offset, page) ==
    LET next == offset + Len(page.matches)
    IN IF scope # NoScope /\ {x.conv : x \in scopeNode} # {c}
       THEN [error |-> "InvalidReferenceError"]
       ELSE [error |-> "none", groups |-> ToPublicGroups(page.matches),
             hasMore |-> next < page.total, nextOffset |-> next]

MemGrep(c, word, scope, offset, limit) ==
    Grep(c, scope, MemGetNode(memory, scope), offset,
         MemRegexSearchEvents(memory, c, word, scope, offset, limit))

LiteGrep(c, word, scope, offset, limit) ==
    Grep(c, scope, LiteGetNode(sqlite, scope), offset,
         LiteRegexSearchEvents(sqlite, c, word, scope, offset, limit))

PgGrep(c, word, scope, offset, limit) ==
    Grep(c, scope, PgGetNode(postgres, scope), offset,
         PgRegexSearchEvents(postgres, c, word, scope, offset, limit))

(* A summary wins over an artifact of the same id.                         *)
Describe(node, sources, artifact) ==
    IF node # {} THEN [kind |-> "summary", found |-> node, parentIds |-> sources]
    ELSE IF artifact # {} THEN [kind |-> "artifact", found |-> artifact, parentIds |-> <<>>]
    ELSE [kind |-> "InvalidReferenceError", found |-> {}, parentIds |-> <<>>]

(* Only a child may expand, and only what is its own or its parent's.      *)
Expand(parentOfCaller, caller, claimedParent, node, messages) ==
    IF parentOfCaller \in {{}, {0}} \/ parentOfCaller # {claimedParent} THEN "UnauthorizedExpandError"
    ELSE IF node = {} \/ \E x \in node : x.conv \notin {caller, claimedParent} THEN "InvalidReferenceError"
    ELSE messages

MemExpand(caller, parent, n) ==
    Expand({memory.conversations[c] : c \in {caller} \cap DOMAIN memory.conversations}, caller, parent,
           MemGetNode(memory, n), MemExpandToMessages(memory, n))

LiteExpand(caller, parent, n) ==
    Expand({r.parent : r \in Rows(sqlite.conversations, "id", caller)}, caller, parent,
           LiteGetNode(sqlite, n), LiteExpandToMessages(sqlite, n))

PgExpand(caller, parent, n) ==
    Expand({r.parent : r \in Rows(postgres.conversations, "id", caller)}, caller, parent,
           PgGetNode(postgres, n), PgExpandToMessages(postgres, n))

-----------------------------------------------------------------------------
Same(m, l, p) == m = l /\ l = p

(* Of up to three matches a page shows all, or leaves one for the next.    *)
PageSize == 2

Scopes(c) == {NoScope} \cup {x.id : x \in {y \in ToSet(memory.nodes) : y.conv = c}}

(* What is grepped for; a stop word is a word like any other there.        *)
Words == (UNION UNION {ToSet(b.texts) : b \in Batches}) \ Stopwords

(* A word of a query that is not a stop word is enough for the in-memory   *)
(* and SQLite stores; PostgreSQL asks for all of them.                     *)
SearchesAgree(mem, lite, pg, query) ==
    /\ query \cap Stopwords = {} => mem = lite
    /\ pg \subseteq lite
    /\ Cardinality(query \ Stopwords) <= 1 => pg = lite

(* PostgreSQL walks the scope of a summary search the wrong way: it agrees *)
(* where the scope has neither sources nor summaries that condense it.     *)
Isolated(n) ==
    /\ memory.parents[n] = <<>>
    /\ \A x \in Nodes : ~ Contains(memory.parents[x], n)

LedgerReadsAgree(c) ==
    /\ Same(MemNextSequence(memory, c), LiteNextSequence(sqlite, c), PgNextSequence(postgres, c))
    /\ \A start \in 1..MaxEvents : \A end \in start..MaxEvents :
           Same(MemGetEvents(memory, c, start, end), LiteGetEvents(sqlite, c, start, end),
                PgGetEvents(postgres, c, start, end))
    /\ \A query \in Queries, scope \in Scopes(c) :
           SearchesAgree(ToSet(MemSearchEvents(memory, c, query, scope)),
                         ToSet(LiteSearchEvents(sqlite, c, query, scope)),
                         ToSet(PgSearchEvents(postgres, c, query, scope)), query)
    /\ \A word \in Words, scope \in Scopes(c), offset \in 0..1 :
           LET lite == LiteGrep(c, word, scope, offset, PageSize)
               pg == PgGrep(c, word, scope, offset, PageSize)
           IN Same(MemGrep(c, word, scope, offset, PageSize), lite,
                   IF pg.groups = <<>> /\ lite.groups = <<>> THEN lite ELSE pg)

SummaryReadsAgree(c) ==
    /\ \A n \in Scopes(c) \ {NoScope} :
           /\ Same(MemExpandToMessages(memory, n), LiteExpandToMessages(sqlite, n), PgExpandToMessages(postgres, n))
           /\ Same(Describe(MemGetNode(memory, n), MemParentSummaryIds(memory, n), {}),
                   Describe(LiteGetNode(sqlite, n), LiteParentSummaryIds(sqlite, n), {}),
                   Describe(PgGetNode(postgres, n), PgParentSummaryIds(postgres, n), {}))
    /\ \A caller, parent \in Conversations, n \in Nodes :
           Same(MemExpand(caller, parent, n), LiteExpand(caller, parent, n), PgExpand(caller, parent, n))
    /\ \A query \in Queries, scope \in Scopes(c) :
           SearchesAgree(MemSearchSummaries(memory, c, query, scope), LiteSearchSummaries(sqlite, c, query, scope),
                         IF scope = NoScope \/ Isolated(scope) THEN PgSearchSummaries(postgres, c, query, scope)
                         ELSE LiteSearchSummaries(sqlite, c, query, scope), query)
    /\ Same(MemFailedChecks(memory, c), LiteFailedChecks(sqlite, c), PgFailedChecks(postgres, c))

ContextReadsAgree(c) ==
    /\ Same(MemCurrentContext(memory, c), LiteCurrentContext(sqlite, c), PgCurrentContext(postgres, c))
    /\ Same(MemContextTokenCount(memory, c), LiteContextTokenCount(sqlite, c), PgContextTokenCount(postgres, c))
    /\ Same(MemAncestorChain(memory, c), LiteAncestorChain(sqlite, c), PgAncestorChain(postgres, c))
    /\ \A a \in Artifacts : Same(Describe({}, <<>>, MemArtifact(memory, a)), Describe({}, <<>>, LiteArtifact(sqlite, a)),
                                 Describe({}, <<>>, PgArtifact(postgres, a)))

(* The three stores answer every call alike and then every read alike,     *)
(* whatever calls were made: the representation of the edges, of the item  *)
(* positions and of the coverage differs, and so do the ways to walk it.   *)
(* What is known to differ is spelt out in SearchesAgree and Isolated.     *)
StoresAgree ==
    /\ agreed
    /\ \A c \in Conversations : LedgerReadsAgree(c) /\ SummaryReadsAgree(c) /\ ContextReadsAgree(c)

(* What a reader has who follows nextOffset until hasMore is false; pages   *)
(* has the answer for every offset.                                        *)
Followed(pages) ==
    LET from[offset \in 0..MaxEvents] ==
            LET page == pages[offset]
            IN [i \in DOMAIN page.groups |-> page.groups[i].id]
               \o (IF page.hasMore THEN from[page.nextOffset] ELSE <<>>)
    IN from[0]

(* A reader that follows nextOffset until hasMore is false gets every      *)
(* match once and in sequence, also from PostgreSQL, whose total is read   *)
(* from the rows of the page.                                              *)
PagesComplete ==
    \A c \in Conversations, word \in Words :
        LET matches == Where(memory.events[c], LAMBDA e : word \in e.text)
            all == [i \in DOMAIN matches |-> matches[i].id]
        IN /\ Followed([o \in 0..MaxEvents |-> MemGrep(c, word, NoScope, o, PageSize)]) = all
           /\ Followed([o \in 0..MaxEvents |-> LiteGrep(c, word, NoScope, o, PageSize)]) = all
           /\ Followed([o \in 0..MaxEvents |-> PgGrep(c, word, NoScope, o, PageSize)]) = all
=============================================================================
