-------------------------- MODULE RetrievalPacking --------------------------
(* The pure part of MaterializeContextUseCase: how the items of a context   *)
(* are trimmed, how a hint's matches become contenders (runs of messages,   *)
(* and one "bridge" summary), and how units are packed into a budget.       *)
(* A text is a set of words, a summary's retrieval text a sequence of facts *)
(* (sets of words); the tokens of a composed text are the sum of its parts. *)
EXTENDS Lists

CONSTANTS RetrievalStopwords, ShortWords,
          Cues,           \* words with a digit, a sign or a capital
          HeaderTokens,   \* tokens of a summary's first line
          FactTokens      \* tokens of the variants of a fact, the longest first

ASSUME PackingAssumption == HeaderTokens \in Nat /\ FactTokens \in Seq(Nat)

NoSummary == [tokens |-> 0, evidence |-> 0, relevance |-> 0, cues |-> 0]

MinAnswerBearing == 120

TokenSum(units) == FoldLeft(LAMBDA sum, u : sum + u.tokens, 0, units)

EventTokens(events) == MapThenSumSet(LAMBDA e : e.tokens, events)

(* The order of the first pair of keys that differ.                        *)
Precedes(left, right) ==
    \E i \in DOMAIN left : left[i] < right[i] /\ \A j \in 1..(i - 1) : left[j] = right[j]

-----------------------------------------------------------------------------
(* How relevant a text is *)

Overlap(query, text) == Cardinality(query \cap text)

Specificity(query, text) == Cardinality((query \ RetrievalStopwords) \cap text)

AnchorCoverage(query, text) == Cardinality(query \cap Cues \cap text)

(* The stages: the query, its keywords, its anchors; none twice.           *)
StageQueries(query) ==
    FoldLeft(LAMBDA acc, q : IF q = {} \/ Contains(acc, q) THEN acc ELSE Append(acc, q),
             <<>>, <<query, query \ ShortWords, query \cap Cues>>)

DirectRelevance(query, text) ==
    30 * Specificity(query, text) + 10 * Overlap(query, text) + 5 * AnchorCoverage(query, text)

FactEvidence(query, facts, i) ==
    LET direct == DirectRelevance(query, facts[i])
        adjacent == Maximum({DirectRelevance(query, facts[j]) : j \in {i - 1, i + 1} \cap DOMAIN facts}, 0)
        cues == Cardinality((facts[i] \cap Cues) \ query)
    IN [index |-> i, relevance |-> direct, cues |-> cues,
        evidence |-> direct + (IF cues = 0 THEN 0
                               ELSE IF direct + adjacent > 0 THEN 120 + adjacent ELSE -60)]

RankedFacts(query, facts) ==
    StableSort([i \in DOMAIN facts |-> FactEvidence(query, facts, i)],
               LAMBDA l, r : Precedes(<<-l.evidence, -l.cues, -l.relevance, l.index>>,
                                      <<-r.evidence, -r.cues, -r.relevance, r.index>>))

(* The evidence of the best fact, for a text of so many tokens.            *)
WithTokens(n, ranked) ==
    IF ranked = <<>> THEN [NoSummary EXCEPT !.tokens = n]
    ELSE [tokens |-> n, evidence |-> ranked[1].evidence, relevance |-> ranked[1].relevance, cues |-> ranked[1].cues]

AnswerBearing(m) == m.tokens > 0 /\ m.evidence >= MinAnswerBearing /\ m.cues > 0

WholeSummary(query, node) == WithTokens(node.tokens, RankedFacts(query, node.facts))

-----------------------------------------------------------------------------
(* compressBridgeSummaryContent: the best fact in its longest variant that *)
(* fits, with the header if that fits too, then its neighbours and the     *)
(* other facts, each in its longest variant that still fits.               *)

Longest(room) == SelectInSeq(FactTokens, LAMBDA v : v <= room)

WithFacts(start, support, known, max) ==
    FoldLeft(LAMBDA acc, i :
                 IF i \in acc.facts \/ i \notin known \/ Longest(max - acc.tokens) = 0 THEN acc
                 ELSE [facts |-> acc.facts \cup {i}, tokens |-> acc.tokens + FactTokens[Longest(max - acc.tokens)]],
             start, support)

FactsWithin(ranked, max) ==
    LET best == ranked[1].index
        variant == FactTokens[Longest(max)]
        start == variant + (IF HeaderTokens + variant <= max THEN HeaderTokens ELSE 0)
        support == <<best - 1, best + 1>> \o [i \in DOMAIN ranked |-> ranked[i].index]
    IN WithFacts([facts |-> {best}, tokens |-> start], support, DOMAIN ranked, max).tokens

CompressedTo(max, node, ranked, force) ==
    IF max <= 0 THEN NoSummary
    ELSE IF ~ force /\ node.tokens <= max THEN WithTokens(node.tokens, ranked)
    ELSE IF ranked = <<>> THEN [NoSummary EXCEPT !.tokens = IF HeaderTokens <= max THEN HeaderTokens ELSE max]
    ELSE IF Longest(max) = 0 THEN NoSummary
    ELSE WithTokens(FactsWithin(ranked, max), ranked)

Compress(query, node, max, force) == CompressedTo(max, node, RankedFacts(query, node.facts), force)

-----------------------------------------------------------------------------
(* The base of the context: records with kind, tokens and pinned, in the   *)
(* order of their positions.                                               *)

Pinned(items) == Where(items, LAMBDA x : x.pinned)

Unpinned(items, kind) == Where(items, LAMBDA x : ~ x.pinned /\ x.kind = kind)

(* trimResolvedItemsToBudget: the pinned items, then the newest messages,  *)
(* then the newest summaries, leaving out what does not fit.               *)
TakeWithin(start, units, budget) ==
    FoldLeft(LAMBDA acc, x : IF acc.used + x.tokens > budget THEN acc
                             ELSE [used |-> acc.used + x.tokens, taken |-> acc.taken \cup {x}],
             start, units)

Newest(items) == Reverse(Unpinned(items, "message")) \o Reverse(Unpinned(items, "summary"))

TrimToBudget(items, budget) ==
    LET pinned == [used |-> TokenSum(Pinned(items)), taken |-> ToSet(Pinned(items))]
    IN IF TokenSum(items) <= budget THEN items
       ELSE Those(items, TakeWithin(pinned, Newest(items), budget).taken)

(* getBridgeSelectionBudget: the reserve and up to two items of the base.  *)
SlackOf(units) ==
    FoldLeft(LAMBDA acc, x : IF acc.units >= 2 \/ acc.slack + x.tokens > 128 THEN acc
                             ELSE [slack |-> acc.slack + x.tokens, units |-> acc.units + 1],
             [slack |-> 0, units |-> 0], units).slack

SelectionBudget(base, reserve) == reserve + SlackOf(Newest(base))

(* getBridgeFitBudgets: what is free as the base is given up, item by item. *)
FitBudgets(base, available) ==
    LET droppable == Unpinned(base, "summary") \o Unpinned(base, "message")
        Free(n) == available - TokenSum(base) + TokenSum(SubSeq(droppable, 1, n))
    IN {b \in {Free(n) : n \in 0..Len(droppable)} : b > 0}

-----------------------------------------------------------------------------
(* The bridge summary of a hint *)

RankBefore(l, r) == Precedes(<<-l.score, -l.node.created>>, <<-r.score, -r.node.created>>)

(* materializeBridgeSummarySelection: the evidence slice, else the whole    *)
(* summary, else the largest compression there is.                          *)
SelectedWithin(fits, most, query, node, preferred) ==
    LET AtMost(n) == IF n <= most THEN n ELSE most
        retrieval == WholeSummary(query, node)
        evidenceOnly == /\ node.facts # node.shown
                        /\ retrieval.evidence >= MinAnswerBearing /\ retrieval.cues > 0
                        /\ retrieval.evidence > WithTokens(0, RankedFacts(query, node.shown)).evidence
        slice == {m \in {Compress(query, node, AtMost(IF preferred >= 1 THEN preferred ELSE 1), TRUE)} :
                      evidenceOnly /\ m.tokens > 0}
        (* The first to be tried is what is preferred, then the largest. *)
        first == IF AtMost(preferred) > 0 THEN <<AtMost(preferred)>> ELSE <<>>
        smaller == first \o StableSort(Listed({b \in fits : b < node.tokens}), LAMBDA l, r : l > r)
        tried == Where([i \in DOMAIN smaller |-> Compress(query, node, smaller[i], FALSE)], LAMBDA m : m.tokens > 0)
    IN IF slice # {} THEN CHOOSE m \in slice : TRUE
       ELSE IF node.tokens <= AtMost(preferred) THEN retrieval
       ELSE IF tried # <<>> THEN tried[1]
       ELSE IF node.tokens <= most THEN retrieval ELSE NoSummary

MaterializeBridge(query, node, base, available, preferred) ==
    LET Within(fits) == IF fits = {} THEN NoSummary
                        ELSE SelectedWithin(fits, Maximum(fits, 0), query, node, preferred)
    IN Within(FitBudgets(base, available))

(* The candidate to start with: the best, or if that needs compressing one *)
(* nearly as good that does not.                                           *)
Primary(viable, preferred) ==
    LET top == viable[1]
        fitting == StableSort(
            Where(viable, LAMBDA x : x.node.tokens <= preferred /\ x.score >= top.score - 10),
            LAMBDA l, r : Precedes(<<-l.score, l.node.tokens, -l.node.created>>, <<-r.score, r.node.tokens, -r.node.created>>))
    IN IF top.node.tokens <= preferred \/ fitting = <<>> THEN top ELSE fitting[1]

(* The first of what is there, in this order.                              *)
FirstOffer(primary, offers, best) ==
    LET bearing == StableSort(
            Where(offers, LAMBDA o : o.candidate.score >= best - 30 /\ AnswerBearing(o.as)),
            LAMBDA l, r : Precedes(
                <<-l.as.evidence, -l.as.cues, -l.candidate.score, l.as.tokens, -l.candidate.node.created>>,
                <<-r.as.evidence, -r.as.cues, -r.candidate.score, r.as.tokens, -r.candidate.node.created>>))
        possible == Where(offers, LAMBDA o : o.candidate.score < best - 30 /\ o.as.tokens > 0)
        usable == IF primary.as.tokens > 0 THEN <<primary>> ELSE <<>>
        sure == IF AnswerBearing(primary.as) /\ primary.as.relevance > 0 THEN usable ELSE <<>>
        all == sure \o bearing \o usable \o possible
    IN SubSeq(all, 1, IF all = <<>> THEN 0 ELSE 1)

(* chooseBridgeSummaryCandidate, over candidates in the order of their      *)
(* rank, none of which is in the base or chosen for an earlier hint.        *)
ChosenAmong(viable, query, base, available, preferred) ==
    LET Offer(x) == [candidate |-> x, as |-> MaterializeBridge(query, x.node, base, available, preferred)]
        primary == Primary(viable, preferred)
        others == Where(viable, LAMBDA x : x.node.id # primary.node.id)
    IN IF viable = <<>> THEN <<>>
       ELSE FirstOffer(Offer(primary), [i \in DOMAIN others |-> Offer(others[i])], viable[1].score)

ChooseBridge(query, ranked, base, available, preferred) ==
    LET pinnedTokens == TokenSum(Pinned(base))
    IN ChosenAmong(Where(ranked, LAMBDA x :
                       \/ x.node.tokens + pinnedTokens <= available
                       \/ pinnedTokens = 0
                       \/ x.node.facts # <<>>),
                   query, base, available, preferred)

-----------------------------------------------------------------------------
(* The contenders of a hint. Raw ones are runs of messages around a seed.  *)

Bundle(hint, order, seq, events, score, relevance, source) ==
    [kind |-> "raw", hint |-> hint.index, limit |-> hint.limit, order |-> order, score |-> score,
     overlap |-> relevance.overlap, specificity |-> relevance.specificity, anchors |-> relevance.anchors,
     source |-> source, from |-> seq - 1, to |-> seq + 1, events |-> events, tokens |-> EventTokens(events)]

(* Mutant: a neighbour that is there already is not left out. *)
WindowOfMutant(seed, window, selected) ==
    {e \in window : e.seq \in {seed.seq - 1, seed.seq + 1}} \cup {seed}

(* buildRetrievedEventWindow, less what is in the context or chosen.       *)
WindowOf(seed, window, selected) ==
    {e \in {x \in window : x.seq \in {seed.seq - 1, seed.seq + 1}} \cup {seed} : e.seq \notin selected}

(* What the best of a hint's stages finds in a message.                    *)
StageBest(Measure(_, _), hint, e) == Maximum({Measure(hint.stages[i], e.text) : i \in DOMAIN hint.stages}, 0)

ScopedScore(hint, e) ==
    LET hits == Cardinality({i \in DOMAIN hint.stages : Overlap(hint.stages[i], e.text) > 0})
    IN 180 * StageBest(Specificity, hint, e) + 10 * hits + StageBest(Overlap, hint, e)
           + 5 * AnchorCoverage(hint.query, e.text)

Seeds(hint, under, selected) ==
    StableSort(Listed({e \in under : e.seq \notin selected /\ ScopedScore(hint, e) > 0}),
               LAMBDA l, r : Precedes(<<-ScopedScore(hint, l), -StageBest(Specificity, hint, l), l.seq>>,
                                      <<-ScopedScore(hint, r), -StageBest(Specificity, hint, r), r.seq>>))

(* buildBridgeScopedRawContender: around the best message under the bridge. *)
BridgeScopedRaw(hint, order, bridge, under, selected, available) ==
    LET seeds == Seeds(hint, under, selected)
        seed == seeds[1]
        events == WindowOf(seed, under, selected)
    IN IF seeds = <<>> \/ EventTokens(events) > available THEN <<>>
       ELSE <<Bundle(hint, order, seed.seq, events, Maximum({ScopedScore(hint, seed), bridge.score}, 0),
                     [overlap |-> Maximum({StageBest(Overlap, hint, seed), bridge.overlap}, 0),
                      specificity |-> Maximum({StageBest(Specificity, hint, seed), bridge.specificity}, 0),
                      anchors |-> Maximum({AnchorCoverage(hint.query, seed.text), bridge.anchors}, 0)],
                     "bridge_scoped")>>

(* coalesceRawRetrievalContenders: the runs of one hint that touch become  *)
(* one, which counts once against the limit of the hint.                   *)
Joined(left, right) ==
    LET Greater(f) == Maximum({left[f], right[f]}, 0)
        events == left.events \cup right.events
    IN [left EXCEPT !.to = Greater("to"), !.score = Greater("score"), !.overlap = Greater("overlap"),
                    !.specificity = Greater("specificity"), !.anchors = Greater("anchors"),
                    !.source = IF "bridge_scoped" \in {left.source, right.source} THEN "bridge_scoped" ELSE @,
                    !.order = IF right.order < @ THEN right.order ELSE @,
                    !.events = events, !.tokens = EventTokens(events)]

JoinTouching(runs) ==
    FoldLeft(LAMBDA joined, x :
                 IF joined # <<>> /\ x.from <= Last(joined).to + 1
                 THEN Append(Front(joined), Joined(Last(joined), x)) ELSE Append(joined, x),
             <<>>, runs)

RunsOf(contenders, h) ==
    JoinTouching(StableSort(Where(contenders, LAMBDA x : x.kind = "raw" /\ x.hint = h),
                            LAMBDA l, r : Precedes(<<l.from, l.to, l.order>>, <<r.from, r.to, r.order>>)))

Coalesce(contenders, hints) ==
    LET bridges == Where(contenders, LAMBDA x : x.kind = "bridge")
    IN StableSort(bridges \o Concat([h \in 1..hints |-> RunsOf(contenders, h)]), LAMBDA l, r : l.order < r.order)

-----------------------------------------------------------------------------
(* Packing units into the budget *)

(* compareRetrievalUnits: score per token, except that a run that a bridge *)
(* led to precedes any other run that is less specific.                    *)
Outranks(l, r) ==
    /\ l.kind = "raw" /\ r.kind = "raw"
    /\ l.source = "bridge_scoped" /\ r.source # "bridge_scoped"
    /\ Precedes(<<r.specificity, r.anchors>>, <<l.specificity, l.anchors>>)

BeforeInPacking(l, r) ==
    /\ ~ Outranks(r, l)
    /\ \/ Outranks(l, r)
       \/ Precedes(<<r.score * l.tokens, IF l.kind = "bridge" THEN 0 ELSE 1, l.order>>,
                   <<l.score * r.tokens, IF r.kind = "bridge" THEN 0 ELSE 1, r.order>>)

(* compareWeakestRawRetrievalUnits *)
Weaker(l, r) ==
    Precedes(<<l.specificity, l.anchors, l.overlap, l.score * r.tokens, -l.order>>,
             <<r.specificity, r.anchors, r.overlap, r.score * l.tokens, -r.order>>)

StrongerThan(bridge, raw) ==
    ~ Precedes(<<bridge.specificity, bridge.overlap>>, <<raw.specificity, raw.overlap>>)

CanReplace(bridge, raw) == Cardinality(raw.events) > 1 /\ StrongerThan(bridge, raw)

CanReplaceCompressed(bridge, raw) ==
    \/ CanReplace(bridge, raw)
    \/ /\ Cardinality(raw.events) > 1 /\ bridge.evidence >= MinAnswerBearing /\ bridge.cues > 0
       /\ raw.overlap <= bridge.overlap /\ raw.specificity <= bridge.specificity + 1

KeptForHint(kept, unit) == Where(kept, LAMBDA u : u.kind \in {"raw", "bridge"} /\ u.hint = unit.hint)

(* The pinned base, the retrieval units by rank, then the rest of the base *)
(* newest first: what fits, and of a hint no more than its limit.          *)
FillUp(packed, ranked, available) ==
    FoldLeft(LAMBDA acc, u :
                 IF \/ u.kind \in {"raw", "bridge"} /\ Len(KeptForHint(acc.kept, u)) >= u.limit
                    \/ acc.used + u.tokens > available
                 THEN acc
                 ELSE [acc EXCEPT !.kept = Append(@, u), !.used = @ + u.tokens],
             packed, ranked)

Pack(base, retrieval, available) ==
    FillUp([kept |-> Pinned(base), used |-> TokenSum(Pinned(base)), recompressed |-> FALSE],
           StableSort(retrieval, BeforeInPacking) \o Newest(base), available)

(* Mutant: the bridge that comes in is not counted. *)
SwappedMutant(packed, raw, bridge) ==
    [packed EXCEPT !.kept = [i \in DOMAIN @ |-> IF @[i] = raw THEN bridge ELSE @[i]],
                   !.used = @ - raw.tokens]

Swapped(packed, raw, bridge) ==
    [packed EXCEPT !.kept = [i \in DOMAIN @ |-> IF @[i] = raw THEN bridge ELSE @[i]],
                   !.used = @ - raw.tokens + bridge.tokens]

(* A bridge that was left out takes the place of the weakest run of its    *)
(* hint, as it is or compressed. The map() compresses the bridge IN PLACE  *)
(* for every run in turn: the first that works gives the victim, the last  *)
(* one the tokens of the bridge.                                           *)
PlaceBridge(packed, bridge, available) ==
    LET raws == StableSort(Where(KeptForHint(packed.kept, bridge), LAMBDA u : u.kind = "raw"), Weaker)
        victims == IF Len(raws) < bridge.limit THEN <<>>
                   ELSE Where(raws, LAMBDA r :
                            CanReplace(bridge, r) /\ packed.used - r.tokens + bridge.tokens <= available)
        Smaller(r) == Compress(bridge.query, bridge.node, available - (packed.used - r.tokens), FALSE)
        swaps == Where(raws, LAMBDA r : CanReplaceCompressed(bridge, r) /\ Smaller(r).tokens > 0)
    IN IF victims # <<>> THEN Swapped(packed, victims[1], bridge)
       ELSE IF swaps = <<>> THEN packed
       ELSE [Swapped(packed, swaps[1], [bridge EXCEPT !.tokens = Smaller(Last(swaps)).tokens])
                EXCEPT !.recompressed = @ \/ Len(swaps) > 1]

PlaceBridges(packed, bridges, available) ==
    FoldLeft(LAMBDA acc, b : PlaceBridge(acc, b, available), packed, bridges)

PackWithBridges(base, retrieval, available) ==
    LET packed == Pack(base, retrieval, available)
        dropped == Where(retrieval, LAMBDA u : u.kind = "bridge" /\ ~ Contains(packed.kept, u))
    IN PlaceBridges(packed, StableSort(dropped, BeforeInPacking), available)
=============================================================================
