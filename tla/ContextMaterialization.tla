---------------------- MODULE ContextMaterialization -----------------------
(* MaterializeContextUseCase over the PostgreSQL stores, whose reads are    *)
(* awaited one by one, while others append to the same conversation and     *)
(* compact its context between any two of them.                             *)
EXTENDS PostgresStore, RetrievalPacking

CONSTANTS Reads,          \* what is read: texts of the conversation, the owner of
                          \* the artifact they name (0 for none), and the request:
                          \* budget (after the overhead), pins, hints
          NewTexts,       \* texts that are appended while it runs
          SummaryForms,   \* tokens of a summary, and whether it shows its facts
          BlockLengths,   \* messages that one compaction covers
          MaxChanges      \* bound of the model: appends and compactions

(* Budgets and numbers of tokens are checked where they enter (assertValidBudgetInput, *)
(* createTokenCount): they are natural numbers.                            *)
ASSUME MaterializeAssumption ==
    /\ \A read \in Reads :
           /\ read.texts \in Seq(ToSet(read.texts)) /\ \A text \in ToSet(read.texts) : IsFiniteSet(text)
           /\ read.request.budget \in Nat /\ read.request.hints \in Seq(ToSet(read.request.hints))
    /\ \A text \in NewTexts : IsFiniteSet(text)
    /\ \A form \in SummaryForms : form.tokens \in Nat
    /\ BlockLengths \subseteq Nat

VARIABLES tables, reader, changes

readVars == <<tables, reader, changes>>

Conv == 1

(* Mutant: the last message is not read: the end of the range is taken as excluded. *)
EventsOfMutant(t) == ToSet(PgGetEvents(t, Conv, 1, NextSeq(t, Conv) - 2))

EventsOf(t) == ToSet(PgGetEvents(t, Conv, 1, NextSeq(t, Conv)))

Messages(t, texts, artifacts) ==
    [i \in DOMAIN texts |->
        LET seq == PgNextSequence(t, Conv) + i - 1
        IN [id |-> <<Conv, seq>>, conv |-> Conv, seq |-> seq, text |-> texts[i],
            tokens |-> Cardinality(texts[i]), key |-> NoKey, digest |-> <<>>, artifacts |-> artifacts]]

Appended(t, texts, artifacts) ==
    LET batch == Messages(t, texts, artifacts)
        stored == PgAppendEvents(t, Conv, batch).store
    IN PgAppendContextItems(stored, Conv, [i \in DOMAIN batch |-> [type |-> "message", id |-> batch[i].id]]).store

MaterializeInit ==
    /\ \E read \in Reads :
           LET t == PgCreate(PgCreate(EmptyTables, 0).store, 0).store
               named == PgStoreArtifact(t, [id |-> "f", conv |-> read.owner, explorer |-> "none"]).store
           IN /\ tables = IF read.owner = 0 THEN Appended(t, read.texts, {}) ELSE Appended(named, read.texts, {"f"})
              /\ reader = [pc |-> "idle", request |-> read.request]
    /\ changes = 0

-----------------------------------------------------------------------------
(* What others do meanwhile, each in one unit of work *)

Reading == reader.pc \notin {"idle", "done"}

Changed(t) ==
    /\ changes' = changes + 1
    /\ tables' = t
    /\ reader' = IF Reading THEN [reader EXCEPT !.overtaken = TRUE] ELSE reader

AppendMessage(text) == Changed(Appended(tables, <<text>>, {}))

(* A leaf over a block of the oldest messages. Its content shows the facts  *)
(* that its retrieval text has, or none of them.                           *)
CompactBlock(length, form) ==
    LET n == CHOOSE x \in Nodes : PgGetNode(tables, x) = {}
        items == PgCurrentContext(tables, Conv).items
        first == SelectInSeq(items, LAMBDA r : r.type = "message")
        block == SubSeq(items, first, first + length - 1)
        events == Events({e \in Rows(tables.events, "conv", Conv) : \E r \in ToSet(block) : r.id = e.id})
        facts == [i \in DOMAIN events |-> events[i].text]
        node == [id |-> n, conv |-> Conv, kind |-> "leaf", text |-> UNION ToSet(facts), tokens |-> form.tokens,
                 artifacts |-> UNION {e.artifacts : e \in ToSet(events)}, facts |-> facts,
                 shown |-> IF form.shown THEN facts ELSE <<>>, created |-> Cardinality(tables.nodes) + 1]
        linked == PgAddLeafEdges(PgCreateNode(tables, node).store, n, [i \in DOMAIN events |-> events[i].id]).store
    IN /\ \E x \in Nodes : PgGetNode(tables, x) = {}
       /\ first # 0 /\ first + length - 1 <= Len(items)
       /\ Changed(PgReplaceContextItems(linked, Conv, VersionOf(tables, Conv), (first - 1)..(first + length - 2),
                                        [type |-> "summary", id |-> n]).store)

-----------------------------------------------------------------------------
(* The read, one awaited call at a time *)

(* The hints with their stages: none for a hint whose query is empty.      *)
HintsOf(request) ==
    [i \in DOMAIN request.hints |->
        LET hint == request.hints[i]
        IN [index |-> i, query |-> hint.query, scope |-> hint.scope, limit |-> hint.limit,
            stages |-> StageQueries(hint.query)]]

(* What is read is in a sequence of one, and nothing in an empty one.      *)
Fail(error) == reader' = [reader EXCEPT !.pc = "done", !.output = <<[error |-> error]>>]

(* conversations.get and getContextTokenCount; a context that does not fit *)
(* is compacted first, which CompactBlock stands for.                      *)
Start ==
    /\ reader.pc = "idle"
    /\ reader' = [pc |-> "snapshot", request |-> reader.request, hints |-> HintsOf(reader.request), overtaken |-> FALSE,
                  compaction |-> PgContextTokenCount(tables, Conv) > reader.request.budget,
                  context |-> <<>>, events |-> <<>>, items |-> <<>>, base |-> <<>>,
                  summaries |-> <<>>, found |-> <<>>, output |-> <<>>]

(* Promise.all: two queries, in either order.                              *)
ReadContext ==
    /\ reader.pc = "snapshot" /\ reader.context = <<>>
    /\ reader' = [reader EXCEPT !.context = <<PgCurrentContext(tables, Conv).items>>]

ReadEvents ==
    /\ reader.pc = "snapshot" /\ reader.events = <<>>
    /\ reader' = [reader EXCEPT !.events = <<EventsOf(tables)>>]

(* resolveContextItem; a node never changes once it is in a context, so    *)
(* that reading the nodes one by one shows the same.                       *)
Resolved(ref, position) ==
    LET event == CHOOSE e \in reader.events[1] : e.id = ref.id
        node == CHOOSE n \in PgGetNode(tables, ref.id) : TRUE
        pinned == position \in reader.request.pins
    IN IF ref.type = "message"
       THEN [kind |-> "message", position |-> position, pinned |-> pinned, tokens |-> event.tokens, seq |-> event.seq]
       ELSE [kind |-> "summary", position |-> position, pinned |-> pinned, tokens |-> node.tokens, node |-> node]

UnknownMessage ==
    \E ref \in ToSet(reader.context[1]) :
        ref.type = "message" /\ \A e \in reader.events[1] : e.id # ref.id

Reserve ==
    LET fifth == reader.request.budget \div 5
    IN IF reader.request.hints = <<>> THEN 0 ELSE IF fifth < 256 THEN fifth ELSE 256

Resolve ==
    LET items == [i \in DOMAIN reader.context[1] |-> Resolved(reader.context[1][i], i - 1)]
        budget == reader.request.budget - Reserve
    IN /\ reader.pc = "snapshot" /\ reader.context # <<>> /\ reader.events # <<>>
       /\ IF UnknownMessage THEN Fail("InvariantViolationError")
          ELSE IF TokenSum(items) > budget /\ TokenSum(Pinned(items)) > budget
               THEN Fail("MaterializeContextBudgetExceededError")
          ELSE reader' = [reader EXCEPT !.pc = "search", !.items = items, !.base = TrimToBudget(items, budget)]

(* Every stage of every hint asks for summaries and then for messages. A   *)
(* hint without a stage asks for nothing, once its scope was looked at.    *)
SearchesOf(hints) ==
    LET Stages(h) == IF hints[h].stages = <<>> THEN <<{}>> ELSE hints[h].stages
    IN Concat([h \in DOMAIN hints |->
                   [s \in DOMAIN Stages(h) |->
                       [hint |-> h, query |-> Stages(h)[s], scope |-> hints[h].scope,
                        last |-> s = Len(Stages(h))]]])

Searches == SearchesOf(reader.hints)

Search == Searches[Len(reader.found) + 1]

SearchSummaries ==
    /\ reader.pc = "search" /\ Len(reader.found) < Len(Searches) /\ reader.summaries = <<>>
    /\ IF Search.scope # NoScope /\ PgGetNode(tables, Search.scope) = {}
       THEN Fail("InvalidReferenceError")
       ELSE IF Search.query = {}
       THEN reader' = [reader EXCEPT !.found = Append(@, [hint |-> Search.hint, query |-> {}, summaries |-> {}, events |-> {}])]
       ELSE reader' = [reader EXCEPT !.summaries = <<PgSearchSummaries(tables, Conv, Search.query, Search.scope)>>]

(* validateSearchScopeCoverage: a scope in which no stage matches fails.   *)
SearchEvents ==
    LET found == Append(reader.found, [hint |-> Search.hint, query |-> Search.query, summaries |-> reader.summaries[1],
                                       events |-> ToSet(PgSearchEvents(tables, Conv, Search.query, Search.scope))])
        ofHint == {x \in ToSet(found) : x.hint = Search.hint}
    IN /\ reader.pc = "search" /\ reader.summaries # <<>>
       /\ IF Search.scope # NoScope /\ Search.last /\ UNION {x.events \cup x.summaries : x \in ofHint} = {}
          THEN Fail("InvalidReferenceError")
          ELSE reader' = [reader EXCEPT !.summaries = <<>>, !.found = found]

-----------------------------------------------------------------------------
(* Ranking and packing of what was found *)

Budget == reader.request.budget

Found(h) == Where(reader.found, LAMBDA x : x.hint = h)

(* Hits are the stages that matched; the rest is the best of those stages. *)
RelevanceIn(stages, text) ==
    [hits |-> Len(stages),
     overlap |-> Maximum({Overlap(s.query, text) : s \in ToSet(stages)}, 0),
     specificity |-> Maximum({Specificity(s.query, text) : s \in ToSet(stages)}, 0)]

EventCandidate(h, e) ==
    LET r == RelevanceIn(Where(Found(h), LAMBDA s : e \in s.events), e.text)
    IN [kind |-> "message", event |-> e, overlap |-> r.overlap, specificity |-> r.specificity,
        score |-> 180 * r.specificity + 10 * r.hits + r.overlap]

(* toSummaryBridgeScore; the anchors of a summary are the ids of its facts. *)
SummaryCandidate(h, n) ==
    LET r == RelevanceIn(Where(Found(h), LAMBDA s : n \in s.summaries), n.text)
        anchors == Len(n.facts)
    IN [kind |-> "summary", node |-> n, overlap |-> r.overlap, specificity |-> r.specificity, anchors |-> anchors,
        score |-> 100 * r.hits + 10 * r.overlap + 5 * r.specificity + 5 * (IF anchors < 8 THEN anchors ELSE 8)]

SummaryCandidates(h) ==
    StableSort(Listed({SummaryCandidate(h, n) : n \in UNION {s.summaries : s \in ToSet(Found(h))}}), RankBefore)

EventCandidates(h) == {EventCandidate(h, e) : e \in UNION {s.events : s \in ToSet(Found(h))}}

RankedCandidates(h) ==
    LET Tie(c) == IF c.kind = "message" THEN <<0, c.event.seq>> ELSE <<1, -c.node.created>>
    IN StableSort(Listed(EventCandidates(h)) \o SummaryCandidates(h),
                  LAMBDA l, r : Precedes(<<-l.score>> \o Tie(l), <<-r.score>> \o Tie(r)))

(* One hint adds a run around each of its best messages, up to its limit,  *)
(* and its bridge, which takes its turn in the ranking.                    *)
Select(acc, run) ==
    [acc EXCEPT !.contenders = Append(@, run), !.order = @ + 1, !.selected = @ \cup {e.seq : e \in run.events}]

RawOf(acc, h) == Where(acc.contenders, LAMBDA x : x.kind = "raw" /\ x.hint = h)

WithMessage(acc, h, hint, window, c) ==
    LET events == WindowOf(c.event, window, acc.selected)
    IN IF c.event.seq \in acc.selected \/ Len(RawOf(acc, h)) >= hint.limit THEN acc
       ELSE IF c.event \notin reader.events[1] THEN [acc EXCEPT !.error = "InvariantViolationError"]
       ELSE IF EventTokens(events) > Budget THEN acc
       ELSE Select(acc, Bundle(hint, acc.order, c.event.seq, events, c.score,
                [overlap |-> c.overlap, specificity |-> c.specificity,
                 anchors |-> AnchorCoverage(hint.query, UNION {e.text : e \in events})], "generic"))

WithBridge(acc, h, hint, chosen, c) ==
    IF \A bridge \in ToSet(chosen) : bridge.candidate.node # c.node THEN acc
    ELSE [acc EXCEPT !.summaries = @ \cup {c.node.id}, !.order = @ + 1,
                     !.contenders = Append(@,
             [kind |-> "bridge", hint |-> h, limit |-> hint.limit, order |-> acc.order, score |-> c.score,
              overlap |-> c.overlap, specificity |-> c.specificity, evidence |-> chosen[1].as.evidence,
              cues |-> chosen[1].as.cues, tokens |-> chosen[1].as.tokens, node |-> c.node, query |-> hint.query])]

BridgeRun(acc, hint, chosen) ==
    IF chosen = <<>> \/ hint.limit = 0 THEN <<>>
    ELSE BridgeScopedRaw(hint, acc.order, chosen[1].candidate,
                         ToSet(PgExpandToMessages(tables, chosen[1].candidate.node.id)), acc.selected, Budget)

WithRun(acc, hint, chosen) ==
    LET run == BridgeRun(acc, hint, chosen)
    IN IF run = <<>> THEN acc ELSE Select(acc, run[1])

(* The candidates of a hint, one after the other.                          *)
Among(start, candidates, h, hint, window, chosen) ==
    FoldLeft(LAMBDA acc, c : IF acc.error # "none" THEN acc
                             ELSE IF c.kind = "message" THEN WithMessage(acc, h, hint, window, c)
                             ELSE WithBridge(acc, h, hint, chosen, c),
             start, candidates)

Contend(acc, h) ==
    LET hint == reader.hints[h]
        window == IF hint.scope = NoScope THEN reader.events[1] ELSE ToSet(PgExpandToMessages(tables, hint.scope))
        unshown == Where(SummaryCandidates(h), LAMBDA c : c.node.id \notin acc.summaries)
        chosen == ChooseBridge(hint.query, unshown, reader.base, Budget, SelectionBudget(reader.base, Reserve))
    IN Among(WithRun(acc, hint, chosen), RankedCandidates(h), h, hint, window, chosen)

ContendAll(start, hints) ==
    FoldLeft(LAMBDA acc, h : IF acc.error # "none" THEN acc ELSE Contend(acc, h), start, hints)

Contenders ==
    LET base == ToSet(reader.base)
    IN ContendAll([selected |-> {x.seq : x \in {y \in base : y.kind = "message"}},
                   summaries |-> {x.node.id : x \in {y \in base : y.kind = "summary"}},
                   order |-> 0, contenders |-> <<>>, error |-> "none"],
                  [h \in DOMAIN reader.hints |-> h])

SeqsOf(u) == IF u.kind = "message" THEN {u.seq} ELSE IF u.kind = "raw" THEN {e.seq : e \in u.events} ELSE {}

SummariesOf(u) == IF u.kind \in {"summary", "bridge"} THEN {u.node.id} ELSE {}

(* How many messages, and how many summaries, the units stand for.         *)
MessagesIn(units) == FoldLeft(LAMBDA n, u : n + Cardinality(SeqsOf(u)), 0, units)

SummariesIn(units) == FoldLeft(LAMBDA n, u : n + Cardinality(SummariesOf(u)), 0, units)

(* collectArtifactReferences *)
UnknownArtifact(units) ==
    \E u \in ToSet(units) : u.kind \in {"summary", "bridge"} /\
        \E a \in u.node.artifacts : {r.conv : r \in PgArtifact(tables, a)} # {Conv}

Reported(packed, retrieval) ==
    LET trimmed == Where(reader.items, LAMBDA x : ~ Contains(reader.base, x))
        Kept(u) == \E k \in ToSet(packed.kept) : k.kind = u.kind /\ SeqsOf(k) = SeqsOf(u) /\ SummariesOf(k) = SummariesOf(u)
        dropped == trimmed \o Where(reader.base \o retrieval, LAMBDA u : ~ Kept(u))
    IN [error |-> "none", units |-> packed.kept, used |-> packed.used,
        recompressed |-> packed.recompressed, trimmedToFit |-> dropped # <<>>,
        droppedMessages |-> MessagesIn(dropped), droppedSummaries |-> SummariesIn(dropped)]

Materialize ==
    /\ reader.pc = "search" /\ Len(reader.found) = Len(Searches)
    /\ \E contended \in {Contenders} :
       \E retrieval \in {Coalesce(contended.contenders, Len(reader.hints))} :
       \E packed \in {PackWithBridges(reader.base, retrieval, Budget)} :
           IF contended.error # "none" THEN Fail(contended.error)
           ELSE IF UnknownArtifact(packed.kept) THEN Fail("InvalidReferenceError")
           ELSE reader' = [reader EXCEPT !.pc = "done", !.output = <<Reported(packed, retrieval)>>]

-----------------------------------------------------------------------------
ReadStep ==
    \/ Start \/ ReadContext \/ ReadEvents \/ Resolve \/ SearchSummaries \/ SearchEvents \/ Materialize

MaterializeNext ==
    \/ ReadStep /\ UNCHANGED <<tables, changes>>
    \/ /\ changes < MaxChanges
       /\ \/ \E text \in NewTexts : AppendMessage(text)
          \/ \E length \in BlockLengths, form \in SummaryForms : CompactBlock(length, form)

MaterializeSpec == MaterializeInit /\ [][MaterializeNext]_readVars

-----------------------------------------------------------------------------
Answer == reader.output[1]

Answered == reader.pc = "done" /\ Answer.error = "none"

(* The tokens that materializeContext reports are those of what it gives,  *)
(* and fit the budget, however bridges displaced runs of messages. The one *)
(* exception is a bridge that was compressed for one run after it had been *)
(* for another: it is sized for the last and takes the place of the first. *)
BudgetHonoured ==
    Answered => /\ Answer.used = TokenSum(Answer.units)
                /\ Answer.used <= Budget \/ Answer.recompressed

(* Trimming, retrieval, packing and displacement together neither show a   *)
(* message twice nor lose a pinned item, and what they leave of the        *)
(* context out they say: nothing is missing from an answer that is not     *)
(* marked as trimmed, and no more than its counts tell.                    *)
LeftOutIsReported ==
    Answered =>
        LET shown == UNION {SeqsOf(u) : u \in ToSet(Answer.units)}
            summaries == UNION {SummariesOf(u) : u \in ToSet(Answer.units)}
            missing == Where(reader.items, LAMBDA x :
                           IF x.kind = "message" THEN x.seq \notin shown ELSE x.node.id \notin summaries)
        IN /\ MessagesIn(Answer.units) = Cardinality(shown)
           /\ ToSet(Pinned(reader.items)) \subseteq ToSet(Answer.units)
           /\ ~ Answer.trimmedToFit => missing = <<>>
           /\ Cardinality({x \in ToSet(missing) : x.kind = "message"}) <= Answer.droppedMessages
           /\ Cardinality({x \in ToSet(missing) : x.kind = "summary"}) <= Answer.droppedSummaries

(* A read fails on a message it does not know only if somebody appended    *)
(* between its queries, and on a reference only if the caller's scope is   *)
(* not searchable or a summary names an artifact of another conversation.  *)
ReadFailsOnlyIfOvertaken ==
    reader.pc = "done" =>
        /\ Answer.error = "InvariantViolationError" => reader.overtaken
        /\ Answer.error = "InvalidReferenceError" =>
               \/ \E h \in ToSet(reader.hints) : h.scope # NoScope
               \/ \E r \in tables.artifacts : r.conv # Conv
=============================================================================
