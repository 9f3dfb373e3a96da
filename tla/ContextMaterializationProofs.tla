-------------------- MODULE ContextMaterializationProofs ---------------------
(* What MaterializeContextUseCase answers, and when it fails, for every     *)
(* conversation, every request, and every interleaving of its reads with    *)
(* what others append and compact.                                          *)
EXTENDS RetrievalPackingProofs

-----------------------------------------------------------------------------
(* What was found                                                          *)

FiniteUpto(sets, k, acc) == IsFiniteSet(UNION {sets[i] : i \in 1 .. k})

Unions == INSTANCE FoldTheorems WITH Op <- Same, Inv <- FiniteUpto

LEMMA FiniteUnion ==
    ASSUME NEW n \in Nat, NEW sets, DOMAIN sets = 1 .. n, \A i \in 1 .. n : IsFiniteSet(sets[i])
    PROVE  IsFiniteSet(UNION {sets[i] : i \in 1 .. n})
<1>1. FiniteUpto(sets, 0, 0)
  <2>1. UNION {sets[i] : i \in 1 .. 0} = {}
    OBVIOUS
  <2> QED
    BY <2>1, FS_EmptySet DEF FiniteUpto
<1>2. \A k \in 1 .. n : \A a : FiniteUpto(sets, k - 1, a) => FiniteUpto(sets, k, Same(sets, a, sets[k]))
  <2>1. ASSUME NEW k \in 1 .. n, NEW a, FiniteUpto(sets, k - 1, a) PROVE FiniteUpto(sets, k, Same(sets, a, sets[k]))
    <3>1. 1 .. k = (1 .. (k - 1)) \cup {k}
      OBVIOUS
    <3>2. UNION {sets[i] : i \in 1 .. k} = (UNION {sets[i] : i \in 1 .. (k - 1)}) \cup sets[k]
      BY <3>1
    <3> QED
      BY <2>1, <3>2, FS_Union DEF FiniteUpto
  <2> QED
    BY <2>1
<1>3. FiniteUpto(sets, n, Unions!Fold(sets, 0, sets))
  BY <1>1, <1>2, LeastNatural, Unions!FoldKeeps
<1> QED
  BY <1>3 DEF FiniteUpto

IsWindow(w) == IsFiniteSet(w) /\ \A e \in w : e.tokens \in Int

(* The reader when it ranks what it has found; N are the summaries.        *)
Ranking(N) ==
    /\ \A n \in N : SoundNode(n)
    /\ reader.request.budget \in Nat /\ IsBase(reader.base, N)
    /\ IsWindow(reader.events[1]) /\ \A n : IsWindow(ToSet(PgExpandToMessages(tables, n)))
    /\ IsList(reader.found)
    /\ \A x \in ToSet(reader.found) : IsFiniteSet(x.events) /\ IsFiniteSet(x.summaries) /\ x.summaries \subseteq N

IsMessage(c) == c.kind = "message" /\ \E x \in ToSet(reader.found) : c.event \in x.events

IsSummary(c, N) == c.kind = "summary" /\ c.node \in N

LEMMA FoundAre ==
    ASSUME NEW N, Ranking(N), NEW h
    PROVE  /\ IsList(Found(h)) /\ ToSet(Found(h)) \subseteq ToSet(reader.found)
           /\ IsFiniteSet(UNION {x.events : x \in ToSet(Found(h))})
           /\ IsFiniteSet(UNION {x.summaries : x \in ToSet(Found(h))})
<1> DEFINE T == {x \in ToSet(reader.found) : x.hint = h}
           found == Those(reader.found, T)
           n == Len(found)
<1>1. Found(h) = found
  BY DEF Found, Where
<1>2. T \subseteq ToSet(reader.found)
  OBVIOUS
<1> HIDE DEF T
<1>3. IsList(found) /\ ToSet(found) \subseteq ToSet(reader.found)
  BY <1>2, ThoseAre DEF Ranking
<1> HIDE DEF found
<1>4. n \in Nat /\ (\A i \in 1 .. n : found[i] \in ToSet(found)) /\ \A x \in ToSet(found) : \E i \in 1 .. n : x = found[i]
  BY <1>3, ListIs
<1> HIDE DEF n
<1>5. \A i \in 1 .. n : IsFiniteSet(found[i].events) /\ IsFiniteSet(found[i].summaries)
  BY <1>3, <1>4 DEF Ranking
<1>6. IsFiniteSet(UNION {x.events : x \in ToSet(found)})
  <2> DEFINE sets == [i \in 1 .. n |-> found[i].events]
  <2>1. DOMAIN sets = 1 .. n /\ \A i \in 1 .. n : sets[i] = found[i].events
    OBVIOUS
  <2> HIDE DEF sets
  <2>2. IsFiniteSet(UNION {sets[i] : i \in 1 .. n})
    BY <1>4, <1>5, <2>1, FiniteUnion
  <2>3. UNION {sets[i] : i \in 1 .. n} = UNION {x.events : x \in ToSet(found)}
    BY <1>4, <2>1
  <2> QED
    BY <2>2, <2>3
<1>7. IsFiniteSet(UNION {x.summaries : x \in ToSet(found)})
  <2> DEFINE sets == [i \in 1 .. n |-> found[i].summaries]
  <2>1. DOMAIN sets = 1 .. n /\ \A i \in 1 .. n : sets[i] = found[i].summaries
    OBVIOUS
  <2> HIDE DEF sets
  <2>2. IsFiniteSet(UNION {sets[i] : i \in 1 .. n})
    BY <1>4, <1>5, <2>1, FiniteUnion
  <2>3. UNION {sets[i] : i \in 1 .. n} = UNION {x.summaries : x \in ToSet(found)}
    BY <1>4, <2>1
  <2> QED
    BY <2>2, <2>3
<1> QED
  BY <1>1, <1>3, <1>6, <1>7

LEMMA EventCandidatesAre ==
    ASSUME NEW N, Ranking(N), NEW h
    PROVE  IsFiniteSet(EventCandidates(h)) /\ \A c \in EventCandidates(h) : IsMessage(c)
<1> DEFINE S == UNION {x.events : x \in ToSet(Found(h))}
           f == [e \in S |-> EventCandidate(h, e)]
<1>1. IsFiniteSet(S) /\ ToSet(Found(h)) \subseteq ToSet(reader.found)
  BY FoundAre
<1>2. EventCandidates(h) = {EventCandidate(h, e) : e \in S}
  BY DEF EventCandidates
<1>3. ASSUME NEW e \in S PROVE IsMessage(EventCandidate(h, e))
  <2>1. \E x \in ToSet(reader.found) : e \in x.events
    BY <1>1
  <2>2. EventCandidate(h, e).kind = "message" /\ EventCandidate(h, e).event = e
    BY DEF EventCandidate
  <2> QED
    BY <2>1, <2>2 DEF IsMessage
<1> HIDE DEF S
<1>4. EventCandidates(h) = {f[e] : e \in S} /\ DOMAIN f = S
  BY <1>2
<1> HIDE DEF f
<1>5. IsFiniteSet(EventCandidates(h))
  BY <1>1, <1>4, FiniteImage
<1> QED
  BY <1>2, <1>3, <1>5

LEMMA SummaryCandidatesAre ==
    ASSUME NEW N, Ranking(N), NEW h
    PROVE  IsList(SummaryCandidates(h)) /\ \A c \in ToSet(SummaryCandidates(h)) : IsSummary(c, N)
<1> DEFINE S == UNION {x.summaries : x \in ToSet(Found(h))}
           C == {SummaryCandidate(h, n) : n \in S}
           f == [n \in S |-> SummaryCandidate(h, n)]
           all == Listed(C)
           list == SubSeq(all, 1, Len(all))
           before == {p \in (1 .. Len(list)) \X (1 .. Len(list)) : RankBefore(list[p[1]], list[p[2]])}
           sorted == Rearranged(list, before)
<1>1. IsFiniteSet(S) /\ S \subseteq N
  BY FoundAre DEF Ranking
<1>2. SummaryCandidates(h) = sorted
  BY DEF SummaryCandidates, StableSort
<1>3. ASSUME NEW n \in S PROVE IsSummary(SummaryCandidate(h, n), N)
  <2>1. SummaryCandidate(h, n).kind = "summary" /\ SummaryCandidate(h, n).node = n
    BY DEF SummaryCandidate
  <2> QED
    BY <1>1, <2>1 DEF IsSummary
<1>4. C = {f[n] : n \in S} /\ DOMAIN f = S
  OBVIOUS
<1>5. \A c \in C : IsSummary(c, N)
  BY <1>3
<1> HIDE DEF before, f, C, S
<1>6. IsFiniteSet(C)
  BY <1>1, <1>4, FiniteImage
<1>7. IsList(all) /\ ToSet(all) = C
  BY <1>6, ListedAre
<1> HIDE DEF all
<1>8. list = all
  BY <1>7, RearrangedAre
<1> HIDE DEF list
<1>9. IsList(sorted) /\ ToSet(sorted) = C
  BY <1>7, <1>8, RearrangedAre
<1> QED
  BY <1>2, <1>5, <1>9

LEMMA RankedCandidatesAre ==
    ASSUME NEW N, Ranking(N), NEW h
    PROVE  IsList(RankedCandidates(h)) /\ \A c \in ToSet(RankedCandidates(h)) : IsMessage(c) \/ IsSummary(c, N)
<1> DEFINE Tie(c) == IF c.kind = "message" THEN <<0, c.event.seq>> ELSE <<1, -c.node.created>>
           events == Listed(EventCandidates(h))
           both == events \o SummaryCandidates(h)
           list == SubSeq(both, 1, Len(both))
           before == {p \in (1 .. Len(list)) \X (1 .. Len(list)) :
                          Precedes(<<-list[p[1]].score>> \o Tie(list[p[1]]), <<-list[p[2]].score>> \o Tie(list[p[2]]))}
           sorted == Rearranged(list, before)
<1>1. RankedCandidates(h) = sorted
  BY DEF RankedCandidates, StableSort
<1> HIDE DEF before
<1>2. IsList(events) /\ \A c \in ToSet(events) : IsMessage(c)
  BY EventCandidatesAre, ListedAre
<1> HIDE DEF events
<1>3. IsList(SummaryCandidates(h)) /\ \A c \in ToSet(SummaryCandidates(h)) : IsSummary(c, N)
  BY SummaryCandidatesAre
<1>4. IsList(both) /\ ToSet(both) = ToSet(events) \cup ToSet(SummaryCandidates(h))
  BY <1>2, <1>3, ConcatList
<1> HIDE DEF both
<1>5. list = both
  BY <1>4, RearrangedAre
<1> HIDE DEF list
<1>6. IsList(sorted) /\ ToSet(sorted) = ToSet(both)
  BY <1>4, <1>5, RearrangedAre
<1> QED
  BY <1>1, <1>2, <1>3, <1>4, <1>6

-----------------------------------------------------------------------------
(* The contenders                                                          *)

LEMMA WindowOfIs ==
    ASSUME NEW window, IsWindow(window), NEW seed, seed.tokens \in Int, NEW selected, seed.seq \notin selected
    PROVE  LET events == WindowOf(seed, window, selected)
           IN  IsWindow(events) /\ events # {} /\ \A e \in events : e.seq \notin selected
<1> DEFINE near == {x \in window : x.seq \in {seed.seq - 1, seed.seq + 1}}
           events == WindowOf(seed, window, selected)
<1>1. events = {e \in near \cup {seed} : e.seq \notin selected}
  BY DEF WindowOf
<1>2. near \in SUBSET window
  OBVIOUS
<1> HIDE DEF near, events
<1>3. IsFiniteSet(near \cup {seed})
  BY <1>2, FS_Subset, FS_AddElement DEF IsWindow
<1>4. events \in SUBSET (near \cup {seed}) /\ seed \in events
  BY <1>1
<1>5. IsFiniteSet(events)
  BY <1>3, <1>4, FS_Subset
<1>6. \A e \in events : e.tokens \in Int
  BY <1>2, <1>4 DEF IsWindow
<1> QED
  BY <1>1, <1>4, <1>5, <1>6 DEF IsWindow, events

LEMMA BundleIs ==
    ASSUME NEW hint, NEW order, NEW seq, NEW events, IsWindow(events), events # {},
           NEW score, NEW relevance, NEW source
    PROVE  LET run == Bundle(hint, order, seq, events, score, relevance, source)
           IN  Run(run) /\ SeqsOf(run) = {e.seq : e \in events}
<1> DEFINE run == Bundle(hint, order, seq, events, score, relevance, source)
<1>1. /\ run.kind = "raw" /\ run.events = events /\ run.tokens = EventTokens(events)
      /\ {"kind", "hint", "events", "tokens"} \subseteq DOMAIN run
  BY DEF Bundle
<1> HIDE DEF run
<1>2. EventTokens(events) \in Int
  BY EventTokensType DEF IsWindow
<1>3. Run(run)
  BY <1>1, <1>2 DEF Run, IsWindow
<1>4. SeqsOf(run) = {e.seq : e \in events}
  BY <1>1, <1>3, RunIs
<1> QED
  BY <1>3, <1>4 DEF run

LEMMA SeedsAre ==
    ASSUME NEW hint, NEW under, IsWindow(under), NEW selected
    PROVE  /\ IsList(Seeds(hint, under, selected))
           /\ \A e \in ToSet(Seeds(hint, under, selected)) : e \in under /\ e.seq \notin selected
<1> DEFINE S == {e \in under : e.seq \notin selected /\ ScopedScore(hint, e) > 0}
           all == Listed(S)
           list == SubSeq(all, 1, Len(all))
           before == {p \in (1 .. Len(list)) \X (1 .. Len(list)) :
                          Precedes(<<-ScopedScore(hint, list[p[1]]), -StageBest(Specificity, hint, list[p[1]]), list[p[1]].seq>>,
                                   <<-ScopedScore(hint, list[p[2]]), -StageBest(Specificity, hint, list[p[2]]), list[p[2]].seq>>)}
           sorted == Rearranged(list, before)
<1>1. Seeds(hint, under, selected) = sorted
  BY DEF Seeds, StableSort
<1>2. S \in SUBSET under /\ \A e \in S : e.seq \notin selected
  OBVIOUS
<1> HIDE DEF before, S
<1>3. IsFiniteSet(S)
  BY <1>2, FS_Subset DEF IsWindow
<1>4. IsList(all) /\ ToSet(all) = S
  BY <1>3, ListedAre
<1> HIDE DEF all
<1>5. list = all
  BY <1>4, RearrangedAre
<1> HIDE DEF list
<1>6. IsList(sorted) /\ ToSet(sorted) = S
  BY <1>4, <1>5, RearrangedAre
<1> QED
  BY <1>1, <1>2, <1>6

LEMMA BridgeScopedRawIs ==
    ASSUME NEW hint, NEW order, NEW bridge, NEW under, IsWindow(under), NEW selected, NEW available
    PROVE  LET run == BridgeScopedRaw(hint, order, bridge, under, selected, available)
           IN  run # <<>> => Run(run[1]) /\ SeqsOf(run[1]) \cap selected = {}
<1> DEFINE run == BridgeScopedRaw(hint, order, bridge, under, selected, available)
           seeds == Seeds(hint, under, selected)
           seed == seeds[1]
           events == WindowOf(seed, under, selected)
           score == Maximum({ScopedScore(hint, seed), bridge.score}, 0)
           relevance == [overlap |-> Maximum({StageBest(Overlap, hint, seed), bridge.overlap}, 0),
                      specificity |-> Maximum({StageBest(Specificity, hint, seed), bridge.specificity}, 0),
                      anchors |-> Maximum({AnchorCoverage(hint.query, seed.text), bridge.anchors}, 0)]
<1> SUFFICES ASSUME run # <<>> PROVE Run(run[1]) /\ SeqsOf(run[1]) \cap selected = {}
  OBVIOUS
<1>1. seeds # <<>> /\ run[1] = Bundle(hint, order, seed.seq, events, score, relevance, "bridge_scoped")
  BY DEF BridgeScopedRaw
<1> HIDE DEF run, score, relevance
<1>2. IsList(seeds) /\ \A e \in ToSet(seeds) : e \in under /\ e.seq \notin selected
  BY SeedsAre
<1> HIDE DEF seeds
<1>3. seed \in under /\ seed.seq \notin selected
  BY <1>1, <1>2, FirstOfList
<1> HIDE DEF seed
<1>4. seed.tokens \in Int
  BY <1>3 DEF IsWindow
<1>5. IsWindow(events) /\ events # {} /\ \A e \in events : e.seq \notin selected
  BY <1>3, <1>4, WindowOfIs
<1> HIDE DEF events
<1>6. Run(run[1]) /\ SeqsOf(run[1]) = {e.seq : e \in events}
  BY <1>1, <1>5, BundleIs
<1> QED
  BY <1>5, <1>6

(* An event that was found, but is not among those that were read.         *)
Unread == \E x \in ToSet(reader.found) : \E e \in x.events : e \notin reader.events[1]

(* The contenders so far; S are the messages that the base shows.          *)
IsRace(acc, N, S) ==
    /\ acc = [selected |-> acc.selected, summaries |-> acc.summaries, order |-> acc.order,
              contenders |-> acc.contenders, error |-> acc.error]
    /\ AreContenders(acc.contenders, N) /\ S \subseteq acc.selected
    /\ \A u \in ToSet(acc.contenders) : SeqsOf(u) \subseteq acc.selected /\ SeqsOf(u) \cap S = {}
    /\ acc.error = "none" \/ (acc.error = "InvariantViolationError" /\ Unread)

LEMMA ContenderAdded ==
    ASSUME NEW N, NEW s, AreContenders(s, N), NEW u, Run(u) \/ (u.kind = "bridge" /\ Sound(u, N)),
           \A x \in ToSet(s) : SeqsOf(x) \cap SeqsOf(u) = {}
    PROVE  AreContenders(Append(s, u), N) /\ ToSet(Append(s, u)) = ToSet(s) \cup {u}
<1>1. IsList(s) /\ Apart(s) /\ \A x \in ToSet(s) : Run(x) \/ (x.kind = "bridge" /\ Sound(x, N))
  BY DEF AreContenders
<1>2. IsList(Append(s, u)) /\ ToSet(Append(s, u)) = ToSet(s) \cup {u} /\ Apart(Append(s, u))
  BY <1>1, AppendList, ApartAppend
<1> QED
  BY <1>1, <1>2 DEF AreContenders

LEMMA SelectIs ==
    ASSUME NEW N, NEW S, NEW acc, IsRace(acc, N, S), NEW run, Run(run), SeqsOf(run) \cap acc.selected = {}
    PROVE  IsRace(Select(acc, run), N, S)
<1> DEFINE next == Select(acc, run)
<1>1. SeqsOf(run) = {e.seq : e \in run.events}
  BY RunIs
<1>2. /\ acc = [selected |-> acc.selected, summaries |-> acc.summaries, order |-> acc.order,
                contenders |-> acc.contenders, error |-> acc.error]
      /\ AreContenders(acc.contenders, N) /\ S \subseteq acc.selected
      /\ \A u \in ToSet(acc.contenders) : SeqsOf(u) \subseteq acc.selected /\ SeqsOf(u) \cap S = {}
      /\ acc.error = "none" \/ (acc.error = "InvariantViolationError" /\ Unread)
  BY DEF IsRace
<1>3. next = [selected |-> acc.selected \cup SeqsOf(run), summaries |-> acc.summaries, order |-> acc.order + 1,
              contenders |-> Append(acc.contenders, run), error |-> acc.error]
  <2> DEFINE s == acc.selected
             m == acc.summaries
             o == acc.order
             l == acc.contenders
             e == acc.error
  <2>1. acc = [selected |-> s, summaries |-> m, order |-> o, contenders |-> l, error |-> e]
    BY <1>2
  <2>2. next = [acc EXCEPT !.contenders = Append(l, run), !.order = o + 1, !.selected = s \cup SeqsOf(run)]
    BY <1>1 DEF Select
  <2> HIDE DEF s, m, o, l, e, next
  <2>3. next = [selected |-> s \cup SeqsOf(run), summaries |-> m, order |-> o + 1, contenders |-> Append(l, run), error |-> e]
    BY ONLY <2>1, <2>2
  <2> QED
    BY <2>3 DEF s, m, o, l, e
<1>4. \A u \in ToSet(acc.contenders) : SeqsOf(u) \cap SeqsOf(run) = {}
  BY <1>2
<1>5. /\ AreContenders(Append(acc.contenders, run), N)
      /\ ToSet(Append(acc.contenders, run)) = ToSet(acc.contenders) \cup {run}
  BY <1>2, <1>4, ContenderAdded
<1> HIDE DEF next
<1>6. \A u \in ToSet(next.contenders) : SeqsOf(u) \subseteq next.selected /\ SeqsOf(u) \cap S = {}
  BY <1>2, <1>3, <1>5
<1>7. next = [selected |-> next.selected, summaries |-> next.summaries, order |-> next.order,
              contenders |-> next.contenders, error |-> next.error]
  BY <1>3
<1>8. IsRace(next, N, S)
  BY <1>2, <1>3, <1>5, <1>6, <1>7 DEF IsRace
<1> QED
  BY <1>8 DEF next

LEMMA WithMessageIs ==
    ASSUME NEW N, NEW S, Ranking(N), NEW acc, IsRace(acc, N, S), NEW h, NEW hint,
           NEW window, IsWindow(window), NEW c, IsMessage(c)
    PROVE  IsRace(WithMessage(acc, h, hint, window, c), N, S)
<1> DEFINE events == WindowOf(c.event, window, acc.selected)
           relevance == [overlap |-> c.overlap, specificity |-> c.specificity,
                         anchors |-> AnchorCoverage(hint.query, UNION {e.text : e \in events})]
           run == Bundle(hint, acc.order, c.event.seq, events, c.score, relevance, "generic")
           next == WithMessage(acc, h, hint, window, c)
<1>1. \/ next = acc
      \/ c.event \notin reader.events[1] /\ next = [acc EXCEPT !.error = "InvariantViolationError"]
      \/ c.event.seq \notin acc.selected /\ c.event \in reader.events[1] /\ next = Select(acc, run)
  BY DEF WithMessage
<1> HIDE DEF relevance, next
<1>2. CASE c.event \notin reader.events[1] /\ next = [acc EXCEPT !.error = "InvariantViolationError"]
  <2>1. Unread
    BY <1>2 DEF IsMessage, Unread
  <2>2. /\ acc = [selected |-> acc.selected, summaries |-> acc.summaries, order |-> acc.order,
                  contenders |-> acc.contenders, error |-> acc.error]
        /\ AreContenders(acc.contenders, N) /\ S \subseteq acc.selected
        /\ \A u \in ToSet(acc.contenders) : SeqsOf(u) \subseteq acc.selected /\ SeqsOf(u) \cap S = {}
    BY DEF IsRace
  <2>3. next = [selected |-> acc.selected, summaries |-> acc.summaries, order |-> acc.order,
                contenders |-> acc.contenders, error |-> "InvariantViolationError"]
    BY <1>2, <2>2
  <2>4. next = [selected |-> next.selected, summaries |-> next.summaries, order |-> next.order,
                contenders |-> next.contenders, error |-> next.error]
    BY <2>3
  <2>5. /\ AreContenders(next.contenders, N) /\ S \subseteq next.selected
        /\ \A u \in ToSet(next.contenders) : SeqsOf(u) \subseteq next.selected /\ SeqsOf(u) \cap S = {}
        /\ next.error = "InvariantViolationError"
    BY <2>2, <2>3
  <2>6. IsRace(next, N, S)
    BY ONLY <2>1, <2>4, <2>5 DEF IsRace
  <2> QED
    BY <2>6 DEF next
<1>3. CASE c.event.seq \notin acc.selected /\ c.event \in reader.events[1] /\ next = Select(acc, run)
  <2>1. c.event.tokens \in Int
    BY <1>3 DEF Ranking, IsWindow
  <2>2. IsWindow(events) /\ events # {} /\ \A e \in events : e.seq \notin acc.selected
    BY <1>3, <2>1, WindowOfIs
  <2> HIDE DEF events
  <2>3. Run(run) /\ SeqsOf(run) = {e.seq : e \in events}
    BY <2>2, BundleIs
  <2>4. SeqsOf(run) \cap acc.selected = {}
    BY <2>2, <2>3
  <2> HIDE DEF run
  <2>5. IsRace(Select(acc, run), N, S)
    BY <2>3, <2>4, SelectIs
  <2> QED
    BY <1>3, <2>5 DEF next
<1> QED
  BY <1>1, <1>2, <1>3 DEF next

IsChosen(chosen) == chosen # <<>> => chosen[1].as.tokens \in Int

LEMMA WithBridgeIs ==
    ASSUME NEW N, NEW S, NEW acc, IsRace(acc, N, S), NEW h, NEW hint,
           NEW chosen, IsChosen(chosen), NEW c, IsSummary(c, N)
    PROVE  IsRace(WithBridge(acc, h, hint, chosen, c), N, S)
<1> DEFINE bridge == [kind |-> "bridge", hint |-> h, limit |-> hint.limit, order |-> acc.order, score |-> c.score,
                      overlap |-> c.overlap, specificity |-> c.specificity, evidence |-> chosen[1].as.evidence,
                      cues |-> chosen[1].as.cues, tokens |-> chosen[1].as.tokens, node |-> c.node, query |-> hint.query]
           next == WithBridge(acc, h, hint, chosen, c)
<1>1. /\ acc = [selected |-> acc.selected, summaries |-> acc.summaries, order |-> acc.order,
                contenders |-> acc.contenders, error |-> acc.error]
      /\ AreContenders(acc.contenders, N) /\ S \subseteq acc.selected
      /\ \A u \in ToSet(acc.contenders) : SeqsOf(u) \subseteq acc.selected /\ SeqsOf(u) \cap S = {}
      /\ acc.error = "none" \/ (acc.error = "InvariantViolationError" /\ Unread)
  BY DEF IsRace
<1>2. CASE chosen = <<>>
  <2>1. ToSet(chosen) = {}
    BY <1>2, NoList
  <2>2. next = acc
    BY <2>1 DEF WithBridge
  <2> QED
    BY <2>2
<1>3. CASE chosen # <<>> /\ next # acc
  <2>1. next = [acc EXCEPT !.summaries = @ \cup {c.node.id}, !.order = @ + 1, !.contenders = Append(@, bridge)]
    BY <1>3 DEF WithBridge
  <2>2. /\ bridge.kind = "bridge" /\ bridge.tokens \in Int /\ bridge.node \in N
        /\ {"kind", "tokens", "node"} \subseteq DOMAIN bridge
    BY <1>3 DEF IsChosen, IsSummary
  <2> HIDE DEF bridge, next
  <2>3. SeqsOf(bridge) = {}
    BY <2>2 DEF SeqsOf
  <2>4. Sound(bridge, N)
    BY <2>2, <2>3, FS_EmptySet DEF Sound
  <2>5. /\ AreContenders(Append(acc.contenders, bridge), N)
        /\ ToSet(Append(acc.contenders, bridge)) = ToSet(acc.contenders) \cup {bridge}
    BY <1>1, <2>2, <2>3, <2>4, ContenderAdded
  <2>6. next = [selected |-> acc.selected, summaries |-> acc.summaries \cup {c.node.id}, order |-> acc.order + 1,
                contenders |-> Append(acc.contenders, bridge), error |-> acc.error]
    BY <1>1, <2>1
  <2>7. next = [selected |-> next.selected, summaries |-> next.summaries, order |-> next.order,
                contenders |-> next.contenders, error |-> next.error]
    BY <2>6
  <2>8. \A u \in ToSet(next.contenders) : SeqsOf(u) \subseteq next.selected /\ SeqsOf(u) \cap S = {}
    BY <1>1, <2>3, <2>5, <2>6
  <2>9. IsRace(next, N, S)
    BY <1>1, <2>5, <2>6, <2>7, <2>8 DEF IsRace
  <2> QED
    BY <2>9 DEF next
<1> QED
  BY <1>2, <1>3

LEMMA WithRunIs ==
    ASSUME NEW N, NEW S, Ranking(N), NEW acc, IsRace(acc, N, S), NEW hint, NEW chosen
    PROVE  IsRace(WithRun(acc, hint, chosen), N, S)
<1> DEFINE run == BridgeRun(acc, hint, chosen)
           under == ToSet(PgExpandToMessages(tables, chosen[1].candidate.node.id))
<1>1. \/ run = <<>>
      \/ run = BridgeScopedRaw(hint, acc.order, chosen[1].candidate, under, acc.selected, Budget)
  BY DEF BridgeRun
<1>2. WithRun(acc, hint, chosen) = IF run = <<>> THEN acc ELSE Select(acc, run[1])
  BY DEF WithRun
<1>3. IsWindow(under)
  BY DEF Ranking
<1> HIDE DEF run, under
<1>4. CASE run # <<>>
  <2>1. run = BridgeScopedRaw(hint, acc.order, chosen[1].candidate, under, acc.selected, Budget)
    BY <1>1, <1>4
  <2>2. Run(run[1]) /\ SeqsOf(run[1]) \cap acc.selected = {}
    BY <1>3, <1>4, <2>1, BridgeScopedRawIs
  <2>3. IsRace(Select(acc, run[1]), N, S)
    BY <2>2, SelectIs
  <2> QED
    BY <1>2, <1>4, <2>3
<1> QED
  BY <1>2, <1>4

Consider(c, acc, x) ==
    IF acc.error # "none" THEN acc
    ELSE IF x.kind = "message" THEN WithMessage(acc, c[1], c[2], c[3], x)
    ELSE WithBridge(acc, c[1], c[2], c[4], x)

Considered(c, k, acc) == IsRace(acc, c[5], c[6])

Considers == INSTANCE FoldTheorems WITH Op <- Consider, Inv <- Considered

LEMMA AmongIs ==
    ASSUME NEW N, NEW S, Ranking(N), NEW start, IsRace(start, N, S),
           NEW candidates, IsList(candidates), \A c \in ToSet(candidates) : IsMessage(c) \/ IsSummary(c, N),
           NEW h, NEW hint, NEW window, IsWindow(window), NEW chosen, IsChosen(chosen)
    PROVE  IsRace(Among(start, candidates, h, hint, window, chosen), N, S)
<1> DEFINE c == <<h, hint, window, chosen, N, S>>
           n == Len(candidates)
<1>0. n \in Nat /\ DOMAIN candidates = 1 .. n /\ \A k \in 1 .. n : candidates[k] \in ToSet(candidates)
  BY ListIs
<1>1. Among(start, candidates, h, hint, window, chosen) = Considers!Fold(c, start, candidates)
  BY DEF Among, Consider, FoldLeft, MapThenFoldSet, Max,
         Considers!Fold, Considers!Greatest
<1>2. c[1] = h /\ c[2] = hint /\ c[3] = window /\ c[4] = chosen /\ c[5] = N /\ c[6] = S
  OBVIOUS
<1> HIDE DEF n, c
<1>3. Considered(c, 0, start)
  BY <1>2 DEF Considered
<1>4. ASSUME NEW k \in 1 .. n, NEW a, Considered(c, k - 1, a) PROVE Considered(c, k, Consider(c, a, candidates[k]))
  <2> DEFINE x == candidates[k]
  <2>1. IsRace(a, N, S)
    BY <1>2, <1>4 DEF Considered
  <2>2. IsMessage(x) \/ IsSummary(x, N)
    BY <1>0
  <2> HIDE DEF x
  <2>3. CASE a.error # "none"
    BY <1>2, <2>1, <2>3 DEF Consider, Considered, x
  <2>4. CASE a.error = "none" /\ x.kind = "message"
    <3>1. IsMessage(x)
      BY <2>2, <2>4 DEF IsSummary
    <3>2. IsRace(WithMessage(a, h, hint, window, x), N, S)
      BY <2>1, <3>1, WithMessageIs
    <3>3. Consider(c, a, x) = WithMessage(a, h, hint, window, x)
      BY <1>2, <2>4 DEF Consider
    <3> QED
      BY <1>2, <3>2, <3>3 DEF Considered, x
  <2>5. CASE a.error = "none" /\ x.kind # "message"
    <3>1. IsSummary(x, N)
      BY <2>2, <2>5 DEF IsMessage
    <3>2. IsRace(WithBridge(a, h, hint, chosen, x), N, S)
      BY <2>1, <3>1, WithBridgeIs
    <3>3. Consider(c, a, x) = WithBridge(a, h, hint, chosen, x)
      BY <1>2, <2>5 DEF Consider
    <3> QED
      BY <1>2, <3>2, <3>3 DEF Considered, x
  <2> QED
    BY <2>3, <2>4, <2>5
<1>5. Considered(c, n, Considers!Fold(c, start, candidates))
  <2>1. \A k \in 1 .. n : \A a : Considered(c, k - 1, a) => Considered(c, k, Consider(c, a, candidates[k]))
    BY <1>4
  <2> QED
    BY <1>0, <1>3, <2>1, LeastNatural, Considers!FoldKeeps
<1> QED
  BY <1>1, <1>2, <1>5 DEF Considered

LEMMA ContendIs ==
    ASSUME NEW N, NEW S, Ranking(N), NEW acc, IsRace(acc, N, S), NEW h
    PROVE  IsRace(Contend(acc, h), N, S)
<1> DEFINE hint == reader.hints[h]
           window == IF hint.scope = NoScope THEN reader.events[1] ELSE ToSet(PgExpandToMessages(tables, hint.scope))
           T == {c \in ToSet(SummaryCandidates(h)) : c.node.id \notin acc.summaries}
           unshown == Those(SummaryCandidates(h), T)
           preferred == SelectionBudget(reader.base, Reserve)
           chosen == ChooseBridge(hint.query, unshown, reader.base, Budget, preferred)
           start == WithRun(acc, hint, chosen)
<1>1. Contend(acc, h) = Among(start, RankedCandidates(h), h, hint, window, chosen)
  BY DEF Contend, Where
<1>2. IsWindow(window)
  BY DEF Ranking
<1> HIDE DEF window, hint
<1>3. Budget \in Int /\ Reserve \in Int
  <2> DEFINE b == reader.request.budget
  <2>1. b \in Nat
    BY DEF Ranking
  <2>2. b \div 5 \in Int
    BY <2>1
  <2>3. Reserve \in {0, 256, b \div 5}
    BY DEF Reserve
  <2> QED
    BY <2>1, <2>2, <2>3 DEF Budget
<1>4. preferred \in Int
  BY <1>3, SelectionBudgetType DEF Ranking
<1> HIDE DEF preferred
<1>5. IsList(SummaryCandidates(h)) /\ \A c \in ToSet(SummaryCandidates(h)) : IsSummary(c, N)
  BY SummaryCandidatesAre
<1>6. T \subseteq ToSet(SummaryCandidates(h))
  OBVIOUS
<1> HIDE DEF T
<1>7. IsList(unshown) /\ \A c \in ToSet(unshown) : c.node \in N
  BY <1>5, <1>6, ThoseAre DEF IsSummary
<1> HIDE DEF unshown
<1>8. IsChosen(chosen)
  <2>1. (\A n \in N : SoundNode(n)) /\ IsBase(reader.base, N)
    BY DEF Ranking
  <2>2. chosen # <<>> => IsOffer(chosen[1], ToSet(unshown))
    BY <1>3, <1>4, <1>7, <2>1, ChooseBridgeIs
  <2> QED
    BY <2>2 DEF IsOffer, IsChosen
<1> HIDE DEF chosen
<1>9. IsRace(start, N, S)
  BY WithRunIs
<1> HIDE DEF start
<1>10. IsList(RankedCandidates(h)) /\ \A c \in ToSet(RankedCandidates(h)) : IsMessage(c) \/ IsSummary(c, N)
  BY RankedCandidatesAre
<1>11. IsRace(Among(start, RankedCandidates(h), h, hint, window, chosen), N, S)
  BY <1>2, <1>8, <1>9, <1>10, AmongIs
<1> QED
  BY <1>1, <1>11

ContendNext(c, acc, h) == IF acc.error # "none" THEN acc ELSE Contend(acc, h)

Contended(c, k, acc) == IsRace(acc, c[1], c[2])

Contends == INSTANCE FoldTheorems WITH Op <- ContendNext, Inv <- Contended

LEMMA ContendAllIs ==
    ASSUME NEW N, NEW S, Ranking(N), NEW start, IsRace(start, N, S), NEW hints, IsList(hints)
    PROVE  IsRace(ContendAll(start, hints), N, S)
<1> DEFINE c == <<N, S>>
           n == Len(hints)
<1>0. n \in Nat /\ DOMAIN hints = 1 .. n
  BY ListIs
<1>1. ContendAll(start, hints) = Contends!Fold(c, start, hints)
  BY DEF ContendAll, ContendNext, FoldLeft, MapThenFoldSet, Max,
         Contends!Fold, Contends!Greatest
<1>2. c[1] = N /\ c[2] = S
  OBVIOUS
<1> HIDE DEF n, c
<1>3. Contended(c, 0, start)
  BY <1>2 DEF Contended
<1>4. \A k \in 1 .. n : \A a : Contended(c, k - 1, a) => Contended(c, k, ContendNext(c, a, hints[k]))
  BY <1>2, ContendIs DEF Contended, ContendNext
<1>5. Contended(c, n, Contends!Fold(c, start, hints))
  BY <1>0, <1>3, <1>4, LeastNatural, Contends!FoldKeeps
<1> QED
  BY <1>1, <1>2, <1>5 DEF Contended

(* What the base shows.                                                    *)
ShownBy(base) == UNION {SeqsOf(x) : x \in ToSet(base)}

LEMMA ContendersAre ==
    ASSUME NEW N, Ranking(N), IsList(reader.hints)
    PROVE  IsRace(Contenders, N, ShownBy(reader.base))
<1> DEFINE base == ToSet(reader.base)
           selected == {x.seq : x \in {y \in base : y.kind = "message"}}
           summaries == {x.node.id : x \in {y \in base : y.kind = "summary"}}
           start == [selected |-> selected, summaries |-> summaries, order |-> 0, contenders |-> <<>>, error |-> "none"]
           hints == [h \in DOMAIN reader.hints |-> h]
<1>1. Contenders = ContendAll(start, hints)
  BY DEF Contenders
<1>2. selected = ShownBy(reader.base)
  <2>1. \A x \in base : x.kind \in {"message", "summary"}
    BY DEF Ranking, IsBase
  <2>2. \A x \in base : SeqsOf(x) = IF x.kind = "message" THEN {x.seq} ELSE {}
    BY <2>1 DEF SeqsOf
  <2> QED
    BY <2>2 DEF ShownBy
<1> HIDE DEF summaries, selected
<1>3. AreContenders(<<>>, N) /\ ToSet(<<>>) = {}
  BY NoList DEF AreContenders, Apart
<1>4. IsRace(start, N, ShownBy(reader.base))
  BY <1>2, <1>3 DEF IsRace
<1> HIDE DEF start
<1>5. IsList(hints)
  <2> DEFINE n == Len(reader.hints)
  <2>1. n \in Nat /\ DOMAIN reader.hints = 1 .. n
    BY ListIs
  <2>2. hints = [h \in 1 .. n |-> hints[h]]
    BY <2>1
  <2> HIDE DEF n, hints
  <2> QED
    BY <2>1, <2>2, ListFun
<1> HIDE DEF hints
<1>6. IsRace(ContendAll(start, hints), N, ShownBy(reader.base))
  BY <1>4, <1>5, ContendAllIs
<1> QED
  BY <1>1, <1>6

-----------------------------------------------------------------------------
(* What the queries return                                                 *)

(* The items of a context, at the positions 0, 1, ... of a list.           *)
ItemsOf(list) == {[conv |-> Conv, position |-> i - 1, ref |-> list[i]] : i \in 1 .. Len(list)}

LEMMA ItemsOrdered ==
    ASSUME NEW list, IsList(list)
    PROVE  /\ Orders(ItemsOf(list), "position") /\ Cardinality(ItemsOf(list)) = Len(list)
           /\ \A i \in 1 .. Len(list) :
                  Cardinality({x \in ItemsOf(list) : x.position < i - 1}) = i - 1
<1> DEFINE row(i) == [conv |-> Conv, position |-> i - 1, ref |-> list[i]]
           Rows1(k) == {row(i) : i \in 1 .. k}
<1>1. Len(list) \in Nat
  BY ListIs
<1>2. \A i, j \in Nat : row(i) = row(j) => i = j
  <2>1. ASSUME NEW i \in Nat, NEW j \in Nat, row(i) = row(j) PROVE i = j
    <3>1. row(i).position = i - 1 /\ row(j).position = j - 1
      OBVIOUS
    <3>2. i - 1 = j - 1
      BY <2>1, <3>1
    <3> QED
      BY <3>2
  <2> QED
    BY <2>1
<1>3. ASSUME NEW k \in Nat PROVE IsFiniteSet(Rows1(k)) /\ Cardinality(Rows1(k)) = k
  <2> DEFINE I == 1 .. k
             f == [i \in I |-> row(i)]
             T == Rows1(k)
  <2>1. IsFiniteSet(I) /\ Cardinality(I) = k
    <3>1. IsFiniteSet(1 .. k) /\ Cardinality(1 .. k) = IF 1 > k THEN 0 ELSE k - 1 + 1
      BY 1 \in Int, k \in Int, FS_Interval
    <3> QED
      BY <3>1
  <2>2. f \in [I -> T] /\ (\A t \in T : \E i \in I : f[i] = t) /\ \A i, j \in I : f[i] = f[j] => i = j
    <3>1. \A i \in I : i \in Nat
      OBVIOUS
    <3>2. \A i \in I : f[i] = row(i) /\ row(i) \in T
      OBVIOUS
    <3>3. \A t \in T : \E i \in I : t = row(i)
      OBVIOUS
    <3>4. DOMAIN f = I /\ f = [i \in I |-> f[i]]
      OBVIOUS
    <3> HIDE DEF f, T, I, row
    <3> QED
      BY <1>2, <3>1, <3>2, <3>3, <3>4
  <2> HIDE DEF f, T, I
  <2>3. f \in Surjection(I, T) /\ f \in Injection(I, T)
    BY <2>2 DEF Surjection, Injection, IsInjective
  <2>4. IsFiniteSet(T) /\ Cardinality(T) = Cardinality(I)
    BY <2>1, <2>3, FS_Surjection
  <2> QED
    BY <2>1, <2>4 DEF T
<1>4. ItemsOf(list) = Rows1(Len(list))
  BY DEF ItemsOf
<1>5. Orders(ItemsOf(list), "position")
  <2>1. IsFiniteSet(ItemsOf(list))
    BY <1>1, <1>3, <1>4
  <2>2. ASSUME NEW r \in ItemsOf(list), NEW x \in ItemsOf(list)
        PROVE  r.position \in Int /\ (r.position = x.position => r = x)
    <3>1. PICK i \in 1 .. Len(list) : r = row(i)
      BY DEF ItemsOf
    <3>2. PICK j \in 1 .. Len(list) : x = row(j)
      BY DEF ItemsOf
    <3>3. r.position = i - 1 /\ x.position = j - 1
      BY <3>1, <3>2
    <3>4. i - 1 = j - 1 => i = j
      BY <1>1
    <3> QED
      BY <1>1, <3>1, <3>2, <3>3, <3>4
  <2> QED
    BY <2>1, <2>2 DEF Orders
<1>6. ASSUME NEW i \in 1 .. Len(list)
      PROVE  Cardinality({x \in ItemsOf(list) : x.position < i - 1}) = i - 1
  <2>1. {x \in ItemsOf(list) : x.position < i - 1} = Rows1(i - 1)
    <3>1. ASSUME NEW x \in ItemsOf(list), x.position < i - 1 PROVE x \in Rows1(i - 1)
      <4>1. PICK j \in 1 .. Len(list) : x = row(j)
        BY DEF ItemsOf
      <4>2. x.position = j - 1
        BY <4>1
      <4>3. j \in 1 .. (i - 1)
        BY <1>1, <3>1, <4>2
      <4> QED
        BY <4>1, <4>3
    <3>2. ASSUME NEW x \in Rows1(i - 1) PROVE x \in ItemsOf(list) /\ x.position < i - 1
      <4>1. PICK j \in 1 .. (i - 1) : x = row(j)
        OBVIOUS
      <4>2. j \in 1 .. Len(list) /\ j - 1 < i - 1
        BY <1>1
      <4>3. x.position = j - 1
        BY <4>1
      <4> QED
        BY <4>1, <4>2, <4>3 DEF ItemsOf
    <3> QED
      BY <3>1, <3>2
  <2>2. i - 1 \in Nat
    BY <1>1
  <2> HIDE DEF Rows1
  <2> QED
    BY <1>3, <2>1, <2>2
<1> QED
  BY <1>1, <1>3, <1>4, <1>5, <1>6

LEMMA ItemRefsIs ==
    ASSUME NEW t, NEW q, IsList(q), t.items = ItemsOf(q)
    PROVE  ItemRefs(t, Conv) = q
<1> DEFINE items == ItemsOf(q)
           o == OrderedBy(items, "position")
<1>0. Len(q) \in Nat /\ DOMAIN q = 1 .. Len(q) /\ q = [i \in 1 .. Len(q) |-> q[i]]
  BY ListIs
<1>1. Rows(t.items, "conv", Conv) = items
  BY DEF Rows, ItemsOf
<1>2. /\ Orders(items, "position") /\ Cardinality(items) = Len(q)
      /\ \A i \in 1 .. Len(q) : Cardinality({x \in items : x.position < i - 1}) = i - 1
  BY ItemsOrdered
<1>3. \A r \in items : \E k \in 1 .. Len(q) : r.position = k - 1 /\ r.ref = q[k]
  BY DEF ItemsOf
<1> HIDE DEF items
<1>4. /\ IsList(o) /\ ToSet(o) = items /\ Len(o) = Len(q)
      /\ \A i \in 1 .. Len(o) : Cardinality({x \in items : x.position < o[i].position}) = i - 1
  <2>1. Orders(items, "position")
    BY <1>2
  <2>2. /\ IsList(o) /\ ToSet(o) = items /\ Len(o) = Cardinality(items)
        /\ \A i \in 1 .. Len(o) : Cardinality({x \in items : x["position"] < o[i]["position"]}) = i - 1
    BY ONLY <2>1, OrderedByIs
  <2> HIDE DEF o
  <2> QED
    BY <1>2, <2>2
<1>5. ItemRefs(t, Conv) = [i \in DOMAIN o |-> o[i].ref]
  BY <1>1 DEF ItemRefs
<1> HIDE DEF o
<1>6. ASSUME NEW i \in 1 .. Len(q) PROVE o[i].ref = q[i]
  <2>1. o[i] \in items
    BY <1>4, ListIs
  <2>2. PICK k \in 1 .. Len(q) : o[i].position = k - 1 /\ o[i].ref = q[k]
    BY <1>3, <2>1
  <2>3. Cardinality({x \in items : x.position < k - 1}) = k - 1
    BY <1>2
  <2>4. Cardinality({x \in items : x.position < k - 1}) = i - 1
    BY <1>4, <2>2
  <2>5. k - 1 = i - 1
    BY <2>3, <2>4
  <2>6. k = i
    BY <1>0, <2>5
  <2> QED
    BY <2>2, <2>6
<1>7. DOMAIN o = 1 .. Len(q)
  BY <1>4, ListIs
<1>8. [i \in DOMAIN o |-> o[i].ref] = [i \in 1 .. Len(q) |-> q[i]]
  BY <1>6, <1>7
<1> QED
  BY <1>0, <1>5, <1>8

LEMMA EventsAre ==
    ASSUME NEW rows, Orders(rows, "seq")
    PROVE  IsList(Events(rows)) /\ ToSet(Events(rows)) = {Event(r) : r \in rows}
<1> DEFINE o == OrderedBy(rows, "seq")
           g == [i \in DOMAIN o |-> Event(o[i])]
<1>1. IsList(o) /\ ToSet(o) = rows
  BY OrderedByIs
<1>2. Events(rows) = SubSeq(g, 1, Len(o))
  BY DEF Events
<1> HIDE DEF o
<1>3. Len(o) \in Nat /\ DOMAIN o = 1 .. Len(o)
  BY <1>1, ListIs
<1>4. g = [i \in 1 .. Len(o) |-> g[i]] /\ \A i \in 1 .. Len(o) : g[i] = Event(o[i])
  BY <1>3
<1> HIDE DEF g
<1>5. IsList(g) /\ Len(g) = Len(o)
  BY ONLY <1>3, <1>4, ListFun
<1>6. SubSeq(g, 1, Len(g)) = g
  BY <1>5, RearrangedAre
<1>7. Events(rows) = g
  BY <1>2, <1>5, <1>6
<1>8. ToSet(g) = {Event(r) : r \in rows}
  <2>1. ASSUME NEW e \in ToSet(g) PROVE e \in {Event(r) : r \in rows}
    <3>1. PICK i \in 1 .. Len(g) : e = g[i]
      BY <1>5, ListIs
    <3>2. e = Event(o[i]) /\ o[i] \in rows
      BY <1>1, <1>4, <1>5, <3>1, ListIs
    <3> QED
      BY <3>2
  <2>2. ASSUME NEW r \in rows PROVE Event(r) \in ToSet(g)
    <3>1. PICK i \in 1 .. Len(o) : r = o[i]
      BY <1>1, ListIs
    <3>2. g[i] = Event(r) /\ g[i] \in ToSet(g)
      BY <1>4, <1>5, <3>1, ListIs
    <3> QED
      BY <3>2
  <2> QED
    BY <2>1, <2>2
<1> QED
  BY <1>5, <1>7, <1>8

-----------------------------------------------------------------------------
(* The tables of a conversation that was only appended to and compacted.   *)
TableNames == {"conversations", "events", "nodes", "leaf", "parents", "items", "versions", "artifacts"}

EventsSound(t) ==
    /\ Orders(t.events, "seq")
    /\ \A r \in t.events :
           /\ {"id", "conv", "seq", "tokens", "artifacts"} \subseteq DOMAIN r
           /\ r.conv = Conv /\ r.seq \in Nat \ {0} /\ r.id = <<Conv, r.seq>> /\ r.tokens \in Nat
           /\ r.artifacts \subseteq {a.id : a \in t.artifacts}

NodesSound(t) ==
    IsFiniteSet(t.nodes) /\ \A n \in t.nodes : SoundNode(n) /\ n.artifacts \subseteq {a.id : a \in t.artifacts}

(* What a context refers to is there, and no message twice.                *)
RefsSound(refs, t) ==
    /\ IsList(refs)
    /\ \A ref \in ToSet(refs) :
           \/ ref.type = "message" /\ \E r \in t.events : r.id = ref.id
           \/ ref.type = "summary" /\ \E n \in t.nodes : n.id = ref.id
    /\ \A i, j \in 1 .. Len(refs) :
           refs[i].type = "message" /\ refs[j].type = "message" /\ refs[i].id = refs[j].id => i = j

TablesSound(t) ==
    /\ TableNames \subseteq DOMAIN t /\ EventsSound(t) /\ NodesSound(t)
    /\ t.items = ItemsOf(ItemRefs(t, Conv)) /\ RefsSound(ItemRefs(t, Conv), t)

LEMMA EventIs ==
    ASSUME NEW t, EventsSound(t), NEW r \in t.events
    PROVE  /\ Event(r).id = r.id /\ Event(r).seq = r.seq /\ Event(r).tokens = r.tokens
           /\ Event(r).artifacts = r.artifacts
<1> DEFINE D == DOMAIN r \ {"keyColumn"}
<1>1. {"id", "seq", "tokens", "artifacts"} \subseteq D
  BY DEF EventsSound
<1>2. Event(r) = [f \in D |-> r[f]]
  BY DEF Event
<1> HIDE DEF D
<1> QED
  BY <1>1, <1>2

LEMMA NextSeqIs ==
    ASSUME NEW t, EventsSound(t)
    PROVE  /\ Rows(t.events, "conv", Conv) = t.events
           /\ NextSeq(t, Conv) \in Nat \ {0} /\ \A r \in t.events : r.seq < NextSeq(t, Conv)
<1> DEFINE f == [r \in t.events |-> r.seq]
           S == {f[r] : r \in t.events}
           m == Maximum(S, 0)
<1>1. Rows(t.events, "conv", Conv) = t.events
  BY DEF Rows, EventsSound
<1>2. {r.seq : r \in t.events} = S
  OBVIOUS
<1>3. NextSeq(t, Conv) = m + 1
  BY <1>1, <1>2 DEF NextSeq
<1>4. IsFiniteSet(t.events) /\ DOMAIN f = t.events /\ \A r \in t.events : f[r] = r.seq /\ r.seq \in Nat
  BY DEF EventsSound, Orders
<1> HIDE DEF f
<1>5. IsFiniteSet(S)
  BY <1>4, FiniteImage
<1>6. \A x \in S : x \in Nat
  BY <1>4
<1> HIDE DEF S
<1>7. m \in Int /\ (S # {} => m \in S) /\ (S = {} => m = 0) /\ \A y \in S : y <= m
  <2>1. \A x \in S : x \in Int
    BY <1>6
  <2> QED
    BY <1>5, <2>1, 0 \in Int, GreatestOfFinite
<1> HIDE DEF m
<1>8. m \in Nat
  BY <1>6, <1>7
<1>9. ASSUME NEW r \in t.events PROVE r.seq < m + 1
  <2>1. r.seq \in S /\ r.seq \in Nat
    BY <1>4 DEF S
  <2> QED
    BY <1>7, <1>8, <2>1
<1> QED
  BY <1>1, <1>3, <1>8, <1>9

LEMMA EventsOfIs ==
    ASSUME NEW t, EventsSound(t)
    PROVE  EventsOf(t) = {Event(r) : r \in t.events}
<1>1. {r \in Rows(t.events, "conv", Conv) : 1 <= r.seq /\ r.seq <= NextSeq(t, Conv)} = t.events
  <2>1. \A r \in t.events : r.seq \in Nat \ {0} /\ r.seq < NextSeq(t, Conv) /\ NextSeq(t, Conv) \in Nat
    BY NextSeqIs DEF EventsSound
  <2>2. \A r \in t.events : 1 <= r.seq /\ r.seq <= NextSeq(t, Conv)
    BY <2>1
  <2> QED
    BY <2>2, NextSeqIs
<1>2. EventsOf(t) = ToSet(Events(t.events))
  BY <1>1 DEF EventsOf, PgGetEvents, EventRange
<1> QED
  BY <1>2, EventsAre DEF EventsSound

(* What a query returns of the events                                      *)
LEMMA QueriedEvents ==
    ASSUME NEW t, EventsSound(t), NEW rows \in SUBSET t.events
    PROVE  /\ IsList(Events(rows)) /\ IsFiniteSet(ToSet(Events(rows)))
           /\ ToSet(Events(rows)) = {Event(r) : r \in rows}
           /\ \A e \in ToSet(Events(rows)) :
                  e.id = <<Conv, e.seq>> /\ e.tokens \in Nat /\ e.artifacts \subseteq {a.id : a \in t.artifacts}
<1>1. Orders(rows, "seq")
  BY SomeRows DEF EventsSound
<1>2. IsList(Events(rows)) /\ ToSet(Events(rows)) = {Event(r) : r \in rows}
  BY <1>1, EventsAre
<1>3. IsFiniteSet({Event(r) : r \in rows})
  <2> DEFINE f == [r \in rows |-> Event(r)]
  <2>1. DOMAIN f = rows /\ {f[r] : r \in rows} = {Event(r) : r \in rows}
    OBVIOUS
  <2> HIDE DEF f
  <2>2. IsFiniteSet(rows)
    BY <1>1 DEF Orders
  <2>3. IsFiniteSet({f[r] : r \in rows})
    BY <2>1, <2>2, FiniteImage
  <2> QED
    BY <2>1, <2>3
<1>4. ASSUME NEW r \in rows
      PROVE  /\ Event(r).id = <<Conv, Event(r).seq>> /\ Event(r).tokens \in Nat
             /\ Event(r).artifacts \subseteq {a.id : a \in t.artifacts}
  <2>1. r \in t.events
    OBVIOUS
  <2>2. /\ Event(r).id = r.id /\ Event(r).seq = r.seq /\ Event(r).tokens = r.tokens
        /\ Event(r).artifacts = r.artifacts
    BY <2>1, EventIs
  <2> QED
    BY <2>1, <2>2 DEF EventsSound
<1> QED
  BY <1>2, <1>3, <1>4

LEMMA SearchedEvents ==
    ASSUME NEW t, EventsSound(t), NEW query, NEW scope
    PROVE  LET found == ToSet(PgSearchEvents(t, Conv, query, scope))
           IN  IsFiniteSet(found) /\ found \subseteq {Event(r) : r \in t.events}
<1> DEFINE rows == {r \in Rows(t.events, "conv", Conv) :
                       /\ scope # NoScope => r.id \in ScopedMessages(t, scope)
                       /\ PgMatches(r.text, query)}
<1>1. rows \in SUBSET t.events
  BY DEF Rows
<1>2. PgSearchEvents(t, Conv, query, scope) = Events(rows)
  BY DEF PgSearchEvents
<1> HIDE DEF rows
<1>3. IsFiniteSet(ToSet(Events(rows))) /\ ToSet(Events(rows)) = {Event(r) : r \in rows}
  BY <1>1, QueriedEvents
<1> QED
  BY <1>1, <1>2, <1>3

LEMMA ExpandedEvents ==
    ASSUME NEW t, EventsSound(t), NEW n
    PROVE  IsWindow(ToSet(PgExpandToMessages(t, n)))
<1> DEFINE rows == {r \in t.events : NodeKind(t, n) # {} /\ r.id \in ScopedMessages(t, n)}
<1>1. rows \in SUBSET t.events
  OBVIOUS
<1>2. PgExpandToMessages(t, n) = Events(rows)
  BY DEF PgExpandToMessages
<1> HIDE DEF rows
<1> QED
  BY <1>1, <1>2, QueriedEvents DEF IsWindow

-----------------------------------------------------------------------------
(* What others change                                                      *)

LEMMA RefsGrow ==
    ASSUME NEW t, NEW t2, NEW q, RefsSound(q, t), t.events \subseteq t2.events, t.nodes \subseteq t2.nodes
    PROVE  RefsSound(q, t2)
BY DEF RefsSound

LEMMA ContextSound ==
    ASSUME NEW t, TableNames \subseteq DOMAIN t, EventsSound(t), NodesSound(t),
           NEW q, t.items = ItemsOf(q), RefsSound(q, t)
    PROVE  TablesSound(t)
<1>1. ItemRefs(t, Conv) = q
  BY ItemRefsIs DEF RefsSound
<1> QED
  BY <1>1 DEF TablesSound

(* The tables but those of the context are the same.                       *)
Alike(t, t2) ==
    TableNames \subseteq DOMAIN t2 /\ t2.events = t.events /\ t2.nodes = t.nodes /\ t2.artifacts = t.artifacts

LEMMA Versioned ==
    ASSUME NEW t, TableNames \subseteq DOMAIN t, NEW c
    PROVE  /\ Alike(t, PgEnsureVersionRow(t, c)) /\ PgEnsureVersionRow(t, c).items = t.items
           /\ Alike(t, PgBumpVersion(t, c)) /\ PgBumpVersion(t, c).items = t.items
<1> DEFINE added == [t EXCEPT !.versions = @ \cup {[conv |-> c, version |-> 0]}]
           bumped == [t EXCEPT !.versions = {IF r.conv = c THEN [r EXCEPT !.version = @ + 1] ELSE r : r \in @}]
<1>1. Alike(t, t) /\ t.items = t.items
  BY DEF Alike
<1>2. Alike(t, added) /\ added.items = t.items
  BY DEF Alike, TableNames
<1>3. DOMAIN bumped = DOMAIN t /\ \A f \in DOMAIN t : f # "versions" => bumped[f] = t[f]
  OBVIOUS
<1>4. PgBumpVersion(t, c) = bumped
  BY DEF PgBumpVersion
<1> HIDE DEF bumped
<1>5. Alike(t, bumped) /\ bumped.items = t.items
  BY <1>3 DEF Alike, TableNames
<1>6. PgEnsureVersionRow(t, c) = t \/ PgEnsureVersionRow(t, c) = added
  BY DEF PgEnsureVersionRow
<1> HIDE DEF added
<1> QED
  BY <1>1, <1>2, <1>4, <1>5, <1>6

(* The context is given another list of items.                             *)
WithItems(t, items) == [t EXCEPT !.items = items]

LEMMA Recontexted ==
    ASSUME NEW t, TableNames \subseteq DOMAIN t, NEW c, NEW items,
           NEW with, with = WithItems(PgEnsureVersionRow(t, c), items)
    PROVE  Alike(t, PgBumpVersion(with, c)) /\ PgBumpVersion(with, c).items = items
<1> DEFINE ready == PgEnsureVersionRow(t, c)
<1>1. Alike(t, ready)
  BY Versioned
<1>2. with = [ready EXCEPT !.items = items]
  BY DEF WithItems
<1> HIDE DEF ready
<1>3. Alike(t, with) /\ with.items = items
  BY ONLY <1>1, <1>2 DEF Alike, TableNames
<1>4. TableNames \subseteq DOMAIN with
  BY <1>3 DEF Alike
<1>5. Alike(with, PgBumpVersion(with, c)) /\ PgBumpVersion(with, c).items = with.items
  BY ONLY <1>4, Versioned
<1>6. Alike(t, PgBumpVersion(with, c))
  BY ONLY <1>3, <1>5 DEF Alike
<1> QED
  BY ONLY <1>3, <1>5, <1>6

LEMMA LastPosition ==
    ASSUME NEW q, IsList(q)
    PROVE  Maximum({r.position : r \in ItemsOf(q)}, -1) = Len(q) - 1
<1> DEFINE n == Len(q)
           S == {r.position : r \in ItemsOf(q)}
           m == Maximum(S, -1)
<1>0. n \in Nat
  BY ListIs
<1>1. S = 0 .. n - 1
  <2>1. ASSUME NEW x \in S PROVE x \in 0 .. n - 1
    <3>1. PICK i \in 1 .. n : x = i - 1
      BY DEF ItemsOf
    <3> QED
      BY <1>0, <3>1
  <2>2. ASSUME NEW x \in 0 .. n - 1 PROVE x \in S
    <3>1. x + 1 \in 1 .. n /\ (x + 1) - 1 = x
      BY <1>0
    <3>2. [conv |-> Conv, position |-> (x + 1) - 1, ref |-> q[x + 1]] \in ItemsOf(q)
      BY <3>1 DEF ItemsOf
    <3>3. [conv |-> Conv, position |-> (x + 1) - 1, ref |-> q[x + 1]].position = x
      BY <3>1
    <3> QED
      BY <3>2, <3>3
  <2> HIDE DEF S
  <2> QED
    BY <2>1, <2>2
<1> HIDE DEF S
<1>2. IsFiniteSet(S)
  <2>1. 0 \in Int /\ n - 1 \in Int
    BY <1>0
  <2> QED
    BY <1>1, <2>1, FS_Interval
<1> HIDE DEF n
<1>3. m \in Int /\ (S # {} => m \in S) /\ (S = {} => m = -1) /\ \A y \in S : y <= m
  <2>1. (\A x \in S : x \in Int) /\ -1 \in Int
    BY <1>0, <1>1
  <2> QED
    BY <1>2, <2>1, GreatestOfFinite
<1> HIDE DEF m
<1>4. m = n - 1
  <2>1. CASE n = 0
    BY <1>0, <1>1, <1>3, <2>1
  <2>2. CASE n # 0
    <3>1. n - 1 \in S
      BY <1>0, <1>1, <2>2
    <3>2. n - 1 <= m /\ m \in 0 .. n - 1
      BY <1>1, <1>3, <3>1
    <3> QED
      BY <1>0, <3>2
  <2> QED
    BY <2>1, <2>2
<1> QED
  BY <1>4 DEF m, S, n

LEMMA ItemsAppended ==
    ASSUME NEW q, IsList(q), NEW refs, IsList(refs)
    PROVE  ItemsOf(q \o refs) =
               ItemsOf(q) \cup {[conv |-> Conv, position |-> Len(q) - 1 + i, ref |-> refs[i]] : i \in DOMAIN refs}
<1> DEFINE n == Len(q)
           m == Len(refs)
           all == q \o refs
           row(k) == [conv |-> Conv, position |-> k - 1, ref |-> all[k]]
           new(i) == [conv |-> Conv, position |-> n - 1 + i, ref |-> refs[i]]
           old(i) == [conv |-> Conv, position |-> i - 1, ref |-> q[i]]
<1>0. n \in Nat /\ m \in Nat /\ DOMAIN refs = 1 .. m
  BY ListIs
<1>1. /\ Len(all) = n + m /\ (\A i \in 1 .. n : all[i] = q[i]) /\ (\A i \in 1 .. m : all[n + i] = refs[i])
  BY ConcatList
<1>2. /\ ItemsOf(all) = {row(k) : k \in 1 .. (n + m)} /\ ItemsOf(q) = {old(i) : i \in 1 .. n}
  BY <1>1 DEF ItemsOf
<1>3. \A i \in 1 .. n : row(i) = old(i)
  BY <1>1
<1>4. \A i \in 1 .. m : row(n + i) = new(i)
  <2>1. ASSUME NEW i \in 1 .. m PROVE row(n + i) = new(i)
    <3>1. (n + i) - 1 = n - 1 + i
      BY <1>0
    <3>2. all[n + i] = refs[i]
      BY <1>1
    <3> QED
      BY <3>1, <3>2
  <2> QED
    BY <2>1
<1>5. \A k \in 1 .. (n + m) : k \in 1 .. n \/ \E i \in 1 .. m : k = n + i
  <2>1. ASSUME NEW k \in 1 .. (n + m), k \notin 1 .. n PROVE k - n \in 1 .. m /\ k = n + (k - n)
    BY <1>0, <2>1
  <2> QED
    BY <2>1
<1>6. (\A i \in 1 .. n : i \in 1 .. (n + m)) /\ (\A i \in 1 .. m : n + i \in 1 .. (n + m))
  BY <1>0
<1>7. {[conv |-> Conv, position |-> Len(q) - 1 + i, ref |-> refs[i]] : i \in DOMAIN refs} = {new(i) : i \in 1 .. m}
  BY <1>0
<1> HIDE DEF row, new, old, n, m, all
<1>8. {row(k) : k \in 1 .. (n + m)} = {old(i) : i \in 1 .. n} \cup {new(i) : i \in 1 .. m}
  BY <1>3, <1>4, <1>5, <1>6
<1> QED
  BY <1>2, <1>7, <1>8 DEF all

Texts(texts) == IsList(texts) /\ \A i \in 1 .. Len(texts) : IsFiniteSet(texts[i])

(* A batch of new messages.                                                *)
Batch(t, batch) ==
    /\ IsList(batch)
    /\ \A i \in 1 .. Len(batch) :
           /\ {"id", "conv", "seq", "tokens", "artifacts", "key"} \subseteq DOMAIN batch[i]
           /\ "keyColumn" \notin DOMAIN batch[i]
           /\ batch[i].conv = Conv /\ batch[i].seq = NextSeq(t, Conv) + i - 1 /\ batch[i].id = <<Conv, batch[i].seq>>
           /\ batch[i].tokens \in Nat /\ batch[i].artifacts \subseteq {a.id : a \in t.artifacts}
           /\ batch[i].key = NoKey

LEMMA MessagesAre ==
    ASSUME NEW t, NEW texts, Texts(texts), NEW artifacts, artifacts \subseteq {a.id : a \in t.artifacts}
    PROVE  Batch(t, Messages(t, texts, artifacts)) /\ Len(Messages(t, texts, artifacts)) = Len(texts)
<1> DEFINE message(i) ==
               [id |-> <<Conv, NextSeq(t, Conv) + i - 1>>, conv |-> Conv, seq |-> NextSeq(t, Conv) + i - 1,
                text |-> texts[i], tokens |-> Cardinality(texts[i]), key |-> NoKey, digest |-> <<>>,
                artifacts |-> artifacts]
           batch == Messages(t, texts, artifacts)
           n == Len(texts)
<1>0. n \in Nat /\ DOMAIN texts = 1 .. n
  BY ListIs DEF Texts
<1>1. batch = [i \in 1 .. n |-> message(i)]
  BY <1>0 DEF Messages, PgNextSequence
<1>2. ASSUME NEW i \in 1 .. n
      PROVE  /\ {"id", "conv", "seq", "tokens", "artifacts", "key"} \subseteq DOMAIN message(i)
             /\ "keyColumn" \notin DOMAIN message(i)
             /\ message(i).conv = Conv /\ message(i).seq = NextSeq(t, Conv) + i - 1
             /\ message(i).id = <<Conv, message(i).seq>>
             /\ message(i).tokens \in Nat /\ message(i).artifacts = artifacts /\ message(i).key = NoKey
  <2>1. IsFiniteSet(texts[i])
    BY DEF Texts
  <2>2. Cardinality(texts[i]) \in Nat
    BY <2>1, FS_CardinalityType
  <2> QED
    BY <2>2
<1> HIDE DEF message, batch, n
<1>3. batch = [i \in 1 .. n |-> batch[i]] /\ \A i \in 1 .. n : batch[i] = message(i)
  BY <1>1
<1>4. IsList(batch) /\ Len(batch) = n
  BY ONLY <1>0, <1>3, ListFun
<1> QED
  BY <1>2, <1>3, <1>4 DEF Batch, batch, n

LEMMA EventRowIs ==
    ASSUME NEW e, {"id", "conv", "seq", "tokens", "artifacts", "key"} \subseteq DOMAIN e, "keyColumn" \notin DOMAIN e, NEW key
    PROVE  /\ {"id", "conv", "seq", "tokens", "artifacts"} \subseteq DOMAIN EventRow(e, key)
           /\ EventRow(e, key).id = e.id /\ EventRow(e, key).conv = e.conv /\ EventRow(e, key).seq = e.seq
           /\ EventRow(e, key).tokens = e.tokens /\ EventRow(e, key).artifacts = e.artifacts
<1> DEFINE D == DOMAIN e \cup {"keyColumn"}
<1>1. EventRow(e, key) = [f \in D |-> IF f = "keyColumn" THEN key ELSE e[f]]
  BY DEF EventRow
<1>2. {"id", "conv", "seq", "tokens", "artifacts"} \subseteq D
  OBVIOUS
<1> HIDE DEF D
<1> QED
  BY <1>1, <1>2

PrepareNext(c, acc, e) == PgPrepare(c[1], Conv, acc, e)

(* All rows of a batch are prepared; c[2] is the batch.                    *)
PreparedUpto(c, k, acc) ==
    /\ {"rows", "keys", "expected", "answer"} \subseteq DOMAIN acc
    /\ acc.answer = "ok" /\ acc.expected = NextSeq(c[1], Conv) + k
    /\ IsList(acc.rows) /\ Len(acc.rows) = k /\ \A i \in 1 .. k : acc.rows[i] = EventRow(c[2][i], NoKey)

Prepares == INSTANCE FoldTheorems WITH Op <- PrepareNext, Inv <- PreparedUpto

LEMMA PreparedAre ==
    ASSUME NEW t, EventsSound(t), NEW batch, Batch(t, batch)
    PROVE  PreparedUpto(<<t, batch>>, Len(batch),
               PgPrepared(t, Conv, [rows |-> <<>>, keys |-> {}, expected |-> NextSeq(t, Conv), answer |-> "ok"], batch))
<1> DEFINE c == <<t, batch>>
           base == [rows |-> <<>>, keys |-> {}, expected |-> NextSeq(t, Conv), answer |-> "ok"]
           n == Len(batch)
<1>0. n \in Nat /\ DOMAIN batch = 1 .. n /\ c[1] = t /\ c[2] = batch /\ NextSeq(t, Conv) \in Nat
  BY ListIs, NextSeqIs DEF Batch
<1>1. PreparedUpto(c, 0, base)
  <2>1. /\ DOMAIN base = {"rows", "keys", "expected", "answer"}
        /\ base.rows = <<>> /\ base.expected = NextSeq(t, Conv) /\ base.answer = "ok"
    OBVIOUS
  <2> HIDE DEF base, c
  <2> QED
    BY <1>0, <2>1, NoList DEF PreparedUpto
<1> HIDE DEF base
<1>2. PgPrepared(t, Conv, base, batch) = Prepares!Fold(c, base, batch)
  BY DEF PgPrepared, PrepareNext, FoldLeft, MapThenFoldSet, Max,
         Prepares!Fold, Prepares!Greatest
<1> HIDE DEF c, n
<1>3. ASSUME NEW k \in 1 .. n, NEW acc, PreparedUpto(c, k - 1, acc)
      PROVE  PreparedUpto(c, k, PrepareNext(c, acc, batch[k]))
  <2> DEFINE e == batch[k]
             row == EventRow(e, NoKey)
             next == [acc EXCEPT !.rows = Append(@, row), !.keys = @ \cup {e.key}, !.expected = @ + 1]
  <2>1. e.key = NoKey /\ e.seq = NextSeq(t, Conv) + k - 1
    BY <1>0 DEF Batch, n
  <2>2. /\ acc.answer = "ok" /\ acc.expected = NextSeq(t, Conv) + (k - 1) /\ IsList(acc.rows) /\ Len(acc.rows) = k - 1
        /\ {"rows", "keys", "expected", "answer"} \subseteq DOMAIN acc
        /\ \A i \in 1 .. k - 1 : acc.rows[i] = EventRow(batch[i], NoKey)
    BY <1>0, <1>3 DEF PreparedUpto
  <2>3. e.seq = acc.expected
    BY <1>0, <2>1, <2>2
  <2>4. PgPrepare(t, Conv, acc, e) = next
    BY <2>1, <2>2, <2>3 DEF PgPrepare
  <2>5. PrepareNext(c, acc, batch[k]) = next
    BY <1>0, <2>4 DEF PrepareNext
  <2> HIDE DEF e, row
  <2>6. /\ next.rows = Append(acc.rows, row) /\ next.expected = acc.expected + 1 /\ next.answer = "ok"
        /\ {"rows", "keys", "expected", "answer"} \subseteq DOMAIN next
    BY <2>2
  <2> HIDE DEF next
  <2>7. /\ IsList(next.rows) /\ Len(next.rows) = k /\ next.rows[k] = row
        /\ \A i \in 1 .. k - 1 : next.rows[i] = acc.rows[i]
    <3>1. /\ IsList(next.rows) /\ Len(next.rows) = (k - 1) + 1 /\ next.rows[(k - 1) + 1] = row
          /\ \A i \in 1 .. k - 1 : next.rows[i] = acc.rows[i]
      BY <2>2, <2>6, AppendList
    <3> QED
      BY <1>0, <3>1
  <2>8. \A i \in 1 .. k : i = k \/ i \in 1 .. k - 1
    BY <1>0
  <2>9. \A i \in 1 .. k : next.rows[i] = EventRow(batch[i], NoKey)
    BY <2>2, <2>7, <2>8 DEF row, e
  <2>10. next.expected = NextSeq(t, Conv) + k
    BY <1>0, <2>2, <2>6
  <2> QED
    BY <1>0, <2>5, <2>6, <2>7, <2>9, <2>10 DEF PreparedUpto
<1>4. \A k \in 1 .. n : \A a : PreparedUpto(c, k - 1, a) => PreparedUpto(c, k, PrepareNext(c, a, batch[k]))
  BY <1>3
<1>5. PreparedUpto(c, n, Prepares!Fold(c, base, batch))
  BY ONLY <1>0, <1>1, <1>4, LeastNatural, Prepares!FoldKeeps
<1> QED
  BY <1>2, <1>5 DEF base, c, n

(* What a conversation keeps, and what it is given.                        *)
Grown(t, t2) == t.events \subseteq t2.events /\ t.nodes \subseteq t2.nodes /\ t2.artifacts = t.artifacts

LEMMA EventsAdded ==
    ASSUME NEW t, EventsSound(t), NEW batch, Batch(t, batch),
           NEW t2, t2.artifacts = t.artifacts,
           t2.events = t.events \cup {EventRow(batch[i], NoKey) : i \in 1 .. Len(batch)}
    PROVE  EventsSound(t2)
<1> DEFINE n == Len(batch)
           row(i) == EventRow(batch[i], NoKey)
           f == [i \in 1 .. n |-> row(i)]
           new == {row(i) : i \in 1 .. n}
           next == NextSeq(t, Conv)
<1>0. n \in Nat /\ next \in Nat \ {0} /\ \A r \in t.events : r.seq < next
  BY ListIs, NextSeqIs DEF Batch
<1>1. ASSUME NEW i \in 1 .. n
      PROVE  /\ {"id", "conv", "seq", "tokens", "artifacts"} \subseteq DOMAIN row(i)
             /\ row(i).conv = Conv /\ row(i).seq = next + i - 1 /\ row(i).id = <<Conv, row(i).seq>>
             /\ row(i).tokens \in Nat /\ row(i).artifacts \subseteq {a.id : a \in t.artifacts}
  <2> DEFINE e == batch[i]
  <2>1. /\ {"id", "conv", "seq", "tokens", "artifacts", "key"} \subseteq DOMAIN e /\ "keyColumn" \notin DOMAIN e
        /\ e.conv = Conv /\ e.seq = next + i - 1 /\ e.id = <<Conv, e.seq>>
        /\ e.tokens \in Nat /\ e.artifacts \subseteq {a.id : a \in t.artifacts}
    BY DEF Batch
  <2> HIDE DEF e, next
  <2>2. /\ {"id", "conv", "seq", "tokens", "artifacts"} \subseteq DOMAIN EventRow(e, NoKey)
        /\ EventRow(e, NoKey).id = e.id /\ EventRow(e, NoKey).conv = e.conv /\ EventRow(e, NoKey).seq = e.seq
        /\ EventRow(e, NoKey).tokens = e.tokens /\ EventRow(e, NoKey).artifacts = e.artifacts
    BY <2>1, EventRowIs
  <2>3. row(i) = EventRow(e, NoKey)
    BY DEF e
  <2> HIDE DEF row
  <2> QED
    BY <2>1, <2>2, <2>3
<1>2. IsFiniteSet(new)
  <2>1. IsFiniteSet(1 .. n)
    BY <1>0, 1 \in Int, n \in Int, FS_Interval
  <2>2. DOMAIN f = 1 .. n /\ new = {f[i] : i \in 1 .. n}
    OBVIOUS
  <2> HIDE DEF f, new
  <2> QED
    BY <2>1, <2>2, FiniteImage
<1>3. t2.events = t.events \cup new
  OBVIOUS
<1> HIDE DEF row, f
<1>4. \A r \in new : \E i \in 1 .. n : r = row(i)
  OBVIOUS
<1> HIDE DEF new, next, n
<1>5. ASSUME NEW r \in t2.events
      PROVE  /\ {"id", "conv", "seq", "tokens", "artifacts"} \subseteq DOMAIN r
             /\ r.conv = Conv /\ r.seq \in Nat \ {0} /\ r.id = <<Conv, r.seq>> /\ r.tokens \in Nat
             /\ r.artifacts \subseteq {a.id : a \in t2.artifacts}
             /\ r \in new => r.seq >= next
  <2>1. CASE r \in t.events
    <3>1. /\ {"id", "conv", "seq", "tokens", "artifacts"} \subseteq DOMAIN r
          /\ r.conv = Conv /\ r.seq \in Nat \ {0} /\ r.id = <<Conv, r.seq>> /\ r.tokens \in Nat
          /\ r.artifacts \subseteq {a.id : a \in t.artifacts}
      BY <2>1 DEF EventsSound
    <3>2. r \notin new
      <4>1. SUFFICES ASSUME r \in new PROVE FALSE
        OBVIOUS
      <4>2. PICK i \in 1 .. n : r = row(i)
        BY <1>4, <4>1
      <4>3. r.seq = next + i - 1 /\ r.seq < next
        BY <1>0, <1>1, <2>1, <4>2
      <4> QED
        BY <1>0, <4>3
    <3> QED
      BY <3>1, <3>2
  <2>2. CASE r \in new
    <3>1. PICK i \in 1 .. n : r = row(i)
      BY <1>4, <2>2
    <3>2. next + i - 1 \in Nat \ {0} /\ next + i - 1 >= next
      BY <1>0
    <3> QED
      BY <1>1, <3>1, <3>2
  <2> QED
    BY <1>3, <2>1, <2>2
<1>6. ASSUME NEW r \in t2.events, NEW x \in t2.events, r.seq = x.seq PROVE r = x
  <2>1. CASE r \in t.events /\ x \in t.events
    BY <1>6, <2>1 DEF EventsSound, Orders
  <2>2. CASE r \in new /\ x \in new
    <3>1. PICK i \in 1 .. n : r = row(i)
      BY <1>4, <2>2
    <3>2. PICK j \in 1 .. n : x = row(j)
      BY <1>4, <2>2
    <3>3. next + i - 1 = next + j - 1
      BY <1>1, <1>6, <3>1, <3>2
    <3>4. i = j
      BY <1>0, <3>3
    <3> QED
      BY <3>1, <3>2, <3>4
  <2>3. CASE r \in t.events /\ x \in new
    <3>1. r.seq < next /\ x.seq >= next
      BY <1>0, <1>5, <2>3
    <3> QED
      BY <1>0, <1>5, <1>6, <3>1
  <2>4. CASE r \in new /\ x \in t.events
    <3>1. x.seq < next /\ r.seq >= next
      BY <1>0, <1>5, <2>4
    <3> QED
      BY <1>0, <1>5, <1>6, <3>1
  <2> QED
    BY <1>3, <2>1, <2>2, <2>3, <2>4
<1>7. IsFiniteSet(t2.events)
  <2>1. IsFiniteSet(t.events)
    BY DEF EventsSound, Orders
  <2>2. IsFiniteSet(t.events \cup new)
    BY ONLY <1>2, <2>1, FS_Union
  <2> QED
    BY <1>3, <2>2
<1>8. Orders(t2.events, "seq")
  <2>1. \A r \in t2.events : r["seq"] \in Int
    BY <1>5
  <2>2. \A r, x \in t2.events : r["seq"] = x["seq"] => r = x
    BY <1>6
  <2> QED
    BY <1>7, <2>1, <2>2 DEF Orders
<1>9. \A r \in t2.events :
          /\ {"id", "conv", "seq", "tokens", "artifacts"} \subseteq DOMAIN r
          /\ r.conv = Conv /\ r.seq \in Nat \ {0} /\ r.id = <<Conv, r.seq>> /\ r.tokens \in Nat
          /\ r.artifacts \subseteq {a.id : a \in t2.artifacts}
  BY <1>5
<1> QED
  BY ONLY <1>8, <1>9 DEF EventsSound

LEMMA SamePair ==
    ASSUME NEW a, NEW b, NEW c, <<a, b>> = <<a, c>>
    PROVE  b = c
OBVIOUS

LEMMA AppendedEvents ==
    ASSUME NEW t, TableNames \subseteq DOMAIN t, EventsSound(t), NEW batch, Batch(t, batch)
    PROVE  LET stored == PgAppendEvents(t, Conv, batch).store
           IN  /\ TableNames \subseteq DOMAIN stored /\ stored.nodes = t.nodes /\ stored.artifacts = t.artifacts
               /\ stored.items = t.items
               /\ stored.events = t.events \cup {EventRow(batch[i], NoKey) : i \in 1 .. Len(batch)}
<1> DEFINE n == Len(batch)
           start == [rows |-> <<>>, keys |-> {}, expected |-> NextSeq(t, Conv), answer |-> "ok"]
           end == PgPrepared(t, Conv, start, batch)
           rows == end.rows
           next == NextSeq(t, Conv)
           stored == PgAppendEvents(t, Conv, batch).store
<1>0. n \in Nat /\ next \in Nat \ {0} /\ \A r \in t.events : r.seq < next
  BY ListIs, NextSeqIs DEF Batch
<1>1. PreparedUpto(<<t, batch>>, n, end)
  BY PreparedAre
<1> HIDE DEF end
<1>2. end.answer = "ok" /\ IsList(rows) /\ Len(rows) = n /\ \A i \in 1 .. n : rows[i] = EventRow(batch[i], NoKey)
  BY <1>1 DEF PreparedUpto
<1>3. stored = PgInsertPrepared(t, rows)
  <2>1. PgAppendEvents(t, Conv, batch) = Done(PgInsertPrepared(t, rows), 0)
    BY <1>2 DEF PgAppendEvents, end
  <2> QED
    BY <2>1 DEF Done
<1> HIDE DEF rows, stored, n
<1>4. ASSUME NEW j \in 1 .. n PROVE MessageConv(t, rows[j].id) = {}
  <2> DEFINE e == batch[j]
  <2>1. /\ {"id", "conv", "seq", "tokens", "artifacts", "key"} \subseteq DOMAIN e /\ "keyColumn" \notin DOMAIN e
        /\ e.seq = next + j - 1 /\ e.id = <<Conv, e.seq>>
    BY DEF Batch, n
  <2> HIDE DEF e
  <2>2. EventRow(e, NoKey).id = e.id
    BY <2>1, EventRowIs
  <2>3. rows[j].id = <<Conv, next + j - 1>>
    BY <1>2, <2>1, <2>2 DEF e
  <2>4. ASSUME NEW r \in t.events, r.id = rows[j].id PROVE FALSE
    <3>1. r.id = <<Conv, r.seq>> /\ r.seq \in Nat
      BY DEF EventsSound
    <3>2. r.seq = next + j - 1
      BY <2>3, <2>4, <3>1
    <3>3. r.seq < next
      BY <1>0
    <3> QED
      BY <1>0, <3>1, <3>2, <3>3
  <2>5. Rows(t.events, "id", rows[j].id) = {}
    BY <2>4 DEF Rows
  <2> QED
    BY <2>5 DEF MessageConv
<1>5. DOMAIN rows = 1 .. n
  BY <1>2, ListIs
<1>6. {rows[i] : i \in {j \in DOMAIN rows : MessageConv(t, rows[j].id) = {}}} = {EventRow(batch[i], NoKey) : i \in 1 .. n}
  <2>1. {j \in DOMAIN rows : MessageConv(t, rows[j].id) = {}} = 1 .. n
    BY <1>4, <1>5
  <2>2. {rows[i] : i \in 1 .. n} = {EventRow(batch[i], NoKey) : i \in 1 .. n}
    BY <1>2
  <2> QED
    BY <2>1, <2>2
<1>7. stored = [t EXCEPT !.events = t.events \cup {EventRow(batch[i], NoKey) : i \in 1 .. n}]
  BY <1>3, <1>6 DEF PgInsertPrepared
<1> DEFINE new == {EventRow(batch[i], NoKey) : i \in 1 .. n}
<1> HIDE DEF new
<1>8. /\ TableNames \subseteq DOMAIN stored /\ stored.nodes = t.nodes /\ stored.artifacts = t.artifacts
      /\ stored.items = t.items /\ stored.events = t.events \cup new
  BY <1>7 DEF TableNames, new
<1> QED
  BY <1>8 DEF stored, new, n

LEMMA AppendedIs ==
    ASSUME NEW t, TablesSound(t), NEW texts, Texts(texts), NEW artifacts, artifacts \subseteq {a.id : a \in t.artifacts}
    PROVE  LET t2 == Appended(t, texts, artifacts) IN TablesSound(t2) /\ Grown(t, t2)
<1> DEFINE batch == Messages(t, texts, artifacts)
           n == Len(batch)
           new == {EventRow(batch[i], NoKey) : i \in 1 .. n}
           stored == PgAppendEvents(t, Conv, batch).store
           refs == [i \in DOMAIN batch |-> [type |-> "message", id |-> batch[i].id]]
           q == ItemRefs(t, Conv)
           t2 == Appended(t, texts, artifacts)
           ready == PgEnsureVersionRow(stored, Conv)
           payload == {[conv |-> Conv, position |-> Len(q) - 1 + i, ref |-> refs[i]] : i \in DOMAIN refs}
<1>1. TableNames \subseteq DOMAIN t /\ EventsSound(t) /\ NodesSound(t) /\ t.items = ItemsOf(q) /\ RefsSound(q, t)
  BY DEF TablesSound
<1>2. Batch(t, batch)
  BY MessagesAre
<1>3. t2 = PgAppendContextItems(stored, Conv, refs).store
  BY DEF Appended
<1> HIDE DEF batch, t2, q
<1>4. /\ TableNames \subseteq DOMAIN stored /\ stored.nodes = t.nodes /\ stored.artifacts = t.artifacts
      /\ stored.items = t.items /\ stored.events = t.events \cup new
  BY <1>1, <1>2, AppendedEvents
<1> HIDE DEF stored, new
<1>5. EventsSound(stored) /\ NodesSound(stored)
  <2>1. EventsSound(stored)
    BY <1>1, <1>2, <1>4, EventsAdded DEF new
  <2> QED
    BY <1>1, <1>4, <2>1 DEF NodesSound
<1>6. n \in Nat /\ DOMAIN batch = 1 .. n
  BY <1>2, ListIs DEF Batch
<1> HIDE DEF n
<1>7. IsList(refs) /\ Len(refs) = n /\ DOMAIN refs = 1 .. n
      /\ \A i \in 1 .. n : refs[i].type = "message" /\ refs[i].id = batch[i].id
  <2>1. refs = [i \in 1 .. n |-> refs[i]] /\ DOMAIN refs = 1 .. n
    BY <1>6
  <2>2. \A i \in 1 .. n : refs[i].type = "message" /\ refs[i].id = batch[i].id
    BY <1>6
  <2> HIDE DEF refs
  <2> QED
    BY <1>6, <2>1, <2>2, ListFun
<1> HIDE DEF refs, payload, ready
<1>8. /\ Alike(stored, t2) /\ t2.items = ItemsOf(q \o refs)
  <2>0. IsList(q)
    BY <1>1 DEF RefsSound
  <2>1. CASE refs = <<>>
    <3>1. t2 = ready
      BY <1>3, <2>1 DEF PgAppendContextItems, Done, ready
    <3>2. Alike(stored, ready) /\ ready.items = stored.items
      BY <1>4, Versioned DEF ready
    <3>3. q \o refs = q
      BY <2>0, <2>1, ConcatEmptySeq DEF IsList
    <3> QED
      BY <1>1, <1>4, <3>1, <3>2, <3>3
  <2>2. CASE refs # <<>>
    <3>1. Rows(stored.items, "conv", Conv) = ItemsOf(q)
      BY <1>1, <1>4 DEF Rows, ItemsOf
    <3>2. Maximum({r.position : r \in Rows(stored.items, "conv", Conv)}, -1) = Len(q) - 1
      BY <2>0, <3>1, LastPosition
    <3>3. ItemsOf(q \o refs) = ItemsOf(q) \cup payload
      BY <1>7, <2>0, ItemsAppended DEF payload
    <3>4. ready.items = ItemsOf(q)
      BY <1>1, <1>4, Versioned DEF ready
    <3>5. t2 = PgBumpVersion([ready EXCEPT !.items = ready.items \cup payload], Conv)
      BY <1>3, <2>2, <3>2 DEF PgAppendContextItems, Done, ready, payload
    <3> DEFINE items == ready.items \cup payload
               with == [ready EXCEPT !.items = items]
    <3>6. t2 = PgBumpVersion(with, Conv)
      BY <3>5
    <3>61. with = WithItems(PgEnsureVersionRow(stored, Conv), items)
      BY DEF ready, WithItems
    <3> HIDE DEF items, with
    <3>7. Alike(stored, t2) /\ t2.items = items
      <4>1. TableNames \subseteq DOMAIN stored
        BY <1>4
      <4>2. Alike(stored, PgBumpVersion(with, Conv)) /\ PgBumpVersion(with, Conv).items = items
        BY ONLY <3>61, <4>1, Recontexted
      <4> QED
        BY ONLY <3>6, <4>2
    <3> QED
      BY <3>3, <3>4, <3>7 DEF items
  <2> QED
    BY <2>1, <2>2
<1>9. RefsSound(q \o refs, t2)
  <2>1. TableNames \subseteq DOMAIN t2 /\ t2.events = t.events \cup new /\ t2.nodes = t.nodes
    BY <1>4, <1>8 DEF Alike
  <2>2. IsList(q) /\ Len(q) \in Nat
    BY <1>1, ListIs DEF RefsSound
  <2>3. /\ IsList(q \o refs) /\ Len(q \o refs) = Len(q) + n
        /\ \A i \in 1 .. Len(q \o refs) : (q \o refs)[i] = IF i <= Len(q) THEN q[i] ELSE refs[i - Len(q)]
        /\ ToSet(q \o refs) = ToSet(q) \cup ToSet(refs)
    BY <1>7, <2>2, ConcatList
  <2>4. ASSUME NEW i \in 1 .. n
        PROVE  /\ refs[i].type = "message" /\ refs[i].id = <<Conv, NextSeq(t, Conv) + i - 1>>
               /\ \E r \in t2.events : r.id = refs[i].id
    <3> DEFINE e == batch[i]
    <3>1. /\ {"id", "conv", "seq", "tokens", "artifacts", "key"} \subseteq DOMAIN e /\ "keyColumn" \notin DOMAIN e
          /\ e.seq = NextSeq(t, Conv) + i - 1 /\ e.id = <<Conv, e.seq>>
      BY <1>2 DEF Batch, n
    <3> HIDE DEF e
    <3>2. EventRow(e, NoKey).id = e.id
      BY <3>1, EventRowIs
    <3>3. EventRow(e, NoKey) \in t2.events
      BY <2>1 DEF new, e, n
    <3>4. refs[i].id = e.id /\ refs[i].type = "message"
      BY <1>7 DEF e
    <3> QED
      BY <3>1, <3>2, <3>3, <3>4
  <2>5. ASSUME NEW ref \in ToSet(q)
        PROVE  /\ \/ ref.type = "message" /\ \E r \in t2.events : r.id = ref.id
                  \/ ref.type = "summary" /\ \E x \in t2.nodes : x.id = ref.id
               /\ ref.type = "message" => \A i \in 1 .. n : ref.id # refs[i].id
    <3>1. \/ ref.type = "message" /\ \E r \in t.events : r.id = ref.id
          \/ ref.type = "summary" /\ \E x \in t.nodes : x.id = ref.id
      BY <1>1 DEF RefsSound
    <3>2. ASSUME ref.type = "message", NEW i \in 1 .. n, ref.id = refs[i].id PROVE FALSE
      <4>1. PICK r \in t.events : r.id = ref.id
        BY <3>1, <3>2
      <4>2. r.id = <<Conv, r.seq>> /\ r.seq \in Nat /\ r.seq < NextSeq(t, Conv) /\ NextSeq(t, Conv) \in Nat
        BY <1>1, NextSeqIs DEF EventsSound
      <4>3. refs[i].id = <<Conv, NextSeq(t, Conv) + i - 1>>
        BY <2>4
      <4>4. r.seq = NextSeq(t, Conv) + i - 1
        <5>1. <<Conv, r.seq>> = <<Conv, NextSeq(t, Conv) + i - 1>>
          BY <3>2, <4>1, <4>2, <4>3
        <5> QED
          BY ONLY <5>1, SamePair
      <4> QED
        BY <4>2, <4>4
    <3> QED
      BY <2>1, <3>1, <3>2
  <2>6. ASSUME NEW ref \in ToSet(q \o refs)
        PROVE  \/ ref.type = "message" /\ \E r \in t2.events : r.id = ref.id
               \/ ref.type = "summary" /\ \E x \in t2.nodes : x.id = ref.id
    <3>1. CASE ref \in ToSet(q)
      BY <2>5, <3>1
    <3>2. CASE ref \in ToSet(refs)
      <4>1. PICK i \in 1 .. n : ref = refs[i]
        BY <1>7, <3>2, ListIs
      <4> QED
        BY <2>4, <4>1
    <3> QED
      BY <2>3, <3>1, <3>2
  <2>7. ASSUME NEW i \in 1 .. Len(q \o refs), NEW j \in 1 .. Len(q \o refs),
               (q \o refs)[i].type = "message", (q \o refs)[j].type = "message", (q \o refs)[i].id = (q \o refs)[j].id
        PROVE  i = j
    <3> DEFINE m == Len(q)
               all == q \o refs
    <3>1. ASSUME NEW k \in 1 .. Len(all)
          PROVE  \/ k \in 1 .. m /\ all[k] = q[k] /\ q[k] \in ToSet(q)
                 \/ k - m \in 1 .. n /\ all[k] = refs[k - m] /\ k = m + (k - m)
      <4>1. CASE k <= m
        <5>1. k \in 1 .. m
          BY <2>2, <2>3, <4>1
        <5>2. q[k] \in ToSet(q)
          BY <2>2, <5>1, ListIs
        <5> QED
          BY <2>3, <4>1, <5>1, <5>2
      <4>2. CASE ~ (k <= m)
        <5>1. k - m \in 1 .. n /\ k = m + (k - m)
          BY <1>6, <2>2, <2>3, <4>2
        <5> QED
          BY <2>3, <4>2, <5>1
      <4> QED
        BY <4>1, <4>2
    <3>2. m \in Nat /\ n \in Nat
      BY <1>6, <2>2
    <3>3. all[i].type = "message" /\ all[j].type = "message" /\ all[i].id = all[j].id /\ i \in 1 .. Len(all) /\ j \in 1 .. Len(all)
      BY <2>7
    <3> HIDE DEF m, all
    <3>4. CASE i \in 1 .. m /\ all[i] = q[i] /\ q[i] \in ToSet(q)
      <4>1. CASE j \in 1 .. m /\ all[j] = q[j]
        BY <1>1, <3>3, <3>4, <4>1 DEF RefsSound, m
      <4>2. CASE j - m \in 1 .. n /\ all[j] = refs[j - m]
        BY <2>5, <3>3, <3>4, <4>2
      <4> QED
        BY <3>1, <3>3, <4>1, <4>2
    <3>5. CASE i - m \in 1 .. n /\ all[i] = refs[i - m] /\ i = m + (i - m)
      <4>1. CASE j \in 1 .. m /\ all[j] = q[j] /\ q[j] \in ToSet(q)
        BY <2>5, <3>3, <3>5, <4>1
      <4>2. CASE j - m \in 1 .. n /\ all[j] = refs[j - m] /\ j = m + (j - m)
        <5> DEFINE a == i - m
                   b == j - m
        <5>1. a \in 1 .. n /\ b \in 1 .. n /\ refs[a].id = refs[b].id
          BY <3>3, <3>5, <4>2
        <5>2. refs[a].id = <<Conv, NextSeq(t, Conv) + a - 1>> /\ refs[b].id = <<Conv, NextSeq(t, Conv) + b - 1>>
          BY <2>4, <5>1
        <5>3. NextSeq(t, Conv) + a - 1 = NextSeq(t, Conv) + b - 1
          <6>1. <<Conv, NextSeq(t, Conv) + a - 1>> = <<Conv, NextSeq(t, Conv) + b - 1>>
            BY <5>1, <5>2
          <6> QED
            BY ONLY <6>1, SamePair
        <5>4. NextSeq(t, Conv) \in Nat
          BY <1>1, NextSeqIs
        <5> HIDE DEF a, b
        <5>5. a = b
          BY <3>2, <5>1, <5>3, <5>4
        <5> QED
          BY <3>5, <4>2, <5>5 DEF a, b
      <4> QED
        BY <3>1, <3>3, <4>1, <4>2
    <3> QED
      BY <3>1, <3>3, <3>4, <3>5
  <2> QED
    BY <2>3, <2>6, <2>7 DEF RefsSound
<1>10. EventsSound(t2) /\ NodesSound(t2) /\ TableNames \subseteq DOMAIN t2
  BY <1>5, <1>8 DEF Alike, EventsSound, NodesSound
<1>11. TablesSound(t2)
  BY <1>8, <1>9, <1>10, ContextSound
<1>12. Grown(t, t2)
  BY <1>4, <1>8 DEF Alike, Grown
<1> QED
  BY <1>11, <1>12 DEF t2

-----------------------------------------------------------------------------
(* Edges                                                                   *)

LinkNext(c, acc, m) == PgAddLeafEdge(c[1], c[2], acc, m)

LinkedUpto(c, k, acc) ==
    {"t", "answer"} \subseteq DOMAIN acc /\ Alike(c[1], acc.t) /\ acc.t.items = c[1].items

Links == INSTANCE FoldTheorems WITH Op <- LinkNext, Inv <- LinkedUpto

WithLeaf(acc, leaf) == [acc EXCEPT !.t.leaf = leaf]

LEMMA Leafed ==
    ASSUME NEW t, NEW acc, {"t", "answer"} \subseteq DOMAIN acc, Alike(t, acc.t), acc.t.items = t.items, NEW leaf,
           NEW next, next = WithLeaf(acc, leaf)
    PROVE  {"t", "answer"} \subseteq DOMAIN next /\ Alike(t, next.t) /\ next.t.items = t.items
<1> DEFINE s == acc.t
<1>1. next.t = [s EXCEPT !.leaf = leaf] /\ {"t", "answer"} \subseteq DOMAIN next
  BY DEF WithLeaf
<1>2. Alike(t, s) /\ s.items = t.items
  OBVIOUS
<1> HIDE DEF s
<1> QED
  BY ONLY <1>1, <1>2 DEF Alike, TableNames

LEMMA LinkedIs ==
    ASSUME NEW t, TableNames \subseteq DOMAIN t, NEW n, NEW messages, IsList(messages)
    PROVE  LET linked == PgAddLeafEdges(t, n, messages).store
           IN  Alike(t, linked) /\ linked.items = t.items
<1> DEFINE c == <<t, n>>
           start == [t |-> t, answer |-> "ok"]
           k == Len(messages)
           end == PgAllLeafEdges(t, n, start, messages)
           linked == PgAddLeafEdges(t, n, messages).store
<1>0. k \in Nat /\ DOMAIN messages = 1 .. k /\ c[1] = t /\ c[2] = n
  BY ListIs
<1>1. LinkedUpto(c, 0, start)
  <2>1. DOMAIN start = {"t", "answer"} /\ start.t = t
    OBVIOUS
  <2> HIDE DEF start, c
  <2> QED
    BY <1>0, <2>1 DEF LinkedUpto, Alike
<1> HIDE DEF start
<1>2. end = Links!Fold(c, start, messages)
  BY DEF PgAllLeafEdges, LinkNext, FoldLeft, MapThenFoldSet, Max,
         Links!Fold, Links!Greatest
<1> HIDE DEF c, k
<1>3. ASSUME NEW i \in 1 .. k, NEW acc, LinkedUpto(c, i - 1, acc)
      PROVE  LinkedUpto(c, i, LinkNext(c, acc, messages[i]))
  <2> DEFINE m == messages[i]
             failed == [acc EXCEPT !.answer = "InvariantViolationError"]
             leaf == acc.t.leaf \cup {[summary |-> n, message |-> m, ord |-> PgNextLeafOrd(acc.t, n)]}
             next == WithLeaf(acc, leaf)
  <2>1. {"t", "answer"} \subseteq DOMAIN acc /\ Alike(t, acc.t) /\ acc.t.items = t.items
    BY <1>0, <1>3 DEF LinkedUpto
  <2>2. \/ LinkNext(c, acc, m) = acc \/ LinkNext(c, acc, m) = failed \/ LinkNext(c, acc, m) = next
    BY <1>0 DEF LinkNext, PgAddLeafEdge, WithLeaf
  <2>20. next = WithLeaf(acc, leaf)
    OBVIOUS
  <2> HIDE DEF leaf, next
  <2>3. {"t", "answer"} \subseteq DOMAIN next /\ Alike(t, next.t) /\ next.t.items = t.items
    BY ONLY <2>1, <2>20, Leafed
  <2>4. {"t", "answer"} \subseteq DOMAIN failed /\ failed.t = acc.t
    BY <2>1
  <2> HIDE DEF next, failed
  <2> QED
    BY <1>0, <2>1, <2>2, <2>3, <2>4 DEF LinkedUpto
<1>4. \A i \in 1 .. k : \A a : LinkedUpto(c, i - 1, a) => LinkedUpto(c, i, LinkNext(c, a, messages[i]))
  BY <1>3
<1>5. LinkedUpto(c, k, end)
  <2>1. LinkedUpto(c, k, Links!Fold(c, start, messages))
    BY ONLY <1>0, <1>1, <1>4, LeastNatural, Links!FoldKeeps
  <2> QED
    BY <1>2, <2>1
<1> HIDE DEF end
<1>6. Alike(t, end.t) /\ end.t.items = t.items
  BY <1>0, <1>5 DEF LinkedUpto
<1>7. linked = t \/ linked = end.t
  BY DEF PgAddLeafEdges, Done, Refused, end, start
<1>8. Alike(t, t)
  BY DEF Alike
<1> QED
  BY <1>6, <1>7, <1>8

-----------------------------------------------------------------------------
(* A block of a context for a summary                                      *)

OnceEach(q) ==
    \A i, j \in 1 .. Len(q) : q[i].type = "message" /\ q[j].type = "message" /\ q[i].id = q[j].id => i = j

LEMMA DrawnOnce ==
    ASSUME NEW q, NEW r, OnceEach(q), Drawn(q, r)
    PROVE  OnceEach(r)
<1>1. PICK f \in [1 .. Len(r) -> 1 .. Len(q)] :
          /\ \A i, j \in 1 .. Len(r) : f[i] = f[j] => i = j
          /\ \A i \in 1 .. Len(r) : r[i] = q[f[i]]
  BY DEF Drawn
<1> QED
  BY <1>1 DEF OnceEach

LEMMA MergedIs ==
    ASSUME NEW q, IsList(q), OnceEach(q), NEW a \in Nat, NEW b \in Nat, a <= b, b < Len(q),
           NEW ref, ref.type = "summary"
    PROVE  LET merged == Merged(q, a .. b, ref)
           IN  IsList(merged) /\ OnceEach(merged) /\ ToSet(merged) \subseteq ToSet(q) \cup {ref}
<1> DEFINE positions == a .. b
           places == [i \in DOMAIN q |-> i - 1]
           T == {p \in ToSet(places) : p \notin positions}
           kept == Those(places, T)
           retained == [i \in DOMAIN kept |-> q[kept[i] + 1]]
           n == Len(q)
           m == Len(kept)
           merged == Merged(q, positions, ref)
<1>0. n \in Nat /\ DOMAIN q = 1 .. n
  BY ListIs
<1>1. IsList(places) /\ Len(places) = n /\ (\A i \in 1 .. n : places[i] = i - 1)
  <2>1. places = [i \in 1 .. n |-> places[i]] /\ \A i \in 1 .. n : places[i] = i - 1
    BY <1>0
  <2> HIDE DEF places
  <2> QED
    BY <1>0, <2>1, ListFun
<1> HIDE DEF places
<1>2. IsList(kept) /\ ToSet(kept) = T /\ Drawn(places, kept)
  <2>1. T \subseteq ToSet(places)
    OBVIOUS
  <2>2. kept = Those(places, T)
    OBVIOUS
  <2> HIDE DEF T, kept
  <2>21. IsList(places)
    BY <1>1
  <2>3. IsList(Those(places, T)) /\ ToSet(Those(places, T)) = ToSet(places) \cap T /\ Drawn(places, Those(places, T))
    BY ONLY <2>21, ThoseAre
  <2> QED
    BY <2>1, <2>2, <2>3
<1>3. m \in Nat /\ DOMAIN kept = 1 .. m
  BY <1>2, ListIs
<1>4. Where(places, LAMBDA p : p \notin positions) = kept
  BY DEF Where
<1>5. (CHOOSE p \in positions : \A x \in positions : p <= x) = a
  <2>1. a \in positions /\ \A x \in positions : a <= x
    OBVIOUS
  <2>2. \A p \in positions : (\A x \in positions : p <= x) => p = a
    BY <2>1
  <2> HIDE DEF positions
  <2> QED
    BY <2>1, <2>2
<1>6. merged = SubSeq(retained, 1, a) \o <<ref>> \o SubSeq(retained, a + 1, Len(retained))
  <2> HIDE DEF positions, kept
  <2> QED
    BY <1>4, <1>5 DEF Merged, places
<1>7. merged = InsertAt(retained, a + 1, ref)
  <2>1. (a + 1) - 1 = a
    OBVIOUS
  <2> HIDE DEF retained, merged
  <2> QED
    BY <1>6, <2>1 DEF InsertAt
<1>8. a <= m
  <2> DEFINE I == 1 .. m
             f == [i \in I |-> kept[i]]
             F == 0 .. a - 1
  <2>1. IsFiniteSet(I) /\ Cardinality(I) = m
    <3>1. IsFiniteSet(1 .. m) /\ Cardinality(1 .. m) = IF 1 > m THEN 0 ELSE m - 1 + 1
      BY <1>3, 1 \in Int, m \in Int, FS_Interval
    <3> QED
      BY <1>3, <3>1
  <2>2. Cardinality(F) = a
    <3>1. Cardinality(0 .. a - 1) = IF 0 > a - 1 THEN 0 ELSE (a - 1) - 0 + 1
      BY 0 \in Int, a - 1 \in Int, FS_Interval
    <3> QED
      BY <3>1
  <2>3. \A p \in F : p \in T
    <3>1. ASSUME NEW p \in F PROVE p \in T
      <4>1. p + 1 \in 1 .. n /\ (p + 1) - 1 = p /\ p \notin positions
        BY <1>0
      <4>2. places[p + 1] = p /\ places[p + 1] \in ToSet(places)
        BY <1>1, <4>1, ListIs
      <4> QED
        BY <4>1, <4>2
    <3> QED
      BY <3>1
  <2>4. f \in Surjection(I, T)
    <3>1. /\ \A i \in 1 .. m : kept[i] \in T
          /\ \A x \in T : \E i \in 1 .. m : x = kept[i]
      BY <1>2, ListIs
    <3> HIDE DEF kept, T
    <3>2. f \in [I -> T] /\ \A x \in T : \E i \in I : f[i] = x
      BY <3>1
    <3> HIDE DEF f, I
    <3> QED
      BY <3>2 DEF Surjection
  <2> HIDE DEF f, I, T, F
  <2>5. IsFiniteSet(T) /\ Cardinality(T) <= Cardinality(I)
    BY <2>1, <2>4, FS_Surjection
  <2>6. Cardinality(F) <= Cardinality(T) /\ Cardinality(T) \in Nat
    <3>1. F \in SUBSET T
      BY <2>3
    <3> QED
      BY <2>5, <3>1, FS_Subset, FS_CardinalityType
  <2> QED
    BY <1>3, <2>1, <2>2, <2>5, <2>6
<1> HIDE DEF T, kept, merged
<1>9. IsList(retained) /\ Len(retained) = m /\ Drawn(q, retained)
  <2>1. PICK f \in [1 .. Len(kept) -> 1 .. Len(places)] :
            /\ \A i, j \in 1 .. Len(kept) : f[i] = f[j] => i = j
            /\ \A i \in 1 .. Len(kept) : kept[i] = places[f[i]]
    BY <1>2 DEF Drawn
  <2>2. \A i \in 1 .. m : f[i] \in 1 .. n /\ kept[i] = f[i] - 1
    BY <1>1, <2>1
  <2>3. \A i \in 1 .. m : retained[i] = q[f[i]]
    <3>1. ASSUME NEW i \in 1 .. m PROVE retained[i] = q[f[i]]
      <4>1. f[i] \in 1 .. n /\ kept[i] = f[i] - 1
        BY <2>2
      <4>2. kept[i] + 1 = f[i]
        BY <1>0, <4>1
      <4> QED
        BY <1>3, <4>2
    <3> QED
      BY <3>1
  <2>4. retained = [i \in 1 .. m |-> retained[i]]
    BY <1>3
  <2> HIDE DEF retained
  <2>5. IsList(retained) /\ Len(retained) = m
    BY ONLY <1>3, <2>4, ListFun
  <2>6. Drawn(q, retained)
    <3>1. f \in [1 .. Len(retained) -> 1 .. Len(q)] /\ Len(retained) = Len(kept)
      BY <1>1, <2>1, <2>5 DEF n, m
    <3>2. /\ \A i, j \in 1 .. Len(retained) : f[i] = f[j] => i = j
          /\ \A i \in 1 .. Len(retained) : retained[i] = q[f[i]]
      BY <2>1, <2>3, <3>1 DEF m
    <3> QED
      BY ONLY <3>1, <3>2 DEF Drawn
  <2> QED
    BY <2>5, <2>6
<1> HIDE DEF retained
<1>10. ToSet(retained) \subseteq ToSet(q) /\ OnceEach(retained)
  BY <1>9, DrawnElements, DrawnOnce
<1> DEFINE p == a + 1
<1>11. p \in 1 .. (Len(retained) + 1)
  BY <1>3, <1>8, <1>9
<1>12. /\ IsList(merged) /\ Len(merged) = m + 1
       /\ \A i \in 1 .. (m + 1) : merged[i] = IF i < p THEN retained[i] ELSE IF i = p THEN ref ELSE retained[i - 1]
  BY <1>7, <1>9, <1>11, Inserted
<1>13. p \in Nat /\ p \in 1 .. m + 1
  BY <1>9, <1>11
<1> HIDE DEF p
<1>14. ASSUME NEW i \in 1 .. m + 1
       PROVE  \/ i < p /\ i \in 1 .. m /\ merged[i] = retained[i]
              \/ i = p /\ merged[i] = ref
              \/ i > p /\ i - 1 \in 1 .. m /\ merged[i] = retained[i - 1]
  <2>1. CASE i < p
    BY <1>3, <1>12, <1>13, <2>1
  <2>2. CASE i = p
    BY <1>3, <1>12, <1>13, <2>2
  <2>3. CASE i > p
    <3>1. i - 1 \in 1 .. m /\ ~ (i < p) /\ i # p
      BY <1>3, <1>13, <2>3
    <3> QED
      BY <1>12, <2>3, <3>1
  <2> QED
    BY <1>3, <1>13, <2>1, <2>2, <2>3
<1>15. ToSet(merged) \subseteq ToSet(q) \cup {ref}
  <2>1. ASSUME NEW x \in ToSet(merged) PROVE x \in ToSet(q) \cup {ref}
    <3>1. PICK i \in 1 .. m + 1 : x = merged[i]
      BY <1>12, ListIs
    <3>2. x = ref \/ \E k \in 1 .. m : x = retained[k]
      BY <1>14, <3>1
    <3> QED
      BY <1>9, <1>10, <3>2, ListIs
  <2> QED
    BY <2>1
<1>16. OnceEach(merged)
  <2>1. SUFFICES ASSUME NEW i \in 1 .. m + 1, NEW j \in 1 .. m + 1,
                        merged[i].type = "message", merged[j].type = "message", merged[i].id = merged[j].id
                 PROVE  i = j
    BY <1>12 DEF OnceEach
  <2>2. merged[i] # ref /\ merged[j] # ref
    BY <2>1
  <2>3. \/ i < p /\ i \in 1 .. m /\ merged[i] = retained[i]
        \/ i > p /\ i - 1 \in 1 .. m /\ merged[i] = retained[i - 1]
    BY <1>14, <2>2
  <2>4. \/ j < p /\ j \in 1 .. m /\ merged[j] = retained[j]
        \/ j > p /\ j - 1 \in 1 .. m /\ merged[j] = retained[j - 1]
    BY <1>14, <2>2
  <2>5. \A k, l \in 1 .. m : retained[k].type = "message" /\ retained[l].type = "message" /\ retained[k].id = retained[l].id => k = l
    BY <1>9, <1>10 DEF OnceEach
  <2>6. CASE i < p /\ i \in 1 .. m /\ merged[i] = retained[i]
    <3>1. CASE j < p /\ j \in 1 .. m /\ merged[j] = retained[j]
      BY <2>1, <2>5, <2>6, <3>1
    <3>2. CASE j > p /\ j - 1 \in 1 .. m /\ merged[j] = retained[j - 1]
      <4>1. i = j - 1
        BY <2>1, <2>5, <2>6, <3>2
      <4> QED
        BY <1>3, <1>13, <2>6, <3>2, <4>1
    <3> QED
      BY <2>4, <3>1, <3>2
  <2>7. CASE i > p /\ i - 1 \in 1 .. m /\ merged[i] = retained[i - 1]
    <3>1. CASE j < p /\ j \in 1 .. m /\ merged[j] = retained[j]
      <4>1. i - 1 = j
        BY <2>1, <2>5, <2>7, <3>1
      <4> QED
        BY <1>3, <1>13, <2>7, <3>1, <4>1
    <3>2. CASE j > p /\ j - 1 \in 1 .. m /\ merged[j] = retained[j - 1]
      <4>1. i - 1 = j - 1
        BY <2>1, <2>5, <2>7, <3>2
      <4> QED
        BY <1>3, <4>1
    <3> QED
      BY <2>4, <3>1, <3>2
  <2> QED
    BY <2>3, <2>6, <2>7
<1> QED
  BY <1>12, <1>15, <1>16 DEF merged, positions

LEMMA ReplacedIs ==
    ASSUME NEW t, TablesSound(t), NEW version, NEW a \in Nat, NEW b \in Int, b < Len(ItemRefs(t, Conv)),
           NEW ref, ref.type = "summary", \E n \in t.nodes : n.id = ref.id
    PROVE  LET t2 == PgReplaceContextItems(t, Conv, version, a .. b, ref).store
           IN  TablesSound(t2) /\ Grown(t, t2)
<1> DEFINE q == ItemRefs(t, Conv)
           positions == a .. b
           ready == PgEnsureVersionRow(t, Conv)
           merged == Merged(q, positions, ref)
           payload == {[conv |-> Conv, position |-> i - 1, ref |-> merged[i]] : i \in DOMAIN merged}
           overwritten == {r \in Rows(t.items, "conv", Conv) : \E x \in payload : x.position = r.position}
           dropped == {r \in Rows(t.items, "conv", Conv) : r.position \notin {x.position : x \in payload}}
           items == ((ready.items \ overwritten) \ dropped) \cup payload
           with == WithItems(ready, items)
           t2 == PgReplaceContextItems(t, Conv, version, positions, ref).store
<1>1. TableNames \subseteq DOMAIN t /\ EventsSound(t) /\ NodesSound(t) /\ t.items = ItemsOf(q) /\ RefsSound(q, t)
  BY DEF TablesSound
<1>2. IsList(q) /\ OnceEach(q) /\ b < Len(q)
  BY <1>1 DEF RefsSound, OnceEach
<1>3. \/ t2 = t
      \/ t2 = ready
      \/ positions # {} /\ t2 = PgBumpVersion(with, Conv)
  BY DEF PgReplaceContextItems, Done, Refused, WithItems
<1>4. Alike(t, ready) /\ ready.items = t.items
  BY <1>1, Versioned
<1>5. with = WithItems(PgEnsureVersionRow(t, Conv), items)
  OBVIOUS
<1>6. CASE positions # {} /\ t2 = PgBumpVersion(with, Conv)
  <2>1. b \in Nat /\ a <= b
    BY <1>6
  <2>2. IsList(merged) /\ OnceEach(merged) /\ ToSet(merged) \subseteq ToSet(q) \cup {ref}
    <3> HIDE DEF q
    <3>1. LET x == Merged(q, a .. b, ref) IN IsList(x) /\ OnceEach(x) /\ ToSet(x) \subseteq ToSet(q) \cup {ref}
      BY <1>2, <2>1, MergedIs
    <3> QED
      BY <3>1
  <2>3. Rows(t.items, "conv", Conv) = t.items
    <3> HIDE DEF q
    <3> QED
      BY <1>1 DEF Rows, ItemsOf
  <2> HIDE DEF merged, ready
  <2>4. payload = ItemsOf(merged)
    <3>1. DOMAIN merged = 1 .. Len(merged)
      BY <2>2, ListIs
    <3> QED
      BY <3>1 DEF ItemsOf
  <2>5. items = payload
    <3> HIDE DEF payload
    <3> QED
      BY <1>4, <2>3
  <2> HIDE DEF payload, items, with, t2, overwritten, dropped
  <2>6. Alike(t, PgBumpVersion(with, Conv)) /\ PgBumpVersion(with, Conv).items = items
    <3>1. TableNames \subseteq DOMAIN t
      BY <1>1
    <3> QED
      BY ONLY <1>5, <3>1, Recontexted
  <2>7. Alike(t, t2) /\ t2.items = ItemsOf(merged)
    BY <1>6, <2>4, <2>5, <2>6
  <2> HIDE DEF q
  <2>8. RefsSound(merged, t2)
    <3>1. t2.events = t.events /\ t2.nodes = t.nodes
      BY <2>7 DEF Alike
    <3>2. ASSUME NEW x \in ToSet(merged)
          PROVE  \/ x.type = "message" /\ \E r \in t2.events : r.id = x.id
                 \/ x.type = "summary" /\ \E n \in t2.nodes : n.id = x.id
      <4>1. CASE x = ref
        BY <3>1, <4>1
      <4>2. CASE x \in ToSet(q)
        BY <1>1, <3>1, <4>2 DEF RefsSound
      <4> QED
        BY <2>2, <4>1, <4>2
    <3> QED
      BY <2>2, <3>2 DEF RefsSound, OnceEach
  <2>9. TableNames \subseteq DOMAIN t2 /\ EventsSound(t2) /\ NodesSound(t2)
    BY <1>1, <2>7 DEF Alike, EventsSound, NodesSound
  <2>10. TablesSound(t2)
    BY <2>7, <2>8, <2>9, ContextSound
  <2> QED
    BY <2>7, <2>10 DEF Grown, Alike, t2, positions
<1>7. CASE t2 = t
  <2>1. TablesSound(t2) /\ Grown(t, t2)
    BY <1>7 DEF Grown
  <2> QED
    BY <2>1
<1>8. CASE t2 = ready
  <2> HIDE DEF ready, t2, q
  <2>1. TableNames \subseteq DOMAIN ready /\ EventsSound(ready) /\ NodesSound(ready) /\ ready.items = ItemsOf(q)
    BY <1>1, <1>4 DEF Alike, EventsSound, NodesSound
  <2>2. RefsSound(q, ready)
    BY <1>1, <1>4 DEF Alike, RefsSound
  <2>3. TablesSound(ready) /\ Grown(t, ready)
    BY <1>4, <2>1, <2>2, ContextSound DEF Grown, Alike
  <2> QED
    BY <1>8, <2>3 DEF t2, positions
<1> QED
  BY <1>3, <1>6, <1>7, <1>8

LEMMA NodeCreated ==
    ASSUME NEW t, TablesSound(t), NEW node, SoundNode(node), node.artifacts \subseteq {a.id : a \in t.artifacts}
    PROVE  LET t2 == PgCreateNode(t, node).store
           IN  TablesSound(t2) /\ Grown(t, t2) /\ \E n \in t2.nodes : n.id = node.id
<1> DEFINE q == ItemRefs(t, Conv)
           added == [t EXCEPT !.nodes = t.nodes \cup {node}]
           t2 == PgCreateNode(t, node).store
<1>1. TableNames \subseteq DOMAIN t /\ EventsSound(t) /\ NodesSound(t) /\ t.items = ItemsOf(q) /\ RefsSound(q, t)
  BY DEF TablesSound
<1>2. t2 = IF NodeKind(t, node.id) # {} THEN t ELSE added
  BY DEF PgCreateNode, Done
<1>3. CASE NodeKind(t, node.id) # {}
  <2>1. \E n \in t.nodes : n.id = node.id
    BY <1>3 DEF NodeKind, Rows
  <2> HIDE DEF t2
  <2>2. TablesSound(t2) /\ Grown(t, t2) /\ \E n \in t2.nodes : n.id = node.id
    BY <1>2, <1>3, <2>1 DEF Grown
  <2> QED
    BY <2>2 DEF t2
<1>4. CASE ~ (NodeKind(t, node.id) # {})
  <2> HIDE DEF t2, q
  <2>1. /\ TableNames \subseteq DOMAIN added /\ added.nodes = t.nodes \cup {node} /\ added.events = t.events
        /\ added.artifacts = t.artifacts /\ added.items = t.items
    BY <1>1 DEF TableNames
  <2> HIDE DEF added
  <2>2. IsFiniteSet(added.nodes)
    <3>1. IsFiniteSet(t.nodes)
      BY <1>1 DEF NodesSound
    <3>2. IsFiniteSet(t.nodes \cup {node})
      BY ONLY <3>1, FS_AddElement
    <3> QED
      BY <2>1, <3>2
  <2>3. NodesSound(added)
    BY <1>1, <2>1, <2>2 DEF NodesSound
  <2>4. EventsSound(added)
    BY <1>1, <2>1 DEF EventsSound
  <2>5. RefsSound(q, added)
    BY <1>1, <2>1, RefsGrow
  <2>6. TablesSound(added)
    BY <1>1, <2>1, <2>3, <2>4, <2>5, ContextSound
  <2>7. TablesSound(t2) /\ Grown(t, t2) /\ \E n \in t2.nodes : n.id = node.id
    BY <1>2, <1>4, <2>1, <2>6 DEF Grown
  <2> QED
    BY <2>7 DEF t2
<1> QED
  BY <1>3, <1>4

LEMMA CompactedIs ==
    ASSUME TablesSound(tables), NEW length \in Nat, NEW form, form.tokens \in Nat, CompactBlock(length, form)
    PROVE  TablesSound(tables') /\ Grown(tables, tables')
<1> DEFINE n == CHOOSE x \in Nodes : PgGetNode(tables, x) = {}
           items == ItemRefs(tables, Conv)
           first == SelectInSeq(items, LAMBDA r : r.type = "message")
           block == SubSeq(items, first, first + length - 1)
           rows == {e \in Rows(tables.events, "conv", Conv) : \E r \in ToSet(block) : r.id = e.id}
           events == Events(rows)
           facts == [i \in DOMAIN events |-> events[i].text]
           ids == [i \in DOMAIN events |-> events[i].id]
           node == [id |-> n, conv |-> Conv, kind |-> "leaf", text |-> UNION ToSet(facts), tokens |-> form.tokens,
                    artifacts |-> UNION {e.artifacts : e \in ToSet(events)}, facts |-> facts,
                    shown |-> IF form.shown THEN facts ELSE <<>>, created |-> Cardinality(tables.nodes) + 1]
           created == PgCreateNode(tables, node).store
           linked == PgAddLeafEdges(created, n, ids).store
           ref == [type |-> "summary", id |-> n]
<1>1. /\ first # 0 /\ first + length - 1 <= Len(items)
      /\ tables' = PgReplaceContextItems(linked, Conv, VersionOf(tables, Conv), (first - 1)..(first + length - 2), ref).store
  BY DEF CompactBlock, Changed, PgCurrentContext
<1>2. EventsSound(tables) /\ IsList(items) /\ tables.items = ItemsOf(items)
  BY DEF TablesSound, RefsSound
<1>3. first \in 1 .. Len(items) /\ Len(items) \in Nat
  <2> DEFINE I == {i \in 1 .. Len(items) : items[i].type = "message"}
  <2>1. first = IF I # {} THEN Min(I) ELSE 0
    BY DEF SelectInSeq
  <2>2. Len(items) \in Nat
    BY <1>2, ListIs
  <2> HIDE DEF items
  <2>3. I \in SUBSET Nat /\ I \subseteq 1 .. Len(items)
    BY <2>2
  <2> HIDE DEF I, first
  <2>4. I # {} /\ first = Min(I)
    BY <1>1, <2>1
  <2>5. \E x \in I : \A y \in I : x <= y
    BY <2>3, <2>4, LeastNatural
  <2>6. Min(I) \in I
    BY <2>5 DEF Min
  <2> QED
    BY <2>2, <2>3, <2>4, <2>6
<1> HIDE DEF first
<1>4. rows \in SUBSET tables.events
  BY DEF Rows
<1> HIDE DEF rows
<1>5. /\ IsList(events)
      /\ \A e \in ToSet(events) : e.artifacts \subseteq {a.id : a \in tables.artifacts}
  BY <1>2, <1>4, QueriedEvents
<1> HIDE DEF events, items
<1>6. Len(events) \in Nat /\ DOMAIN events = 1 .. Len(events)
  BY <1>5, ListIs
<1>7. IsList(facts)
  <2>1. facts = [i \in 1 .. Len(events) |-> facts[i]]
    BY <1>6
  <2> HIDE DEF facts
  <2> QED
    BY ONLY <1>6, <2>1, ListFun
<1>8. IsList(ids)
  <2>1. ids = [i \in 1 .. Len(events) |-> ids[i]]
    BY <1>6
  <2> HIDE DEF ids
  <2> QED
    BY ONLY <1>6, <2>1, ListFun
<1> HIDE DEF facts, ids, n
<1>9. /\ SoundNode(node) /\ node.id = n
      /\ node.artifacts \subseteq {a.id : a \in tables.artifacts}
  <2>1. node.tokens = form.tokens /\ node.facts = facts /\ node.id = n /\ node.artifacts = UNION {e.artifacts : e \in ToSet(events)}
    OBVIOUS
  <2> HIDE DEF node
  <2> QED
    BY <1>5, <1>7, <2>1 DEF SoundNode
<1> HIDE DEF node
<1>10. TablesSound(created) /\ Grown(tables, created) /\ \E x \in created.nodes : x.id = n
  BY <1>9, NodeCreated
<1>101. created.items = tables.items
  <2>1. TableNames \subseteq DOMAIN tables
    BY DEF TablesSound
  <2>2. created = tables \/ created = [tables EXCEPT !.nodes = @ \cup {node}]
    BY DEF PgCreateNode, Done
  <2> HIDE DEF created
  <2> QED
    BY <2>1, <2>2 DEF TableNames
<1> HIDE DEF created
<1>11. Alike(created, linked) /\ linked.items = created.items
  <2>1. TableNames \subseteq DOMAIN created
    BY <1>10 DEF TablesSound
  <2> QED
    BY <1>8, <2>1, LinkedIs
<1> HIDE DEF linked
<1>12. TablesSound(linked) /\ Grown(created, linked)
  <2> DEFINE q == ItemRefs(created, Conv)
  <2>1. TableNames \subseteq DOMAIN created /\ EventsSound(created) /\ NodesSound(created) /\ created.items = ItemsOf(q) /\ RefsSound(q, created)
    BY <1>10 DEF TablesSound
  <2> HIDE DEF q
  <2>2. TableNames \subseteq DOMAIN linked /\ EventsSound(linked) /\ NodesSound(linked) /\ linked.items = ItemsOf(q)
    BY <1>11, <2>1 DEF Alike, EventsSound, NodesSound
  <2>3. RefsSound(q, linked)
    BY <1>11, <2>1 DEF Alike, RefsSound
  <2>4. TablesSound(linked)
    BY <2>2, <2>3, ContextSound
  <2> QED
    BY <1>11, <2>4 DEF Grown, Alike
<1>13. ItemRefs(linked, Conv) = items
  BY <1>2, <1>101, <1>11, ItemRefsIs
<1> DEFINE a == first - 1
           b == first + length - 2
<1>14. a \in Nat /\ b \in Int /\ b < Len(ItemRefs(linked, Conv))
  BY <1>1, <1>3, <1>13
<1>15. ref.type = "summary" /\ \E x \in linked.nodes : x.id = ref.id
  BY <1>10, <1>12 DEF Grown
<1>16. tables' = PgReplaceContextItems(linked, Conv, VersionOf(tables, Conv), a .. b, ref).store
  BY <1>1
<1> DEFINE version == VersionOf(tables, Conv)
<1> HIDE DEF a, b, ref, version
<1>17. TablesSound(tables') /\ Grown(linked, tables')
  <2> DEFINE t2 == PgReplaceContextItems(linked, Conv, version, a .. b, ref).store
  <2>1. tables' = t2
    BY <1>16 DEF version
  <2>2. LET x == PgReplaceContextItems(linked, Conv, version, a .. b, ref).store IN TablesSound(x) /\ Grown(linked, x)
    BY ONLY <1>12, <1>14, <1>15, ReplacedIs
  <2>3. TablesSound(t2) /\ Grown(linked, t2)
    BY <2>2
  <2> HIDE DEF t2
  <2> QED
    BY <2>1, <2>3
<1>18. Grown(tables, tables')
  BY <1>10, <1>12, <1>17 DEF Grown
<1> QED
  BY <1>17, <1>18

LEMMA AppendStep ==
    ASSUME TablesSound(tables), NEW text, IsFiniteSet(text), AppendMessage(text)
    PROVE  TablesSound(tables') /\ Grown(tables, tables')
<1>1. Texts(<<text>>)
  <2>1. <<text>> \in Seq({text}) /\ ToSet(<<text>>) = {text} /\ Len(<<text>>) = 1 /\ <<text>>[1] = text
    BY DEF ToSet
  <2>2. \A i \in 1 .. 1 : i = 1
    OBVIOUS
  <2> QED
    BY <2>1, <2>2 DEF Texts, IsList
<1>2. tables' = Appended(tables, <<text>>, {})
  BY DEF AppendMessage, Changed
<1>3. {} \subseteq {a.id : a \in tables.artifacts}
  OBVIOUS
<1> DEFINE t2 == Appended(tables, <<text>>, {})
<1>4. TablesSound(t2) /\ Grown(tables, t2)
  BY <1>1, <1>3, AppendedIs
<1> HIDE DEF t2
<1> QED
  BY <1>2, <1>4 DEF t2

-----------------------------------------------------------------------------
(* The hints of a request and their searches                               *)
AddStage(c, acc, q) == IF q = {} \/ Contains(acc, q) THEN acc ELSE Append(acc, q)

StagesUpto(c, k, acc) == IsList(acc)

Stages == INSTANCE FoldTheorems WITH Op <- AddStage, Inv <- StagesUpto

LEMMA StageQueriesAre ==
    ASSUME NEW query
    PROVE  IsList(StageQueries(query))
<1> DEFINE s == <<query, query \ ShortWords, query \cap Cues>>
           n == Len(s)
<1>0. IsList(s) /\ n \in Nat /\ DOMAIN s = 1 .. n
  <2>1. s \in Seq({s[1], s[2], s[3]})
    OBVIOUS
  <2> HIDE DEF s
  <2>2. IsList(s)
    BY <2>1, ListOf
  <2> QED
    BY <2>2, ListIs
<1>1. StageQueries(query) = Stages!Fold(0, <<>>, s)
  BY DEF StageQueries, AddStage, FoldLeft, MapThenFoldSet, Max,
         Stages!Fold, Stages!Greatest
<1> HIDE DEF s, n
<1>2. StagesUpto(0, 0, <<>>)
  BY NoList DEF StagesUpto
<1>3. \A k \in 1 .. n : \A a : StagesUpto(0, k - 1, a) => StagesUpto(0, k, AddStage(0, a, s[k]))
  <2>1. ASSUME NEW k \in 1 .. n, NEW a, StagesUpto(0, k - 1, a) PROVE StagesUpto(0, k, AddStage(0, a, s[k]))
    BY <2>1, AppendList DEF StagesUpto, AddStage
  <2> QED
    BY <2>1
<1>4. StagesUpto(0, n, Stages!Fold(0, <<>>, s))
  BY ONLY <1>0, <1>2, <1>3, LeastNatural, Stages!FoldKeeps
<1> QED
  BY <1>1, <1>4 DEF StagesUpto

RequestSound(request) == request.budget \in Nat /\ IsList(request.hints)

(* Every hint has its stages in a list.                                    *)
Hints(hints) == IsList(hints) /\ \A h \in 1 .. Len(hints) : IsList(hints[h].stages)

LEMMA HintsOfAre ==
    ASSUME NEW request, RequestSound(request)
    PROVE  Hints(HintsOf(request))
<1> DEFINE asked == request.hints
<1>1. IsList(asked)
  BY DEF RequestSound
<1> DEFINE hint(i) == [index |-> i, query |-> asked[i].query, scope |-> asked[i].scope, limit |-> asked[i].limit,
                       stages |-> StageQueries(asked[i].query)]
           hints == [i \in DOMAIN asked |-> hint(i)]
<1>2. HintsOf(request) = hints
  BY DEF HintsOf
<1>3. Len(asked) \in Nat /\ DOMAIN asked = 1 .. Len(asked)
  BY <1>1, ListIs
<1>4. \A i : IsList(hint(i).stages)
  BY StageQueriesAre
<1> HIDE DEF hint, asked
<1>5. hints = [i \in 1 .. Len(asked) |-> hints[i]] /\ \A i \in 1 .. Len(asked) : hints[i] = hint(i)
  BY <1>3
<1> HIDE DEF hints
<1>6. IsList(hints) /\ Len(hints) = Len(asked)
  BY ONLY <1>3, <1>5, ListFun
<1> QED
  BY <1>2, <1>4, <1>5, <1>6 DEF Hints

(* A search has the scope of a hint.                                       *)
LEMMA SearchesAre ==
    ASSUME NEW hints, Hints(hints)
    PROVE  /\ IsList(SearchesOf(hints))
           /\ \A i \in 1 .. Len(SearchesOf(hints)) : \E h \in ToSet(hints) : SearchesOf(hints)[i].scope = h.scope
<1> DEFINE stagesOf(h) == IF hints[h].stages = <<>> THEN <<{}>> ELSE hints[h].stages
           search(h, s) == [hint |-> h, query |-> stagesOf(h)[s], scope |-> hints[h].scope,
                            last |-> s = Len(stagesOf(h))]
           list(h) == [s \in DOMAIN stagesOf(h) |-> search(h, s)]
           lists == [h \in DOMAIN hints |-> list(h)]
           n == Len(hints)
<1>1. SearchesOf(hints) = Concat(lists)
  BY DEF SearchesOf
<1>2. n \in Nat /\ DOMAIN hints = 1 .. n /\ \A h \in 1 .. n : hints[h] \in ToSet(hints)
  BY ListIs DEF Hints
<1>3. \A h, s : search(h, s).scope = hints[h].scope
  OBVIOUS
<1>4. ASSUME NEW h \in 1 .. n
      PROVE  IsList(list(h)) /\ \A s \in 1 .. Len(list(h)) : list(h)[s].scope = hints[h].scope
  <2> DEFINE stages == stagesOf(h)
             l == list(h)
             m == Len(stages)
  <2>1. IsList(stages)
    <3>1. <<{}>> \in Seq({{}})
      OBVIOUS
    <3>2. IsList(<<{}>>)
      BY <3>1, ListOf
    <3> QED
      BY <1>4, <3>2 DEF Hints
  <2> HIDE DEF stages
  <2>2. m \in Nat /\ DOMAIN stages = 1 .. m
    BY <2>1, ListIs
  <2> HIDE DEF search
  <2>3. l = [s \in 1 .. m |-> l[s]] /\ \A s \in 1 .. m : l[s].scope = hints[h].scope
    <3>1. l = [s \in DOMAIN stages |-> search(h, s)]
      BY DEF stages
    <3> HIDE DEF l
    <3> QED
      BY <1>3, <2>2, <3>1
  <2> HIDE DEF l
  <2>4. IsList(l) /\ Len(l) = m
    BY ONLY <2>2, <2>3, ListFun
  <2> QED
    BY <2>3, <2>4 DEF l
<1>5. DOMAIN lists = 1 .. n /\ \A h \in 1 .. n : lists[h] = list(h)
  BY <1>2
<1> HIDE DEF stagesOf, list, lists
<1>6. ChainedUpto(lists, n, Concat(lists))
  BY <1>2, <1>4, <1>5, ConcatAre
<1> DEFINE all == Concat(lists)
<1> HIDE DEF all
<1>7. IsList(all)
  BY <1>6 DEF ChainedUpto, all
<1>8. PICK at \in [1 .. Len(all) -> 1 .. n], p \in [1 .. Len(all) -> Nat] :
          \A i \in 1 .. Len(all) : p[i] \in 1 .. Len(lists[at[i]]) /\ all[i] = lists[at[i]][p[i]]
  BY <1>6 DEF ChainedUpto, all
<1>9. ASSUME NEW i \in 1 .. Len(all) PROVE \E h \in ToSet(hints) : all[i].scope = h.scope
  <2>1. at[i] \in 1 .. n
    BY <1>8
  <2>2. all[i].scope = hints[at[i]].scope
    BY <1>4, <1>5, <1>8, <2>1
  <2> QED
    BY <1>2, <2>1, <2>2
<1> QED
  BY <1>1, <1>7, <1>9 DEF all

-----------------------------------------------------------------------------
(* The reader                                                              *)
ReaderFields ==
    {"pc", "request", "hints", "overtaken", "compaction", "context", "events", "items", "base", "summaries",
     "found", "output"}

EventsRead(w) == IsFiniteSet(w) /\ \A e \in w : e.id = <<Conv, e.seq>> /\ e.tokens \in Nat

(* What was read before the items were resolved.                           *)
SnapshotSound(r, t) ==
    /\ r.context # <<>> =>
           /\ RefsSound(r.context[1], t)
           /\ ~ r.overtaken => r.context[1] = ItemRefs(t, Conv)
    /\ r.events # <<>> =>
           /\ EventsRead(r.events[1])
           /\ ~ r.overtaken => r.events[1] = EventsOf(t)

BaseSound(items, base, N, budget) ==
    /\ IsBase(items, N) /\ IsBase(base, N) /\ ToSet(base) \subseteq ToSet(items)
    /\ ToSet(Pinned(base)) = ToSet(Pinned(items)) /\ TokenSum(Pinned(base)) <= budget

FoundSound(found, t) ==
    IsList(found) /\ \A x \in ToSet(found) :
        /\ IsFiniteSet(x.events) /\ x.events \subseteq {Event(r) : r \in t.events}
        /\ IsFiniteSet(x.summaries) /\ x.summaries \subseteq t.nodes

SearchSound(r, t) ==
    /\ r.events # <<>>
    /\ BaseSound(r.items, r.base, t.nodes, r.request.budget)
    /\ FoundSound(r.found, t)
    /\ r.summaries # <<>> =>
           /\ Len(r.found) < Len(SearchesOf(r.hints))
           /\ IsFiniteSet(r.summaries[1]) /\ r.summaries[1] \subseteq t.nodes

ReaderSound(r, t) ==
    /\ r.pc \in {"idle", "snapshot", "search", "done"}
    /\ {"pc", "request"} \subseteq DOMAIN r /\ RequestSound(r.request)
    /\ r.pc # "idle" => ReaderFields \subseteq DOMAIN r /\ r.hints = HintsOf(r.request)
    /\ r.pc \in {"snapshot", "search"} => SnapshotSound(r, t)
    /\ r.pc = "snapshot" => r.found = <<>> /\ r.summaries = <<>>
    /\ r.pc = "search" => SearchSound(r, t)

(* The inductive invariant: a read in progress holds items, events and     *)
(* search results that are in the tables, whatever was committed since; if *)
(* nothing was, it holds what the tables do. An answer stays what it was.   *)
ReadInv ==
    /\ TablesSound(tables) /\ ReaderSound(reader, tables)
    /\ BudgetHonoured /\ LeftOutIsReported /\ ReadFailsOnlyIfOvertaken

-----------------------------------------------------------------------------
(* What others do to the reader                                            *)
LEMMA BaseGrows ==
    ASSUME NEW items, NEW base, NEW N, NEW M, N \subseteq M, NEW budget, BaseSound(items, base, N, budget)
    PROVE  BaseSound(items, base, M, budget)
<1>1. ASSUME NEW s, IsBase(s, N) PROVE IsBase(s, M)
  <2>1. \A u : Sound(u, N) => Sound(u, M)
    BY DEF Sound
  <2> QED
    BY <1>1, <2>1 DEF IsBase
<1> QED
  BY <1>1 DEF BaseSound

LEMMA FoundGrows ==
    ASSUME NEW found, NEW t, NEW t2, Grown(t, t2), FoundSound(found, t)
    PROVE  FoundSound(found, t2)
<1>1. {Event(r) : r \in t.events} \subseteq {Event(r) : r \in t2.events} /\ t.nodes \subseteq t2.nodes
  BY DEF Grown
<1> QED
  BY <1>1 DEF FoundSound

Overtaken(r) == [r EXCEPT !.overtaken = TRUE]

LEMMA OvertakenIs ==
    ASSUME NEW r, NEW t, ReaderSound(r, t), r.pc \in {"snapshot", "search"}, NEW t2, Grown(t, t2)
    PROVE  ReaderSound(Overtaken(r), t2)
<1> DEFINE r2 == Overtaken(r)
<1>1. /\ ReaderFields \subseteq DOMAIN r2 /\ r2.pc = r.pc /\ r2.request = r.request /\ r2.hints = r.hints
      /\ r2.overtaken /\ r2.context = r.context /\ r2.events = r.events /\ r2.items = r.items /\ r2.base = r.base
      /\ r2.summaries = r.summaries /\ r2.found = r.found
  <2>1. ReaderFields \subseteq DOMAIN r
    BY DEF ReaderSound
  <2> QED
    BY <2>1 DEF Overtaken, ReaderFields
<1> HIDE DEF r2
<1>2. SnapshotSound(r2, t2)
  <2>1. SnapshotSound(r, t)
    BY DEF ReaderSound
  <2>2. \A q : RefsSound(q, t) => RefsSound(q, t2)
    BY RefsGrow DEF Grown
  <2> QED
    BY <1>1, <2>1, <2>2 DEF SnapshotSound
<1>3. ASSUME r.pc = "search" PROVE SearchSound(r2, t2)
  <2>1. SearchSound(r, t)
    BY <1>3 DEF ReaderSound
  <2>2. t.nodes \subseteq t2.nodes
    BY DEF Grown
  <2>3. BaseSound(r2.items, r2.base, t2.nodes, r2.request.budget)
    BY <1>1, <2>1, <2>2, BaseGrows DEF SearchSound
  <2>4. FoundSound(r2.found, t2)
    BY <1>1, <2>1, FoundGrows DEF SearchSound
  <2> QED
    BY <1>1, <2>1, <2>2, <2>3, <2>4 DEF SearchSound
<1>4. ReaderSound(r2, t2)
  <2>1. /\ r.pc # "idle" /\ RequestSound(r.request) /\ r.hints = HintsOf(r.request)
        /\ r.pc = "snapshot" => r.found = <<>> /\ r.summaries = <<>>
    BY DEF ReaderSound
  <2>2. {"pc", "request"} \subseteq DOMAIN r2
    BY <1>1 DEF ReaderFields
  <2> QED
    BY <1>1, <1>2, <1>3, <2>1, <2>2 DEF ReaderSound
<1> QED
  BY <1>4 DEF r2

LEMMA ReadersApart ==
    ASSUME NEW r, NEW t, ReaderSound(r, t), r.pc \in {"idle", "done"}, NEW t2
    PROVE  ReaderSound(r, t2)
BY DEF ReaderSound

(* What an answer tells of the items that were read.                       *)
Tells(answer, items) ==
    LET shown == UNION {SeqsOf(u) : u \in ToSet(answer.units)}
        summaries == UNION {SummariesOf(u) : u \in ToSet(answer.units)}
        missing == Where(items, LAMBDA x :
                       IF x.kind = "message" THEN x.seq \notin shown ELSE x.node.id \notin summaries)
    IN /\ MessagesIn(answer.units) = Cardinality(shown)
       /\ ToSet(Pinned(items)) \subseteq ToSet(answer.units)
       /\ ~ answer.trimmedToFit => missing = <<>>
       /\ Cardinality({x \in ToSet(missing) : x.kind = "message"}) <= answer.droppedMessages
       /\ Cardinality({x \in ToSet(missing) : x.kind = "summary"}) <= answer.droppedSummaries

Told == Answered => Tells(Answer, reader.items)

LEMMA ToldIs ==
    LeftOutIsReported <=> Told
BY DEF LeftOutIsReported, Tells, Told

LEMMA ToldThen ==
    LeftOutIsReported' <=> Told'
BY ToldIs, PTL

(* The answer is about what the reader read, and about the artifacts.      *)
(* The answer is about what the reader read, and about the artifacts.      *)
LEMMA AnswerStands ==
    ASSUME BudgetHonoured, LeftOutIsReported, ReadFailsOnlyIfOvertaken, tables'.artifacts = tables.artifacts,
           reader' = reader
    PROVE  BudgetHonoured' /\ LeftOutIsReported' /\ ReadFailsOnlyIfOvertaken'
<1>1. BudgetHonoured'
  BY DEF BudgetHonoured, Answered, Answer, Budget
<1>2. LeftOutIsReported'
  <2>1. Told /\ (Told' <=> Told)
    BY ToldIs DEF Told, Answered, Answer
  <2> QED
    BY <2>1, ToldThen
<1>3. ReadFailsOnlyIfOvertaken'
  BY DEF ReadFailsOnlyIfOvertaken, Answer
<1> QED
  BY <1>1, <1>2, <1>3

(* There is no answer before the end.                                      *)
LEMMA NoAnswer ==
    ASSUME reader.pc # "done"
    PROVE  BudgetHonoured /\ LeftOutIsReported /\ ReadFailsOnlyIfOvertaken
BY DEF BudgetHonoured, LeftOutIsReported, ReadFailsOnlyIfOvertaken, Answered

LEMMA OthersStep ==
    ASSUME ReadInv, TablesSound(tables'), Grown(tables, tables'),
           reader' = IF Reading THEN [reader EXCEPT !.overtaken = TRUE] ELSE reader
    PROVE  ReadInv'
<1>1. reader.pc \in {"idle", "snapshot", "search", "done"}
  BY DEF ReadInv, ReaderSound
<1>2. CASE Reading
  <2>1. reader.pc \in {"snapshot", "search"} /\ reader' = Overtaken(reader)
    BY <1>1, <1>2 DEF Reading, Overtaken
  <2>2. ReaderSound(reader', tables')
    BY <2>1, OvertakenIs DEF ReadInv
  <2>3. reader'.pc # "done"
    BY <2>1 DEF Overtaken
  <2>4. BudgetHonoured' /\ LeftOutIsReported' /\ ReadFailsOnlyIfOvertaken'
    BY <2>3, ToldThen DEF BudgetHonoured, Told, ReadFailsOnlyIfOvertaken, Answered
  <2> QED
    BY <2>2, <2>4 DEF ReadInv
<1>3. CASE ~ Reading
  <2>1. reader.pc \in {"idle", "done"} /\ reader' = reader
    BY <1>1, <1>3 DEF Reading
  <2>2. ReaderSound(reader', tables')
    BY <2>1, ReadersApart DEF ReadInv
  <2>3. BudgetHonoured' /\ LeftOutIsReported' /\ ReadFailsOnlyIfOvertaken'
    BY <2>1, AnswerStands DEF ReadInv, Grown
  <2> QED
    BY <2>2, <2>3 DEF ReadInv
<1> QED
  BY <1>2, <1>3

-----------------------------------------------------------------------------
(* The reader's steps                                                      *)
LEMMA ReaderSame ==
    ASSUME ReadInv, reader.pc # "idle"
    PROVE  /\ ReaderFields \subseteq DOMAIN reader /\ reader.hints = HintsOf(reader.request)
           /\ RequestSound(reader.request) /\ Hints(reader.hints)
<1>1. /\ ReaderFields \subseteq DOMAIN reader /\ reader.hints = HintsOf(reader.request)
      /\ RequestSound(reader.request)
  BY DEF ReadInv, ReaderSound
<1> QED
  BY <1>1, HintsOfAre

(* Before the end there is no answer yet.                                  *)
LEMMA ReadsOn ==
    ASSUME ReadInv, tables' = tables, ReaderSound(reader', tables), reader'.pc # "done"
    PROVE  ReadInv'
<1>1. BudgetHonoured' /\ LeftOutIsReported' /\ ReadFailsOnlyIfOvertaken'
  BY ToldThen DEF BudgetHonoured, Told, ReadFailsOnlyIfOvertaken, Answered
<1> QED
  BY <1>1 DEF ReadInv

LEMMA FailStep ==
    ASSUME ReadInv, reader.pc \in {"snapshot", "search"}, tables' = tables, NEW error, Fail(error), error # "none",
           error = "InvariantViolationError" => reader.overtaken,
           error = "InvalidReferenceError" =>
               \/ \E h \in ToSet(reader.hints) : h.scope # NoScope
               \/ \E r \in tables.artifacts : r.conv # Conv
    PROVE  ReadInv'
<1>1. ReaderFields \subseteq DOMAIN reader /\ reader.hints = HintsOf(reader.request) /\ RequestSound(reader.request)
  BY ReaderSame
<1>2. /\ ReaderFields \subseteq DOMAIN reader' /\ reader'.pc = "done" /\ reader'.request = reader.request
      /\ reader'.hints = reader.hints /\ reader'.overtaken = reader.overtaken /\ reader'.output[1].error = error
  <2>1. reader' = [reader EXCEPT !.pc = "done", !.output = <<[error |-> error]>>]
    BY DEF Fail
  <2>2. <<[error |-> error]>>[1].error = error
    OBVIOUS
  <2> QED
    BY <1>1, <2>1, <2>2 DEF ReaderFields
<1>3. ReaderSound(reader', tables')
  <2>1. {"pc", "request"} \subseteq DOMAIN reader'
    BY <1>2 DEF ReaderFields
  <2> QED
    BY <1>1, <1>2, <2>1 DEF ReaderSound
<1>4. BudgetHonoured' /\ LeftOutIsReported'
  BY <1>2, ToldThen DEF BudgetHonoured, Told, Answered, Answer
<1>5. ReadFailsOnlyIfOvertaken'
  BY <1>2 DEF ReadFailsOnlyIfOvertaken, Answer
<1> QED
  BY <1>3, <1>4, <1>5 DEF ReadInv

LEMMA StartStep ==
    ASSUME ReadInv, Start, tables' = tables
    PROVE  ReadInv'
<1>1. RequestSound(reader.request)
  BY DEF ReadInv, ReaderSound
<1>2. /\ ReaderFields \subseteq DOMAIN reader' /\ reader'.pc = "snapshot" /\ reader'.request = reader.request
      /\ reader'.hints = HintsOf(reader.request) /\ reader'.context = <<>> /\ reader'.events = <<>>
      /\ reader'.found = <<>> /\ reader'.summaries = <<>>
  BY DEF Start, ReaderFields
<1>3. {"pc", "request"} \subseteq DOMAIN reader'
  BY <1>2 DEF ReaderFields
<1>4. SnapshotSound(reader', tables)
  BY <1>2 DEF SnapshotSound
<1>5. ReaderSound(reader', tables)
  BY <1>1, <1>2, <1>3, <1>4 DEF ReaderSound
<1> QED
  BY <1>2, <1>5, ReadsOn

LEMMA ReadContextStep ==
    ASSUME ReadInv, ReadContext, tables' = tables
    PROVE  ReadInv'
<1> DEFINE refs == ItemRefs(tables, Conv)
<1>1. reader.pc = "snapshot" /\ reader' = [reader EXCEPT !.context = <<refs>>]
  BY DEF ReadContext, PgCurrentContext
<1>2. ReaderFields \subseteq DOMAIN reader /\ reader.hints = HintsOf(reader.request) /\ RequestSound(reader.request)
  BY <1>1, ReaderSame
<1>3. RefsSound(refs, tables)
  BY DEF ReadInv, TablesSound
<1>4. SnapshotSound(reader, tables) /\ reader.found = <<>> /\ reader.summaries = <<>>
  BY <1>1 DEF ReadInv, ReaderSound
<1> HIDE DEF refs
<1>5. /\ ReaderFields \subseteq DOMAIN reader' /\ reader'.pc = "snapshot" /\ reader'.request = reader.request
      /\ reader'.hints = reader.hints /\ reader'.overtaken = reader.overtaken /\ reader'.context[1] = refs
      /\ reader'.events = reader.events /\ reader'.found = reader.found /\ reader'.summaries = reader.summaries
  <2>1. <<refs>>[1] = refs
    OBVIOUS
  <2> QED
    BY <1>1, <1>2, <2>1 DEF ReaderFields
<1>6. SnapshotSound(reader', tables)
  BY <1>3, <1>4, <1>5 DEF SnapshotSound, refs
<1>7. {"pc", "request"} \subseteq DOMAIN reader'
  BY <1>5 DEF ReaderFields
<1>8. ReaderSound(reader', tables)
  BY <1>2, <1>4, <1>5, <1>6, <1>7 DEF ReaderSound
<1> QED
  BY <1>5, <1>8, ReadsOn

LEMMA EventsOfRead ==
    ASSUME NEW t, EventsSound(t)
    PROVE  EventsRead(EventsOf(t))
<1> DEFINE S == {Event(r) : r \in t.events}
<1>1. EventsOf(t) = S
  BY EventsOfIs
<1>2. IsFiniteSet(ToSet(Events(t.events))) /\ ToSet(Events(t.events)) = S
  BY QueriedEvents
<1>3. \A e \in ToSet(Events(t.events)) : e.id = <<Conv, e.seq>> /\ e.tokens \in Nat
  BY QueriedEvents
<1> HIDE DEF S
<1> QED
  BY <1>1, <1>2, <1>3 DEF EventsRead

LEMMA ReadEventsStep ==
    ASSUME ReadInv, ReadEvents, tables' = tables
    PROVE  ReadInv'
<1> DEFINE events == EventsOf(tables)
<1>1. reader.pc = "snapshot" /\ reader' = [reader EXCEPT !.events = <<events>>]
  BY DEF ReadEvents
<1>2. ReaderFields \subseteq DOMAIN reader /\ reader.hints = HintsOf(reader.request) /\ RequestSound(reader.request)
  BY <1>1, ReaderSame
<1>3. EventsRead(events)
  BY EventsOfRead DEF ReadInv, TablesSound
<1>4. SnapshotSound(reader, tables) /\ reader.found = <<>> /\ reader.summaries = <<>>
  BY <1>1 DEF ReadInv, ReaderSound
<1> HIDE DEF events
<1>5. /\ ReaderFields \subseteq DOMAIN reader' /\ reader'.pc = "snapshot" /\ reader'.request = reader.request
      /\ reader'.hints = reader.hints /\ reader'.overtaken = reader.overtaken /\ reader'.context = reader.context
      /\ reader'.events[1] = events /\ reader'.found = reader.found /\ reader'.summaries = reader.summaries
  <2>1. <<events>>[1] = events
    OBVIOUS
  <2> QED
    BY <1>1, <1>2, <2>1 DEF ReaderFields
<1>6. SnapshotSound(reader', tables)
  BY <1>3, <1>4, <1>5 DEF SnapshotSound, events
<1>7. {"pc", "request"} \subseteq DOMAIN reader'
  BY <1>5 DEF ReaderFields
<1>8. ReaderSound(reader', tables)
  BY <1>2, <1>4, <1>5, <1>6, <1>7 DEF ReaderSound
<1> QED
  BY <1>5, <1>8, ReadsOn

(* Who was not overtaken knows all messages of the context.                *)
LEMMA MessagesKnown ==
    ASSUME ReadInv, reader.pc = "snapshot", reader.context # <<>>, reader.events # <<>>, UnknownMessage
    PROVE  reader.overtaken
<1> SUFFICES ASSUME ~ reader.overtaken PROVE FALSE
  OBVIOUS
<1>1. RefsSound(reader.context[1], tables) /\ reader.events[1] = EventsOf(tables)
  BY DEF ReadInv, ReaderSound, SnapshotSound
<1>2. EventsSound(tables)
  BY DEF ReadInv, TablesSound
<1>3. reader.events[1] = {Event(r) : r \in tables.events}
  BY <1>1, <1>2, EventsOfIs
<1>4. PICK ref \in ToSet(reader.context[1]) : ref.type = "message" /\ \A e \in reader.events[1] : e.id # ref.id
  BY DEF UnknownMessage
<1>5. PICK r \in tables.events : r.id = ref.id
  BY <1>1, <1>4 DEF RefsSound
<1>6. Event(r).id = r.id
  BY <1>2, EventIs
<1> QED
  BY <1>3, <1>4, <1>5, <1>6

LEMMA ResolvedIs ==
    ASSUME ReadInv, reader.pc = "snapshot", reader.context # <<>>, reader.events # <<>>, ~ UnknownMessage,
           NEW items, items = [i \in DOMAIN reader.context[1] |-> Resolved(reader.context[1][i], i - 1)]
    PROVE  IsBase(items, tables.nodes)
<1> DEFINE refs == reader.context[1]
           events == reader.events[1]
           n == Len(refs)
           N == tables.nodes
           event(i) == CHOOSE e \in events : e.id = refs[i].id
           node(i) == CHOOSE x \in PgGetNode(tables, refs[i].id) : TRUE
           item(i) == Resolved(refs[i], i - 1)
<1>1. RefsSound(refs, tables) /\ EventsRead(events)
  BY DEF ReadInv, ReaderSound, SnapshotSound
<1>2. n \in Nat /\ DOMAIN refs = 1 .. n /\ \A i \in 1 .. n : refs[i] \in ToSet(refs)
  BY <1>1, ListIs DEF RefsSound
<1>3. ASSUME NEW i \in 1 .. n, refs[i].type = "message"
      PROVE  event(i) \in events /\ event(i).id = refs[i].id
  <2>1. \E e \in events : e.id = refs[i].id
    BY <1>2, <1>3 DEF UnknownMessage
  <2> QED
    BY <2>1
<1>4. ASSUME NEW i \in 1 .. n, refs[i].type # "message"
      PROVE  node(i) \in N /\ node(i).tokens \in Nat
  <2>1. \E x \in N : x.id = refs[i].id
    BY <1>1, <1>2, <1>4 DEF RefsSound
  <2>2. node(i) \in PgGetNode(tables, refs[i].id)
    BY <2>1 DEF PgGetNode, Rows
  <2>3. node(i) \in N
    BY <2>2 DEF PgGetNode, Rows
  <2> QED
    BY <2>3 DEF ReadInv, TablesSound, NodesSound, SoundNode
<1>5. ASSUME NEW i \in 1 .. n
      PROVE  /\ refs[i].type = "message" =>
                    /\ item(i).kind = "message" /\ item(i).tokens = event(i).tokens
                    /\ item(i).seq = event(i).seq
             /\ refs[i].type # "message" =>
                    item(i).kind = "summary" /\ item(i).tokens = node(i).tokens /\ item(i).node = node(i)
  BY DEF Resolved
<1> HIDE DEF event, node, item
<1>6. ASSUME NEW i \in 1 .. n
      PROVE  /\ Sound(item(i), N) /\ item(i).kind \in {"message", "summary"} /\ item(i).tokens \in Nat
             /\ refs[i].type = "message" => SeqsOf(item(i)) = {event(i).seq}
             /\ refs[i].type # "message" => SeqsOf(item(i)) = {}
  <2>1. CASE refs[i].type = "message"
    <3>1. item(i).kind = "message" /\ item(i).tokens \in Nat
      BY <1>1, <1>3, <1>5, <2>1 DEF EventsRead
    <3>2. SeqsOf(item(i)) = {event(i).seq}
      BY <1>5, <2>1 DEF SeqsOf
    <3>3. IsFiniteSet(SeqsOf(item(i)))
      BY <3>2, FS_Singleton
    <3> QED
      BY <2>1, <3>1, <3>2, <3>3 DEF Sound
  <2>2. CASE refs[i].type # "message"
    <3>1. item(i).kind = "summary" /\ item(i).tokens \in Nat /\ item(i).node \in N
      BY <1>4, <1>5, <2>2
    <3>2. SeqsOf(item(i)) = {}
      BY <3>1 DEF SeqsOf
    <3>3. IsFiniteSet(SeqsOf(item(i)))
      BY <3>2, FS_EmptySet
    <3> QED
      BY <2>2, <3>1, <3>2, <3>3 DEF Sound
  <2> QED
    BY <2>1, <2>2
<1>7. items = [i \in 1 .. n |-> items[i]] /\ \A i \in 1 .. n : items[i] = item(i)
  BY <1>2 DEF item
<1>8. IsList(items) /\ Len(items) = n
  BY ONLY <1>2, <1>7, ListFun
<1>9. \A x \in ToSet(items) : \E i \in 1 .. n : x = item(i)
  <2>1. \A x \in ToSet(items) : \E i \in 1 .. Len(items) : x = items[i]
    BY ONLY <1>8, ListIs
  <2> QED
    BY ONLY <1>7, <1>8, <2>1
<1>10. ASSUME NEW i \in 1 .. n, NEW j \in 1 .. n, i # j PROVE SeqsOf(item(i)) \cap SeqsOf(item(j)) = {}
  <2>1. CASE refs[i].type = "message" /\ refs[j].type = "message"
    <3>1. refs[i].id # refs[j].id
      BY <1>1, <1>10, <2>1 DEF RefsSound
    <3>2. event(i).id # event(j).id
      BY <1>3, <2>1, <3>1 DEF event
    <3>3. event(i).id = <<Conv, event(i).seq>> /\ event(j).id = <<Conv, event(j).seq>>
      BY <1>1, <1>3, <2>1 DEF EventsRead, event
    <3>4. event(i).seq # event(j).seq
      BY <3>2, <3>3
    <3> QED
      BY <1>6, <2>1, <3>4
  <2>2. CASE ~ (refs[i].type = "message" /\ refs[j].type = "message")
    BY <1>6, <2>2
  <2> QED
    BY <2>1, <2>2
<1> HIDE DEF n
<1>11. Apart(items)
  BY ONLY <1>7, <1>8, <1>10 DEF Apart
<1> QED
  BY ONLY <1>6, <1>8, <1>9, <1>11 DEF IsBase

LEMMA ReserveIs ==
    ASSUME reader.request.budget \in Nat
    PROVE  Reserve \in Nat
<1> DEFINE b == reader.request.budget
           fifth == b \div 5
<1>1. b \in Nat /\ 5 \in Nat /\ 5 > 0
  OBVIOUS
<1>2. Reserve = IF reader.request.hints = <<>> THEN 0 ELSE IF fifth < 256 THEN fifth ELSE 256
  BY DEF Reserve
<1> HIDE DEF b
<1>3. fifth \in Nat
  BY ONLY <1>1
<1> HIDE DEF fifth
<1> QED
  BY <1>2, <1>3

LEMMA ResolveStep ==
    ASSUME ReadInv, Resolve, tables' = tables
    PROVE  ReadInv'
<1> DEFINE items == [i \in DOMAIN reader.context[1] |-> Resolved(reader.context[1][i], i - 1)]
           budget == reader.request.budget - Reserve
           base == TrimToBudget(items, budget)
<1>1. reader.pc = "snapshot" /\ reader.context # <<>> /\ reader.events # <<>>
  BY DEF Resolve
<1>2. \/ UnknownMessage /\ Fail("InvariantViolationError")
      \/ Fail("MaterializeContextBudgetExceededError")
      \/ /\ ~ UnknownMessage /\ ~ (TokenSum(items) > budget /\ TokenSum(Pinned(items)) > budget)
         /\ reader' = [reader EXCEPT !.pc = "search", !.items = items, !.base = base]
  BY DEF Resolve
<1>3. ReaderFields \subseteq DOMAIN reader /\ reader.hints = HintsOf(reader.request) /\ RequestSound(reader.request)
  BY <1>1, ReaderSame
<1>4. budget \in Int /\ budget <= reader.request.budget
  <2>1. reader.request.budget \in Nat /\ Reserve \in Nat
    BY <1>3, ReserveIs DEF RequestSound
  <2> QED
    BY <2>1
<1>5. ~ UnknownMessage => IsBase(items, tables.nodes)
  BY <1>1, ResolvedIs
<1> HIDE DEF items
<1>6. CASE UnknownMessage /\ Fail("InvariantViolationError")
  BY <1>1, <1>6, MessagesKnown, FailStep
<1>7. CASE Fail("MaterializeContextBudgetExceededError")
  BY <1>1, <1>7, FailStep
<1>8. ASSUME ~ UnknownMessage, ~ (TokenSum(items) > budget /\ TokenSum(Pinned(items)) > budget),
             reader' = [reader EXCEPT !.pc = "search", !.items = items, !.base = base]
      PROVE  ReadInv'
  <2> HIDE DEF budget
  <2>1. LET b == TrimToBudget(items, budget)
        IN  /\ IsBase(b, tables.nodes) /\ ToSet(b) \subseteq ToSet(items)
            /\ ToSet(Pinned(b)) = ToSet(Pinned(items))
            /\ TokenSum(Pinned(b)) <= budget
    BY <1>4, <1>5, <1>8, TrimToBudgetIs
  <2>2. /\ IsBase(base, tables.nodes) /\ ToSet(base) \subseteq ToSet(items)
        /\ ToSet(Pinned(base)) = ToSet(Pinned(items)) /\ TokenSum(Pinned(base)) <= budget
    BY <2>1
  <2> HIDE DEF base
  <2>3. TokenSum(Pinned(base)) \in Int
    <3>1. IsList(Pinned(base)) /\ \A u \in ToSet(Pinned(base)) : u.tokens \in Nat
      BY <2>2, PinnedAre DEF IsBase
    <3> QED
      BY <3>1, TokenSumType
  <2>4. TokenSum(Pinned(base)) <= reader.request.budget
    <3>1. reader.request.budget \in Nat
      BY <1>3 DEF RequestSound
    <3> QED
      BY <1>4, <2>2, <2>3, <3>1
  <2>5. BaseSound(items, base, tables.nodes, reader.request.budget)
    BY <1>5, <1>8, <2>2, <2>4 DEF BaseSound
  <2>6. SnapshotSound(reader, tables) /\ reader.found = <<>> /\ reader.summaries = <<>>
    BY <1>1 DEF ReadInv, ReaderSound
  <2>7. /\ ReaderFields \subseteq DOMAIN reader' /\ reader'.pc = "search" /\ reader'.request = reader.request
        /\ reader'.hints = reader.hints /\ reader'.overtaken = reader.overtaken /\ reader'.context = reader.context
        /\ reader'.events = reader.events /\ reader'.found = reader.found /\ reader'.summaries = reader.summaries
        /\ reader'.items = items /\ reader'.base = base
    BY <1>3, <1>8 DEF ReaderFields
  <2>8. SnapshotSound(reader', tables)
    BY <2>6, <2>7 DEF SnapshotSound
  <2>9. FoundSound(reader'.found, tables)
    BY <2>6, <2>7, NoList DEF FoundSound
  <2>10. SearchSound(reader', tables)
    BY <1>1, <2>5, <2>6, <2>7, <2>9 DEF SearchSound
  <2>11. {"pc", "request"} \subseteq DOMAIN reader'
    BY <2>7 DEF ReaderFields
  <2>12. ReaderSound(reader', tables)
    BY <1>3, <2>7, <2>8, <2>10, <2>11 DEF ReaderSound
  <2> QED
    BY <2>7, <2>12, ReadsOn
<1> QED
  BY <1>2, <1>6, <1>7, <1>8

(* A search that is left to do has the scope of a hint.                    *)
LEMMA SearchIs ==
    ASSUME ReadInv, reader.pc = "search", Len(reader.found) < Len(Searches), Search.scope # NoScope
    PROVE  \E h \in ToSet(reader.hints) : h.scope # NoScope
<1> DEFINE all == SearchesOf(reader.hints)
           k == Len(reader.found) + 1
<1>1. Hints(reader.hints)
  BY ReaderSame
<1>2. IsList(all) /\ \A i \in 1 .. Len(all) : \E h \in ToSet(reader.hints) : all[i].scope = h.scope
  BY <1>1, SearchesAre
<1>3. Len(all) \in Nat
  BY <1>2, ListIs
<1>4. IsList(reader.found)
  BY DEF ReadInv, ReaderSound, SearchSound, FoundSound
<1>5. Len(reader.found) \in Nat
  BY <1>4, ListIs
<1>6. Searches = all /\ Search = all[k]
  BY DEF Searches, Search
<1> HIDE DEF all
<1>7. k \in 1 .. Len(all)
  BY <1>3, <1>5, <1>6
<1> HIDE DEF k
<1> QED
  BY <1>2, <1>6, <1>7

LEMMA SearchSummariesStep ==
    ASSUME ReadInv, SearchSummaries, tables' = tables
    PROVE  ReadInv'
<1> DEFINE summaries == PgSearchSummaries(tables, Conv, Search.query, Search.scope)
<1>1. reader.pc = "search" /\ Len(reader.found) < Len(Searches) /\ reader.summaries = <<>>
  BY DEF SearchSummaries
<1> DEFINE looked == [hint |-> Search.hint, query |-> {}, summaries |-> {}, events |-> {}]
           found == Append(reader.found, looked)
<1>2. \/ Search.scope # NoScope /\ Fail("InvalidReferenceError")
      \/ reader' = [reader EXCEPT !.summaries = <<summaries>>]
      \/ reader' = [reader EXCEPT !.found = found]
  BY DEF SearchSummaries
<1>3. ReaderFields \subseteq DOMAIN reader /\ reader.hints = HintsOf(reader.request) /\ RequestSound(reader.request)
  BY <1>1, ReaderSame
<1>4. IsFiniteSet(summaries) /\ summaries \subseteq tables.nodes
  <2>1. summaries \subseteq tables.nodes
    BY DEF PgSearchSummaries, Rows
  <2>2. IsFiniteSet(tables.nodes)
    BY DEF ReadInv, TablesSound, NodesSound
  <2> HIDE DEF summaries
  <2>3. IsFiniteSet(summaries)
    BY ONLY <2>1, <2>2, FS_Subset
  <2> QED
    BY <2>1, <2>3
<1> HIDE DEF summaries
<1>5. CASE Search.scope # NoScope /\ Fail("InvalidReferenceError")
  <2>1. \E h \in ToSet(reader.hints) : h.scope # NoScope
    BY <1>1, <1>5, SearchIs
  <2> QED
    BY <1>1, <1>5, <2>1, FailStep
<1>6. CASE reader' = [reader EXCEPT !.summaries = <<summaries>>]
  <2>1. SnapshotSound(reader, tables) /\ SearchSound(reader, tables)
    BY <1>1 DEF ReadInv, ReaderSound
  <2>2. /\ ReaderFields \subseteq DOMAIN reader' /\ reader'.pc = "search" /\ reader'.request = reader.request
        /\ reader'.hints = reader.hints /\ reader'.overtaken = reader.overtaken /\ reader'.context = reader.context
        /\ reader'.events = reader.events /\ reader'.found = reader.found /\ reader'.summaries[1] = summaries
        /\ reader'.items = reader.items /\ reader'.base = reader.base
    <3>1. <<summaries>>[1] = summaries
      OBVIOUS
    <3> QED
      BY <1>1, <1>3, <1>6, <3>1 DEF ReaderFields
  <2>3. SnapshotSound(reader', tables)
    BY <2>1, <2>2 DEF SnapshotSound
  <2>4. SearchSound(reader', tables)
    <3>1. Len(reader.found) < Len(SearchesOf(reader.hints))
      BY <1>1 DEF Searches
    <3> QED
      BY <1>4, <2>1, <2>2, <3>1 DEF SearchSound
  <2>5. {"pc", "request"} \subseteq DOMAIN reader'
    BY <2>2 DEF ReaderFields
  <2>6. ReaderSound(reader', tables)
    BY <1>3, <2>2, <2>3, <2>4, <2>5 DEF ReaderSound
  <2> QED
    BY <2>2, <2>6, ReadsOn
<1>7. FoundSound(found, tables)
  <2>1. looked.events = {} /\ looked.summaries = {}
    OBVIOUS
  <2>2. IsFiniteSet({})
    BY FS_EmptySet
  <2>3. FoundSound(reader.found, tables)
    BY <1>1 DEF ReadInv, ReaderSound, SearchSound
  <2> HIDE DEF looked
  <2>4. IsList(found) /\ ToSet(found) = ToSet(reader.found) \cup {looked}
    BY <2>3, AppendList DEF FoundSound
  <2> HIDE DEF found
  <2> QED
    BY <2>1, <2>2, <2>3, <2>4 DEF FoundSound
<1> HIDE DEF found
<1>8. CASE reader' = [reader EXCEPT !.found = found]
  <2>1. SnapshotSound(reader, tables) /\ SearchSound(reader, tables)
    BY <1>1 DEF ReadInv, ReaderSound
  <2>2. /\ ReaderFields \subseteq DOMAIN reader' /\ reader'.pc = "search" /\ reader'.request = reader.request
        /\ reader'.hints = reader.hints /\ reader'.overtaken = reader.overtaken /\ reader'.context = reader.context
        /\ reader'.events = reader.events /\ reader'.found = found /\ reader'.summaries = <<>>
        /\ reader'.items = reader.items /\ reader'.base = reader.base
    BY <1>1, <1>3, <1>8 DEF ReaderFields
  <2>3. SnapshotSound(reader', tables)
    BY <2>1, <2>2 DEF SnapshotSound
  <2>4. SearchSound(reader', tables)
    BY <1>7, <2>1, <2>2 DEF SearchSound
  <2>5. {"pc", "request"} \subseteq DOMAIN reader'
    BY <2>2 DEF ReaderFields
  <2>6. ReaderSound(reader', tables)
    BY <1>3, <2>2, <2>3, <2>4, <2>5 DEF ReaderSound
  <2> QED
    BY <2>2, <2>6, ReadsOn
<1> QED
  BY <1>2, <1>5, <1>6, <1>8

LEMMA SearchEventsStep ==
    ASSUME ReadInv, SearchEvents, tables' = tables
    PROVE  ReadInv'
<1> DEFINE events == ToSet(PgSearchEvents(tables, Conv, Search.query, Search.scope))
           last == [hint |-> Search.hint, query |-> Search.query, summaries |-> reader.summaries[1], events |-> events]
           found == Append(reader.found, last)
<1>1. reader.pc = "search" /\ reader.summaries # <<>>
  BY DEF SearchEvents
<1>2. \/ Search.scope # NoScope /\ Fail("InvalidReferenceError")
      \/ reader' = [reader EXCEPT !.summaries = <<>>, !.found = found]
  BY DEF SearchEvents
<1>3. ReaderFields \subseteq DOMAIN reader /\ reader.hints = HintsOf(reader.request) /\ RequestSound(reader.request)
  BY <1>1, ReaderSame
<1>4. SnapshotSound(reader, tables) /\ SearchSound(reader, tables)
  BY <1>1 DEF ReadInv, ReaderSound
<1>5. Len(reader.found) < Len(Searches)
  BY <1>1, <1>4 DEF SearchSound, Searches
<1>6. last.events = events /\ last.summaries = reader.summaries[1]
  OBVIOUS
<1>7. IsFiniteSet(events) /\ events \subseteq {Event(r) : r \in tables.events}
  BY SearchedEvents DEF ReadInv, TablesSound
<1> HIDE DEF events, last
<1>8. FoundSound(found, tables)
  <2>1. IsList(reader.found)
    BY <1>4 DEF SearchSound, FoundSound
  <2>2. IsList(found) /\ ToSet(found) = ToSet(reader.found) \cup {last}
    BY <2>1, AppendList
  <2> HIDE DEF found
  <2> QED
    BY <1>1, <1>4, <1>6, <1>7, <2>2 DEF SearchSound, FoundSound
<1> HIDE DEF found
<1>9. CASE Search.scope # NoScope /\ Fail("InvalidReferenceError")
  <2>1. \E h \in ToSet(reader.hints) : h.scope # NoScope
    BY <1>1, <1>5, <1>9, SearchIs
  <2> QED
    BY <1>1, <1>9, <2>1, FailStep
<1>10. CASE reader' = [reader EXCEPT !.summaries = <<>>, !.found = found]
  <2>2. /\ ReaderFields \subseteq DOMAIN reader' /\ reader'.pc = "search" /\ reader'.request = reader.request
        /\ reader'.hints = reader.hints /\ reader'.overtaken = reader.overtaken /\ reader'.context = reader.context
        /\ reader'.events = reader.events /\ reader'.found = found /\ reader'.summaries = <<>>
        /\ reader'.items = reader.items /\ reader'.base = reader.base
    BY <1>1, <1>3, <1>10 DEF ReaderFields
  <2>3. SnapshotSound(reader', tables)
    BY <1>4, <2>2 DEF SnapshotSound
  <2>4. SearchSound(reader', tables)
    BY <1>4, <1>8, <2>2 DEF SearchSound
  <2>5. {"pc", "request"} \subseteq DOMAIN reader'
    BY <2>2 DEF ReaderFields
  <2>6. ReaderSound(reader', tables)
    BY <1>3, <2>2, <2>3, <2>4, <2>5 DEF ReaderSound
  <2> QED
    BY <2>2, <2>6, ReadsOn
<1> QED
  BY <1>2, <1>9, <1>10

-----------------------------------------------------------------------------
(* What the reader answers                                                 *)
LEMMA SearchRanks ==
    ASSUME ReadInv, reader.pc = "search"
    PROVE  Ranking(tables.nodes) /\ Budget \in Nat /\ IsList(reader.hints)
<1>1. SnapshotSound(reader, tables) /\ SearchSound(reader, tables)
  BY DEF ReadInv, ReaderSound
<1>2. RequestSound(reader.request) /\ Hints(reader.hints)
  BY ReaderSame
<1>3. \A n \in tables.nodes : SoundNode(n)
  BY DEF ReadInv, TablesSound, NodesSound
<1>4. \A n : IsWindow(ToSet(PgExpandToMessages(tables, n)))
  BY ExpandedEvents DEF ReadInv, TablesSound
<1>5. IsWindow(reader.events[1])
  BY <1>1 DEF SearchSound, SnapshotSound, EventsRead, IsWindow
<1>6. IsBase(reader.base, tables.nodes)
  BY <1>1 DEF SearchSound, BaseSound
<1>7. FoundSound(reader.found, tables)
  BY <1>1 DEF SearchSound
<1> QED
  BY <1>2, <1>3, <1>4, <1>5, <1>6, <1>7 DEF Ranking, FoundSound, RequestSound, Hints, Budget

LEMMA ContendedAre ==
    ASSUME ReadInv, reader.pc = "search"
    PROVE  /\ IsRace(Contenders, tables.nodes, ShownBy(reader.base))
           /\ IsRetrieval(Coalesce(Contenders.contenders, Len(reader.hints)), tables.nodes, reader.base)
<1> DEFINE N == tables.nodes
           c == Contenders
           base == reader.base
           n == Len(reader.hints)
<1>1. Ranking(N) /\ IsList(reader.hints)
  BY SearchRanks
<1>2. IsRace(c, N, ShownBy(base))
  BY <1>1, ContendersAre
<1>3. n \in Nat
  BY <1>1, ListIs
<1> HIDE DEF c, n
<1>4. AreContenders(c.contenders, N) /\ \A u \in ToSet(c.contenders) : SeqsOf(u) \cap ShownBy(base) = {}
  BY <1>2 DEF IsRace
<1>5. \A u \in ToSet(c.contenders) : \A x \in ToSet(base) : SeqsOf(u) \cap SeqsOf(x) = {}
  BY <1>4 DEF ShownBy
<1>6. IsRetrieval(Coalesce(c.contenders, n), N, base)
  BY <1>3, <1>4, <1>5, CoalesceIs
<1> QED
  BY <1>2, <1>6 DEF c, n

LEMMA PackedAre ==
    ASSUME ReadInv, reader.pc = "search",
           NEW retrieval, IsRetrieval(retrieval, tables.nodes, reader.base)
    PROVE  IsPacked(PackWithBridges(reader.base, retrieval, Budget), tables.nodes, ToSet(Pinned(reader.items)), Budget)
<1> DEFINE N == tables.nodes
           base == reader.base
<1>1. Budget \in Nat /\ \A x \in N : SoundNode(x)
  BY SearchRanks DEF Ranking
<1>2. IsBase(base, N) /\ ToSet(Pinned(base)) = ToSet(Pinned(reader.items)) /\ TokenSum(Pinned(base)) <= Budget
  BY DEF ReadInv, ReaderSound, SearchSound, BaseSound, Budget
<1>3. Budget \in Int
  BY <1>1
<1>4. IsPacked(PackWithBridges(base, retrieval, Budget), N, ToSet(Pinned(base)), Budget)
  BY <1>1, <1>2, <1>3, PackWithBridgesIs
<1> QED
  BY <1>2, <1>4

(* Everything that is left out is among what is reported as dropped.       *)
LEMMA MissingAreDropped ==
    ASSUME NEW N, NEW items, IsBase(items, N), NEW base, IsBase(base, N), NEW retrieval, IsList(retrieval),
           NEW units, NEW x \in ToSet(items),
           IF x.kind = "message" THEN x.seq \notin UNION {SeqsOf(u) : u \in ToSet(units)}
           ELSE x.node.id \notin UNION {SummariesOf(u) : u \in ToSet(units)}
    PROVE  \/ ~ Contains(base, x)
           \/ /\ x \in ToSet(base \o retrieval)
              /\ ~ \E k \in ToSet(units) : k.kind = x.kind /\ SeqsOf(k) = SeqsOf(x) /\ SummariesOf(k) = SummariesOf(x)
<1> SUFFICES ASSUME Contains(base, x)
             PROVE  /\ x \in ToSet(base \o retrieval)
                    /\ \A k \in ToSet(units) : ~ (SeqsOf(k) = SeqsOf(x) /\ SummariesOf(k) = SummariesOf(x))
  OBVIOUS
<1>1. IsList(base)
  BY DEF IsBase
<1>2. x \in ToSet(base)
  <2>1. \E i \in 1 .. Len(base) : base[i] = x
    BY DEF Contains
  <2>2. \A i \in 1 .. Len(base) : base[i] \in ToSet(base)
    BY <1>1, ListIs
  <2> QED
    BY ONLY <2>1, <2>2
<1>3. x \in ToSet(base \o retrieval)
  BY <1>1, <1>2, ConcatList
<1>4. ASSUME NEW k \in ToSet(units), SeqsOf(k) = SeqsOf(x), SummariesOf(k) = SummariesOf(x) PROVE FALSE
  <2>1. x.kind \in {"message", "summary"}
    BY DEF IsBase
  <2>2. CASE x.kind = "message"
    <3>1. x.seq \in SeqsOf(k)
      BY <1>4, <2>2 DEF SeqsOf
    <3> QED
      BY <2>2, <3>1
  <2>3. CASE x.kind = "summary"
    <3>1. x.node.id \in SummariesOf(k)
      BY <1>4, <2>3 DEF SummariesOf
    <3> QED
      BY <2>3, <3>1
  <2> QED
    BY <2>1, <2>2, <2>3
<1> QED
  BY <1>3, <1>4

LEMMA ReportedIs ==
    ASSUME NEW N, IsBase(reader.items, N), IsBase(reader.base, N), NEW retrieval, IsRetrieval(retrieval, N, reader.base),
           NEW packed, NEW available, IsPacked(packed, N, ToSet(Pinned(reader.items)), available)
    PROVE  LET answer == Reported(packed, retrieval)
           IN  /\ answer.error = "none" /\ answer.units = packed.kept /\ answer.used = packed.used
               /\ answer.recompressed = packed.recompressed
               /\ Tells(answer, reader.items)
<1> DEFINE items == reader.items
           base == reader.base
           units == packed.kept
           Kept(u) == \E k \in ToSet(units) : k.kind = u.kind /\ SeqsOf(k) = SeqsOf(u) /\ SummariesOf(k) = SummariesOf(u)
           both == base \o retrieval
           T == {x \in ToSet(items) : ~ Contains(base, x)}
           D == {u \in ToSet(both) : ~ Kept(u)}
           dropped == Those(items, T) \o Those(both, D)
           answer == [error |-> "none", units |-> packed.kept, used |-> packed.used,
                      recompressed |-> packed.recompressed, trimmedToFit |-> dropped # <<>>,
                      droppedMessages |-> MessagesIn(dropped), droppedSummaries |-> SummariesIn(dropped)]
           shown == UNION {SeqsOf(u) : u \in ToSet(units)}
           summaries == UNION {SummariesOf(u) : u \in ToSet(units)}
           Missing(x) == IF x.kind = "message" THEN x.seq \notin shown ELSE x.node.id \notin summaries
           M == {x \in ToSet(items) : Missing(x)}
           missing == Those(items, M)
<1>1. Reported(packed, retrieval) = answer
  BY DEF Reported, Where
<1>2. /\ answer.error = "none" /\ answer.units = units /\ answer.used = packed.used
      /\ answer.recompressed = packed.recompressed /\ answer.trimmedToFit = (dropped # <<>>)
      /\ answer.droppedMessages = MessagesIn(dropped) /\ answer.droppedSummaries = SummariesIn(dropped)
  OBVIOUS
<1>3. Tells(answer, items) <=>
          /\ MessagesIn(answer.units) = Cardinality(UNION {SeqsOf(u) : u \in ToSet(answer.units)})
          /\ ToSet(Pinned(items)) \subseteq ToSet(answer.units)
          /\ ~ answer.trimmedToFit => missing = <<>>
          /\ Cardinality({x \in ToSet(missing) : x.kind = "message"}) <= answer.droppedMessages
          /\ Cardinality({x \in ToSet(missing) : x.kind = "summary"}) <= answer.droppedSummaries
  BY DEF Tells, Where
<1>4. IsList(items) /\ IsList(base) /\ IsList(retrieval)
  BY DEF IsBase, IsRetrieval
<1>5. IsList(both) /\ ToSet(both) = ToSet(base) \cup ToSet(retrieval)
  BY <1>4, ConcatList
<1>6. \A x \in ToSet(items) : Missing(x) => x \in T \/ x \in D
  <2>1. ASSUME NEW x \in ToSet(items), Missing(x) PROVE x \in T \/ x \in D
    <3>1. \/ ~ Contains(base, x)
          \/ x \in ToSet(base \o retrieval) /\ ~ Kept(x)
      BY <1>4, <2>1, MissingAreDropped
    <3> QED
      BY <3>1
  <2> QED
    BY <2>1
<1>7. \A u \in ToSet(items) \cup ToSet(both) : IsFiniteSet(SeqsOf(u))
  BY <1>5 DEF IsBase, IsRetrieval, Sound
<1>8. \A x \in ToSet(items) : x.kind \in {"message", "summary"}
  BY DEF IsBase
<1>9. M \subseteq ToSet(items) /\ T \subseteq ToSet(items) /\ D \subseteq ToSet(both) /\ \A x \in M : Missing(x)
  OBVIOUS
<1> HIDE DEF Kept, T, D, Missing, M, both
<1>10. IsList(missing) /\ ToSet(missing) = M
  <2>1. IsList(missing) /\ ToSet(missing) = ToSet(items) \cap M
    BY <1>4, ThoseAre
  <2> QED
    BY <1>9, <2>1
<1>11. IsList(dropped) /\ ToSet(dropped) = T \cup D
  <2>1. IsList(Those(items, T)) /\ ToSet(Those(items, T)) = ToSet(items) \cap T
    BY <1>4, ThoseAre
  <2>2. IsList(Those(both, D)) /\ ToSet(Those(both, D)) = ToSet(both) \cap D
    BY <1>5, ThoseAre
  <2>3. IsList(dropped) /\ ToSet(dropped) = ToSet(Those(items, T)) \cup ToSet(Those(both, D))
    BY ONLY <2>1, <2>2, ConcatList
  <2> QED
    BY <1>9, <2>1, <2>2, <2>3
<1>12. M \subseteq ToSet(dropped)
  BY <1>6, <1>9, <1>11
<1>13. \A u \in ToSet(dropped) : IsFiniteSet(SeqsOf(u))
  BY <1>7, <1>9, <1>11
<1> HIDE DEF dropped, missing, answer
<1>14. MessagesIn(units) = Cardinality(UNION {SeqsOf(u) : u \in ToSet(units)}) /\ ToSet(Pinned(items)) \subseteq ToSet(units)
  <2>1. IsList(units) /\ Apart(units) /\ \A u \in ToSet(units) : IsFiniteSet(SeqsOf(u))
    BY DEF IsPacked, Sound
  <2>2. MessagesIn(units) = Cardinality(UNION {SeqsOf(u) : u \in ToSet(units)})
    BY ONLY <2>1, MessagesCounted
  <2> QED
    BY <2>2 DEF IsPacked
<1>15. dropped = <<>> => missing = <<>>
  <2>1. ASSUME dropped = <<>> PROVE missing = <<>>
    <3>1. ToSet(missing) = {}
      BY <1>10, <1>12, <2>1, NoList
    <3>2. Len(missing) = 0
      BY <1>10, <3>1, ListIs
    <3> QED
      BY <1>10, <3>2, NoList
  <2> QED
    BY <2>1
<1>16. Cardinality({x \in ToSet(missing) : x.kind = "message"}) <= MessagesIn(dropped)
  <2> DEFINE X == {x \in ToSet(missing) : x.kind = "message"}
  <2>1. X \in SUBSET ToSet(dropped) /\ \A u \in X : SeqsOf(u) # {}
    BY <1>10, <1>12 DEF SeqsOf
  <2> HIDE DEF X
  <2>2. Cardinality(X) <= MessagesIn(dropped)
    BY ONLY <1>11, <1>13, <2>1, MessagesAtLeast
  <2> QED
    BY <2>2 DEF X
<1>17. Cardinality({x \in ToSet(missing) : x.kind = "summary"}) <= SummariesIn(dropped)
  <2> DEFINE X == {x \in ToSet(missing) : x.kind = "summary"}
  <2>1. X \in SUBSET ToSet(dropped) /\ \A u \in X : SummariesOf(u) # {}
    BY <1>10, <1>12 DEF SummariesOf
  <2> HIDE DEF X
  <2>2. Cardinality(X) <= SummariesIn(dropped)
    BY ONLY <1>11, <2>1, SummariesAtLeast
  <2> QED
    BY <2>2 DEF X
<1>18. Tells(answer, items)
  BY <1>2, <1>3, <1>14, <1>15, <1>16, <1>17
<1> QED
  BY <1>1, <1>2, <1>18

(* A message that was found but not read was written in between.           *)
LEMMA UnreadMeansOvertaken ==
    ASSUME ReadInv, reader.pc = "search", Unread
    PROVE  reader.overtaken
<1> SUFFICES ASSUME ~ reader.overtaken PROVE FALSE
  OBVIOUS
<1>1. reader.events[1] = EventsOf(tables)
  BY DEF ReadInv, ReaderSound, SnapshotSound, SearchSound
<1>2. EventsOf(tables) = {Event(r) : r \in tables.events}
  BY EventsOfIs DEF ReadInv, TablesSound
<1>3. \A x \in ToSet(reader.found) : x.events \subseteq {Event(r) : r \in tables.events}
  BY DEF ReadInv, ReaderSound, SearchSound, FoundSound
<1> QED
  BY <1>1, <1>2, <1>3 DEF Unread

(* A reference that is not the conversation's own.                         *)
LEMMA UnknownMeansForeign ==
    ASSUME TablesSound(tables), NEW units, \A u \in ToSet(units) : Sound(u, tables.nodes), UnknownArtifact(units)
    PROVE  \E r \in tables.artifacts : r.conv # Conv
<1>0. PICK u \in ToSet(units) :
          /\ u.kind \in {"summary", "bridge"}
          /\ \E a \in u.node.artifacts : {r.conv : r \in PgArtifact(tables, a)} # {Conv}
  BY DEF UnknownArtifact
<1>1. PICK a \in u.node.artifacts : {r.conv : r \in PgArtifact(tables, a)} # {Conv}
  BY <1>0
<1>2. u.node \in tables.nodes
  BY <1>0 DEF Sound
<1>3. a \in {r.id : r \in tables.artifacts}
  BY <1>1, <1>2 DEF TablesSound, NodesSound
<1>4. PgArtifact(tables, a) = {r \in tables.artifacts : r.id = a}
  BY DEF PgArtifact, Rows
<1> QED
  BY <1>1, <1>3, <1>4

LEMMA AnswerStep ==
    ASSUME ReadInv, reader.pc = "search", tables' = tables,
           NEW retrieval, IsRetrieval(retrieval, tables.nodes, reader.base),
           NEW packed, IsPacked(packed, tables.nodes, ToSet(Pinned(reader.items)), Budget),
           reader' = [reader EXCEPT !.pc = "done", !.output = <<Reported(packed, retrieval)>>]
    PROVE  ReadInv'
<1> DEFINE answer == Reported(packed, retrieval)
           N == tables.nodes
<1>1. BaseSound(reader.items, reader.base, N, reader.request.budget)
  BY DEF ReadInv, ReaderSound, SearchSound
<1>2. IsBase(reader.items, N) /\ IsBase(reader.base, N)
  BY <1>1 DEF BaseSound
<1>3. LET said == Reported(packed, retrieval)
      IN  /\ said.error = "none" /\ said.units = packed.kept /\ said.used = packed.used
          /\ said.recompressed = packed.recompressed /\ Tells(said, reader.items)
  BY <1>2, ReportedIs
<1>4. /\ answer.error = "none" /\ answer.units = packed.kept /\ answer.used = packed.used
      /\ answer.recompressed = packed.recompressed /\ Tells(answer, reader.items)
  BY <1>3
<1>5. ReaderFields \subseteq DOMAIN reader /\ reader.hints = HintsOf(reader.request) /\ RequestSound(reader.request)
  BY ReaderSame
<1> HIDE DEF answer
<1>6. /\ ReaderFields \subseteq DOMAIN reader' /\ reader'.pc = "done" /\ reader'.request = reader.request
      /\ reader'.hints = reader.hints /\ reader'.items = reader.items /\ Answer' = answer
  <2>1. <<answer>>[1] = answer
    OBVIOUS
  <2>2. reader' = [reader EXCEPT !.pc = "done", !.output = <<answer>>]
    BY DEF answer
  <2> QED
    BY <1>5, <2>1, <2>2 DEF ReaderFields, Answer
<1>7. ReaderSound(reader', tables')
  <2>1. {"pc", "request"} \subseteq DOMAIN reader'
    BY <1>6 DEF ReaderFields
  <2> QED
    BY <1>5, <1>6, <2>1 DEF ReaderSound
<1>8. BudgetHonoured'
  <2>1. Budget' = Budget
    BY <1>6 DEF Budget
  <2>2. answer.used = TokenSum(answer.units) /\ (answer.used <= Budget \/ answer.recompressed)
    BY <1>4 DEF IsPacked
  <2> QED
    BY <1>6, <2>1, <2>2 DEF BudgetHonoured
<1>9. LeftOutIsReported'
  <2>1. Told'
    BY <1>4, <1>6 DEF Told
  <2> QED
    BY <2>1, ToldThen
<1>10. ReadFailsOnlyIfOvertaken'
  BY <1>4, <1>6 DEF ReadFailsOnlyIfOvertaken
<1> QED
  BY <1>7, <1>8, <1>9, <1>10 DEF ReadInv

LEMMA MaterializeStep ==
    ASSUME ReadInv, Materialize, tables' = tables
    PROVE  ReadInv'
<1> DEFINE contended == Contenders
           retrieval == Coalesce(contended.contenders, Len(reader.hints))
           packed == PackWithBridges(reader.base, retrieval, Budget)
           N == tables.nodes
<1>1. reader.pc = "search"
  BY DEF Materialize
<1>2. \/ contended.error # "none" /\ Fail(contended.error)
      \/ UnknownArtifact(packed.kept) /\ Fail("InvalidReferenceError")
      \/ reader' = [reader EXCEPT !.pc = "done", !.output = <<Reported(packed, retrieval)>>]
  BY DEF Materialize
<1>3. IsRace(contended, N, ShownBy(reader.base)) /\ IsRetrieval(retrieval, N, reader.base)
  BY <1>1, ContendedAre
<1> HIDE DEF contended, retrieval
<1>4. IsPacked(packed, N, ToSet(Pinned(reader.items)), Budget)
  BY <1>1, <1>3, PackedAre
<1> HIDE DEF packed
<1>5. CASE contended.error # "none" /\ Fail(contended.error)
  <2>1. contended.error = "InvariantViolationError" /\ Unread
    BY <1>3, <1>5 DEF IsRace
  <2>2. reader.overtaken
    BY <1>1, <2>1, UnreadMeansOvertaken
  <2>3. Fail("InvariantViolationError")
    BY <1>5, <2>1
  <2> QED
    BY <1>1, <2>2, <2>3, FailStep
<1>6. CASE UnknownArtifact(packed.kept) /\ Fail("InvalidReferenceError")
  <2>1. TablesSound(tables)
    BY DEF ReadInv
  <2>2. \A u \in ToSet(packed.kept) : Sound(u, tables.nodes)
    BY <1>4 DEF IsPacked
  <2>3. \E r \in tables.artifacts : r.conv # Conv
    BY <1>6, <2>1, <2>2, UnknownMeansForeign
  <2> QED
    BY <1>1, <1>6, <2>3, FailStep
<1>7. CASE reader' = [reader EXCEPT !.pc = "done", !.output = <<Reported(packed, retrieval)>>]
  BY <1>1, <1>3, <1>4, <1>7, AnswerStep
<1> QED
  BY <1>2, <1>5, <1>6, <1>7

-----------------------------------------------------------------------------
(* The beginning                                                           *)
(* Tables in which nothing is but conversations and artifacts.             *)
Fresh(t) ==
    TableNames \subseteq DOMAIN t /\ t.events = {} /\ t.nodes = {} /\ t.items = {}

LEMMA FreshIs ==
    ASSUME NEW t, Fresh(t)
    PROVE  TablesSound(t)
<1> DEFINE q == <<>>
<1>1. IsList(q) /\ Len(q) = 0 /\ ToSet(q) = {}
  BY NoList
<1> HIDE DEF q
<1>2. t.items = ItemsOf(q)
  <2>1. 1 .. Len(q) = {}
    BY <1>1
  <2> QED
    BY <2>1 DEF ItemsOf, Fresh
<1>3. RefsSound(q, t)
  BY <1>1 DEF RefsSound
<1>4. IsFiniteSet({})
  BY FS_EmptySet
<1>5. EventsSound(t) /\ NodesSound(t)
  BY <1>4 DEF EventsSound, NodesSound, Orders, Fresh
<1> QED
  BY <1>2, <1>3, <1>5, ContextSound DEF Fresh

LEMMA CreatedFresh ==
    ASSUME NEW t, Fresh(t)
    PROVE  Fresh(PgCreate(t, 0).store)
<1> DEFINE row == [id |-> NextOrdinal(t), parent |-> 0]
           t2 == [t EXCEPT !.conversations = @ \cup {row}]
<1>1. PgCreate(t, 0).store = t2
  BY DEF PgCreate, Done
<1> HIDE DEF row
<1>2. Fresh(t2)
  BY DEF Fresh, TableNames
<1> QED
  BY <1>1, <1>2

LEMMA NamedFresh ==
    ASSUME NEW t, Fresh(t), NEW artifact
    PROVE  LET t2 == PgStoreArtifact(t, artifact).store
           IN  Fresh(t2) /\ artifact.id \in {a.id : a \in t2.artifacts}
<1> DEFINE t2 == PgStoreArtifact(t, artifact).store
           with == [t EXCEPT !.artifacts = @ \cup {artifact}]
<1>1. \/ PgArtifact(t, artifact.id) # {} /\ t2 = t
      \/ t2 = with
  BY DEF PgStoreArtifact, Done
<1>2. Fresh(with) /\ with.artifacts = t.artifacts \cup {artifact}
  BY DEF Fresh, TableNames
<1> HIDE DEF t2, with
<1>3. PgArtifact(t, artifact.id) # {} => artifact.id \in {a.id : a \in t.artifacts}
  BY DEF PgArtifact, Rows
<1>4. Fresh(t2) /\ artifact.id \in {a.id : a \in t2.artifacts}
  BY <1>1, <1>2, <1>3
<1> QED
  BY <1>4 DEF t2

LEMMA InitSound ==
    ASSUME MaterializeInit
    PROVE  ReadInv
<1> DEFINE t == PgCreate(PgCreate(EmptyTables, 0).store, 0).store
           artifact(read) == [id |-> "f", conv |-> read.owner, explorer |-> "none"]
           named(read) == PgStoreArtifact(t, artifact(read)).store
<1>1. PICK read \in Reads :
          /\ \/ tables = Appended(t, read.texts, {})
             \/ tables = Appended(named(read), read.texts, {"f"})
          /\ reader = [pc |-> "idle", request |-> read.request]
  BY DEF MaterializeInit
<1>2. Texts(read.texts) /\ RequestSound(read.request)
  <2>1. /\ IsList(read.texts) /\ \A text \in ToSet(read.texts) : IsFiniteSet(text)
        /\ read.request.budget \in Nat /\ IsList(read.request.hints)
    BY MaterializeAssumption DEF IsList
  <2>2. \A i \in 1 .. Len(read.texts) : read.texts[i] \in ToSet(read.texts)
    BY <2>1, ListIs
  <2> QED
    BY <2>1, <2>2 DEF Texts, RequestSound
<1>3. Fresh(t)
  <2>1. Fresh(EmptyTables)
    BY DEF Fresh, EmptyTables, TableNames
  <2> QED
    BY <2>1, CreatedFresh
<1>4. artifact(read).id = "f"
  OBVIOUS
<1> HIDE DEF t, artifact
<1>5. Fresh(named(read)) /\ "f" \in {a.id : a \in named(read).artifacts}
  <2>1. LET t2 == PgStoreArtifact(t, artifact(read)).store
        IN  Fresh(t2) /\ artifact(read).id \in {a.id : a \in t2.artifacts}
    BY <1>3, NamedFresh
  <2> QED
    BY <1>4, <2>1
<1> HIDE DEF named
<1>6. ASSUME NEW u, Fresh(u), NEW ids, ids \subseteq {a.id : a \in u.artifacts}, tables = Appended(u, read.texts, ids)
      PROVE  TablesSound(tables)
  <2>1. TablesSound(u)
    BY <1>6, FreshIs
  <2>2. LET t2 == Appended(u, read.texts, ids) IN TablesSound(t2) /\ Grown(u, t2)
    BY <1>2, <1>6, <2>1, AppendedIs
  <2> QED
    BY <1>6, <2>2
<1>7. TablesSound(tables)
  <2>1. CASE tables = Appended(t, read.texts, {})
    BY <1>3, <1>6, <2>1
  <2>2. CASE tables = Appended(named(read), read.texts, {"f"})
    BY <1>5, <1>6, <2>2
  <2> QED
    BY <1>1, <2>1, <2>2
<1>8. reader.pc = "idle" /\ {"pc", "request"} \subseteq DOMAIN reader /\ RequestSound(reader.request)
  BY <1>1, <1>2
<1>9. ReaderSound(reader, tables)
  BY <1>8 DEF ReaderSound
<1> QED
  BY <1>7, <1>8, <1>9, NoAnswer DEF ReadInv

-----------------------------------------------------------------------------
(* Every step                                                              *)
LEMMA ReadStepKeeps ==
    ASSUME ReadInv, ReadStep, tables' = tables
    PROVE  ReadInv'
BY StartStep, ReadContextStep, ReadEventsStep, ResolveStep, SearchSummariesStep, SearchEventsStep, MaterializeStep
   DEF ReadStep

LEMMA ChangeKeeps ==
    ASSUME ReadInv,
           \/ \E text \in NewTexts : AppendMessage(text)
           \/ \E length \in BlockLengths, form \in SummaryForms : CompactBlock(length, form)
    PROVE  ReadInv'
<1>1. TablesSound(tables)
  BY DEF ReadInv
<1>2. TablesSound(tables') /\ Grown(tables, tables')
  <2>1. ASSUME NEW text \in NewTexts, AppendMessage(text) PROVE TablesSound(tables') /\ Grown(tables, tables')
    <3>1. IsFiniteSet(text)
      BY MaterializeAssumption
    <3> QED
      BY <1>1, <2>1, <3>1, AppendStep
  <2>2. ASSUME NEW length \in BlockLengths, NEW form \in SummaryForms, CompactBlock(length, form)
        PROVE  TablesSound(tables') /\ Grown(tables, tables')
    <3>1. length \in Nat /\ form.tokens \in Nat
      BY MaterializeAssumption
    <3> QED
      BY <1>1, <2>2, <3>1, CompactedIs
  <2> QED
    BY <2>1, <2>2
<1>3. reader' = IF Reading THEN [reader EXCEPT !.overtaken = TRUE] ELSE reader
  BY DEF AppendMessage, CompactBlock, Changed
<1> QED
  BY <1>2, <1>3, OthersStep

LEMMA ReadNextKeeps ==
    ASSUME ReadInv, [MaterializeNext]_readVars
    PROVE  ReadInv'
<1>1. CASE ReadStep /\ UNCHANGED <<tables, changes>>
  BY <1>1, ReadStepKeeps
<1>2. CASE \/ \E text \in NewTexts : AppendMessage(text)
           \/ \E length \in BlockLengths, form \in SummaryForms : CompactBlock(length, form)
  BY <1>2, ChangeKeeps
<1>3. CASE UNCHANGED readVars
  <2>1. tables' = tables /\ reader' = reader
    BY <1>3 DEF readVars
  <2>2. BudgetHonoured' /\ LeftOutIsReported' /\ ReadFailsOnlyIfOvertaken'
    BY <2>1, AnswerStands DEF ReadInv
  <2> QED
    BY <2>1, <2>2 DEF ReadInv
<1> QED
  BY <1>1, <1>2, <1>3 DEF MaterializeNext

(* MaterializeContextUseCase keeps the invariant at each of its queries and *)
(* at each append or compaction of others between them: the tables are     *)
(* consistent, and what the read holds of them is what it was then.        *)
THEOREM ReadSound == MaterializeSpec => []ReadInv
<1>1. MaterializeInit => ReadInv
  BY InitSound
<1>2. ReadInv /\ [MaterializeNext]_readVars => ReadInv'
  BY ReadNextKeeps
<1> QED
  BY <1>1, <1>2, PTL DEF MaterializeSpec

(* The budgetUsed of an answer is the sum of the tokens of its units, and   *)
(* is within the budget unless a bridge was compressed more than once; for  *)
(* every request, every reserve and every conversation.                    *)
THEOREM BudgetHonouredHolds == MaterializeSpec => []BudgetHonoured
<1>1. ReadInv => BudgetHonoured
  BY DEF ReadInv
<1> QED
  BY <1>1, ReadSound, PTL

(* An answer shows no message twice and every pinned item, and trimmedToFit *)
(* and the dropped counts cover all that it leaves out, through trimming,   *)
(* retrieval, coalescing, packing and the displacement of runs by bridges.  *)
THEOREM LeftOutIsReportedHolds == MaterializeSpec => []LeftOutIsReported
<1>1. ReadInv => LeftOutIsReported
  BY DEF ReadInv
<1> QED
  BY <1>1, ReadSound, PTL

(* materializeContext throws InvariantViolationError only if an append or a *)
(* compaction committed between two of its queries, and                     *)
(* InvalidReferenceError only for a scope of the caller's or an artifact    *)
(* that another conversation owns.                                         *)
THEOREM ReadFailsOnlyIfOvertakenHolds == MaterializeSpec => []ReadFailsOnlyIfOvertaken
<1>1. ReadInv => ReadFailsOnlyIfOvertaken
  BY DEF ReadInv
<1> QED
  BY <1>1, ReadSound, PTL
=============================================================================
