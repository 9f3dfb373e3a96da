---------------------- MODULE ConversationMemoryProofs ----------------------
(* The optimistic lock of the active context, the idempotency of appends,  *)
(* the losslessness and order of the context, the soundness of the summary *)
(* DAG, the items a compaction may not summarize and the refinement of     *)
(* Transcript, for every number of clients and compactions, every set of   *)
(* requests, every policy and every token count.                           *)
EXTENDS ConversationMemory, ListTheorems

CompactorFields ==
    {"phase", "current", "rounds", "stale", "items", "version", "seen", "block", "node", "id",
     "outcome"}

(* The phases in which a compaction relies on the version it has read.     *)
Versioned == {"contextRead", "summarizing", "replacing", "swapping"}

(* Agreement is not inductive alone: that an append or a replacement makes *)
(* every snapshot stale follows from that none is newer than the context.  *)
SnapshotInv ==
    /\ version \in Nat
    /\ compactor = [c \in Compactors |-> compactor[c]]
    /\ \A c \in Compactors : DOMAIN compactor[c] = CompactorFields
    /\ \A c \in Compactors : compactor[c].phase \in Versioned =>
        compactor[c].version \in Nat /\ compactor[c].version <= version
    /\ SnapshotAgreement

LEMMA IdleShape ==
    /\ DOMAIN IdleCompactor = CompactorFields
    /\ IdleCompactor.phase = "idle"
BY DEF IdleCompactor, CompactorFields

LEMMA EndedShape ==
    ASSUME NEW o
    PROVE  DOMAIN Ended(o) = CompactorFields /\ Ended(o).phase \notin Versioned
BY IdleShape DEF Ended, IdleCompactor, CompactorFields, Versioned

LEMMA AtHeadShape ==
    ASSUME NEW r
    PROVE  DOMAIN AtHead(r) = CompactorFields /\ AtHead(r).phase \notin Versioned
BY IdleShape DEF AtHead, IdleCompactor, CompactorFields, Versioned

LEMMA ReturnedShape ==
    ASSUME NEW c, NEW r
    PROVE  DOMAIN Returned(c, r) = CompactorFields /\ Returned(c, r).phase \notin Versioned
BY EndedShape DEF Returned

LEMMA AfterStaleShape ==
    ASSUME NEW c, NEW r
    PROVE  DOMAIN AfterStale(c, r) = CompactorFields /\ AfterStale(c, r).phase \notin Versioned
BY AtHeadShape, ReturnedShape DEF AfterStale

LEMMA SnapshotInit == Init => SnapshotInv
BY IdleShape DEF Init, SnapshotInv, SnapshotAgreement, Versioned

(* A step of other parties: it changes the context only with the version.  *)
LEMMA SnapshotOthers ==
    ASSUME SnapshotInv, UNCHANGED compactor,
           UNCHANGED <<context, version>> \/ version' = version + 1
    PROVE  SnapshotInv'
<1>1. version' \in Nat /\ version' >= version /\ (version' = version => context' = context)
  BY DEF SnapshotInv
<1>2. \A c \in Compactors : compactor[c].phase \in Versioned =>
        /\ compactor[c].version \in Nat /\ compactor[c].version <= version'
        /\ compactor[c].version = version' => compactor[c].version = version
  BY <1>1 DEF SnapshotInv
<1>3. SnapshotAgreement'
  <2>1. {"contextRead", "summarizing", "swapping"} \subseteq Versioned
    BY DEF Versioned
  <2> QED
    BY <1>1, <1>2, <2>1 DEF SnapshotInv, SnapshotAgreement
<1> QED
  BY <1>1, <1>2, <1>3 DEF SnapshotInv

(* A step of compaction c to the local state x.                            *)
LEMMA SnapshotOwn ==
    ASSUME SnapshotInv, NEW c \in Compactors, NEW x, Set(c, x), DOMAIN x = CompactorFields,
           UNCHANGED <<context, version>> \/ version' = version + 1,
           x.phase \in Versioned =>
               /\ x.version \in Nat /\ x.version <= version'
               /\ x.version = version' => x.items = context' \/ x.phase = "replacing"
    PROVE  SnapshotInv'
<1>1. version' \in Nat /\ version' >= version /\ (version' = version => context' = context)
  BY DEF SnapshotInv
<1>2. /\ compactor' = [d \in Compactors |-> compactor'[d]]
      /\ compactor'[c] = x
      /\ \A d \in Compactors : d # c => compactor'[d] = compactor[d]
  BY DEF SnapshotInv, Set
<1>3. \A d \in Compactors : compactor'[d].phase \in Versioned =>
        compactor'[d].version \in Nat /\ compactor'[d].version <= version'
  BY <1>1, <1>2 DEF SnapshotInv
<1>4. SnapshotAgreement'
  <2> SUFFICES ASSUME NEW d \in Compactors,
                      compactor'[d].phase \in {"contextRead", "summarizing", "swapping"},
                      compactor'[d].version = version'
               PROVE  compactor'[d].items = context'
    BY DEF SnapshotAgreement
  <2>1. CASE d = c
    BY <1>2, <2>1 DEF Versioned
  <2>2. CASE d # c
    <3>1. compactor[d].version \in Nat /\ compactor[d].version <= version
      BY <1>2, <2>2 DEF SnapshotInv, Versioned
    <3>2. version' = version
      BY <1>1, <1>2, <2>2, <3>1 DEF SnapshotInv
    <3> QED
      BY <1>1, <1>2, <2>2, <3>2 DEF SnapshotInv, SnapshotAgreement
  <2> QED
    BY <2>1, <2>2
<1>5. \A d \in Compactors : DOMAIN compactor'[d] = CompactorFields
  BY <1>2 DEF SnapshotInv
<1> QED
  BY <1>1, <1>2, <1>3, <1>4, <1>5 DEF SnapshotInv

LEMMA SnapshotNext == SnapshotInv /\ [Next]_memoryVars => SnapshotInv'
<1> SUFFICES ASSUME SnapshotInv, [Next]_memoryVars PROVE SnapshotInv'
  OBVIOUS
<1>0. /\ version \in Nat
      /\ \A c \in Compactors : DOMAIN compactor[c] = CompactorFields
  BY DEF SnapshotInv
<1>1. ASSUME NEW c \in Compactors, NEW x, Set(c, x), UNCHANGED <<context, version>> \/ version' = version + 1,
             DOMAIN x = CompactorFields, x.phase \notin Versioned
      PROVE  SnapshotInv'
  BY <1>1, SnapshotOwn
<1>2. ASSUME NEW c \in Clients, ClientStep(c) PROVE SnapshotInv'
  <2>1. UNCHANGED compactor /\ (UNCHANGED <<context, version>> \/ version' = version + 1)
    BY <1>2 DEF ClientStep, CheckIdempotency, appendEvents, DuplicateFails, AppendedVersion, shared
  <2> QED
    BY <2>1, SnapshotOthers
<1>3. CASE AppendHandle
  BY <1>3, SnapshotOthers DEF AppendHandle
<1>4. ASSUME NEW c \in Compactors, StartCompaction(c) PROVE SnapshotInv'
  <2>1. PICK n : Set(c, [IdleCompactor EXCEPT !.phase = "round", !.current = n])
    BY <1>4 DEF StartCompaction
  <2> DEFINE x == [IdleCompactor EXCEPT !.phase = "round", !.current = n]
  <2>2. DOMAIN x = CompactorFields /\ x.phase \notin Versioned
    BY DEF IdleCompactor, CompactorFields, Versioned
  <2> HIDE DEF x
  <2> QED
    BY <1>1, <1>4, <2>1, <2>2 DEF StartCompaction, shared, x
<1>5. ASSUME NEW c \in Compactors, getCurrentContext(c) PROVE SnapshotInv'
  <2> DEFINE r == compactor[c]
             x == [r EXCEPT !.phase = IF r.phase = "round" THEN "contextRead" ELSE "summarizing",
                            !.items = context, !.version = version]
  <2>1. Set(c, x) /\ UNCHANGED <<context, version>>
    BY <1>5 DEF getCurrentContext, shared
  <2>2. DOMAIN x = CompactorFields /\ x.version = version /\ x.items = context
    BY <1>0 DEF CompactorFields
  <2> HIDE DEF x
  <2> QED
    BY <1>0, <2>1, <2>2, SnapshotOwn
<1>6. ASSUME NEW c \in Compactors, getEvents(c) PROVE SnapshotInv'
  <2> DEFINE r == compactor[c]
             x == [r EXCEPT !.phase = IF r.phase = "round" THEN "ledgerRead" ELSE "summarizing",
                            !.seen = Len(ledger)]
  <2>1. Set(c, x) /\ UNCHANGED <<context, version>>
    BY <1>6 DEF getEvents, shared
  <2>2. /\ DOMAIN x = CompactorFields /\ x.version = r.version /\ x.items = r.items
        /\ x.phase = IF r.phase = "round" THEN "ledgerRead" ELSE "summarizing"
    BY <1>0 DEF CompactorFields
  <2>3. r.phase \in {"round", "contextRead"}
    BY <1>6 DEF getEvents, NeedsRound
  <2> HIDE DEF x
  <2>4. x.phase \in Versioned => r.phase = "contextRead"
    BY <2>2, <2>3 DEF Versioned
  <2>5. r.phase = "contextRead" =>
          /\ r.version \in Nat /\ r.version <= version
          /\ r.version = version => r.items = context
    BY DEF SnapshotInv, SnapshotAgreement, Versioned
  <2> QED
    BY <2>1, <2>2, <2>4, <2>5, SnapshotOwn
<1>7. ASSUME NEW c \in Compactors, UnknownMessage(c) PROVE SnapshotInv'
  BY <1>1, <1>7, EndedShape DEF UnknownMessage, shared
<1>8. ASSUME NEW c \in Compactors, Return(c) PROVE SnapshotInv'
  BY <1>1, <1>8, ReturnedShape DEF Return, AfterNoCandidates, shared
<1>9. ASSUME NEW c \in Compactors, createNode(c) PROVE SnapshotInv'
  <2> DEFINE r == compactor[c]
  <2>1. PICK b, n, k, x :
          /\ x = [r EXCEPT !.phase = "replacing", !.items = <<>>, !.seen = 0,
                           !.block = b, !.node = n, !.id = k]
          /\ Set(c, Ended("dag_edge")) \/ Set(c, AfterStale(c, r)) \/ Set(c, x)
    BY <1>9 DEF createNode
  <2>2. UNCHANGED <<context, version>> /\ r.phase = "summarizing"
    BY <1>9 DEF createNode, shared
  <2>3. DOMAIN x = CompactorFields /\ x.version = r.version /\ x.phase = "replacing"
    BY <1>0, <2>1 DEF CompactorFields
  <2>4. r.version \in Nat /\ r.version <= version
    BY <2>2 DEF SnapshotInv, Versioned
  <2>5. CASE Set(c, x)
    BY <2>2, <2>3, <2>4, <2>5, SnapshotOwn
  <2>6. CASE Set(c, Ended("dag_edge"))
    BY <1>1, <2>2, <2>6, EndedShape
  <2>7. CASE Set(c, AfterStale(c, r))
    BY <1>1, <2>2, <2>7, AfterStaleShape
  <2> QED
    BY <2>1, <2>5, <2>6, <2>7
<1>10. ASSUME NEW c \in Compactors, RereadItems(c) PROVE SnapshotInv'
  <2> DEFINE r == compactor[c]
             x == [r EXCEPT !.phase = "swapping", !.items = context]
  <2>1. /\ r.phase = "replacing" /\ UNCHANGED <<context, version>>
        /\ Set(c, x) \/ Set(c, Ended("out_of_range"))
    BY <1>10 DEF RereadItems, shared
  <2>2. DOMAIN x = CompactorFields /\ x.version = r.version /\ x.items = context
    BY <1>0 DEF CompactorFields
  <2>3. r.version \in Nat /\ r.version <= version
    BY <2>1 DEF SnapshotInv, Versioned
  <2> HIDE DEF x
  <2>4. CASE Set(c, x)
    BY <2>1, <2>2, <2>3, <2>4, SnapshotOwn
  <2>5. CASE Set(c, Ended("out_of_range"))
    BY <1>1, <2>1, <2>5, EndedShape
  <2> QED
    BY <2>1, <2>4, <2>5
<1>11. ASSUME NEW c \in Compactors, replaceContextItems(c) PROVE SnapshotInv'
  <2>1. PICK x : /\ Set(c, x)
                 /\ (\E r : x = AtHead(r)) \/ (\E r : x = AfterStale(c, r))
                 /\ UNCHANGED <<context, version>> \/ version' = version + 1
    BY <1>11 DEF replaceContextItems
  <2> QED
    BY <1>1, <2>1, AtHeadShape, AfterStaleShape
<1>12. CASE UNCHANGED memoryVars
  BY <1>12, SnapshotOthers DEF memoryVars, shared
<1> QED
  BY <1>2, <1>3, <1>4, <1>5, <1>6, <1>7, <1>8, <1>9, <1>10, <1>11, <1>12
  DEF Next, CompactorStep

(* replaceContextItems may replace positions of a snapshot that was taken  *)
(* before the summarizer was called: while the version it read is current, *)
(* the items it read are.                                                  *)
THEOREM SnapshotAgreementHolds == Spec => []SnapshotAgreement
<1>1. SnapshotInv => SnapshotAgreement
  BY DEF SnapshotInv
<1> QED
  BY <1>1, SnapshotInit, SnapshotNext, PTL DEF Spec

-----------------------------------------------------------------------------
(* One batch per key.  An executor's request was checked before the lock,  *)
(* so that nothing is known of it but that it is one.                      *)

(* The events of key k in ledger l are those of request r from f on.       *)
BatchAt(l, k, r, f) ==
    LET n == Len(r.events) IN
    /\ r.key = k
    /\ ReadByKey(l, k) = f .. f + n - 1
    /\ f + n - 1 <= Len(l)
    /\ \A j \in 1 .. n : l[f + j - 1] = Persisted(r)[j]

BatchesWhole(l) ==
    /\ l \in Seq(Event)
    /\ \A d \in 1 .. Len(l) : l[d].key # NoKey =>
        \E r \in Requests, f \in Nat \ {0} : BatchAt(l, l[d].key, r, f)

BatchInv ==
    /\ BatchesWhole(ledger)
    /\ client = [c \in Clients |-> client[c]]
    /\ \A c \in Clients : client[c].phase = "checked" => client[c].request \in Requests

LEMMA PersistedType ==
    ASSUME NEW r \in Requests
    PROVE  /\ r \in Request
           /\ Len(r.events) \in Nat \ {0}
           /\ Persisted(r) \in Seq(Event)
           /\ Len(Persisted(r)) = Len(r.events)
           /\ \A j \in 1 .. Len(r.events) : Persisted(r)[j].key = r.key
<1>1. r \in Request /\ r.events # <<>>
  BY RequestsAssumption
<1>2. r.events \in Seq([tokens : Nat, system : BOOLEAN]) /\ r.key \in Nat /\ r.payload \in Nat
  BY <1>1 DEF Request
<1>3. Len(r.events) \in Nat \ {0} /\ DOMAIN r.events = 1 .. Len(r.events)
  BY <1>1, <1>2, EmptySeq, LenProperties
<1>4. \A j \in 1 .. Len(r.events) : r.events[j] \in [tokens : Nat, system : BOOLEAN]
  BY <1>2, ElementOfSeq
<1>5. Persisted(r) \in [1 .. Len(r.events) -> Event]
  BY <1>2, <1>3, <1>4 DEF Persisted, Event
<1>6. Persisted(r) \in Seq(Event) /\ Len(Persisted(r)) = Len(r.events)
  BY <1>3, <1>5
<1>7. \A j \in 1 .. Len(r.events) : Persisted(r)[j].key = r.key
  BY <1>3 DEF Persisted
<1> QED
  BY <1>1, <1>3, <1>6, <1>7

LEMMA BatchInit == Init => BatchInv
<1> SUFFICES ASSUME Init PROVE BatchInv
  OBVIOUS
<1>1. BatchesWhole(<<>>)
  BY EmptySeq DEF BatchesWhole
<1> QED
  BY <1>1 DEF Init, BatchInv, IdleClient

(* Events of other keys behind a batch leave it the batch of its key.      *)
LEMMA BatchStays ==
    ASSUME NEW l \in Seq(Event), NEW m \in Seq(Event), Len(m) >= Len(l),
           \A e \in 1 .. Len(l) : m[e] = l[e],
           NEW k, \A e \in 1 .. Len(m) : e > Len(l) => m[e].key # k,
           NEW r \in Requests, NEW f \in Nat \ {0}, BatchAt(l, k, r, f)
    PROVE  BatchAt(m, k, r, f)
<1>0. PICK n : n = Len(r.events)
  OBVIOUS
<1>1. n \in Nat \ {0} /\ Len(l) \in Nat /\ Len(m) \in Nat
  BY <1>0, PersistedType
<1>2. DOMAIN l = 1 .. Len(l) /\ DOMAIN m = 1 .. Len(m)
  OBVIOUS
<1>3. /\ r.key = k /\ ReadByKey(l, k) = f .. f + n - 1 /\ f + n - 1 <= Len(l)
      /\ \A j \in 1 .. n : l[f + j - 1] = Persisted(r)[j]
  BY <1>0 DEF BatchAt
<1>4. ReadByKey(m, k) = ReadByKey(l, k)
  <2>1. \A e \in 1 .. Len(m) : e \notin 1 .. Len(l) => m[e].key # k
    BY <1>1
  <2>2. 1 .. Len(l) \subseteq 1 .. Len(m)
    BY <1>1
  <2> QED
    BY <1>2, <2>1, <2>2 DEF ReadByKey
<1>5. ASSUME NEW j \in 1 .. n PROVE m[f + j - 1] = Persisted(r)[j]
  <2>1. f + j - 1 \in 1 .. Len(l)
    BY <1>1, <1>3
  <2> QED
    BY <1>3, <2>1
<1>6. f + n - 1 <= Len(m)
  BY <1>1, <1>3
<1> QED
  BY <1>0, <1>3, <1>4, <1>5, <1>6 DEF BatchAt

LEMMA BatchAppended ==
    ASSUME NEW l \in Seq(Event), BatchesWhole(l), NEW q \in Requests,
           q.key # NoKey => ReadByKey(l, q.key) = {}
    PROVE  BatchesWhole(l \o Persisted(q))
<1>0. PICK p, n, m, base :
        p = Persisted(q) /\ n = Len(q.events) /\ m = l \o p /\ base = Len(l)
  OBVIOUS
<1>1. /\ p \in Seq(Event) /\ Len(p) = n /\ n \in Nat \ {0} /\ base \in Nat
      /\ \A j \in 1 .. n : p[j].key = q.key
  BY <1>0, PersistedType
<1>2. /\ m \in Seq(Event) /\ Len(m) = base + n
      /\ \A e \in 1 .. base + n : m[e] = IF e <= base THEN l[e] ELSE p[e - base]
  <2>1. /\ l \o p \in Seq(Event) /\ Len(l \o p) = Len(l) + Len(p)
        /\ \A e \in 1 .. Len(l) + Len(p) :
             (l \o p)[e] = IF e <= Len(l) THEN l[e] ELSE p[e - Len(l)]
    BY <1>1, ConcatProperties
  <2> QED
    BY <1>0, <1>1, <2>1
<1>3. /\ \A e \in 1 .. base : m[e] = l[e]
      /\ \A j \in 1 .. n : m[base + j] = p[j]
  BY <1>1, <1>2
<1>4. ASSUME NEW e \in 1 .. base + n, e > base PROVE m[e].key = q.key
  <2>1. e - base \in 1 .. n /\ m[e] = p[e - base]
    BY <1>1, <1>2, <1>4
  <2> QED
    BY <1>1, <2>1
<1>5. DOMAIN l = 1 .. base /\ DOMAIN m = 1 .. base + n
  BY <1>0, <1>2
<1>6. ASSUME NEW d \in 1 .. base + n, m[d].key # NoKey
      PROVE  \E r \in Requests, f \in Nat \ {0} : BatchAt(m, m[d].key, r, f)
  <2>1. CASE d <= base
    <3>0. PICK k : k = m[d].key
      OBVIOUS
    <3>1. l[d].key = k /\ d \in 1 .. base
      BY <1>1, <1>3, <2>1, <3>0
    <3>2. PICK r \in Requests, f \in Nat \ {0} : BatchAt(l, k, r, f)
      BY <1>0, <1>6, <3>0, <3>1 DEF BatchesWhole
    <3>3. d \in ReadByKey(l, k)
      BY <1>5, <3>1 DEF ReadByKey
    <3>4. q.key # k
      BY <1>6, <3>0, <3>3
    <3>5. \A e \in 1 .. Len(m) : e > Len(l) => m[e].key # k
      BY <1>0, <1>2, <1>4, <3>4
    <3>6. Len(m) >= Len(l) /\ \A e \in 1 .. Len(l) : m[e] = l[e]
      BY <1>0, <1>1, <1>2, <1>3
    <3>7. BatchAt(m, k, r, f)
      BY <1>2, <3>2, <3>5, <3>6, BatchStays
    <3> QED
      BY <3>0, <3>7
  <2>2. CASE d > base
    <3>1. m[d].key = q.key
      BY <1>4, <2>2
    <3>2. \A e \in 1 .. base : m[e].key # q.key
      BY <1>3, <1>5, <1>6, <3>1 DEF ReadByKey
    <3>3. \A e \in 1 .. base + n : e \in base + 1 .. base + n <=> m[e].key = q.key
      BY <1>1, <1>4, <3>2
    <3>4. ReadByKey(m, q.key) = base + 1 .. base + 1 + n - 1
      BY <1>1, <1>5, <3>3 DEF ReadByKey
    <3>5. \A j \in 1 .. n : m[base + 1 + j - 1] = p[j]
      <4>1. \A j \in 1 .. n : base + 1 + j - 1 = base + j
        BY <1>1
      <4> QED
        BY <1>3, <4>1
    <3>6. base + 1 + n - 1 <= Len(m) /\ base + 1 \in Nat \ {0}
      BY <1>1, <1>2
    <3>7. BatchAt(m, q.key, q, base + 1)
      BY <1>0, <3>4, <3>5, <3>6 DEF BatchAt
    <3> QED
      BY <3>1, <3>6, <3>7
  <2> QED
    BY <1>1, <2>1, <2>2
<1>7. BatchesWhole(m)
  BY <1>2, <1>6 DEF BatchesWhole
<1> QED
  BY <1>0, <1>7

LEMMA BatchHandle ==
    ASSUME NEW l \in Seq(Event), BatchesWhole(l), NEW x \in Event, x.key = NoKey
    PROVE  BatchesWhole(Append(l, x))
<1>0. PICK m, base : m = Append(l, x) /\ base = Len(l)
  OBVIOUS
<1>1. /\ m \in Seq(Event) /\ Len(m) = base + 1 /\ base \in Nat
      /\ \A e \in 1 .. base : m[e] = l[e]
      /\ m[base + 1] = x
  BY <1>0, AppendProperties
<1>2. ASSUME NEW d \in 1 .. base + 1, m[d].key # NoKey
      PROVE  \E r \in Requests, f \in Nat \ {0} : BatchAt(m, m[d].key, r, f)
  <2>0. PICK k : k = m[d].key
    OBVIOUS
  <2>1. d \in 1 .. base /\ l[d].key = k
    BY <1>1, <1>2, <2>0
  <2>2. PICK r \in Requests, f \in Nat \ {0} : BatchAt(l, k, r, f)
    BY <1>0, <1>2, <2>0, <2>1 DEF BatchesWhole
  <2>3. \A e \in 1 .. Len(m) : e > Len(l) => m[e].key # k
    BY <1>0, <1>1, <1>2, <2>0
  <2>4. BatchAt(m, k, r, f)
    <3>1. Len(m) >= Len(l) /\ \A e \in 1 .. Len(l) : m[e] = l[e]
      BY <1>0, <1>1
    <3> QED
      BY <1>1, <2>2, <2>3, <3>1, BatchStays
  <2> QED
    BY <2>0, <2>4
<1>3. BatchesWhole(m)
  BY <1>1, <1>2 DEF BatchesWhole
<1> QED
  BY <1>0, <1>3

LEMMA BatchNext == BatchInv /\ [Next]_memoryVars => BatchInv'
<1> SUFFICES ASSUME BatchInv, [Next]_memoryVars PROVE BatchInv'
  OBVIOUS
<1>1. ASSUME UNCHANGED <<ledger, client>> PROVE BatchInv'
  BY <1>1 DEF BatchInv
<1>2. ASSUME NEW c \in Clients, NEW x, client' = [client EXCEPT ![c] = x],
             x.phase = "checked" => x.request \in Requests
      PROVE  /\ client' = [d \in Clients |-> client'[d]]
             /\ \A d \in Clients : client'[d].phase = "checked" => client'[d].request \in Requests
  BY <1>2 DEF BatchInv
<1>3. ASSUME NEW c \in Clients, Goodbye(c)
      PROVE  /\ client' = [d \in Clients |-> client'[d]]
             /\ \A d \in Clients : client'[d].phase = "checked" => client'[d].request \in Requests
  BY <1>2, <1>3 DEF Goodbye, IdleClient
<1>4. ASSUME NEW c \in Clients, CheckIdempotency(c) PROVE BatchInv'
  <2>1. PICK r, u :
          /\ r \in Requests
          /\ client' = [client EXCEPT ![c] = [phase |-> "checked", request |-> r, under |-> u]]
    BY <1>4 DEF CheckIdempotency
  <2>2. UNCHANGED ledger
    BY <1>4 DEF CheckIdempotency, shared
  <2> QED
    BY <1>2, <2>1, <2>2 DEF BatchInv
<1>5. ASSUME NEW c \in Clients, appendEvents(c) PROVE BatchInv'
  <2>1. PICK q : q = client[c].request
    OBVIOUS
  <2>2. /\ Goodbye(c)
        /\ ledger' = ledger \o Persisted(q)
        /\ q \in Requests
        /\ q.key # NoKey => ReadByKey(ledger, q.key) = {}
    BY <1>5, <2>1 DEF BatchInv, appendEvents, AlreadyStored
  <2>3. BatchesWhole(ledger')
    BY <2>2, BatchAppended DEF BatchInv, BatchesWhole
  <2> QED
    BY <1>3, <2>2, <2>3 DEF BatchInv
<1>6. ASSUME NEW c \in Clients, DuplicateFails(c) PROVE BatchInv'
  <2>1. Goodbye(c) /\ UNCHANGED ledger
    BY <1>6 DEF DuplicateFails, shared
  <2> QED
    BY <1>3, <2>1 DEF BatchInv
<1>7. CASE AppendHandle
  <2>1. PICK x : x = [key |-> NoKey, payload |-> 0, tokens |-> 1, system |-> FALSE, projected |-> FALSE]
    OBVIOUS
  <2>2. x \in Event /\ x.key = NoKey
    BY <2>1 DEF Event, NoKey
  <2>3. UNCHANGED client /\ ledger' = Append(ledger, x)
    BY <1>7, <2>1 DEF AppendHandle
  <2>4. BatchesWhole(ledger')
    BY <2>2, <2>3, BatchHandle DEF BatchInv, BatchesWhole
  <2> QED
    BY <2>3, <2>4 DEF BatchInv
<1>8. ASSUME NEW c \in Compactors, StartCompaction(c) \/ CompactorStep(c) PROVE BatchInv'
  BY <1>1, <1>8 DEF StartCompaction, CompactorStep, getCurrentContext, getEvents, UnknownMessage,
                    Return, createNode, RereadItems, replaceContextItems, shared
<1>9. CASE UNCHANGED memoryVars
  BY <1>1, <1>9 DEF memoryVars, shared
<1> QED
  BY <1>4, <1>5, <1>6, <1>7, <1>8, <1>9 DEF Next, ClientStep

(* However many clients append under one key, with one payload or several, *)
(* and although the key is checked before the lock: the ledger holds the   *)
(* batch of one of the calls under it, whole and in one piece.             *)
THEOREM OneBatchPerKeyHolds == Spec => []OneBatchPerKey
<1>1. BatchInv => OneBatchPerKey
  <2> SUFFICES ASSUME BatchInv, NEW d \in DOMAIN ledger, ledger[d].key # NoKey
               PROVE  \E r \in Requests :
                        LET batch == ReadByKey(ledger, ledger[d].key)
                            first == CHOOSE e \in batch : \A x \in batch : e <= x
                        IN /\ r.key = ledger[d].key
                           /\ batch = first .. first + Len(r.events) - 1
                           /\ SubSeq(ledger, first, first + Len(r.events) - 1) = Persisted(r)
    BY DEF OneBatchPerKey
  <2>1. ledger \in Seq(Event) /\ d \in 1 .. Len(ledger)
    BY DEF BatchInv, BatchesWhole
  <2>2. PICK r \in Requests, f \in Nat \ {0} : BatchAt(ledger, ledger[d].key, r, f)
    BY <2>1 DEF BatchInv, BatchesWhole
  <2> DEFINE batch == ReadByKey(ledger, ledger[d].key)
             first == CHOOSE e \in batch : \A x \in batch : e <= x
             n == Len(r.events)
             s == SubSeq(ledger, f, f + n - 1)
  <2>3. /\ r.key = ledger[d].key /\ batch = f .. f + n - 1 /\ f + n - 1 <= Len(ledger)
        /\ \A j \in 1 .. n : ledger[f + j - 1] = Persisted(r)[j]
        /\ n \in Nat \ {0} /\ Persisted(r) \in Seq(Event) /\ Len(Persisted(r)) = n
    BY <2>2, PersistedType DEF BatchAt
  <2>4. first = f
    <3>1. f \in batch /\ \A x \in batch : f <= x
      BY <2>3
    <3>2. \A e \in batch : (\A x \in batch : e <= x) => e = f
      <4>1. SUFFICES ASSUME NEW e \in batch, e <= f PROVE e = f
        BY <3>1
      <4>2. f <= e /\ e \in Nat /\ f \in Nat
        BY <2>3, <3>1
      <4> QED
        BY ONLY <4>1, <4>2
    <3> HIDE DEF batch
    <3> QED
      BY <3>1, <3>2
  <2>5. /\ s \in Seq(Event) /\ Len(s) = n
        /\ \A j \in 1 .. n : s[j] = ledger[f + j - 1]
    <3>1. \A i \in f .. f + n - 1 : ledger[i] \in Event
      BY <2>1, <2>3, ElementOfSeq
    <3>2. f \in Int /\ f + n - 1 \in Int /\ f <= f + n - 1 /\ f + n - 1 - f + 1 = n
      BY <2>3
    <3> QED
      BY <3>1, <3>2, SubSeqProperties
  <2>6. s = Persisted(r)
    <3> HIDE DEF s, n
    <3>1. Len(s) = Len(Persisted(r)) /\ \A j \in 1 .. Len(s) : s[j] = Persisted(r)[j]
      BY <2>3, <2>5
    <3> QED
      BY <2>3, <2>5, <3>1, SeqEqual
  <2> QED
    BY <2>3, <2>4, <2>6
<1> QED
  BY <1>1, BatchInit, BatchNext, PTL DEF Spec
-----------------------------------------------------------------------------
(* What expansion reaches.  Scope is the least closed set around a node;   *)
(* from this follows how it changes when a node is stored.                 *)

GraphOK(d) ==
    /\ d \in Seq(Node)
    /\ \A n \in DOMAIN d : d[n].parents \subseteq DOMAIN d

LEMMA ScopeLeast ==
    ASSUME NEW d, GraphOK(d), NEW n \in DOMAIN d
    PROVE  /\ n \in Scope(d, n)
           /\ Scope(d, n) \in Closed(d)
           /\ \A S \in Closed(d) : n \in S => Scope(d, n) \subseteq S
<1>1. Scope(d, n) = {m \in DOMAIN d : \A S \in Closed(d) : n \in S => m \in S}
  BY DEF Scope
<1>2. ASSUME NEW m \in Scope(d, n), NEW q \in d[m].parents PROVE q \in Scope(d, n)
  <2>1. m \in DOMAIN d /\ \A S \in Closed(d) : n \in S => m \in S
    BY <1>1
  <2>2. q \in DOMAIN d
    BY <2>1 DEF GraphOK
  <2>3. \A S \in Closed(d) : n \in S => q \in S
    BY <2>1 DEF Closed
  <2> QED
    BY <1>1, <2>2, <2>3
<1>3. Scope(d, n) \subseteq DOMAIN d
  BY <1>1
<1>4. Scope(d, n) \in Closed(d)
  BY <1>2, <1>3 DEF Closed
<1> QED
  BY <1>1, <1>4

LEMMA ScopeWithin ==
    ASSUME NEW d, GraphOK(d), NEW n \in DOMAIN d, NEW q \in Scope(d, n)
    PROVE  q \in DOMAIN d /\ Scope(d, q) \subseteq Scope(d, n)
<1>1. q \in DOMAIN d
  BY ScopeLeast DEF Closed
<1> QED
  BY <1>1, ScopeLeast

(* The nodes that a node to be stored reaches through its parents.         *)
Below(d, node) == UNION {Scope(d, q) : q \in node.parents}

LEMMA BelowClosed ==
    ASSUME NEW d, GraphOK(d), NEW node, node.parents \subseteq DOMAIN d
    PROVE  Below(d, node) \in Closed(d) /\ node.parents \subseteq Below(d, node)
<1>1. \A q \in node.parents : q \in Scope(d, q) /\ Scope(d, q) \in Closed(d)
  BY ScopeLeast
<1>2. \A q \in node.parents : Scope(d, q) \subseteq DOMAIN d
  BY <1>1 DEF Closed
<1>3. Below(d, node) \subseteq DOMAIN d
  BY <1>2 DEF Below
<1>4. ASSUME NEW m \in Below(d, node) PROVE d[m].parents \subseteq Below(d, node)
  <2>1. PICK q \in node.parents : m \in Scope(d, q)
    BY DEF Below
  <2>2. d[m].parents \subseteq Scope(d, q)
    BY <1>1, <2>1 DEF Closed
  <2> QED
    BY <2>2 DEF Below
<1>5. Below(d, node) \in Closed(d)
  BY <1>3, <1>4 DEF Closed
<1>6. node.parents \subseteq Below(d, node)
  BY <1>1 DEF Below
<1> QED
  BY <1>5, <1>6

(* The summary a compaction stores as node under id, 0 for a new one.      *)
NewId(d, id) == IF id = 0 THEN Len(d) + 1 ELSE id

LEMMA StoredShape ==
    ASSUME NEW d, GraphOK(d), NEW node \in Node, node.parents \subseteq DOMAIN d,
           NEW id \in {0} \cup DOMAIN d
    PROVE  LET e == Stored(d, id, node)
               n == NewId(d, id)
           IN /\ GraphOK(e)
              /\ n \in DOMAIN e
              /\ DOMAIN e = DOMAIN d \cup {n}
              /\ n \in DOMAIN d <=> id # 0
              /\ \A m \in DOMAIN d \ {n} : e[m] = d[m]
              /\ id = 0 => e[n] = node
              /\ id # 0 => /\ e[n].messages = d[n].messages \cup node.messages
                           /\ e[n].parents = d[n].parents \cup node.parents
                           /\ e[n].kind = d[n].kind
<1> DEFINE e == Stored(d, id, node)
           n == NewId(d, id)
<1>0. d \in Seq(Node) /\ Len(d) \in Nat /\ DOMAIN d = 1 .. Len(d)
  BY DEF GraphOK
<1>1. CASE id = 0
  <2>1. e = Append(d, node) /\ n = Len(d) + 1
    BY <1>1 DEF Stored, NewId
  <2>2. /\ e \in Seq(Node) /\ Len(e) = Len(d) + 1 /\ e[Len(d) + 1] = node
        /\ \A m \in 1 .. Len(d) : e[m] = d[m]
    BY <1>0, <2>1, AppendProperties
  <2> HIDE DEF e, n
  <2>3. DOMAIN e = 1 .. Len(d) + 1
    BY <2>2
  <2>4. DOMAIN e = DOMAIN d \cup {n} /\ n \notin DOMAIN d
    BY <1>0, <2>1, <2>3
  <2>5. \A m \in DOMAIN e : e[m].parents \subseteq DOMAIN e
    BY <1>0, <2>1, <2>2, <2>4 DEF GraphOK
  <2> QED
    BY <1>0, <1>1, <2>1, <2>2, <2>4, <2>5 DEF GraphOK, e, n
<1>2. CASE id # 0
  <2>1. n = id /\ id \in DOMAIN d
    BY <1>2 DEF NewId
  <2>2. e = [d EXCEPT ![id] = [d[id] EXCEPT !.messages = d[id].messages \cup node.messages,
                                           !.parents = d[id].parents \cup node.parents]]
    BY <1>2, <2>1 DEF Stored
  <2>3. d[id] \in Node
    BY <1>0, <2>1, ElementOfSeq
  <2> DEFINE x == [d[id] EXCEPT !.messages = d[id].messages \cup node.messages,
                                !.parents = d[id].parents \cup node.parents]
  <2>4. /\ x \in Node /\ x.messages = d[id].messages \cup node.messages
        /\ x.parents = d[id].parents \cup node.parents /\ x.kind = d[id].kind
    BY <2>3 DEF Node
  <2> HIDE DEF x
  <2>5. e = [d EXCEPT ![id] = x]
    BY <2>2 DEF x
  <2>6. e \in Seq(Node) /\ DOMAIN e = DOMAIN d /\ e[id] = x /\ \A m \in DOMAIN d : m # id => e[m] = d[m]
    BY <1>0, <2>1, <2>4, <2>5, ExceptSeq
  <2> HIDE DEF e, n
  <2>7. \A m \in DOMAIN e : e[m].parents \subseteq DOMAIN e
    BY <2>1, <2>4, <2>6 DEF GraphOK
  <2> QED
    BY <1>2, <2>1, <2>4, <2>6, <2>7 DEF GraphOK, e, n
<1> QED
  BY <1>1, <1>2

(* Storing adds to what is reached through id, and only there, what the    *)
(* stored node reaches.                                                    *)
LEMMA ScopeStored ==
    ASSUME NEW d, GraphOK(d), NEW node \in Node, node.parents \subseteq DOMAIN d,
           NEW id \in {0} \cup DOMAIN d
    PROVE  LET e == Stored(d, id, node)
               n == NewId(d, id)
           IN /\ \A m \in DOMAIN d : /\ Scope(d, m) \subseteq Scope(e, m)
                                     /\ Scope(e, m) \subseteq Scope(d, m) \cup Below(d, node)
                                     /\ n \notin Scope(d, m) => Scope(e, m) = Scope(d, m)
              /\ {n} \cup Below(d, node) \subseteq Scope(e, n)
              /\ id = 0 => Scope(e, n) = {n} \cup Below(d, node)
<1> DEFINE e == Stored(d, id, node)
           n == NewId(d, id)
           B == Below(d, node)
<1>0. /\ GraphOK(e) /\ n \in DOMAIN e /\ DOMAIN e = DOMAIN d \cup {n}
      /\ n \in DOMAIN d <=> id # 0
      /\ \A m \in DOMAIN d \ {n} : e[m] = d[m]
      /\ id = 0 => e[n].parents = node.parents
      /\ id # 0 => e[n].parents = d[n].parents \cup node.parents
  BY StoredShape
<1>b. B \in Closed(d) /\ node.parents \subseteq B
  BY BelowClosed
<1> HIDE DEF e, n, B
<1>1. ASSUME NEW S \in Closed(e), S \subseteq DOMAIN d PROVE S \in Closed(d)
  <2>1. \A m \in S : d[m].parents \subseteq e[m].parents
    BY <1>0, <1>1
  <2> QED
    BY <1>1, <2>1 DEF Closed
<1>2. ASSUME NEW S \in Closed(d), n \in S => node.parents \subseteq S PROVE S \in Closed(e)
  <2>1. S \subseteq DOMAIN e
    BY <1>0 DEF Closed
  <2>2. ASSUME NEW m \in S PROVE e[m].parents \subseteq S
    <3>1. m \in DOMAIN d /\ d[m].parents \subseteq S
      BY DEF Closed
    <3> QED
      BY <1>0, <1>2, <3>1
  <2> QED
    BY <2>1, <2>2 DEF Closed
<1>3. ASSUME NEW S \in Closed(e) PROVE S \cap DOMAIN d \in Closed(d)
  <2>1. \A m \in S \cap DOMAIN d : d[m].parents \subseteq e[m].parents
    BY <1>0
  <2>2. \A m \in DOMAIN d : d[m].parents \subseteq DOMAIN d
    BY DEF GraphOK
  <2> QED
    BY <2>1, <2>2 DEF Closed
<1>4. ASSUME NEW m \in DOMAIN d PROVE Scope(d, m) \subseteq Scope(e, m)
  <2>1. m \in DOMAIN e /\ m \in Scope(e, m) /\ Scope(e, m) \in Closed(e)
    BY <1>0, ScopeLeast
  <2>2. Scope(e, m) \cap DOMAIN d \in Closed(d)
    BY <1>3, <2>1
  <2> QED
    BY <2>1, <2>2, ScopeLeast
<1>5. ASSUME NEW m \in DOMAIN d PROVE Scope(e, m) \subseteq Scope(d, m) \cup B
  <2>1. m \in DOMAIN e /\ m \in Scope(d, m) /\ Scope(d, m) \in Closed(d)
    BY <1>0, ScopeLeast
  <2>2. Scope(d, m) \cup B \in Closed(d)
    BY <1>b, <2>1 DEF Closed
  <2>3. Scope(d, m) \cup B \in Closed(e)
    BY <1>2, <1>b, <2>2
  <2> QED
    BY <1>0, <2>1, <2>3, ScopeLeast
<1>6. ASSUME NEW m \in DOMAIN d, n \notin Scope(d, m) PROVE Scope(e, m) = Scope(d, m)
  <2>1. m \in DOMAIN e /\ m \in Scope(d, m) /\ Scope(d, m) \in Closed(d)
    BY <1>0, ScopeLeast
  <2>2. Scope(d, m) \in Closed(e)
    BY <1>2, <1>6, <2>1
  <2>3. Scope(e, m) \subseteq Scope(d, m)
    BY <1>0, <2>1, <2>2, ScopeLeast
  <2> QED
    BY <1>4, <2>3
<1>7. {n} \cup B \subseteq Scope(e, n)
  <2>1. n \in Scope(e, n) /\ Scope(e, n) \in Closed(e)
    BY <1>0, ScopeLeast
  <2>2. ASSUME NEW q \in node.parents PROVE Scope(d, q) \subseteq Scope(e, n)
    <3>1. q \in e[n].parents /\ q \in DOMAIN d
      BY <1>0
    <3>2. q \in Scope(e, n)
      BY <2>1, <3>1 DEF Closed
    <3>3. Scope(e, q) \subseteq Scope(e, n)
      BY <1>0, <3>2, ScopeWithin
    <3> QED
      BY <1>4, <3>1, <3>3
  <2> QED
    BY <2>1, <2>2 DEF B, Below
<1>8. ASSUME id = 0 PROVE Scope(e, n) = {n} \cup B
  <2>1. B \subseteq DOMAIN d /\ n \notin B
    BY <1>0, <1>8, <1>b DEF Closed
  <2>2. \A m \in B : e[m].parents \subseteq B
    BY <1>0, <1>b, <2>1 DEF Closed
  <2>3. {n} \cup B \in Closed(e)
    BY <1>0, <1>8, <1>b, <2>1, <2>2 DEF Closed
  <2> QED
    BY <1>0, <1>7, <2>3, ScopeLeast
<1> QED
  BY <1>4, <1>5, <1>6, <1>7, <1>8 DEF e, n, B

(* assertCondensedEdgeNoCycle keeps the DAG acyclic: an edge is refused if *)
(* its parent reaches the node, so a new cycle would have to pass through  *)
(* the stored node twice.                                                  *)
Acyclic(d) == \A n \in DOMAIN d : \A p \in d[n].parents : n \notin Scope(d, p)

LEMMA AcyclicStored ==
    ASSUME NEW d, GraphOK(d), NEW node \in Node, node.parents \subseteq DOMAIN d,
           NEW id \in {0} \cup DOMAIN d, EdgesAllowed(d, id, node), Acyclic(d)
    PROVE  Acyclic(Stored(d, id, node))
<1> DEFINE e == Stored(d, id, node)
           n == NewId(d, id)
           B == Below(d, node)
<1>0. /\ n \in DOMAIN e /\ DOMAIN e = DOMAIN d \cup {n}
      /\ n \in DOMAIN d <=> id # 0
      /\ \A m \in DOMAIN d \ {n} : e[m] = d[m]
      /\ id = 0 => e[n].parents = node.parents
      /\ id # 0 => e[n].parents = d[n].parents \cup node.parents
  BY StoredShape
<1>1. \A m \in DOMAIN d : /\ Scope(e, m) \subseteq Scope(d, m) \cup B
                          /\ n \notin Scope(d, m) => Scope(e, m) = Scope(d, m)
  BY ScopeStored
<1>2. \A q \in node.parents : n \notin Scope(d, q)
  <2>1. CASE id = 0
    <3>1. n \notin DOMAIN d
      BY <1>0, <2>1
    <3> QED
      BY <3>1 DEF Scope
  <2>2. CASE id # 0
    BY <2>2 DEF EdgesAllowed, NewId
  <2> QED
    BY <2>1, <2>2
<1>3. n \notin B
  BY <1>2 DEF Below
<1>4. \A m \in DOMAIN d : d[m].parents \subseteq DOMAIN d
  BY DEF GraphOK
<1> HIDE DEF e, n
<1>5. ASSUME NEW p \in e[n].parents PROVE n \notin Scope(e, p)
  <2>1. p \in DOMAIN d /\ n \notin Scope(d, p)
    BY <1>0, <1>2, <1>4, <1>5 DEF Acyclic
  <2> QED
    BY <1>1, <2>1
<1>6. ASSUME NEW m \in DOMAIN d \ {n}, NEW p \in d[m].parents, m \in Scope(e, p) PROVE FALSE
  <2>1. p \in DOMAIN d /\ m \notin Scope(d, p)
    BY <1>4 DEF Acyclic
  <2>2. n \in Scope(d, p) /\ m \in B
    BY <1>1, <1>6, <2>1
  <2>3. B \in Closed(d)
    BY BelowClosed
  <2>4. p \in B
    BY <2>2, <2>3 DEF Closed
  <2>5. Scope(d, p) \subseteq B
    BY <2>1, <2>3, <2>4, ScopeLeast
  <2> QED
    BY <1>3, <2>2, <2>5
<1>7. Acyclic(e)
  BY <1>0, <1>5, <1>6 DEF Acyclic
<1> QED
  BY <1>7 DEF e

(* What the stored node expands to, of which every other node may gain.    *)
Gained(d, node) == node.messages \cup UNION {expandToMessages(d, q) : q \in node.parents}

LEMMA ExpansionStored ==
    ASSUME NEW d, GraphOK(d), NEW node \in Node, node.parents \subseteq DOMAIN d,
           NEW id \in {0} \cup DOMAIN d
    PROVE  LET e == Stored(d, id, node)
               n == NewId(d, id)
               gained == Gained(d, node)
           IN /\ \A m \in DOMAIN d :
                    /\ expandToMessages(d, m) \subseteq expandToMessages(e, m)
                    /\ expandToMessages(e, m) \subseteq expandToMessages(d, m) \cup gained
                    /\ id = 0 => expandToMessages(e, m) = expandToMessages(d, m)
              /\ gained \subseteq expandToMessages(e, n)
              /\ id = 0 => expandToMessages(e, n) = gained
<1> DEFINE e == Stored(d, id, node)
           n == NewId(d, id)
           B == Below(d, node)
           G == Gained(d, node)
<1>0. /\ GraphOK(e) /\ n \in DOMAIN e /\ DOMAIN e = DOMAIN d \cup {n}
      /\ n \in DOMAIN d <=> id # 0
      /\ \A m \in DOMAIN d \ {n} : e[m].messages = d[m].messages
      /\ id = 0 => e[n].messages = node.messages
      /\ id # 0 => e[n].messages = d[n].messages \cup node.messages
  <2>1. /\ GraphOK(e) /\ n \in DOMAIN e /\ DOMAIN e = DOMAIN d \cup {n}
        /\ n \in DOMAIN d <=> id # 0
        /\ \A m \in DOMAIN d \ {n} : e[m] = d[m]
        /\ id = 0 => e[n] = node
        /\ id # 0 => e[n].messages = d[n].messages \cup node.messages
    BY StoredShape
  <2> HIDE DEF e, n
  <2> QED
    BY <2>1
<1>1. /\ \A m \in DOMAIN d : /\ Scope(d, m) \subseteq Scope(e, m)
                             /\ Scope(e, m) \subseteq Scope(d, m) \cup B
      /\ {n} \cup B \subseteq Scope(e, n)
      /\ id = 0 => Scope(e, n) = {n} \cup B
  BY ScopeStored
<1>2. \A m \in DOMAIN d : Scope(d, m) \subseteq DOMAIN d
  BY DEF Scope
<1>3. B \subseteq DOMAIN d
  BY BelowClosed DEF Closed
<1>4. UNION {d[m].messages : m \in B} \subseteq G
  BY DEF Below, Gained, expandToMessages
<1>5. \A m \in DOMAIN d : /\ d[m].messages \subseteq e[m].messages
                          /\ e[m].messages \subseteq d[m].messages \cup node.messages
                          /\ id = 0 => e[m].messages = d[m].messages
  BY <1>0
<1>6. node.messages \subseteq G
  BY DEF Gained
<1>7. \A m \in DOMAIN d : id = 0 => Scope(e, m) = Scope(d, m)
  <2>1. \A m \in DOMAIN d : id = 0 => n \notin Scope(d, m)
    BY <1>0, <1>2
  <2> QED
    BY <2>1, ScopeStored
<1> HIDE DEF e, n, B, G
<1>8. ASSUME NEW m \in DOMAIN d PROVE expandToMessages(d, m) \subseteq expandToMessages(e, m)
  BY <1>1, <1>2, <1>5 DEF expandToMessages
<1>9. ASSUME NEW m \in DOMAIN d
      PROVE  expandToMessages(e, m) \subseteq expandToMessages(d, m) \cup G
  <2> SUFFICES ASSUME NEW x \in expandToMessages(e, m) PROVE x \in expandToMessages(d, m) \cup G
    OBVIOUS
  <2>1. PICK k \in Scope(e, m) : x \in e[k].messages
    BY DEF expandToMessages
  <2>2. k \in DOMAIN d /\ (k \in Scope(d, m) \/ k \in B)
    BY <1>1, <1>2, <1>3, <2>1
  <2>3. x \in d[k].messages \/ x \in G
    BY <1>5, <1>6, <2>1, <2>2
  <2>4. CASE k \in Scope(d, m)
    BY <2>3, <2>4 DEF expandToMessages
  <2>5. CASE k \in B
    BY <1>4, <2>3, <2>5
  <2> QED
    BY <2>2, <2>4, <2>5
<1>10. ASSUME NEW m \in DOMAIN d, id = 0 PROVE expandToMessages(e, m) = expandToMessages(d, m)
  BY <1>2, <1>5, <1>7, <1>10 DEF expandToMessages
<1>11. G \subseteq expandToMessages(e, n)
  <2>1. node.messages \subseteq e[n].messages
    BY <1>0
  <2>2. node.messages \subseteq expandToMessages(e, n)
    BY <1>1, <2>1 DEF expandToMessages
  <2>3. UNION {d[m].messages : m \in B} \subseteq expandToMessages(e, n)
    BY <1>1, <1>3, <1>5 DEF expandToMessages
  <2>4. G = node.messages \cup UNION {d[m].messages : m \in B}
    BY DEF G, B, Gained, Below, expandToMessages
  <2> QED
    BY <2>2, <2>3, <2>4
<1>12. ASSUME id = 0 PROVE expandToMessages(e, n) \subseteq G
  <2> SUFFICES ASSUME NEW x \in expandToMessages(e, n) PROVE x \in G
    OBVIOUS
  <2>1. PICK k \in {n} \cup B : x \in e[k].messages
    BY <1>1, <1>12 DEF expandToMessages
  <2> QED
    BY <1>0, <1>3, <1>4, <1>5, <1>6, <1>12, <2>1
<1> QED
  BY <1>8, <1>9, <1>10, <1>11, <1>12 DEF e, n, G

(* The events that the items of a block stand for. *)
CoveredBy(d, refs) == UNION {Covers(d, r) : r \in refs}

(* A round's node stands for what its block stood for. *)
LEMMA NodeForCovers ==
    ASSUME NEW d, GraphOK(d), NEW refs \in SUBSET Ref, NEW size \in Nat, refs # {},
           \A r \in refs : r.type = "summary" => r.id \in DOMAIN d,
           \A m \in DOMAIN d : d[m].messages \subseteq Nat
    PROVE  LET node == NodeFor(d, refs, size) IN
           /\ node \in Node
           /\ node.parents \subseteq DOMAIN d
           /\ node.messages \subseteq CoveredBy(d, refs)
           /\ Gained(d, node) = CoveredBy(d, refs)
           /\ (node.kind = "leaf") = (node.messages # {})
           /\ (node.kind = "condensed") = (node.parents # {})
<1> DEFINE node == NodeFor(d, refs, size)
<1>1. CASE \A r \in refs : r.type = "summary"
  <2>1. node = [kind |-> "condensed", messages |-> {}, parents |-> {r.id : r \in refs}, tokens |-> size]
    BY <1>1 DEF NodeFor
  <2>2. DOMAIN d \subseteq Nat
    BY DEF GraphOK
  <2>3. node \in Node /\ node.parents \subseteq DOMAIN d /\ node.messages = {} /\ node.parents # {}
        /\ node.kind = "condensed" /\ node.parents = {r.id : r \in refs}
    BY <1>1, <2>1, <2>2 DEF Node
  <2>4. \A r \in refs : Covers(d, r) = expandToMessages(d, r.id)
    BY <1>1 DEF Covers
  <2>5. Gained(d, node) = CoveredBy(d, refs)
    BY <2>3, <2>4 DEF Gained, CoveredBy
  <2> QED
    BY <2>3, <2>5
<1>2. CASE ~\A r \in refs : r.type = "summary"
  <2>1. node = [kind |-> "leaf", messages |-> CoveredBy(d, refs), parents |-> {}, tokens |-> size]
    BY <1>2 DEF NodeFor, LeafMessages, CoveredBy
  <2>2. ASSUME NEW r \in refs PROVE Covers(d, r) \subseteq Nat
    <3>1. r.id \in Nat
      BY DEF Ref
    <3>2. r.type = "summary" => expandToMessages(d, r.id) \subseteq Nat
      BY DEF expandToMessages, Scope
    <3> QED
      BY <3>1, <3>2 DEF Covers, Ref
  <2>3. PICK r \in refs : r.type = "message"
    BY <1>2 DEF Ref
  <2>4. Covers(d, r) # {}
    BY <2>3 DEF Covers
  <2>5. CoveredBy(d, refs) \subseteq Nat /\ CoveredBy(d, refs) # {}
    BY <2>2, <2>3, <2>4 DEF CoveredBy
  <2>6. /\ node \in Node /\ node.parents = {} /\ node.messages = CoveredBy(d, refs)
        /\ node.kind = "leaf"
    BY <2>1, <2>5 DEF Node
  <2>7. Gained(d, node) = CoveredBy(d, refs)
    BY <2>6 DEF Gained
  <2> QED
    BY <2>5, <2>6, <2>7
<1> QED
  BY <1>1, <1>2

-----------------------------------------------------------------------------
(* Blocks of neighbouring positions and their replacement.                 *)

(* Tokens are added up over a set of positions, whatever their order.      *)
Total(f) == FoldFunction(LAMBDA a, b : a + b, 0, f)

AddAt(f, total, p) == f[p] + total

SumSoFar(f, done, total) == done \subseteq DOMAIN f => total \in Nat

Totals == INSTANCE FoldTheorems WITH Op <- AddAt, Inv <- SumSoFar

LEMMA TotalType ==
    ASSUME NEW S, IsFiniteSet(S), NEW f \in [S -> Nat]
    PROVE  Total(f) \in Nat
<1>0. PICK size \in [SUBSET S -> Nat] : \A x \in SUBSET S : \A y \in x : size[x \ {y}] < size[x]
  BY Sizes
<1>1. Total(f) = Totals!SetFold(f, 0, S)
  BY DEF Total, FoldFunction, FoldFunctionOnSet, MapThenFoldSet, AddAt,
         Totals!SetFold
<1>2. SumSoFar(f, {}, 0)
  BY DEF SumSoFar
<1>3. \A T \in SUBSET S : \A p \in S \ T : \A a : SumSoFar(f, T, a) => SumSoFar(f, T \cup {p}, AddAt(f, a, p))
  BY DEF SumSoFar, AddAt
<1>4. SumSoFar(f, S, Totals!SetFold(f, 0, S))
  BY ONLY LeastNatural, <1>0, <1>2, <1>3, Totals!SetFoldKeeps
<1> QED
  BY <1>1, <1>4 DEF SumSoFar

LEMMA BlockEnds ==
    ASSUME NEW N \in Nat, NEW block \in SUBSET (1 .. N), block # {},
           \A p, q \in block, x \in 1 .. N : p <= x /\ x <= q => x \in block
    PROVE  /\ FirstPosition(block) \in 1 .. N /\ LastPosition(block) \in 1 .. N
           /\ FirstPosition(block) <= LastPosition(block)
           /\ block = FirstPosition(block) .. LastPosition(block)
<1>1. FirstPosition(block) \in block /\ \A q \in block : FirstPosition(block) <= q
  <2>1. \E p \in block : \A q \in block : p <= q
    BY LeastNatural
  <2> QED
    BY <2>1 DEF FirstPosition
<1>2. LastPosition(block) \in block /\ \A q \in block : q <= LastPosition(block)
  <2> DEFINE bounds == {b \in 1 .. N : \A q \in block : q <= b}
  <2>0. \A q \in block : q \in Nat /\ 1 <= q /\ q <= N
    OBVIOUS
  <2>o. PICK o : o \in block
    OBVIOUS
  <2>1. N \in bounds /\ bounds \in SUBSET Nat
    <3>1. N \in 1 .. N
      BY <2>0, <2>o
    <3> QED
      BY <2>0, <3>1
  <2>2. PICK b \in bounds : \A y \in bounds : b <= y
    BY <2>1, LeastNatural
  <2>3. b \in block
    <3> SUFFICES ASSUME b \notin block PROVE FALSE
      OBVIOUS
    <3>1. b \in Nat /\ b <= N /\ \A q \in block : q < b
      BY <2>0
    <3>2. b - 1 \in 1 .. N
      BY <2>0, <2>o, <3>1
    <3>4. \A q \in block : q <= b - 1
      BY <2>0, <3>1
    <3>3. b <= b - 1
      BY <2>2, <3>2, <3>4
    <3> QED
      BY <3>1, <3>3
  <2>4. \E x \in block : \A q \in block : q <= x
    BY <2>3
  <2> QED
    BY <2>4 DEF LastPosition
<1>0. \A q \in block : q \in 1 .. N
  OBVIOUS
<1>3. block \subseteq FirstPosition(block) .. LastPosition(block)
  BY <1>0, <1>1, <1>2
<1>4. ASSUME NEW x \in FirstPosition(block) .. LastPosition(block) PROVE x \in block
  <2>0. /\ FirstPosition(block) \in Nat /\ 1 <= FirstPosition(block)
        /\ LastPosition(block) \in Nat /\ LastPosition(block) <= N
    <3>1. FirstPosition(block) \in 1 .. N /\ LastPosition(block) \in 1 .. N
      BY <1>1, <1>2
    <3> QED
      BY <3>1
  <2>1. x \in 1 .. N
    BY <2>0
  <2>2. FirstPosition(block) <= x /\ x <= LastPosition(block)
    BY <1>0, <1>1, <1>2
  <2> QED
    BY <1>1, <1>2, <2>1, <2>2
<1>5. FirstPosition(block) <= LastPosition(block)
  BY <1>1, <1>2
<1> QED
  BY <1>0, <1>1, <1>2, <1>3, <1>4, <1>5

LEMMA ReplacedShape ==
    ASSUME NEW S, NEW items \in Seq(S), NEW ref \in S, NEW block,
           FirstPosition(block) \in 1 .. Len(items), LastPosition(block) \in 1 .. Len(items),
           FirstPosition(block) <= LastPosition(block)
    PROVE  LET first == FirstPosition(block)
               last == LastPosition(block)
               new == Replaced(items, block, ref)
           IN /\ new \in Seq(S)
              /\ Len(new) = Len(items) - (last - first)
              /\ \A p \in 1 .. Len(new) :
                    new[p] = IF p < first THEN items[p]
                             ELSE IF p = first THEN ref ELSE items[p + (last - first)]
<1>0. PICK first, last, len : first = FirstPosition(block) /\ last = LastPosition(block) /\ len = Len(items)
  OBVIOUS
<1> DEFINE a == SubSeq(items, 1, first - 1)
           b == SubSeq(items, last + 1, len)
           m == <<ref>>
           new == Replaced(items, block, ref)
<1>1. /\ first \in Nat \ {0} /\ last \in Nat /\ len \in Nat /\ first <= last /\ last <= len
      /\ \A i \in 1 .. len : items[i] \in S
  BY <1>0, ElementOfSeq
<1>2. new = (a \o m) \o b
  BY <1>0 DEF Replaced
<1>3. /\ a \in Seq(S) /\ Len(a) = first - 1 /\ \A i \in 1 .. first - 1 : a[i] = items[i]
  <2>1. /\ 1 \in Int /\ first - 1 \in Int /\ \A i \in 1 .. first - 1 : items[i] \in S
        /\ (first - 1) - 1 + 1 = first - 1
    BY <1>1
  <2>2. /\ a \in Seq(S) /\ Len(a) = IF 1 <= first - 1 THEN (first - 1) - 1 + 1 ELSE 0
        /\ \A i \in 1 .. (first - 1) - 1 + 1 : a[i] = items[1 + i - 1]
    BY <2>1, SubSeqProperties
  <2>3. \A i \in 1 .. first - 1 : 1 + i - 1 = i
    BY <1>1
  <2> HIDE DEF a
  <2> QED
    BY <1>1, <2>1, <2>2, <2>3
<1>4. /\ b \in Seq(S) /\ Len(b) = len - last /\ \A i \in 1 .. len - last : b[i] = items[last + i]
  <2>1. /\ last + 1 \in Int /\ len \in Int /\ \A i \in last + 1 .. len : items[i] \in S
        /\ len - (last + 1) + 1 = len - last
    BY <1>1
  <2>2. /\ b \in Seq(S) /\ Len(b) = IF last + 1 <= len THEN len - (last + 1) + 1 ELSE 0
        /\ \A i \in 1 .. len - (last + 1) + 1 : b[i] = items[(last + 1) + i - 1]
    BY <2>1, SubSeqProperties
  <2> HIDE DEF b
  <2>3. Len(b) = len - last
    BY <1>1, <2>2
  <2>4. ASSUME NEW i \in 1 .. len - last PROVE b[i] = items[last + i]
    <3>1. (last + 1) + i - 1 = last + i /\ i \in 1 .. len - (last + 1) + 1
      BY <1>1
    <3> QED
      BY <2>2, <3>1
  <2> QED
    BY <2>2, <2>3, <2>4
<1>5. m \in Seq(S) /\ Len(m) = 1 /\ m[1] = ref
  OBVIOUS
<1> HIDE DEF a, b, m, new
<1>6. /\ a \o m \in Seq(S) /\ Len(a \o m) = first
      /\ \A i \in 1 .. first : (a \o m)[i] = IF i < first THEN items[i] ELSE ref
  <2>1. /\ a \o m \in Seq(S) /\ Len(a \o m) = Len(a) + Len(m)
        /\ \A i \in 1 .. Len(a) + Len(m) : (a \o m)[i] = IF i <= Len(a) THEN a[i] ELSE m[i - Len(a)]
    BY <1>3, <1>5, ConcatProperties
  <2>2. Len(a) + Len(m) = first
    BY <1>1, <1>3, <1>5
  <2>3. ASSUME NEW i \in 1 .. first PROVE (a \o m)[i] = IF i < first THEN items[i] ELSE ref
    <3>1. CASE i < first
      BY <1>1, <1>3, <2>1, <2>2, <3>1
    <3>2. CASE i = first
      <4>1. i - Len(a) = 1 /\ ~(i <= Len(a))
        BY <1>1, <1>3, <3>2
      <4> QED
        BY <1>5, <2>1, <2>2, <3>2, <4>1
    <3>3. i < first \/ i = first
      BY <1>1
    <3> QED
      BY <3>1, <3>2, <3>3
  <2> QED
    BY <2>1, <2>2, <2>3
<1>7. /\ new \in Seq(S) /\ Len(new) = first + (len - last)
      /\ \A p \in 1 .. first + (len - last) :
            new[p] = IF p <= first THEN (a \o m)[p] ELSE b[p - first]
  <2>1. /\ (a \o m) \o b \in Seq(S) /\ Len((a \o m) \o b) = Len(a \o m) + Len(b)
        /\ \A i \in 1 .. Len(a \o m) + Len(b) :
             ((a \o m) \o b)[i] = IF i <= Len(a \o m) THEN (a \o m)[i] ELSE b[i - Len(a \o m)]
    BY <1>4, <1>6, ConcatProperties
  <2> QED
    BY <1>2, <1>4, <1>6, <2>1
<1>8. Len(new) = len - (last - first)
  BY <1>1, <1>7
<1>9. ASSUME NEW p \in 1 .. Len(new)
      PROVE  new[p] = IF p < first THEN items[p]
                      ELSE IF p = first THEN ref ELSE items[p + (last - first)]
  <2>1. CASE p <= first
    <3>1. p \in 1 .. first /\ p \in 1 .. first + (len - last)
      BY <1>1, <1>7, <2>1
    <3>2. new[p] = (a \o m)[p] /\ (a \o m)[p] = IF p < first THEN items[p] ELSE ref
      BY <1>6, <1>7, <2>1, <3>1
    <3>3. ~(p < first) => p = first
      BY <1>1, <3>1
    <3> QED
      BY <3>2, <3>3
  <2>2. CASE p > first
    <3>1. p - first \in 1 .. len - last /\ last + (p - first) = p + (last - first)
      BY <1>1, <1>7, <2>2
    <3>2. new[p] = b[p - first]
      BY <1>1, <1>7, <2>2
    <3> QED
      BY <1>1, <1>4, <2>2, <3>1, <3>2
  <2> QED
    BY <1>1, <1>7, <2>1, <2>2
<1> QED
  BY <1>0, <1>7, <1>8, <1>9 DEF new

-----------------------------------------------------------------------------
(* The candidates are neighbours and none of them is pinned.               *)
LEMMA CandidatesShape ==
    ASSUME NEW l, NEW d, NEW items \in Seq(Ref)
    PROVE  LET block == selectCandidates(l, d, items) IN
           /\ block \subseteq 1 .. Len(items)
           /\ \A p \in block : ~isPinned(l, items, p)
           /\ \A p, q \in block, x \in 1 .. Len(items) : p <= x /\ x <= q => x \in block
<1> DEFINE unpinned == {p \in 1 .. Len(items) : ~isPinned(l, items, p)}
           upTo(p) == {q \in unpinned : q <= p}
           full(p) == /\ Cardinality(upTo(p)) >= minBlock
                      /\ TokensAt(l, d, items, upTo(p)) >= BlockTarget
           prefix == {p \in unpinned : \A q \in unpinned : q < p => ~full(q)}
           block == selectCandidates(l, d, items)
<1>1. DOMAIN items = 1 .. Len(items) /\ Len(items) \in Nat
  OBVIOUS
<1>2. block = prefix \/ block = {}
  BY <1>1 DEF selectCandidates
<1> HIDE DEF block, full
<1>3. \A p \in prefix : p \in 1 .. Len(items) /\ ~isPinned(l, items, p)
  OBVIOUS
<1>4. ASSUME NEW p \in prefix, NEW q \in prefix, NEW x \in 1 .. Len(items), p <= x, x <= q
      PROVE  x \in prefix
  <2>1. p \in 1 .. Len(items) /\ q \in 1 .. Len(items)
    BY <1>3
  <2>2. x \in unpinned
    <3>1. CASE x = p
      BY <3>1
    <3>2. CASE x # p
      <4>1. x # 1
        BY <1>4, <2>1, <3>2
      <4>2. ~(q + TailWindow > Len(items))
        BY <1>3 DEF isPinned
      <4>3. ~(x + TailWindow > Len(items))
        BY <1>1, <1>4, <2>1, <4>2, PolicyAssumption
      <4> QED
        BY <4>1, <4>3 DEF isPinned
    <3> QED
      BY <3>1, <3>2
  <2>3. \A y \in unpinned : y < x => ~full(y)
    <3>1. \A y \in unpinned : y < q => ~full(y)
      OBVIOUS
    <3>2. \A y \in unpinned : y < x => y < q
      BY <1>4, <2>1
    <3> QED
      BY <3>1, <3>2
  <2> QED
    BY <2>2, <2>3
<1> HIDE DEF prefix
<1> QED
  BY <1>2, <1>3, <1>4 DEF block

Blocks(d, items) == [p \in DOMAIN items |-> Covers(d, items[p])]

RefsKnown(items, events, d) ==
    \A p \in DOMAIN items :
        IF items[p].type = "message" THEN items[p].id \in events ELSE items[p].id \in DOMAIN d

MessagesKnown(d, events) == \A n \in DOMAIN d : d[n].messages \subseteq events

LEMMA BlocksShape ==
    ASSUME NEW d, NEW events \in SUBSET Nat, MessagesKnown(d, events),
           NEW items \in Seq(Ref), RefsKnown(items, events, d)
    PROVE  /\ Blocks(d, items) \in Seq(SUBSET events)
           /\ Len(Blocks(d, items)) = Len(items)
           /\ \A p \in 1 .. Len(items) : Blocks(d, items)[p] = Covers(d, items[p])
<1>1. DOMAIN items = 1 .. Len(items) /\ Len(items) \in Nat
  OBVIOUS
<1>2. ASSUME NEW p \in 1 .. Len(items) PROVE Covers(d, items[p]) \in SUBSET events
  <2>1. \A n \in DOMAIN d : expandToMessages(d, n) \subseteq events
    BY DEF expandToMessages, Scope, MessagesKnown
  <2> QED
    BY <1>1, <2>1 DEF Covers, RefsKnown
<1>3. Blocks(d, items) \in [1 .. Len(items) -> SUBSET events]
  BY <1>1, <1>2 DEF Blocks
<1>4. \A p \in 1 .. Len(items) : Blocks(d, items)[p] = Covers(d, items[p])
  BY <1>1 DEF Blocks
<1> HIDE DEF Blocks
<1> QED
  BY <1>1, <1>3, <1>4

(* A committed round: the node is stored and stands in its block's place.  *)
LEMMA RoundKeeps ==
    ASSUME NEW d, GraphOK(d), NEW events \in SUBSET Nat, MessagesKnown(d, events),
           NEW items \in Seq(Ref), RefsKnown(items, events, d),
           NEW block, FirstPosition(block) \in 1 .. Len(items), LastPosition(block) \in 1 .. Len(items),
           FirstPosition(block) <= LastPosition(block), block = FirstPosition(block) .. LastPosition(block),
           NEW node \in Node, node.parents \subseteq DOMAIN d,
           Gained(d, node) = CoveredBy(d, {items[p] : p \in block}),
           NEW id \in {0} \cup DOMAIN d,
           Events(Blocks(d, items)) = events
    PROVE  LET e == Stored(d, id, node)
               new == Replaced(items, block, Summary(NewId(d, id)))
               joined == CoveredBy(d, {items[p] : p \in block})
           IN /\ new \in Seq(Ref)
              /\ RefsKnown(new, events, e)
              /\ MessagesKnown(e, events)
              /\ Events(Blocks(e, new)) = events
              /\ joined = UNION {Blocks(d, items)[p] : p \in block}
              /\ id = 0 => Blocks(e, new) = Replaced(Blocks(d, items), block, joined)
<1> DEFINE first == FirstPosition(block)
           last == LastPosition(block)
           gap == last - first
           n == NewId(d, id)
           e == Stored(d, id, node)
           ref == Summary(n)
           new == Replaced(items, block, ref)
           joined == CoveredBy(d, {items[p] : p \in block})
           v == Blocks(d, items)
           w == Blocks(e, new)
<1>0. /\ GraphOK(e) /\ n \in DOMAIN e /\ DOMAIN e = DOMAIN d \cup {n}
      /\ n \in DOMAIN d <=> id # 0
      /\ \A m \in DOMAIN d \ {n} : e[m] = d[m]
      /\ id = 0 => e[n] = node
      /\ id # 0 => e[n].messages = d[n].messages \cup node.messages
  <2>1. /\ GraphOK(e)
        /\ n \in DOMAIN e
        /\ DOMAIN e = DOMAIN d \cup {n}
        /\ n \in DOMAIN d <=> id # 0
        /\ \A m \in DOMAIN d \ {n} : e[m] = d[m]
        /\ id = 0 => e[n] = node
        /\ id # 0 => /\ e[n].messages = d[n].messages \cup node.messages
                     /\ e[n].parents = d[n].parents \cup node.parents
                     /\ e[n].kind = d[n].kind
    BY ONLY GraphOK(d), node \in Node, node.parents \subseteq DOMAIN d,
            id \in {0} \cup DOMAIN d, StoredShape, ZenonT(60)
  <2> HIDE DEF e, n
  <2> QED
    BY <2>1
<1>10. /\ \A m \in DOMAIN d :
            /\ expandToMessages(d, m) \subseteq expandToMessages(e, m)
            /\ expandToMessages(e, m) \subseteq expandToMessages(d, m) \cup Gained(d, node)
            /\ id = 0 => expandToMessages(e, m) = expandToMessages(d, m)
       /\ Gained(d, node) \subseteq expandToMessages(e, n)
       /\ id = 0 => expandToMessages(e, n) = Gained(d, node)
  BY ExpansionStored
<1>11. /\ v \in Seq(SUBSET events) /\ Len(v) = Len(items)
       /\ \A p \in 1 .. Len(items) : v[p] = Covers(d, items[p])
  BY BlocksShape
<1>o. /\ Gained(d, node) = joined /\ block = first .. last /\ Events(v) = events
      /\ first \in 1 .. Len(items) /\ last \in 1 .. Len(items) /\ first <= last
  OBVIOUS
<1>d. joined = UNION {Covers(d, items[p]) : p \in block}
  BY DEF CoveredBy
<1> HIDE DEF n, e, joined, v
<1>3. ref \in Ref /\ ref.type = "summary" /\ ref.id = n
  <2>1. n \in Nat
    BY <1>0 DEF GraphOK
  <2> QED
    BY <2>1 DEF Summary, Ref
<1> HIDE DEF ref
<1>4. /\ new \in Seq(Ref) /\ Len(new) = Len(items) - gap
      /\ \A p \in 1 .. Len(new) : new[p] = IF p < first THEN items[p]
                                           ELSE IF p = first THEN ref ELSE items[p + gap]
  BY <1>3, ReplacedShape
<1> HIDE DEF new
<1>g. gap = last - first
  OBVIOUS
<1> HIDE DEF first, last, gap, w
<1>1. /\ \A m \in DOMAIN d \ {n} : e[m].messages = d[m].messages
      /\ e[n].messages \subseteq (IF id = 0 THEN {} ELSE d[n].messages) \cup node.messages
  BY <1>0
<1>2. /\ Len(items) \in Nat /\ DOMAIN items = 1 .. Len(items)
      /\ gap \in Nat /\ gap = last - first
      /\ \A p \in 1 .. Len(items) : items[p] \in Ref
  BY <1>o, <1>g, ElementOfSeq
<1>5. DOMAIN new = 1 .. Len(new) /\ Len(new) \in Nat
  BY <1>4
<1>6. ASSUME NEW p \in 1 .. Len(new), p # first
      PROVE  LET q == IF p < first THEN p ELSE p + gap IN
             q \in 1 .. Len(items) /\ new[p] = items[q]
  <2>1. CASE p < first
    BY <1>2, <1>o, <1>4, <2>1
  <2>2. CASE p > first
    BY <1>2, <1>o, <1>4, <2>2
  <2> QED
    BY <1>2, <1>o, <1>6, <2>1, <2>2
<1>7. RefsKnown(new, events, e)
  <2> SUFFICES ASSUME NEW p \in 1 .. Len(new)
               PROVE  IF new[p].type = "message" THEN new[p].id \in events ELSE new[p].id \in DOMAIN e
    BY <1>5 DEF RefsKnown
  <2>1. CASE p = first
    BY <1>0, <1>3, <1>4, <2>1
  <2>2. CASE p # first
    <3>1. PICK q \in 1 .. Len(items) : new[p] = items[q]
      BY <1>6, <2>2
    <3> QED
      BY <1>0, <1>2, <3>1 DEF RefsKnown
  <2> QED
    BY <2>1, <2>2
<1>8. joined \subseteq events /\ node.messages \subseteq joined
  <2>1. ASSUME NEW p \in block PROVE Covers(d, items[p]) \subseteq events
    <3>1. \A m \in DOMAIN d : expandToMessages(d, m) \subseteq events
      BY DEF expandToMessages, Scope, MessagesKnown
    <3>2. p \in DOMAIN items
      BY <1>2, <1>o
    <3> QED
      BY <3>1, <3>2 DEF Covers, RefsKnown
  <2>2. joined \subseteq events
    BY <1>d, <2>1
  <2> QED
    BY <1>o, <2>2 DEF Gained
<1>9. MessagesKnown(e, events)
  BY <1>0, <1>1, <1>8 DEF MessagesKnown
<1>12. /\ w \in Seq(SUBSET events) /\ Len(w) = Len(new)
       /\ \A p \in 1 .. Len(new) : w[p] = Covers(e, new[p])
  BY <1>4, <1>7, <1>9, BlocksShape DEF w
<1>13. joined = UNION {v[p] : p \in block}
  <2>1. \A p \in block : v[p] = Covers(d, items[p])
    BY <1>2, <1>o, <1>11
  <2> QED
    BY <1>d, <2>1
<1>14. ASSUME NEW p \in 1 .. Len(items)
       PROVE  /\ Covers(d, items[p]) \subseteq Covers(e, items[p])
              /\ Covers(e, items[p]) \subseteq Covers(d, items[p]) \cup joined
              /\ id = 0 => Covers(e, items[p]) = Covers(d, items[p])
  <2>1. CASE items[p].type = "message"
    BY <2>1 DEF Covers
  <2>2. CASE items[p].type # "message"
    <3>1. items[p].id \in DOMAIN d
      BY <1>2, <1>o, <2>2 DEF RefsKnown
    <3> QED
      BY <1>10, <1>o, <2>2, <3>1 DEF Covers
  <2> QED
    BY <2>1, <2>2
<1>15. Covers(e, ref) = expandToMessages(e, n)
  BY <1>3 DEF Covers
<1>16. first \in 1 .. Len(new) /\ new[first] = ref
  BY <1>2, <1>o, <1>4
<1>17. Events(w) = events
  <2>1. DOMAIN v = 1 .. Len(items) /\ DOMAIN w = 1 .. Len(new)
    BY <1>11, <1>12
  <2>2. \A p \in 1 .. Len(new) : w[p] \subseteq events
    BY <1>12
  <2>3. Events(w) \subseteq events
    BY <2>1, <2>2 DEF Events
  <2>4. w[first] = Covers(e, ref)
    BY <1>12, <1>16
  <2>5. joined \subseteq w[first]
    BY <1>10, <1>o, <1>15, <2>4
  <2>6. ASSUME NEW x \in events PROVE \E p \in 1 .. Len(new) : x \in w[p]
    <3>1. PICK p \in 1 .. Len(items) : x \in v[p]
      BY <1>o, <2>1 DEF Events
    <3>2. CASE p \in block
      BY <1>13, <1>16, <2>5, <3>1, <3>2
    <3>3. CASE p < first
      <4>1. p \in 1 .. Len(new) /\ new[p] = items[p]
        BY <1>2, <1>o, <1>4, <3>3
      <4>2. x \in Covers(d, items[p])
        BY <1>11, <3>1
      <4>3. x \in w[p]
        BY <1>12, <1>14, <4>1, <4>2
      <4> QED
        BY <4>1, <4>3
    <3>4. CASE p > last
      <4>1. p - gap \in 1 .. Len(new) /\ p - gap > first /\ (p - gap) + gap = p
        BY <1>0, <1>2, <1>o, <1>4, <3>4
      <4>2. new[p - gap] = items[p]
        <5>1. p - gap \in Int /\ first \in Int /\ ~(p - gap < first) /\ p - gap # first
          BY <1>2, <1>o, <4>1
        <5> QED
          BY <1>4, <4>1, <5>1
      <4>3. x \in Covers(d, items[p])
        BY <1>11, <3>1
      <4>4. x \in w[p - gap]
        BY <1>12, <1>14, <4>1, <4>2, <4>3
      <4> QED
        BY <4>1, <4>4
    <3> QED
      BY <1>2, <1>o, <3>2, <3>3, <3>4
  <2> QED
    BY <2>1, <2>3, <2>6 DEF Events
<1>18. ASSUME id = 0 PROVE w = Replaced(v, block, joined)
  <2> DEFINE r == Replaced(v, block, joined)
  <2>1. /\ r \in Seq(SUBSET events) /\ Len(r) = Len(items) - gap
        /\ \A p \in 1 .. Len(r) : r[p] = IF p < first THEN v[p]
                                         ELSE IF p = first THEN joined ELSE v[p + gap]
    <3>1. FirstPosition(block) \in 1 .. Len(v) /\ LastPosition(block) \in 1 .. Len(v) /\ joined \in SUBSET events
      BY <1>o, <1>8, <1>11 DEF first, last
    <3> DEFINE S == SUBSET events
    <3>2. FirstPosition(block) <= LastPosition(block) /\ joined \in S /\ v \in Seq(S)
      BY <1>8, <1>11
    <3> HIDE DEF S
    <3>3. /\ r \in Seq(S)
          /\ Len(r) = Len(v) - (LastPosition(block) - FirstPosition(block))
          /\ \A p \in 1 .. Len(r) :
                r[p] = IF p < FirstPosition(block) THEN v[p]
                       ELSE IF p = FirstPosition(block) THEN joined ELSE v[p + (LastPosition(block) - FirstPosition(block))]
      BY <3>1, <3>2, ReplacedShape, SMTT(30)
    <3> HIDE DEF r
    <3> QED
      <4>1. gap = LastPosition(block) - FirstPosition(block) /\ first = FirstPosition(block)
        BY <1>g DEF first, last
      <4>2. \A p \in 1 .. Len(r) : r[p] = IF p < first THEN v[p]
                                         ELSE IF p = first THEN joined ELSE v[p + gap]
        BY <3>3, <4>1
      <4>3. Len(r) = Len(items) - gap
        BY <1>11, <3>3, <4>1
      <4> QED
        BY <3>3, <4>2, <4>3 DEF S
  <2> HIDE DEF r
  <2>2. ASSUME NEW p \in 1 .. Len(new) PROVE w[p] = r[p]
    <3>1. CASE p = first
      BY <1>4, <1>10, <1>o, <1>12, <1>15, <1>16, <1>18, <2>1, <3>1
    <3>2. CASE p # first
      <4>1. PICK q : q = IF p < first THEN p ELSE p + gap
        OBVIOUS
      <4>2. q \in 1 .. Len(items) /\ new[p] = items[q]
        BY <1>6, <3>2, <4>1
      <4>3. r[p] = v[q]
        BY <1>4, <2>1, <3>2, <4>1
      <4>4. w[p] = Covers(e, items[q]) /\ v[q] = Covers(d, items[q])
        BY <1>11, <1>12, <4>2
      <4> QED
        BY <1>14, <1>18, <4>2, <4>3, <4>4
    <3> QED
      BY <3>1, <3>2
  <2>3. w = r
    BY <1>4, <1>12, <2>1, <2>2, SeqEqual
  <2> QED
    BY <2>3 DEF r
<1> QED
  BY <1>4, <1>7, <1>9, <1>13, <1>17, <1>18 DEF e, new, ref, n, joined, v, w

-----------------------------------------------------------------------------
(* What compaction r will do if its version is still current when it       *)
(* commits: its block is one of unpinned neighbours of the context, its    *)
(* node stands for them, and its edges close no cycle.                     *)
Plan(r) ==
    /\ r.block # {}
    /\ r.block \subseteq 1 .. Len(context)
    /\ \A p \in r.block : ~isPinned(ledger, context, p)
    /\ \A p, q \in r.block, x \in 1 .. Len(context) : p <= x /\ x <= q => x \in r.block
    /\ r.node.tokens \in Nat
    /\ r.node = NodeFor(nodes, {context[p] : p \in r.block}, r.node.tokens)
    /\ r.id \in {0} \cup DOMAIN nodes
    /\ r.id # 0 => collisions > 0 /\ nodes[r.id].kind = r.node.kind
    /\ EdgesAllowed(nodes, r.id, r.node)

PlansHold ==
    \A c \in Compactors :
        compactor[c].phase \in {"replacing", "swapping"} /\ compactor[c].version = version
            => Plan(compactor[c])

ContextInv ==
    /\ context \in Seq(Ref)
    /\ collisions \in Nat
    /\ GraphOK(nodes)
    /\ RefsKnown(context, Projected, nodes)
    /\ MessagesKnown(nodes, Projected)
    /\ Lossless
    /\ InOrder
    /\ DagSound

TranscriptInv ==
    /\ SnapshotInv
    /\ BatchInv
    /\ ContextInv
    /\ PlansHold

-----------------------------------------------------------------------------
(* The blocks in order. *)

Ordered(v) == \A p, q \in DOMAIN v : p < q => \A d \in v[p], e \in v[q] : d < e

LEMMA OrderedReplaced ==
    ASSUME NEW v \in Seq(SUBSET Nat), Ordered(v),
           NEW block, FirstPosition(block) \in 1 .. Len(v), LastPosition(block) \in 1 .. Len(v),
           FirstPosition(block) <= LastPosition(block), block = FirstPosition(block) .. LastPosition(block)
    PROVE  Ordered(Replaced(v, block, UNION {v[p] : p \in block}))
<1> DEFINE first == FirstPosition(block)
           last == LastPosition(block)
           joined == UNION {v[p] : p \in block}
           w == Replaced(v, block, joined)
           S == SUBSET Nat
<1>1. \A p \in 1 .. Len(v) : v[p] \in SUBSET Nat
  BY ElementOfSeq
<1>2. joined \in S
  BY <1>1
<1>3. v \in Seq(S)
  OBVIOUS
<1>o. /\ block = first .. last /\ first \in 1 .. Len(v) /\ last \in 1 .. Len(v) /\ first <= last
      /\ joined = UNION {v[p] : p \in block}
      /\ DOMAIN v = 1 .. Len(v) /\ Len(v) \in Nat
  OBVIOUS
<1> HIDE DEF S, joined
<1>4. /\ w \in Seq(S)
      /\ Len(w) = Len(v) - (last - first)
      /\ \A p \in 1 .. Len(w) :
            w[p] = IF p < first THEN v[p]
                   ELSE IF p = first THEN joined ELSE v[p + (last - first)]
  BY <1>2, <1>3, ReplacedShape
<1> HIDE DEF w, first, last
<1>5. DOMAIN w = 1 .. Len(w) /\ Len(w) \in Nat
  BY <1>4
(* Each event of a block of w is in a block of v, those of an earlier one  *)
(* in an earlier one.                                                      *)
<1>6. ASSUME NEW p \in 1 .. Len(w), NEW x \in w[p]
      PROVE  \E i \in 1 .. Len(v) :
               /\ x \in v[i]
               /\ p < first => i = p
               /\ p = first => first <= i /\ i <= last
               /\ p > first => i = p + (last - first)
  <2>1. CASE p < first
    BY <1>4, <1>6, <1>o, <2>1
  <2>2. CASE p = first
    <3>0. first \in Int /\ last \in Int /\ ~(p < first)
      BY <1>o, <2>2
    <3>1. x \in joined
      BY <1>4, <1>6, <2>2, <3>0
    <3>2. PICK i \in block : x \in v[i]
      BY <1>o, <3>1
    <3>3. i \in 1 .. Len(v) /\ first <= i /\ i <= last
      BY <1>o, <3>0, <3>2
    <3>4. ~(p < first) /\ ~(p > first)
      BY <2>2, <3>0
    <3> QED
      BY <3>2, <3>3, <3>4
  <2>3. CASE p > first
    <3>1. p + (last - first) \in 1 .. Len(v) /\ x \in v[p + (last - first)]
      <4>1. /\ first \in Int /\ last \in Int /\ Len(v) \in Int /\ p \in Int
            /\ first <= last /\ ~(p < first) /\ p # first
            /\ 1 <= p /\ p <= Len(v) - (last - first)
        BY <1>4, <1>o, <2>3
      <4>2. p + (last - first) \in 1 .. Len(v)
        BY <4>1
      <4>3. w[p] = v[p + (last - first)]
        BY <1>4, <4>1
      <4> QED
        BY <1>6, <4>2, <4>3
    <3> QED
      BY <1>o, <2>3, <3>1
  <2>4. p < first \/ p = first \/ p > first
    BY <1>5, <1>o
  <2> QED
    BY <2>1, <2>2, <2>3, <2>4
<1>7. ASSUME NEW p \in 1 .. Len(w), NEW q \in 1 .. Len(w), p < q, NEW x \in w[p], NEW y \in w[q]
      PROVE  x < y
  <2>1. PICK i \in 1 .. Len(v) : /\ x \in v[i]
                                 /\ p < first => i = p
                                 /\ p = first => first <= i /\ i <= last
                                 /\ p > first => i = p + (last - first)
    BY <1>6
  <2>2. PICK j \in 1 .. Len(v) : /\ y \in v[j]
                                 /\ q < first => j = q
                                 /\ q = first => first <= j /\ j <= last
                                 /\ q > first => j = q + (last - first)
    BY <1>6
  <2>3. i < j
    BY <1>o, <1>7, <2>1, <2>2
  <2> QED
    BY <1>o, <2>1, <2>2, <2>3 DEF Ordered
<1>8. Ordered(w)
  BY <1>5, <1>7 DEF Ordered
<1> QED
  BY <1>8 DEF w, joined

(* Events behind the others, each an item of its own.                      *)
Extends(d, base, events, items, more) ==
    /\ base \in Nat /\ events \in SUBSET (1 .. base)
    /\ items \in Seq(Ref) /\ RefsKnown(items, events, d) /\ MessagesKnown(d, events)
    /\ Events(Blocks(d, items)) = events
    /\ more \in Seq(Ref) /\ \A k \in 1 .. Len(more) : more[k] = Message(base + k)

LEMMA AppendedBlocks ==
    ASSUME NEW d, NEW base, NEW events, NEW items, NEW more, Extends(d, base, events, items, more)
    PROVE  LET new == items \o more
               all == events \cup (base + 1 .. base + Len(more))
               v == Blocks(d, items)
               w == Blocks(d, new)
           IN /\ new \in Seq(Ref)
              /\ RefsKnown(new, all, d)
              /\ MessagesKnown(d, all)
              /\ Events(w) = all
              /\ w \in Seq(SUBSET Nat)
              /\ Len(w) = Len(v) + Len(more)
              /\ v \in Seq(SUBSET events)
              /\ \A p \in 1 .. Len(v) : w[p] = v[p]
              /\ \A k \in 1 .. Len(more) : w[Len(v) + k] = {base + k}
              /\ Ordered(v) => Ordered(w)
<1> DEFINE new == items \o more
           n == Len(more)
           m == Len(items)
           all == events \cup (base + 1 .. base + n)
           v == Blocks(d, items)
           w == Blocks(d, new)
<1>a. /\ base \in Nat /\ events \in SUBSET (1 .. base)
      /\ items \in Seq(Ref) /\ RefsKnown(items, events, d) /\ MessagesKnown(d, events)
      /\ more \in Seq(Ref) /\ \A k \in 1 .. n : more[k] = Message(base + k)
  BY DEF Extends
<1>1. /\ new \in Seq(Ref) /\ Len(new) = m + n
      /\ \A i \in 1 .. m + n : new[i] = IF i <= m THEN items[i] ELSE more[i - m]
  BY <1>a, ConcatProperties
<1>2. n \in Nat /\ m \in Nat /\ DOMAIN items = 1 .. m /\ \A k \in 1 .. n : more[k] = Message(base + k)
  BY <1>a
<1>3. all \in SUBSET Nat /\ events \subseteq all /\ events \in SUBSET Nat
  <2>1. base + 1 .. base + n \subseteq Nat /\ 1 .. base \subseteq Nat
    BY <1>2, <1>a
  <2> QED
    BY <2>1, <1>a
<1>e. Events(v) = events
  BY DEF Extends
<1>4. /\ v \in Seq(SUBSET events) /\ Len(v) = m
      /\ \A p \in 1 .. m : v[p] = Covers(d, items[p])
  BY <1>3, <1>a, BlocksShape
<1> HIDE DEF new, v, w, n, m, all
<1>5. DOMAIN new = 1 .. m + n
  BY <1>1, <1>2
<1>6. \A p \in 1 .. m : p \in 1 .. m + n /\ new[p] = items[p]
  BY <1>1, <1>2
<1>7. ASSUME NEW k \in 1 .. n PROVE m + k \in 1 .. m + n /\ new[m + k] = Message(base + k)
  <2>1. m + k \in 1 .. m + n /\ ~(m + k <= m) /\ (m + k) - m = k
    BY <1>2
  <2> QED
    BY <1>1, <1>2, <2>1
<1>8. \A p \in 1 .. m + n : p \in 1 .. m \/ \E k \in 1 .. n : p = m + k
  <2> SUFFICES ASSUME NEW p \in 1 .. m + n, p \notin 1 .. m PROVE \E k \in 1 .. n : p = m + k
    OBVIOUS
  <2>1. p - m \in 1 .. n /\ p = m + (p - m)
    BY <1>2
  <2> QED
    BY <2>1
<1>9. \A k \in 1 .. n : Message(base + k).type = "message" /\ Message(base + k).id = base + k
  BY DEF Message
<1>10. RefsKnown(new, all, d)
  <2>1. ASSUME NEW p \in 1 .. m
        PROVE  IF new[p].type = "message" THEN new[p].id \in all ELSE new[p].id \in DOMAIN d
    BY <1>a, <1>2, <1>3, <1>6 DEF RefsKnown
  <2>2. ASSUME NEW k \in 1 .. n PROVE base + k \in all
    BY <1>a, <1>2 DEF all
  <2> QED
    BY <1>5, <1>7, <1>8, <1>9, <2>1, <2>2 DEF RefsKnown
<1>11. MessagesKnown(d, all)
  BY <1>a, <1>3 DEF MessagesKnown
<1>12. /\ w \in Seq(SUBSET all) /\ Len(w) = m + n
       /\ \A p \in 1 .. m + n : w[p] = Covers(d, new[p])
  <2>1. /\ w \in Seq(SUBSET all)
        /\ Len(w) = Len(new)
        /\ \A p \in 1 .. Len(new) : w[p] = Covers(d, new[p])
    BY <1>1, <1>3, <1>10, <1>11, BlocksShape DEF w
  <2> QED
    BY <1>1, <2>1
<1>13. \A p \in 1 .. m : w[p] = v[p]
  BY <1>4, <1>6, <1>12
<1>14. \A k \in 1 .. n : w[m + k] = {base + k}
  BY <1>7, <1>9, <1>12 DEF Covers
<1>15. w \in Seq(SUBSET Nat)
  <2>1. w \in [1 .. m + n -> SUBSET all] /\ m + n \in Nat
    BY <1>2, <1>12
  <2>2. w \in [1 .. m + n -> SUBSET Nat]
    BY <1>3, <2>1
  <2> QED
    BY <2>1, <2>2
<1>16. DOMAIN v = 1 .. m /\ DOMAIN w = 1 .. m + n
  BY <1>2, <1>4, <1>12
<1>17. Events(w) = all
  <2>1. Events(w) \subseteq all
    BY <1>12, <1>16 DEF Events
  <2>2. events \subseteq Events(w)
    BY <1>e, <1>6, <1>13, <1>16 DEF Events
  <2>3. \A k \in 1 .. n : base + k \in Events(w)
    BY <1>7, <1>14, <1>16 DEF Events
  <2>4. \A x \in base + 1 .. base + n : \E k \in 1 .. n : x = base + k
    <3> SUFFICES ASSUME NEW x \in base + 1 .. base + n PROVE \E k \in 1 .. n : x = base + k
      OBVIOUS
    <3>1. x - base \in 1 .. n /\ x = base + (x - base)
      BY <1>a, <1>2
    <3> QED
      BY <3>1
  <2> QED
    BY <2>1, <2>2, <2>3, <2>4 DEF all
<1>18. ASSUME Ordered(v) PROVE Ordered(w)
  <2> SUFFICES ASSUME NEW p \in 1 .. m + n, NEW q \in 1 .. m + n, p < q,
                      NEW x \in w[p], NEW y \in w[q]
               PROVE  x < y
    BY <1>16 DEF Ordered
  <2>1. CASE q \in 1 .. m
    <3>1. p \in 1 .. m
      BY <1>2, <2>1
    <3> QED
      BY <1>13, <1>16, <1>18, <2>1, <3>1 DEF Ordered
  <2>2. CASE q \notin 1 .. m
    <3>1. PICK k \in 1 .. n : q = m + k
      BY <1>8, <2>2
    <3>2. y = base + k
      BY <1>14, <3>1
    <3>3. CASE p \in 1 .. m
      <4>1. x \in events
        BY <1>e, <1>13, <1>16, <3>3 DEF Events
      <4>2. x \in Nat /\ x <= base
        BY <1>a, <4>1
      <4> QED
        BY <1>a, <3>1, <3>2, <4>2
    <3>4. CASE p \notin 1 .. m
      <4>1. PICK j \in 1 .. n : p = m + j
        BY <1>8, <3>4
      <4>2. x = base + j /\ j < k
        BY <1>2, <1>14, <3>1, <4>1
      <4> QED
        BY <1>a, <3>1, <3>2, <4>1, <4>2
    <3> QED
      BY <3>3, <3>4
  <2> QED
    BY <2>1, <2>2
<1> QED
  BY <1>1, <1>4, <1>10, <1>11, <1>12, <1>13, <1>14, <1>15, <1>17, <1>18 DEF new, v, w, n, m, all

-----------------------------------------------------------------------------
(* The invariant is kept.  Three kinds of step: those that leave context   *)
(* and DAG alone, an append, and a committed round.                        *)

(* The ledger may have grown, but by handles only. *)
NothingProjected ==
    /\ \A e \in DOMAIN ledger : e \in DOMAIN ledger' /\ ledger'[e] = ledger[e]
    /\ Projected' = Projected
    /\ collisions' \in Nat /\ collisions' >= collisions

LEMMA ViewIsBlocks == View = Blocks(nodes, context)
BY DEF View, Blocks

LEMMA ContextStays ==
    ASSUME ContextInv, UNCHANGED <<context, nodes>>, NothingProjected
    PROVE  ContextInv' /\ View' = View
<1>1. View' = View
  BY DEF View
<1>2. Lossless'
  BY <1>1 DEF ContextInv, Lossless, NothingProjected
<1>3. InOrder'
  <2> SUFFICES ASSUME collisions' = 0
               PROVE  LET v == View IN \A p, q \in DOMAIN v : p < q => \A d \in v[p], e \in v[q] : d < e
    BY <1>1 DEF InOrder
  <2>1. collisions = 0
    BY DEF ContextInv, NothingProjected
  <2> QED
    BY <2>1 DEF ContextInv, InOrder
<1>4. DagSound'
  BY DEF ContextInv, DagSound
<1>5. RefsKnown(context, Projected, nodes)' /\ MessagesKnown(nodes, Projected)' /\ GraphOK(nodes)'
  BY DEF ContextInv, NothingProjected
<1> QED
  BY <1>1, <1>2, <1>3, <1>4, <1>5 DEF ContextInv, NothingProjected

LEMMA PlanStays ==
    ASSUME ContextInv, UNCHANGED <<context, nodes>>, NothingProjected, NEW r, Plan(r)
    PROVE  Plan(r)'
<1>1. ASSUME NEW p \in 1 .. Len(context), ~isPinned(ledger, context, p)
      PROVE  ~isPinned(ledger, context, p)'
  <2>1. CASE p = 1 /\ context[p].type = "message"
    <3>1. context[p].id \in Projected
      BY <2>1 DEF ContextInv, RefsKnown
    <3>2. ledger'[context[p].id] = ledger[context[p].id]
      BY <3>1 DEF Projected, NothingProjected
    <3> QED
      BY <1>1, <3>2 DEF isPinned
  <2>2. CASE ~(p = 1 /\ context[p].type = "message")
    BY <1>1, <2>2 DEF isPinned
  <2> QED
    BY <2>1, <2>2
<1>2. r.block \subseteq 1 .. Len(context) /\ \A p \in r.block : ~isPinned(ledger, context, p)'
  BY <1>1 DEF Plan
<1>3. r.id # 0 => collisions' > 0
  BY DEF Plan, ContextInv, NothingProjected
<1> QED
  BY <1>2, <1>3 DEF Plan

LEMMA PlansStay ==
    ASSUME ContextInv, PlansHold, UNCHANGED <<context, nodes, version, compactor>>, NothingProjected
    PROVE  PlansHold'
<1> SUFFICES ASSUME NEW c \in Compactors, compactor[c].phase \in {"replacing", "swapping"},
                    compactor[c].version = version
             PROVE  Plan(compactor[c])'
  BY DEF PlansHold
<1>1. PICK r : r = compactor[c]
  OBVIOUS
<1>2. Plan(r)
  BY <1>1 DEF PlansHold
<1>3. Plan(r)'
  BY <1>2, PlanStays
<1>4. r = compactor'[c]
  BY <1>1
<1> QED
  BY <1>3, <1>4 DEF Plan

LEMMA PlansOwn ==
    ASSUME SnapshotInv, ContextInv, PlansHold, UNCHANGED <<context, nodes, version>>, NothingProjected,
           NEW c \in Compactors, NEW x, Set(c, x),
           x.phase \in {"replacing", "swapping"} /\ x.version = version => Plan(x)'
    PROVE  PlansHold'
<1>1. /\ compactor'[c] = x
      /\ \A d \in Compactors : d # c => compactor'[d] = compactor[d]
  BY DEF SnapshotInv, Set
<1> SUFFICES ASSUME NEW d \in Compactors, compactor'[d].phase \in {"replacing", "swapping"},
                    compactor'[d].version = version
             PROVE  Plan(compactor[d])'
  BY DEF PlansHold
<1>2. CASE d = c
  BY <1>1, <1>2 DEF Plan
<1>3. CASE d # c
  <2>1. PICK r : r = compactor[d]
    OBVIOUS
  <2>2. Plan(r)
    BY <1>1, <1>3, <2>1 DEF PlansHold
  <2>3. Plan(r)'
    BY <2>2, PlanStays
  <2>4. r = compactor'[d]
    BY <1>1, <1>3, <2>1
  <2> QED
    BY <2>3, <2>4 DEF Plan
<1> QED
  BY <1>2, <1>3

(* A step that changes the context makes every other plan stale.           *)
LEMMA PlansOvertaken ==
    ASSUME SnapshotInv, version' = version + 1,
           \A d \in Compactors : \/ compactor'[d] = compactor[d]
                                 \/ compactor'[d].phase \notin {"replacing", "swapping"}
    PROVE  PlansHold'
<1> SUFFICES ASSUME NEW d \in Compactors, compactor'[d].phase \in {"replacing", "swapping"},
                    compactor'[d].version = version'
             PROVE  FALSE
  BY DEF PlansHold
<1>1. compactor[d].version \in Nat /\ compactor[d].version <= version /\ version \in Nat
  BY DEF SnapshotInv, Versioned
<1> QED
  BY <1>1

-----------------------------------------------------------------------------
LEMMA ProjectedWithin ==
    ASSUME ledger \in Seq(Event)
    PROVE  Projected \in SUBSET (1 .. Len(ledger))
BY DEF Projected

LEMMA AppendKeeps ==
    ASSUME TranscriptInv, NEW c \in Clients, appendEvents(c)
    PROVE  /\ ContextInv' /\ PlansHold'
           /\ \E n \in Nat \ {0} :
                /\ View \in Seq(SUBSET Nat) /\ View' \in Seq(SUBSET Nat)
                /\ Len(View') = Len(View) + n
                /\ \A p \in 1 .. Len(View) : View'[p] = View[p]
                /\ \A k \in 1 .. n : View'[Len(View) + k] = {Len(ledger) + k}
<1>0. PICK q, base, n, more :
        /\ q = client[c].request /\ base = Len(ledger) /\ n = Len(q.events)
        /\ more = [k \in DOMAIN q.events |-> Message(base + k)]
  OBVIOUS
<1>1. /\ ledger' = ledger \o Persisted(q)
      /\ context' = context \o more
      /\ version' = version + 1
      /\ UNCHANGED <<nodes, compactor, collisions>>
      /\ q \in Requests
  <2>1. client[c].phase = "checked" /\ q \in Requests
    BY <1>0 DEF appendEvents, TranscriptInv, BatchInv
  <2> QED
    BY <1>0, <2>1 DEF appendEvents, AppendedVersion
<1>2. /\ ledger \in Seq(Event) /\ base \in Nat /\ n \in Nat \ {0}
      /\ Persisted(q) \in Seq(Event) /\ Len(Persisted(q)) = n
  BY <1>0, <1>1, PersistedType DEF TranscriptInv, BatchInv, BatchesWhole
<1>3. DOMAIN q.events = 1 .. n
  <2>1. q.events \in Seq([tokens : Nat, system : BOOLEAN])
    BY <1>1, PersistedType DEF Request
  <2> QED
    BY <1>0, <2>1
<1>4. /\ more \in Seq(Ref) /\ Len(more) = n
      /\ \A k \in 1 .. Len(more) : more[k] = Message(base + k)
  <2>1. more \in [1 .. n -> Ref] /\ \A k \in 1 .. n : more[k] = Message(base + k)
    BY <1>0, <1>2, <1>3 DEF Message, Ref
  <2> QED
    BY <1>2, <2>1
<1>5. /\ Len(ledger') = base + n
      /\ \A i \in 1 .. base + n :
            ledger'[i] = IF i <= base THEN ledger[i] ELSE Persisted(q)[i - base]
  <2>1. Len(ledger) = base /\ Len(Persisted(q)) = n
    BY <1>0, <1>2
  <2>2. /\ Len(ledger \o Persisted(q)) = Len(ledger) + Len(Persisted(q))
        /\ \A i \in 1 .. Len(ledger) + Len(Persisted(q)) :
             (ledger \o Persisted(q))[i] =
                 IF i <= Len(ledger) THEN ledger[i] ELSE Persisted(q)[i - Len(ledger)]
    BY <1>2, ConcatProperties
  <2> QED
    BY <1>1, <2>1, <2>2
<1>6. /\ DOMAIN ledger = 1 .. base /\ DOMAIN ledger' = 1 .. base + n
      /\ \A i \in 1 .. base : ledger'[i] = ledger[i]
  <2>1. ledger' \in Seq(Event)
    BY <1>1, <1>2, ConcatProperties
  <2>2. DOMAIN ledger = 1 .. base /\ DOMAIN ledger' = 1 .. base + n
    BY <1>0, <1>2, <1>5, <2>1
  <2>3. \A i \in 1 .. base : i \in 1 .. base + n /\ i <= base
    BY <1>2
  <2> QED
    BY <1>5, <2>2, <2>3
<1>7. \A j \in 1 .. n : Persisted(q)[j].projected = TRUE
  BY <1>3 DEF Persisted
<1>8. Projected' = Projected \cup (base + 1 .. base + n)
  <2>1. ASSUME NEW i \in 1 .. base + n, i > base PROVE ledger'[i].projected = TRUE
    <3>1. i - base \in 1 .. n /\ ~(i <= base)
      BY <1>2, <2>1
    <3> QED
      BY <1>5, <1>7, <3>1
  <2>2. 1 .. base + n = (1 .. base) \cup (base + 1 .. base + n)
    BY <1>2
  <2>3. \A i \in base + 1 .. base + n : i \in 1 .. base + n /\ i > base
    BY <1>2
  <2> QED
    BY <1>6, <2>1, <2>2, <2>3 DEF Projected
<1> DEFINE all == Projected \cup (base + 1 .. base + n)
           new == context \o more
           v == Blocks(nodes, context)
           w == Blocks(nodes, new)
<1>9. Projected \in SUBSET (1 .. base)
  BY <1>0, <1>2, ProjectedWithin
<1>10. /\ context \in Seq(Ref) /\ GraphOK(nodes) /\ RefsKnown(context, Projected, nodes)
       /\ MessagesKnown(nodes, Projected) /\ Events(Blocks(nodes, context)) = Projected
       /\ collisions \in Nat /\ InOrder /\ DagSound /\ Lossless
  BY ViewIsBlocks DEF TranscriptInv, ContextInv, Lossless
<1>11. /\ new \in Seq(Ref)
       /\ RefsKnown(new, all, nodes)
       /\ MessagesKnown(nodes, all)
       /\ Events(w) = all
       /\ w \in Seq(SUBSET Nat) /\ Len(w) = Len(v) + n
       /\ v \in Seq(SUBSET Projected)
       /\ \A p \in 1 .. Len(v) : w[p] = v[p]
       /\ \A k \in 1 .. n : w[Len(v) + k] = {base + k}
       /\ Ordered(v) => Ordered(w)
  <2>1. PICK events : events = Projected
    OBVIOUS
  <2> DEFINE e == events \cup (base + 1 .. base + Len(more))
  <2>2. /\ new \in Seq(Ref)
        /\ RefsKnown(new, e, nodes)
        /\ MessagesKnown(nodes, e)
        /\ Events(w) = e
        /\ w \in Seq(SUBSET Nat)
        /\ Len(w) = Len(v) + Len(more)
        /\ v \in Seq(SUBSET events)
        /\ \A p \in 1 .. Len(v) : w[p] = v[p]
        /\ \A k \in 1 .. Len(more) : w[Len(v) + k] = {base + k}
        /\ Ordered(v) => Ordered(w)
    <3>1. /\ events \in SUBSET (1 .. base) /\ MessagesKnown(nodes, events)
          /\ RefsKnown(context, events, nodes) /\ Events(v) = events
          /\ base \in Nat /\ context \in Seq(Ref) /\ more \in Seq(Ref)
          /\ \A k \in 1 .. Len(more) : more[k] = Message(base + k)
      BY <1>2, <1>4, <1>9, <1>10, <2>1
    <3>2. Extends(nodes, base, events, context, more)
      BY <3>1 DEF Extends
    <3> QED
      BY <3>2, AppendedBlocks
  <2> HIDE DEF v, w, new
  <2> QED
    BY <1>4, <2>1, <2>2
<1>12. View = v /\ View' = w
  BY <1>1 DEF View, Blocks
<1> HIDE DEF v, w, new, all
<1>13. Lossless'
  BY <1>8, <1>11, <1>12 DEF Lossless, all
<1>14. InOrder'
  BY <1>1, <1>10, <1>11, <1>12 DEF InOrder, Ordered
<1>15. DagSound' /\ GraphOK(nodes)'
  BY <1>1, <1>10 DEF DagSound
<1>16. RefsKnown(context, Projected, nodes)' /\ MessagesKnown(nodes, Projected)'
  BY <1>1, <1>8, <1>11 DEF all, new
<1>17. ContextInv'
  BY <1>1, <1>10, <1>11, <1>13, <1>14, <1>15, <1>16 DEF ContextInv, new
<1>18. PlansHold'
  BY <1>1, PlansOvertaken DEF TranscriptInv
<1>19. v \in Seq(SUBSET Nat)
  <2>1. v \in [1 .. Len(v) -> SUBSET Projected] /\ Len(v) \in Nat /\ Projected \subseteq Nat
    BY <1>9, <1>11
  <2>2. v \in [1 .. Len(v) -> SUBSET Nat]
    BY <2>1
  <2> QED
    BY <2>1, <2>2
<1> QED
  BY <1>0, <1>2, <1>11, <1>12, <1>17, <1>18, <1>19

LEMMA HandleKeeps ==
    ASSUME ledger \in Seq(Event), AppendHandle, collisions \in Nat
    PROVE  NothingProjected
<1>0. PICK x : x = [key |-> NoKey, payload |-> 0, tokens |-> 1, system |-> FALSE, projected |-> FALSE]
  OBVIOUS
<1>1. ledger' = Append(ledger, x) /\ x \in Event /\ x.projected = FALSE /\ collisions' = collisions
  BY <1>0 DEF AppendHandle, Event, NoKey
<1>2. /\ ledger' \in Seq(Event) /\ Len(ledger') = Len(ledger) + 1 /\ ledger'[Len(ledger) + 1] = x
      /\ \A i \in 1 .. Len(ledger) : ledger'[i] = ledger[i]
  BY <1>1, AppendProperties
<1>3. DOMAIN ledger = 1 .. Len(ledger) /\ DOMAIN ledger' = 1 .. Len(ledger) + 1 /\ Len(ledger) \in Nat
  BY <1>2
<1>4. \A e \in DOMAIN ledger : e \in DOMAIN ledger' /\ ledger'[e] = ledger[e]
  BY <1>2, <1>3
<1>5. \A e \in DOMAIN ledger' : e \in DOMAIN ledger \/ e = Len(ledger) + 1
  BY <1>3
<1>6. Projected' = Projected
  BY <1>1, <1>2, <1>4, <1>5 DEF Projected
<1> QED
  BY <1>1, <1>4, <1>6 DEF NothingProjected

(* A round that finds its version current commits what it has planned.     *)
LEMMA RoundCommits ==
    ASSUME TranscriptInv, NEW c \in Compactors, replaceContextItems(c), Current(compactor[c])
    PROVE  \E block, id, node :
             /\ FirstPosition(block) \in 1 .. Len(context) /\ LastPosition(block) \in 1 .. Len(context)
             /\ FirstPosition(block) <= LastPosition(block) /\ block = FirstPosition(block) .. LastPosition(block)
             /\ \A p \in block : ~isPinned(ledger, context, p)
             /\ node \in Node /\ node.parents \subseteq DOMAIN nodes
             /\ Gained(nodes, node) = CoveredBy(nodes, {context[p] : p \in block})
             /\ (node.kind = "leaf") = (node.messages # {})
             /\ (node.kind = "condensed") = (node.parents # {})
             /\ id \in {0} \cup DOMAIN nodes
             /\ id # 0 => collisions > 0 /\ nodes[id].kind = node.kind
             /\ EdgesAllowed(nodes, id, node)
             /\ nodes' = Stored(nodes, id, node)
             /\ context' = Replaced(context, block, Summary(NewId(nodes, id)))
             /\ version' = version + 1
             /\ UNCHANGED <<ledger, collisions>>
             /\ \A d \in Compactors : \/ compactor'[d] = compactor[d]
                                      \/ compactor'[d].phase \notin {"replacing", "swapping"}
<1>0. PICK r : r = compactor[c]
  OBVIOUS
<1>1. /\ r.phase = "swapping" /\ r.version = version
      /\ nodes' = Stored(nodes, r.id, r.node)
      /\ context' = Replaced(r.items, r.block, Summary(NewId(nodes, r.id)))
      /\ version' = version + 1
      /\ \E y : Set(c, AtHead(y))
      /\ UNCHANGED <<ledger, collisions>>
  BY <1>0 DEF replaceContextItems, Current, NewId
<1>2. r.items = context
  BY <1>0, <1>1 DEF TranscriptInv, SnapshotInv, SnapshotAgreement
<1>3. Plan(r)
  BY <1>0, <1>1 DEF TranscriptInv, PlansHold
<1>4. context \in Seq(Ref) /\ GraphOK(nodes) /\ Len(context) \in Nat /\ DOMAIN context = 1 .. Len(context)
  BY DEF TranscriptInv, ContextInv
<1>5. /\ FirstPosition(r.block) \in 1 .. Len(context) /\ LastPosition(r.block) \in 1 .. Len(context)
      /\ FirstPosition(r.block) <= LastPosition(r.block)
      /\ r.block = FirstPosition(r.block) .. LastPosition(r.block)
  BY <1>3, <1>4, BlockEnds DEF Plan
<1> DEFINE refs == {context[p] : p \in r.block}
           node == NodeFor(nodes, refs, r.node.tokens)
<1>6. /\ refs \in SUBSET Ref /\ refs # {} /\ r.node.tokens \in Nat
      /\ \A x \in refs : x.type = "summary" => x.id \in DOMAIN nodes
      /\ \A m \in DOMAIN nodes : nodes[m].messages \subseteq Nat
  <2>1. refs \in SUBSET Ref /\ refs # {} /\ r.node.tokens \in Nat
    BY <1>3, <1>4, ElementOfSeq DEF Plan
  <2>2. \A p \in r.block : context[p].type = "summary" => context[p].id \in DOMAIN nodes
    BY <1>3, <1>4 DEF Plan, TranscriptInv, ContextInv, RefsKnown
  <2>3. Projected \subseteq Nat
    BY ProjectedWithin DEF TranscriptInv, BatchInv, BatchesWhole
  <2>4. \A m \in DOMAIN nodes : nodes[m].messages \subseteq Nat
    BY <2>3 DEF TranscriptInv, ContextInv, MessagesKnown
  <2> QED
    BY <2>1, <2>2, <2>4
<1>7. /\ node \in Node
      /\ node.parents \subseteq DOMAIN nodes
      /\ node.messages \subseteq CoveredBy(nodes, refs)
      /\ Gained(nodes, node) = CoveredBy(nodes, refs)
      /\ (node.kind = "leaf") = (node.messages # {})
      /\ (node.kind = "condensed") = (node.parents # {})
  <2> HIDE DEF refs
  <2> QED
    BY <1>4, <1>6, NodeForCovers
<1>8. r.node = node
  BY <1>3 DEF Plan
<1>9. \A d \in Compactors : \/ compactor'[d] = compactor[d]
                            \/ compactor'[d].phase \notin {"replacing", "swapping"}
  <2>1. PICK y : Set(c, AtHead(y))
    BY <1>1
  <2>2. AtHead(y).phase \notin {"replacing", "swapping"}
    BY AtHeadShape DEF Versioned
  <2> QED
    BY <2>1, <2>2 DEF TranscriptInv, SnapshotInv, Set
<1> HIDE DEF node
<1>10. /\ r.id \in {0} \cup DOMAIN nodes
       /\ r.id # 0 => collisions > 0 /\ nodes[r.id].kind = node.kind
       /\ EdgesAllowed(nodes, r.id, node)
       /\ \A p \in r.block : ~isPinned(ledger, context, p)
  BY <1>3, <1>8 DEF Plan
<1>11. /\ nodes' = Stored(nodes, r.id, node)
       /\ context' = Replaced(context, r.block, Summary(NewId(nodes, r.id)))
  BY <1>1, <1>2, <1>8
<1> QED
  BY <1>1, <1>5, <1>7, <1>9, <1>10, <1>11

-----------------------------------------------------------------------------
(* What a committed round does: the invariant is kept, the pinned items    *)
(* stay, and unless the node's content repeats, blocks are condensed.      *)
LEMMA RoundKeepsAll ==
    ASSUME TranscriptInv, NEW c \in Compactors, replaceContextItems(c), Current(compactor[c])
    PROVE  /\ ContextInv' /\ PlansHold'
           /\ collisions' = 0 => Abstract!Condense
           /\ \A k \in 0 .. TailWindow - 1 :
                 k < Len(context) => context'[Len(context') - k] = context[Len(context) - k]
           /\ isPinned(ledger, context, 1) => context'[1] = context[1]
<1>1. PICK block, id, node :
        /\ FirstPosition(block) \in 1 .. Len(context) /\ LastPosition(block) \in 1 .. Len(context)
        /\ FirstPosition(block) <= LastPosition(block) /\ block = FirstPosition(block) .. LastPosition(block)
        /\ \A p \in block : ~isPinned(ledger, context, p)
        /\ node \in Node /\ node.parents \subseteq DOMAIN nodes
        /\ Gained(nodes, node) = CoveredBy(nodes, {context[p] : p \in block})
        /\ (node.kind = "leaf") = (node.messages # {})
        /\ (node.kind = "condensed") = (node.parents # {})
        /\ id \in {0} \cup DOMAIN nodes
        /\ id # 0 => collisions > 0 /\ nodes[id].kind = node.kind
        /\ EdgesAllowed(nodes, id, node)
        /\ nodes' = Stored(nodes, id, node)
        /\ context' = Replaced(context, block, Summary(NewId(nodes, id)))
        /\ version' = version + 1
        /\ UNCHANGED <<ledger, collisions>>
        /\ \A d \in Compactors : \/ compactor'[d] = compactor[d]
                                 \/ compactor'[d].phase \notin {"replacing", "swapping"}
  BY RoundCommits
<1>2. /\ context \in Seq(Ref) /\ GraphOK(nodes) /\ RefsKnown(context, Projected, nodes)
      /\ MessagesKnown(nodes, Projected) /\ Events(Blocks(nodes, context)) = Projected
      /\ collisions \in Nat /\ InOrder /\ DagSound /\ Lossless
  BY ViewIsBlocks DEF TranscriptInv, ContextInv, Lossless
<1>3. Projected \in SUBSET Nat /\ Projected' = Projected
  <2>1. Projected \in SUBSET (1 .. Len(ledger)) /\ Len(ledger) \in Nat
    BY ProjectedWithin DEF TranscriptInv, BatchInv, BatchesWhole
  <2> QED
    BY <1>1, <2>1 DEF Projected
<1> DEFINE first == FirstPosition(block)
           last == LastPosition(block)
           n == NewId(nodes, id)
           ref == Summary(n)
           new == Replaced(context, block, ref)
           joined == CoveredBy(nodes, {context[p] : p \in block})
           v == Blocks(nodes, context)
           e == Stored(nodes, id, node)
           w == Blocks(e, new)
<1>4. /\ new \in Seq(Ref)
      /\ RefsKnown(new, Projected, e)
      /\ MessagesKnown(e, Projected)
      /\ Events(w) = Projected
      /\ joined = UNION {v[p] : p \in block}
      /\ id = 0 => w = Replaced(v, block, joined)
  <2>1. PICK events : events = Projected
    OBVIOUS
  <2>2. /\ GraphOK(nodes) /\ events \in SUBSET Nat /\ MessagesKnown(nodes, events)
        /\ context \in Seq(Ref) /\ RefsKnown(context, events, nodes)
        /\ Events(Blocks(nodes, context)) = events
    BY <1>2, <1>3, <2>1
  <2>3. /\ FirstPosition(block) \in 1 .. Len(context) /\ LastPosition(block) \in 1 .. Len(context)
        /\ FirstPosition(block) <= LastPosition(block) /\ block = FirstPosition(block) .. LastPosition(block)
        /\ node \in Node /\ node.parents \subseteq DOMAIN nodes
        /\ Gained(nodes, node) = CoveredBy(nodes, {context[p] : p \in block})
        /\ id \in {0} \cup DOMAIN nodes
    BY <1>1
  <2>4. /\ new \in Seq(Ref)
        /\ RefsKnown(new, events, e)
        /\ MessagesKnown(e, events)
        /\ Events(Blocks(e, new)) = events
        /\ joined = UNION {Blocks(nodes, context)[p] : p \in block}
        /\ id = 0 => Blocks(e, new) = Replaced(Blocks(nodes, context), block, joined)
    BY <2>2, <2>3, RoundKeeps, SMTT(30)
  <2> HIDE DEF e, new, joined
  <2> QED
    BY <2>1, <2>4
<1>5. View = v /\ View' = w /\ nodes' = e /\ context' = new
  BY <1>1 DEF View, Blocks
<1>6. /\ v \in Seq(SUBSET Nat) /\ Len(v) = Len(context) /\ DOMAIN v = 1 .. Len(v)
  <2>1. PICK events : events = Projected
    OBVIOUS
  <2>2. v \in Seq(SUBSET events) /\ Len(v) = Len(context)
    BY <1>2, <1>3, <2>1, BlocksShape
  <2> HIDE DEF v
  <2>3. v \in [1 .. Len(v) -> SUBSET events] /\ Len(v) \in Nat
    BY <2>2
  <2>4. v \in [1 .. Len(v) -> SUBSET Nat]
    BY <1>3, <2>1, <2>3
  <2> QED
    BY <2>2, <2>3, <2>4
<1>7. /\ new \in Seq(Ref)
      /\ Len(new) = Len(context) - (last - first)
      /\ \A p \in 1 .. Len(new) :
            new[p] = IF p < first THEN context[p]
                     ELSE IF p = first THEN ref ELSE context[p + (last - first)]
  <2>1. n \in Nat
    BY <1>1, <1>2 DEF GraphOK, NewId
  <2>2. ref \in Ref
    BY <2>1 DEF Summary, Ref
  <2> HIDE DEF ref
  <2> QED
    BY <1>1, <1>2, <2>2, ReplacedShape
<1>8. /\ first \in 1 .. Len(context) /\ last \in 1 .. Len(context) /\ first <= last
      /\ block = first .. last /\ DOMAIN context = 1 .. Len(context) /\ Len(context) \in Nat
  BY <1>1, <1>2
<1>9. /\ node \in Node /\ node.parents \subseteq DOMAIN nodes /\ id \in {0} \cup DOMAIN nodes
      /\ (node.kind = "leaf") = (node.messages # {})
      /\ (node.kind = "condensed") = (node.parents # {})
      /\ id # 0 => collisions > 0 /\ nodes[id].kind = node.kind
      /\ EdgesAllowed(nodes, id, node)
  BY <1>1
<1>10. /\ GraphOK(e)
       /\ n \in DOMAIN e
       /\ DOMAIN e = DOMAIN nodes \cup {n}
       /\ n \in DOMAIN nodes <=> id # 0
       /\ \A m \in DOMAIN nodes \ {n} : e[m] = nodes[m]
       /\ id = 0 => e[n] = node
       /\ id # 0 => /\ e[n].messages = nodes[n].messages \cup node.messages
                    /\ e[n].parents = nodes[n].parents \cup node.parents
                    /\ e[n].kind = nodes[n].kind
  BY <1>2, <1>9, StoredShape, ZenonT(60)
<1>11. Acyclic(e)
  <2>1. Acyclic(nodes)
    BY <1>2 DEF DagSound, Acyclic
  <2> QED
    BY <1>2, <1>9, <2>1, AcyclicStored
<1>12. id # 0 => n = id
  BY DEF NewId
<1>13. collisions' = collisions /\ ledger' = ledger /\ version' = version + 1
  BY <1>1
<1>14. PlansHold'
  BY <1>1, PlansOvertaken DEF TranscriptInv
<1>15. \A p \in block : ~isPinned(ledger, context, p)
  BY <1>1
<1> HIDE DEF first, last, n, ref, new, joined, v, e, w
<1>16. DagSound'
  <2> SUFFICES ASSUME NEW m \in DOMAIN e
               PROVE  /\ (e[m].kind = "leaf") = (e[m].messages # {})
                      /\ (e[m].kind = "condensed") = (e[m].parents # {})
    BY <1>5, <1>11 DEF DagSound, Acyclic
  <2>1. CASE m # n
    BY <1>2, <1>10, <2>1 DEF DagSound
  <2>2. CASE m = n /\ id = 0
    BY <1>9, <1>10, <2>2
  <2>3. CASE m = n /\ id # 0
    <3>1. /\ (nodes[n].kind = "leaf") = (nodes[n].messages # {})
          /\ (nodes[n].kind = "condensed") = (nodes[n].parents # {})
      BY <1>2, <1>10, <2>3 DEF DagSound
    <3> QED
      BY <1>9, <1>10, <1>12, <2>3, <3>1
  <2> QED
    BY <2>1, <2>2, <2>3
<1>17. InOrder'
  <2> SUFFICES ASSUME collisions' = 0 PROVE Ordered(w)
    BY <1>5 DEF InOrder, Ordered
  <2>1. id = 0
    BY <1>9, <1>13
  <2>2. Ordered(v)
    BY <1>2, <1>5, <1>13 DEF InOrder, Ordered
  <2>3. Ordered(Replaced(v, block, UNION {v[p] : p \in block}))
    BY <1>6, <1>8, <2>2, OrderedReplaced DEF first, last
  <2> QED
    BY <1>4, <2>1, <2>3
<1>18. ContextInv'
  <2>1. Lossless'
    BY <1>3, <1>4, <1>5 DEF Lossless
  <2> QED
    BY <1>2, <1>3, <1>4, <1>5, <1>10, <1>13, <1>16, <1>17, <2>1 DEF ContextInv
<1>19. ASSUME collisions' = 0 PROVE Abstract!Condense
  <2>1. w = Replaced(v, block, joined)
    BY <1>4, <1>9, <1>13, <1>19
  <2>2. w = SubSeq(v, 1, first - 1) \o <<joined>> \o SubSeq(v, last + 1, Len(v))
    BY <2>1 DEF Replaced, first, last
  <2>3. Len(w) = Len(v) - (last - first)
    <3> DEFINE S == SUBSET Nat
    <3>1. \A p \in block : v[p] \in SUBSET Nat
      BY <1>6, <1>8, ElementOfSeq
    <3>2. joined \in S
      BY <1>4, <3>1
    <3>3. v \in Seq(S)
      BY <1>6
    <3> HIDE DEF S
    <3>4. /\ Replaced(v, block, joined) \in Seq(S)
          /\ Len(Replaced(v, block, joined)) = Len(v) - (LastPosition(block) - FirstPosition(block))
      <4>1. FirstPosition(block) \in 1 .. Len(v) /\ LastPosition(block) \in 1 .. Len(v) /\ FirstPosition(block) <= LastPosition(block)
        BY <1>6, <1>8 DEF first, last
      <4> QED
        BY <3>2, <3>3, <4>1, ReplacedShape
    <3> QED
      BY <2>1, <3>4 DEF first, last
  <2>4. Abstract!Events(SubSeq(v, first, last)) = joined
    <3> DEFINE s == SubSeq(v, first, last)
               S == SUBSET Nat
    <3>1. \A p \in first .. last : v[p] \in S
      BY <1>6, <1>8, ElementOfSeq
    <3> HIDE DEF S
    <3>2. first \in Int /\ last \in Int
      BY <1>8
    <3>3. /\ s \in Seq(S)
          /\ Len(s) = IF first <= last THEN last - first + 1 ELSE 0
          /\ \A i \in 1 .. last - first + 1 : s[i] = v[first + i - 1]
      BY <3>1, <3>2, SubSeqProperties
    <3> HIDE DEF s
    <3>4. DOMAIN s = 1 .. last - first + 1
      BY <1>8, <3>3
    <3>5. \A i \in DOMAIN s : first + i - 1 \in block /\ s[i] = v[first + i - 1]
      BY <1>8, <3>3, <3>4
    <3>6. ASSUME NEW p \in block PROVE \E i \in DOMAIN s : s[i] = v[p]
      <4>1. p - first + 1 \in DOMAIN s /\ first + (p - first + 1) - 1 = p
        BY <1>8, <3>4
      <4> QED
        BY <3>5, <4>1
    <3>7. UNION {s[i] : i \in DOMAIN s} = UNION {v[p] : p \in block}
      BY <3>5, <3>6
    <3> QED
      BY <1>4, <3>7 DEF Abstract!Events, s
  <2>5. PICK k : k = last - first + 1
    OBVIOUS
  <2>6. /\ Len(v) + 1 - Len(w) = k /\ k > 0
        /\ first \in 1 .. Len(v) + 1 - k
        /\ first + k - 1 = last /\ first + k = last + 1
    BY <1>6, <1>8, <2>3, <2>5
  <2>7. w = SubSeq(v, 1, first - 1)
              \o <<Abstract!Events(SubSeq(v, first, first + k - 1))>>
              \o SubSeq(v, first + k, Len(v))
    BY <2>2, <2>4, <2>6
  <2>8. \E f \in 1 .. Len(v) + 1 - k :
          w = SubSeq(v, 1, f - 1) \o <<Abstract!Events(SubSeq(v, f, f + k - 1))>>
                \o SubSeq(v, f + k, Len(v))
    BY <2>6, <2>7
  <2> QED
    BY <1>5, <2>6, <2>8 DEF Abstract!Condense
<1>20. ASSUME NEW k \in 0 .. TailWindow - 1, k < Len(context)
       PROVE  context'[Len(context') - k] = context[Len(context) - k]
  <2>0. TailWindow \in Nat /\ k \in Nat
    BY PolicyAssumption
  <2>1. ~(last + TailWindow > Len(context))
    <3>1. ~isPinned(ledger, context, last)
      BY <1>8, <1>15
    <3> QED
      BY <3>1 DEF isPinned
  <2>2. last <= Len(context) - k - 1
    BY <1>8, <2>0, <2>1
  <2>3. /\ Len(new) - k \in 1 .. Len(new) /\ ~(Len(new) - k < first) /\ Len(new) - k # first
        /\ (Len(new) - k) + (last - first) = Len(context) - k
    BY <1>7, <1>8, <2>0, <2>2
  <2> QED
    BY <1>5, <1>7, <2>3
<1>21. ASSUME isPinned(ledger, context, 1) PROVE context'[1] = context[1]
  <2>1. first # 1
    BY <1>8, <1>15, <1>21
  <2>2. 1 \in 1 .. Len(new) /\ 1 < first
    BY <1>7, <1>8, <2>1
  <2> QED
    BY <1>5, <1>7, <2>2
<1> QED
  BY <1>14, <1>18, <1>19, <1>20, <1>21

-----------------------------------------------------------------------------
(* Every step is one that leaves context and DAG alone, an append, or a    *)
(* round that commits.                                                     *)
LEMMA StepKinds ==
    ASSUME TranscriptInv, [Next]_memoryVars
    PROVE  \/ UNCHANGED <<context, nodes, version>> /\ NothingProjected /\ PlansHold'
           \/ \E c \in Clients : appendEvents(c)
           \/ \E c \in Compactors : replaceContextItems(c) /\ Current(compactor[c])
<1> DEFINE Kept == UNCHANGED <<context, nodes, version>> /\ NothingProjected /\ PlansHold'
<1>0. /\ SnapshotInv /\ ContextInv /\ PlansHold /\ collisions \in Nat /\ ledger \in Seq(Event)
      /\ context \in Seq(Ref)
      /\ \A c \in Compactors : DOMAIN compactor[c] = CompactorFields
  BY DEF TranscriptInv, SnapshotInv, ContextInv, BatchInv, BatchesWhole
<1>1. ASSUME UNCHANGED ledger, collisions' \in Nat, collisions' >= collisions
      PROVE  NothingProjected
  BY <1>1 DEF NothingProjected, Projected
<1>2. ASSUME UNCHANGED <<ledger, context, nodes, version, compactor, collisions>> PROVE Kept
  BY <1>0, <1>1, <1>2, PlansStay
<1>3. ASSUME NEW c \in Compactors, NEW x, Set(c, x), UNCHANGED <<ledger, context, nodes, version>>,
             collisions' \in Nat, collisions' >= collisions,
             x.phase \in {"replacing", "swapping"} /\ x.version = version => Plan(x)'
      PROVE  Kept
  <2>1. NothingProjected
    BY <1>1, <1>3
  <2> QED
    BY <1>0, <1>3, <2>1, PlansOwn
<1>4. ASSUME NEW c \in Compactors, NEW x, Set(c, x), x.phase \notin {"replacing", "swapping"},
             UNCHANGED <<ledger, context, nodes, version, collisions>>
      PROVE  Kept
  BY <1>0, <1>3, <1>4
<1>5. ASSUME NEW c \in Clients, CheckIdempotency(c) \/ DuplicateFails(c) PROVE Kept
  BY <1>2, <1>5 DEF CheckIdempotency, DuplicateFails, shared
<1>6. CASE AppendHandle
  <2>1. NothingProjected
    BY <1>0, <1>6, HandleKeeps
  <2>2. UNCHANGED <<context, nodes, version, compactor>>
    BY <1>6 DEF AppendHandle
  <2> QED
    BY <1>0, <2>1, <2>2, PlansStay
<1>7. ASSUME NEW c \in Compactors, StartCompaction(c) PROVE Kept
  <2>1. PICK m : Set(c, [IdleCompactor EXCEPT !.phase = "round", !.current = m])
    BY <1>7 DEF StartCompaction
  <2>2. [IdleCompactor EXCEPT !.phase = "round", !.current = m].phase \notin {"replacing", "swapping"}
    BY DEF IdleCompactor
  <2>3. UNCHANGED <<ledger, context, nodes, version, collisions>>
    BY <1>7 DEF StartCompaction, shared
  <2> QED
    BY <1>4, <2>1, <2>2, <2>3
<1>8. ASSUME NEW c \in Compactors, getCurrentContext(c) PROVE Kept
  <2> DEFINE r == compactor[c]
             x == [r EXCEPT !.phase = IF r.phase = "round" THEN "contextRead" ELSE "summarizing",
                            !.items = context, !.version = version]
  <2>1. Set(c, x) /\ UNCHANGED <<ledger, context, nodes, version, collisions>>
    BY <1>8 DEF getCurrentContext, shared
  <2>2. x.phase \notin {"replacing", "swapping"}
    BY <1>0 DEF CompactorFields
  <2> HIDE DEF x
  <2> QED
    BY <1>4, <2>1, <2>2
<1>9. ASSUME NEW c \in Compactors, getEvents(c) PROVE Kept
  <2> DEFINE r == compactor[c]
             x == [r EXCEPT !.phase = IF r.phase = "round" THEN "ledgerRead" ELSE "summarizing",
                            !.seen = Len(ledger)]
  <2>1. Set(c, x) /\ UNCHANGED <<ledger, context, nodes, version, collisions>>
    BY <1>9 DEF getEvents, shared
  <2>2. x.phase \notin {"replacing", "swapping"}
    BY <1>0 DEF CompactorFields
  <2> HIDE DEF x
  <2> QED
    BY <1>4, <2>1, <2>2
<1>10. ASSUME NEW c \in Compactors, UnknownMessage(c) PROVE Kept
  BY <1>4, <1>10, EndedShape DEF UnknownMessage, shared, Versioned
<1>11. ASSUME NEW c \in Compactors, Return(c) PROVE Kept
  BY <1>4, <1>11, ReturnedShape DEF Return, AfterNoCandidates, shared, Versioned
<1>12. ASSUME NEW c \in Compactors, createNode(c) PROVE Kept
  <2>0. PICK r, block, refs :
          r = compactor[c] /\ block = Block(r) /\ refs = {r.items[p] : p \in block}
    OBVIOUS
  <2> DEFINE planned(node, id) ==
                 [r EXCEPT !.phase = "replacing", !.items = <<>>, !.seen = 0,
                           !.block = block, !.node = node, !.id = id]
             Chosen(s, b, f) ==
               \E size \in SummarySize(ledger, nodes, s.items, b) :
                 \E id \in {0} \cup {k \in DOMAIN nodes :
                                     /\ nodes[k].kind = NodeFor(nodes, f, size).kind
                                     /\ nodes[k].tokens = size} :
                   /\ collisions' = IF id = 0 THEN collisions ELSE collisions + 1
                   /\ Set(c, IF ~EdgesAllowed(nodes, id, NodeFor(nodes, f, size))
                             THEN Ended("dag_edge")
                             ELSE IF ~Current(s) THEN AfterStale(c, s)
                             ELSE [s EXCEPT !.phase = "replacing", !.items = <<>>, !.seen = 0,
                                            !.block = b, !.node = NodeFor(nodes, f, size),
                                            !.id = id])
  <2>u. Chosen(compactor[c], Block(compactor[c]),
                {compactor[c].items[p] : p \in Block(compactor[c])})
    BY <1>12 DEF createNode
  <2>v. Chosen(r, block, refs)
    <3> HIDE DEF Chosen
    <3>1. {r.items[p] : p \in block} = {compactor[c].items[p] : p \in Block(compactor[c])}
      BY <2>0
    <3>2. refs = {compactor[c].items[p] : p \in Block(compactor[c])}
      BY <2>0, <3>1
    <3> QED
      BY <2>u, <2>0, <3>2
  <2>a. PICK size \in SummarySize(ledger, nodes, r.items, block) :
          \E id \in {0} \cup {k \in DOMAIN nodes :
                              /\ nodes[k].kind = NodeFor(nodes, refs, size).kind
                              /\ nodes[k].tokens = size} :
            /\ collisions' = IF id = 0 THEN collisions ELSE collisions + 1
            /\ Set(c, IF ~EdgesAllowed(nodes, id, NodeFor(nodes, refs, size))
                      THEN Ended("dag_edge")
                      ELSE IF ~Current(r) THEN AfterStale(c, r)
                      ELSE planned(NodeFor(nodes, refs, size), id))
    BY <2>v
  <2>b. PICK node : node = NodeFor(nodes, refs, size)
    OBVIOUS
  <2>1. PICK id \in {0} \cup {k \in DOMAIN nodes : /\ nodes[k].kind = node.kind
                                                 /\ nodes[k].tokens = size} :
          /\ collisions' = IF id = 0 THEN collisions ELSE collisions + 1
          /\ Set(c, IF ~EdgesAllowed(nodes, id, node) THEN Ended("dag_edge")
                    ELSE IF ~Current(r) THEN AfterStale(c, r)
                    ELSE planned(node, id))
    BY <2>a, <2>b
  <2>x. PICK x : x = planned(node, id)
    OBVIOUS
  <2>2. /\ r.phase = "summarizing" /\ block # {}
        /\ UNCHANGED <<ledger, context, nodes, version>>
    BY <1>12, <2>0 DEF createNode, shared
  <2>3. collisions' \in Nat /\ collisions' >= collisions
    BY <1>0, <2>1
  <2>4. ASSUME Current(r), EdgesAllowed(nodes, id, node) PROVE Plan(x)'
    <3>1. r.items = context
      BY <1>0, <2>0, <2>2, <2>4 DEF SnapshotInv, SnapshotAgreement, Current
    <3>2. /\ block \subseteq 1 .. Len(context)
          /\ \A p \in block : ~isPinned(ledger, context, p)
          /\ \A p, q \in block, y \in 1 .. Len(context) : p <= y /\ y <= q => y \in block
      BY <1>0, <2>0, <3>1, CandidatesShape DEF Block
    <3>3. size \in Nat
      BY TokensAssumption DEF SummarySize
    <3>4. node.tokens = size
      BY <2>b DEF NodeFor
    <3>5. id # 0 => collisions' > 0 /\ nodes[id].kind = node.kind
      BY <1>0, <2>1
    <3>6. x.block = block /\ x.node = node /\ x.id = id
      BY <1>0, <2>0, <2>x DEF CompactorFields
    <3>7. refs = {context[p] : p \in block}
      BY <2>0, <3>1
    <3>8. node = NodeFor(nodes, {context[p] : p \in block}, size)
      BY <2>b, <3>7
    <3>9. /\ context' = context /\ nodes' = nodes /\ ledger' = ledger
          /\ id \in {0} \cup DOMAIN nodes
      BY <2>1, <2>2
    <3> QED
      BY <2>2, <2>4, <3>2, <3>3, <3>4, <3>5, <3>6, <3>8, <3>9 DEF Plan
  <2>5. CASE ~EdgesAllowed(nodes, id, node)
    <3>1. Set(c, Ended("dag_edge"))
      BY <2>1, <2>5
    <3> QED
      BY <1>3, <2>2, <2>3, <3>1, EndedShape DEF Versioned
  <2>6. CASE EdgesAllowed(nodes, id, node) /\ ~Current(r)
    <3>1. Set(c, AfterStale(c, r))
      BY <2>1, <2>6
    <3> QED
      BY <1>3, <2>2, <2>3, <3>1, AfterStaleShape DEF Versioned
  <2>7. CASE EdgesAllowed(nodes, id, node) /\ Current(r)
    <3>1. Set(c, x) /\ Plan(x)'
      BY <2>1, <2>4, <2>7, <2>x
    <3> QED
      BY <1>3, <2>2, <2>3, <3>1
  <2> QED
    BY <2>5, <2>6, <2>7
<1>13. ASSUME NEW c \in Compactors, RereadItems(c) PROVE Kept
  <2>0. PICK r : r = compactor[c]
    OBVIOUS
  <2>x. PICK x : x = [r EXCEPT !.phase = "swapping", !.items = context]
    OBVIOUS
  <2>1. /\ r.phase = "replacing" /\ UNCHANGED <<ledger, context, nodes, version, collisions>>
        /\ Set(c, x) \/ Set(c, Ended("out_of_range"))
    BY <1>13, <2>0, <2>x DEF RereadItems, shared
  <2>2. CASE Set(c, x)
    <3>1. x.version = r.version /\ x.block = r.block /\ x.node = r.node /\ x.id = r.id
      BY <1>0, <2>0, <2>x DEF CompactorFields
    <3>2. r.version = version => Plan(r)
      BY <1>0, <2>0, <2>1 DEF PlansHold
    <3>3. NothingProjected
      BY <1>0, <1>1, <2>1
    <3>4. r.version = version => Plan(r)'
      BY <1>0, <2>1, <3>2, <3>3, PlanStays
    <3>5. x.version = version => Plan(x)'
      BY <3>1, <3>4 DEF Plan
    <3> QED
      BY <1>0, <1>3, <2>1, <2>2, <3>5
  <2>3. CASE Set(c, Ended("out_of_range"))
    BY <1>4, <2>1, <2>3, EndedShape DEF Versioned
  <2> QED
    BY <2>1, <2>2, <2>3
<1>14. ASSUME NEW c \in Compactors, replaceContextItems(c), ~Current(compactor[c]) PROVE Kept
  <2>1. Set(c, AfterStale(c, compactor[c])) /\ UNCHANGED <<ledger, context, nodes, version, collisions>>
    BY <1>14 DEF replaceContextItems
  <2> QED
    BY <1>4, <2>1, AfterStaleShape DEF Versioned
<1>15. CASE UNCHANGED memoryVars
  BY <1>2, <1>15 DEF memoryVars, shared
<1> QED
  BY <1>5, <1>6, <1>7, <1>8, <1>9, <1>10, <1>11, <1>12, <1>13, <1>14, <1>15
  DEF Next, ClientStep, CompactorStep

LEMMA TranscriptInit == Init => TranscriptInv
<1> SUFFICES ASSUME Init PROVE TranscriptInv
  OBVIOUS
<1>1. SnapshotInv /\ BatchInv
  BY SnapshotInit, BatchInit
<1>2. /\ ledger = <<>> /\ context = <<>> /\ nodes = <<>> /\ collisions = 0
      /\ \A c \in Compactors : compactor[c] = IdleCompactor
  BY DEF Init
<1>3. DOMAIN ledger = {} /\ DOMAIN context = {} /\ DOMAIN nodes = {}
  BY <1>2
<1>4. ContextInv
  <2>1. context \in Seq(Ref) /\ nodes \in Seq(Node) /\ collisions \in Nat
    BY <1>2
  <2>2. DOMAIN View = {}
    BY <1>3 DEF View
  <2>3. Lossless
    BY <1>3, <2>2 DEF Lossless, Events, Projected
  <2> QED
    BY <1>3, <2>1, <2>2, <2>3 DEF ContextInv, GraphOK, RefsKnown, MessagesKnown, InOrder, DagSound
<1>5. PlansHold
  BY <1>2 DEF PlansHold, IdleCompactor
<1> QED
  BY <1>1, <1>4, <1>5 DEF TranscriptInv

LEMMA TranscriptNext == TranscriptInv /\ [Next]_memoryVars => TranscriptInv'
<1> SUFFICES ASSUME TranscriptInv, [Next]_memoryVars PROVE TranscriptInv'
  OBVIOUS
<1>1. SnapshotInv' /\ BatchInv'
  BY SnapshotNext, BatchNext DEF TranscriptInv
<1>2. ASSUME UNCHANGED <<context, nodes, version>>, NothingProjected, PlansHold'
      PROVE  ContextInv' /\ PlansHold'
  BY <1>2, ContextStays DEF TranscriptInv
<1>3. ContextInv' /\ PlansHold'
  BY <1>2, StepKinds, AppendKeeps, RoundKeepsAll
<1> QED
  BY <1>1, <1>3 DEF TranscriptInv

LEMMA TranscriptAlways == Spec => []TranscriptInv
BY TranscriptInit, TranscriptNext, PTL DEF Spec

(* Whatever appends and compactions interleave, snapshots go stale, and    *)
(* summaries repeat: the context expands to the appended events, no more   *)
(* and no fewer.                                                           *)
THEOREM LosslessHolds == Spec => []Lossless
<1>1. TranscriptInv => Lossless
  BY DEF TranscriptInv, ContextInv
<1> QED
  BY <1>1, TranscriptAlways, PTL

(* While no summary repeats, the items expand to disjoint blocks of the    *)
(* ledger in its order.                                                    *)
THEOREM InOrderHolds == Spec => []InOrder
<1>1. TranscriptInv => InOrder
  BY DEF TranscriptInv, ContextInv
<1> QED
  BY <1>1, TranscriptAlways, PTL

(* The DAG stays acyclic and its two kinds of node apart, although a       *)
(* repeated summary adds edges to an older node.                           *)
THEOREM DagSoundHolds == Spec => []DagSound
<1>1. TranscriptInv => DagSound
  BY DEF TranscriptInv, ContextInv
<1> QED
  BY <1>1, TranscriptAlways, PTL

(* No round, however stale its snapshot was, replaces the system message   *)
(* at the head or one of the last TailWindow items.                        *)
THEOREM PinnedStayHolds == Spec => PinnedStay
<1> DEFINE Stay ==
      nodes' # nodes =>
        /\ \A k \in 0 .. TailWindow - 1 :
            k < Len(context) => context'[Len(context') - k] = context[Len(context) - k]
        /\ isPinned(ledger, context, 1) => context'[1] = context[1]
<1>1. TranscriptInv /\ [Next]_memoryVars => [Stay]_memoryVars
  <2> SUFFICES ASSUME TranscriptInv, [Next]_memoryVars, nodes' # nodes PROVE Stay
    OBVIOUS
  <2>1. ASSUME NEW c \in Clients, appendEvents(c) PROVE FALSE
    BY <2>1 DEF appendEvents
  <2>2. PICK c \in Compactors : replaceContextItems(c) /\ Current(compactor[c])
    BY <2>1, StepKinds
  <2> QED
    BY <2>2, RoundKeepsAll
<1> QED
  BY <1>1, TranscriptAlways, PTL DEF Spec, PinnedStay

(* The context implements the abstract transcript: an append records, a    *)
(* committed round condenses neighbours, every other step stutters.        *)
THEOREM TranscriptImplemented == Spec => ImplementsTranscript
<1>1. Init => Abstract!Init
  BY DEF Init, Abstract!Init, View
<1>2. TranscriptInv /\ [Next]_memoryVars => [collisions' = 0 => Abstract!Next]_View
  <2> SUFFICES ASSUME TranscriptInv, [Next]_memoryVars, View' # View, collisions' = 0
               PROVE  Abstract!Next
    OBVIOUS
  <2>1. ~(UNCHANGED <<context, nodes, version>> /\ NothingProjected)
    BY ContextStays DEF TranscriptInv
  <2>2. ASSUME NEW c \in Clients, appendEvents(c) PROVE Abstract!Record
    <3>1. PICK n \in Nat \ {0} :
            /\ View \in Seq(SUBSET Nat) /\ View' \in Seq(SUBSET Nat)
            /\ Len(View') = Len(View) + n
            /\ \A p \in 1 .. Len(View) : View'[p] = View[p]
            /\ \A k \in 1 .. n : View'[Len(View) + k] = {Len(ledger) + k}
      BY <2>2, AppendKeeps
    <3>2. Ordered(View')
      <4>1. InOrder'
        BY <2>2, AppendKeeps DEF ContextInv
      <4> QED
        BY <4>1 DEF InOrder, Ordered
    <3>3. PICK v, w, m : v = View /\ w = View' /\ m = Len(View)
      OBVIOUS
    <3>4. /\ v \in Seq(SUBSET Nat) /\ w \in Seq(SUBSET Nat) /\ m \in Nat /\ m = Len(v)
          /\ Len(w) = m + n /\ \A p \in 1 .. m : w[p] = v[p]
          /\ \A k \in 1 .. n : \E e : w[m + k] = {e}
          /\ Ordered(w) /\ DOMAIN w = 1 .. m + n
      <4>1. /\ v \in Seq(SUBSET Nat) /\ w \in Seq(SUBSET Nat) /\ m = Len(v)
            /\ Len(w) = m + n /\ \A p \in 1 .. m : w[p] = v[p]
            /\ \A k \in 1 .. n : w[m + k] = {Len(ledger) + k}
        BY <3>1, <3>3
      <4>2. Ordered(w)
        BY <3>2, <3>3
      <4> DEFINE S == SUBSET Nat
      <4>3. v \in Seq(S) /\ w \in Seq(S)
        BY <4>1
      <4> HIDE DEF S
      <4>4. m \in Nat /\ DOMAIN w = 1 .. m + n
        BY <4>1, <4>3
      <4>5. \A k \in 1 .. n : \E e : w[m + k] = {e}
        BY <4>1
      <4> QED
        BY <4>1, <4>2, <4>4, <4>5
    <3>5. ASSUME NEW l \in 0 .. m + n
          PROVE  /\ SubSeq(w, 1, l) \in Seq(SUBSET Nat) /\ Len(SubSeq(w, 1, l)) = l
                 /\ \A i \in 1 .. l : SubSeq(w, 1, l)[i] = w[i]
      <4> DEFINE S == SUBSET Nat
      <4>1. \A i \in 1 .. l : w[i] \in S
        BY <3>4, ElementOfSeq
      <4> HIDE DEF S
      <4>2. 1 \in Int /\ l \in Int
        OBVIOUS
      <4>3. /\ SubSeq(w, 1, l) \in Seq(S)
            /\ Len(SubSeq(w, 1, l)) = IF 1 <= l THEN l - 1 + 1 ELSE 0
            /\ \A i \in 1 .. l - 1 + 1 : SubSeq(w, 1, l)[i] = w[1 + i - 1]
        BY <4>1, <4>2, SubSeqProperties
      <4>4. l - 1 + 1 = l /\ \A i \in 1 .. l : 1 + i - 1 = i
        OBVIOUS
      <4> QED
        BY <4>3, <4>4 DEF S
    <3>6. SubSeq(w, 1, m) = v
      <4> DEFINE s == SubSeq(w, 1, m)
      <4>1. s \in Seq(SUBSET Nat) /\ Len(s) = m /\ \A i \in 1 .. m : s[i] = w[i]
        BY <3>4, <3>5
      <4> HIDE DEF s
      <4>2. \A i \in 1 .. Len(s) : s[i] = v[i]
        BY <3>4, <4>1
      <4> QED
        BY <3>4, <4>1, <4>2, SeqEqual DEF s
    <3>7. ASSUME NEW p \in m + 1 .. m + n
          PROVE  \E e \in w[p] : w[p] = {e} /\ \A d \in Abstract!Events(SubSeq(w, 1, p - 1)) : d < e
      <4>1. p - m \in 1 .. n /\ p = m + (p - m)
        BY <3>4
      <4>2. PICK e : w[p] = {e}
        BY <3>4, <4>1
      <4>3. ASSUME NEW d \in Abstract!Events(SubSeq(w, 1, p - 1)) PROVE d < e
        <5>1. p - 1 \in 0 .. m + n
          BY <3>4
        <5> DEFINE s == SubSeq(w, 1, p - 1)
        <5>2. s \in Seq(SUBSET Nat) /\ Len(s) = p - 1 /\ \A i \in 1 .. p - 1 : s[i] = w[i]
          BY <3>5, <5>1
        <5>3. d \in UNION {s[i] : i \in DOMAIN s}
          BY <4>3 DEF Abstract!Events
        <5> HIDE DEF s
        <5>4. PICK i \in 1 .. p - 1 : d \in w[i]
          BY <5>2, <5>3
        <5>5. i \in DOMAIN w /\ p \in DOMAIN w /\ i < p /\ e \in w[p]
          BY <3>4, <4>2, <5>4
        <5> QED
          BY <3>4, <5>4, <5>5 DEF Ordered
      <4> QED
        BY <4>2, <4>3
    <3>8. Len(w) > m
      BY <3>4
    <3> QED
      BY <3>3, <3>4, <3>6, <3>7, <3>8 DEF Abstract!Record
  <2>3. ASSUME NEW c \in Compactors, replaceContextItems(c), Current(compactor[c])
        PROVE  Abstract!Condense
    BY <2>3, RoundKeepsAll
  <2> QED
    BY <2>1, <2>2, <2>3, StepKinds DEF Abstract!Next
<1> QED
  BY <1>1, <1>2, TranscriptAlways, PTL DEF Spec, ImplementsTranscript

-----------------------------------------------------------------------------
(* Types. *)

LEMMA CountType ==
    ASSUME NEW l \in Seq(Event), NEW d \in Seq(Node), NEW items \in Seq(Ref),
           RefsKnown(items, DOMAIN l, d)
    PROVE  getContextTokenCount(l, d, items) \in Nat
<1> DEFINE tokens == [p \in 1 .. Len(items) |-> Tokens(l, d, items[p])]
<1>1. Len(items) \in Nat /\ DOMAIN items = 1 .. Len(items)
  OBVIOUS
<1>2. \A e \in DOMAIN l : l[e].tokens \in Nat
  <2>1. \A e \in DOMAIN l : l[e] \in Event
    OBVIOUS
  <2> QED
    BY <2>1 DEF Event
<1>3. \A n \in DOMAIN d : d[n].tokens \in Nat
  <2>1. \A n \in DOMAIN d : d[n] \in Node
    OBVIOUS
  <2> QED
    BY <2>1 DEF Node
<1>4. ASSUME NEW p \in 1 .. Len(items) PROVE Tokens(l, d, items[p]) \in Nat
  BY <1>1, <1>2, <1>3 DEF Tokens, RefsKnown
<1>5. tokens \in [1 .. Len(items) -> Nat]
  BY <1>4
<1>6. IsFiniteSet(1 .. Len(items))
  BY <1>1, FS_Interval
<1>7. getContextTokenCount(l, d, items) = Total(tokens)
  BY <1>1 DEF getContextTokenCount, TokensAt, Total
<1> HIDE DEF tokens
<1> QED
  BY <1>5, <1>6, <1>7, TotalType

LEMMA CompactorTypes ==
    /\ IdleCompactor \in Compactor
    /\ \A o \in Outcome : Ended(o) \in Compactor
    /\ \A c, r : Returned(c, r) \in Compactor
    /\ \A r \in Compactor : AtHead(r) \in Compactor
    /\ \A c, r : r \in Compactor => AfterStale(c, r) \in Compactor
<1>1. IdleCompactor \in Compactor
  <2>1. NoNode \in Node
    BY DEF NoNode, Node
  <2>2. <<>> \in Seq(Ref)
    OBVIOUS
  <2> QED
    BY <2>1, <2>2 DEF IdleCompactor, Compactor, CompactorPhase, Outcome
<1>2. \A o \in Outcome : Ended(o) \in Compactor
  BY <1>1 DEF Ended, Compactor
<1>3. \A c, r : Returned(c, r) \in Compactor
  BY <1>2 DEF Returned, Outcome
<1>4. \A r \in Compactor : AtHead(r) \in Compactor
  BY <1>1 DEF AtHead, Compactor, CompactorPhase
<1>5. ASSUME NEW c, NEW r \in Compactor PROVE AfterStale(c, r) \in Compactor
  <2>1. [r EXCEPT !.stale = r.stale + 1] \in Compactor
    BY DEF Compactor
  <2> QED
    BY <1>3, <1>4, <2>1 DEF AfterStale
<1> QED
  BY <1>1, <1>2, <1>3, <1>4, <1>5

LEMMA NodeForType ==
    ASSUME NEW d \in Seq(Node), NEW refs \in SUBSET Ref, NEW size \in Nat
    PROVE  NodeFor(d, refs, size) \in Node
<1>1. \A r \in refs : r.id \in Nat
  BY DEF Ref
<1>2. \A n \in DOMAIN d : d[n].messages \subseteq Nat
  <2>1. \A n \in DOMAIN d : d[n] \in Node
    OBVIOUS
  <2> QED
    BY <2>1 DEF Node
<1>3. \A n : Scope(d, n) \subseteq DOMAIN d
  BY DEF Scope
<1>4. \A r \in refs : Covers(d, r) \subseteq Nat
  BY <1>1, <1>2, <1>3 DEF Covers, expandToMessages
<1>5. LeafMessages(d, refs) \subseteq Nat /\ {r.id : r \in refs} \subseteq Nat
  BY <1>1, <1>4 DEF LeafMessages
<1> QED
  BY <1>5 DEF NodeFor, Node

(* What a compaction holds is of its type after each of its steps.         *)
LEMMA CompactorStepType ==
    ASSUME TranscriptInv, TranscriptInv', MemoryTypeOK, NEW c \in Compactors,
           StartCompaction(c) \/ CompactorStep(c)
    PROVE  \E x \in Compactor : Set(c, x)
<1> DEFINE r == compactor[c]
<1>1. /\ r \in Compactor /\ r.items \in Seq(Ref) /\ r.node \in Node
      /\ ledger \in Seq(Event) /\ context \in Seq(Ref) /\ version \in Nat
      /\ nodes \in Seq(Node) /\ Len(ledger) \in Nat
  BY DEF MemoryTypeOK, Compactor
<1>2. RefsKnown(context, DOMAIN ledger, nodes)
  BY DEF MemoryTypeOK, RefsKnown
<1> HIDE DEF r
<1>3. CASE StartCompaction(c)
  <2>1. getContextTokenCount(ledger, nodes, context) \in Nat
    BY <1>1, <1>2, CountType
  <2>2. \A n \in Nat : [IdleCompactor EXCEPT !.phase = "round", !.current = n] \in Compactor
    BY CompactorTypes DEF Compactor, CompactorPhase
  <2> QED
    BY <1>3, <2>1, <2>2 DEF StartCompaction
<1>4. CASE getCurrentContext(c)
  <2>1. [r EXCEPT !.phase = IF r.phase = "round" THEN "contextRead" ELSE "summarizing",
                  !.items = context, !.version = version] \in Compactor
    BY <1>1 DEF Compactor, CompactorPhase
  <2> QED
    BY <1>4, <2>1 DEF getCurrentContext, r
<1>5. CASE getEvents(c)
  <2>1. [r EXCEPT !.phase = IF r.phase = "round" THEN "ledgerRead" ELSE "summarizing",
                  !.seen = Len(ledger)] \in Compactor
    BY <1>1 DEF Compactor, CompactorPhase
  <2> QED
    BY <1>5, <2>1 DEF getEvents, r
<1>6. CASE UnknownMessage(c)
  BY <1>6, CompactorTypes DEF UnknownMessage, Outcome
<1>7. CASE Return(c)
  BY <1>7, CompactorTypes DEF Return, AfterNoCandidates
<1>8. CASE createNode(c)
  <2>1. Block(r) \subseteq DOMAIN r.items
    BY <1>1, CandidatesShape DEF Block
  <2>2. Block(r) \subseteq Nat /\ {r.items[p] : p \in Block(r)} \subseteq Ref
    BY <1>1, <2>1
  <2>3. ASSUME NEW size \in Nat,
               NEW id \in {0} \cup DOMAIN nodes
        PROVE  [r EXCEPT !.phase = "replacing", !.items = <<>>, !.seen = 0, !.block = Block(r),
                         !.node = NodeFor(nodes, {r.items[p] : p \in Block(r)}, size), !.id = id] \in Compactor
    <3>1. NodeFor(nodes, {r.items[p] : p \in Block(r)}, size) \in Node
      BY <1>1, <2>2, NodeForType
    <3>2. id \in Nat /\ <<>> \in Seq(Ref)
      BY <1>1
    <3> QED
      BY <1>1, <2>2, <3>1, <3>2 DEF Compactor, CompactorPhase
  <2>4. \A size \in SummarySize(ledger, nodes, r.items, Block(r)) : size \in Nat
    BY TokensAssumption DEF SummarySize
  <2>5. Ended("dag_edge") \in Compactor /\ AfterStale(c, r) \in Compactor
    BY <1>1, CompactorTypes DEF Outcome
  <2>6. PICK size \in SummarySize(ledger, nodes, r.items, Block(r)) :
          \E id \in {0} \cup DOMAIN nodes :
            \/ Set(c, Ended("dag_edge"))
            \/ Set(c, AfterStale(c, r))
            \/ Set(c, [r EXCEPT !.phase = "replacing", !.items = <<>>, !.seen = 0, !.block = Block(r),
                         !.node = NodeFor(nodes, {r.items[p] : p \in Block(r)}, size), !.id = id])
    BY <1>8 DEF createNode, r
  <2> QED
    BY <2>3, <2>4, <2>5, <2>6
<1>9. CASE RereadItems(c)
  <2>1. [r EXCEPT !.phase = "swapping", !.items = context] \in Compactor
    BY <1>1 DEF Compactor, CompactorPhase
  <2> QED
    BY <1>9, <2>1, CompactorTypes DEF RereadItems, Outcome, r
<1>10. CASE replaceContextItems(c)
  <2>1. CASE Current(r)
    <3>1. UNCHANGED ledger
      BY <1>10 DEF replaceContextItems
    <3>2. /\ context' \in Seq(Ref) /\ nodes' \in Seq(Node)
          /\ RefsKnown(context', DOMAIN ledger, nodes')
      <4>1. Projected' \subseteq DOMAIN ledger
        BY <3>1 DEF Projected
      <4>2. RefsKnown(context, Projected, nodes)'
        BY DEF TranscriptInv, ContextInv
      <4> QED
        BY <4>1, <4>2 DEF TranscriptInv, ContextInv, GraphOK, RefsKnown
    <3>3. getContextTokenCount(ledger, nodes', context') \in Nat
      BY <1>1, <3>2, CountType
    <3>4. \A n \in Nat : [r EXCEPT !.current = n, !.rounds = r.rounds + 1, !.stale = 0] \in Compactor
      <4>1. r.rounds + 1 \in Nat
        BY <1>1 DEF Compactor
      <4> QED
        BY <1>1, <4>1 DEF Compactor
    <3>5. \E n \in Nat : Set(c, AtHead([r EXCEPT !.current = n, !.rounds = r.rounds + 1, !.stale = 0]))
      BY <1>10, <2>1, <3>3 DEF replaceContextItems, r
    <3> QED
      BY <3>4, <3>5, CompactorTypes
  <2>2. CASE ~Current(r)
    BY <1>1, <1>10, <2>2, CompactorTypes DEF replaceContextItems, r
  <2> QED
    BY <2>1, <2>2
<1> QED
  BY <1>3, <1>4, <1>5, <1>6, <1>7, <1>8, <1>9, <1>10 DEF CompactorStep

LEMMA ClientTypes ==
    /\ IdleClient \in Client
    /\ \A r \in Requests, under \in BOOLEAN :
         [phase |-> "checked", request |-> r, under |-> under] \in Client
BY RequestsAssumption DEF IdleClient, Client

LEMMA MemoryTypeInit == Init => MemoryTypeOK
<1> SUFFICES ASSUME Init PROVE MemoryTypeOK
  OBVIOUS
<1>1. /\ client \in [Clients -> Client] /\ compactor \in [Compactors -> Compactor]
      /\ minBlock \in MinBlocks
  BY ClientTypes, CompactorTypes DEF Init
<1>2. /\ ledger = <<>> /\ context = <<>> /\ nodes = <<>> /\ version = 0 /\ scheduled = FALSE
      /\ collisions \in 0 .. MaxCollisions /\ compactions \in 0 .. MaxCompactions
  BY MemoryBoundsAssumption DEF Init
<1>3. ledger \in Seq(Event) /\ context \in Seq(Ref) /\ nodes \in Seq(Node)
      /\ DOMAIN context = {} /\ DOMAIN nodes = {}
  BY <1>2
<1> QED
  BY <1>1, <1>2, <1>3 DEF MemoryTypeOK

LEMMA MemoryTypeNext ==
    TranscriptInv /\ TranscriptInv' /\ MemoryTypeOK /\ [Next]_memoryVars => MemoryTypeOK'
<1> SUFFICES ASSUME TranscriptInv, TranscriptInv', MemoryTypeOK, [Next]_memoryVars PROVE MemoryTypeOK'
  OBVIOUS
(* What the invariant says of the shared state. *)
<1>1. /\ ledger' \in Seq(Event) /\ context' \in Seq(Ref) /\ version' \in Nat /\ nodes' \in Seq(Node)
      /\ \A p \in DOMAIN context' :
           context'[p].id \in IF context'[p].type = "message" THEN DOMAIN ledger' ELSE DOMAIN nodes'
      /\ \A n \in DOMAIN nodes' :
           nodes'[n].messages \subseteq DOMAIN ledger' /\ nodes'[n].parents \subseteq DOMAIN nodes'
  <2>1. Projected' \subseteq DOMAIN ledger'
    BY DEF Projected
  <2>2. /\ RefsKnown(context, Projected, nodes)' /\ MessagesKnown(nodes, Projected)' /\ GraphOK(nodes)'
        /\ context' \in Seq(Ref) /\ version' \in Nat /\ ledger' \in Seq(Event)
    BY DEF TranscriptInv, ContextInv, SnapshotInv, BatchInv, BatchesWhole
  <2> QED
    BY <2>1, <2>2 DEF GraphOK, RefsKnown, MessagesKnown
(* The rest, by step. *)
<1> DEFINE Rest == /\ minBlock' \in MinBlocks /\ scheduled' \in BOOLEAN
                   /\ client' \in [Clients -> Client]
                   /\ compactor' \in [Compactors -> Compactor]
                   /\ collisions' \in 0 .. MaxCollisions
                   /\ compactions' \in 0 .. MaxCompactions
<1>2. /\ minBlock \in MinBlocks /\ scheduled \in BOOLEAN /\ client \in [Clients -> Client]
      /\ compactor \in [Compactors -> Compactor]
      /\ collisions \in 0 .. MaxCollisions /\ compactions \in 0 .. MaxCompactions
  BY DEF MemoryTypeOK
<1>u. ASSUME UNCHANGED <<minBlock, scheduled, client, compactor, collisions, compactions>> PROVE Rest
  BY <1>2, <1>u
<1>3. ASSUME NEW c \in Clients, Goodbye(c) PROVE client' \in [Clients -> Client]
  BY <1>2, <1>3, ClientTypes DEF Goodbye
<1>4. ASSUME NEW c \in Clients, CheckIdempotency(c) PROVE Rest
  <2>1. PICK r \in Requests :
          client' = [client EXCEPT ![c] = [phase |-> "checked", request |-> r,
                       under |-> getContextTokenCount(ledger, nodes, context) <= Soft]]
    BY <1>4 DEF CheckIdempotency
  <2>2. (getContextTokenCount(ledger, nodes, context) <= Soft) \in BOOLEAN
    OBVIOUS
  <2>3. [phase |-> "checked", request |-> r,
         under |-> getContextTokenCount(ledger, nodes, context) <= Soft] \in Client
    BY <2>2, ClientTypes
  <2>4. client' \in [Clients -> Client]
    BY <1>2, <2>1, <2>3
  <2> QED
    BY <1>2, <1>4, <2>4 DEF CheckIdempotency, shared
<1>5. ASSUME NEW c \in Clients, appendEvents(c) PROVE Rest
  <2>1. scheduled' \in BOOLEAN
    BY <1>5 DEF appendEvents
  <2>2. client' \in [Clients -> Client]
    BY <1>3, <1>5 DEF appendEvents
  <2>3. UNCHANGED <<minBlock, nodes, compactor, collisions, compactions>>
    BY <1>5 DEF appendEvents
  <2> QED
    BY <1>2, <2>1, <2>2, <2>3
<1>6. ASSUME NEW c \in Clients, DuplicateFails(c) PROVE Rest
  BY <1>2, <1>3, <1>6 DEF DuplicateFails, shared
<1>7. ASSUME AppendHandle PROVE Rest
  <2>1. UNCHANGED <<minBlock, scheduled, client, compactor, collisions, compactions>>
    BY <1>7 DEF AppendHandle
  <2> HIDE DEF Rest
  <2> QED
    BY <1>u, <2>1
<1>8. ASSUME NEW c \in Compactors, StartCompaction(c) \/ CompactorStep(c) PROVE Rest
  <2>1. PICK x \in Compactor : Set(c, x)
    BY <1>8, CompactorStepType
  <2>2. compactor' \in [Compactors -> Compactor]
    BY <1>2, <2>1 DEF Set
  <2>3. UNCHANGED <<minBlock, client>>
    BY <1>8 DEF StartCompaction, CompactorStep, getCurrentContext, getEvents, UnknownMessage, Return,
       createNode, RereadItems, replaceContextItems, shared
  <2>4. scheduled' \in BOOLEAN
    BY <1>2, <1>8 DEF StartCompaction, CompactorStep, getCurrentContext, getEvents, UnknownMessage, Return,
       createNode, RereadItems, replaceContextItems, shared
  <2>5. compactions' \in 0 .. MaxCompactions
    <3>1. \/ compactions' = compactions
          \/ compactions < MaxCompactions /\ compactions' = compactions + 1
      BY <1>8
      DEF StartCompaction, CompactorStep, getCurrentContext, getEvents, UnknownMessage, Return,
         createNode, RereadItems, replaceContextItems, shared
    <3> QED
      BY <1>2, <3>1, MemoryBoundsAssumption
  <2>6. collisions' \in 0 .. MaxCollisions
    <3>1. CASE createNode(c)
      <4>1. \/ collisions' = collisions
            \/ collisions < MaxCollisions /\ collisions' = collisions + 1
        BY <3>1 DEF createNode
      <4> QED
        BY <1>2, <4>1, MemoryBoundsAssumption
    <3>2. CASE ~createNode(c)
      BY <1>2, <1>8, <3>2 DEF StartCompaction, CompactorStep, getCurrentContext, getEvents, UnknownMessage,
         Return, RereadItems, replaceContextItems, shared
    <3> QED
      BY <3>1, <3>2
  <2> QED
    BY <2>2, <2>3, <2>4, <2>5, <2>6, <1>2
<1>9. ASSUME UNCHANGED memoryVars PROVE Rest
  <2>1. UNCHANGED <<minBlock, scheduled, client, compactor, collisions, compactions>>
    BY <1>9 DEF memoryVars, shared
  <2> HIDE DEF Rest
  <2> QED
    BY <1>u, <2>1
<1> HIDE DEF Rest
<1>10. Rest
  <2>1. ASSUME NEW c \in Clients, ClientStep(c) PROVE Rest
    BY <1>4, <1>5, <1>6, <2>1 DEF ClientStep
  <2> QED
    BY <1>7, <1>8, <1>9, <2>1 DEF Next
<1> QED
  BY <1>1, <1>10 DEF MemoryTypeOK, Rest

(* Every variable holds a value of its type, the token counts that a       *)
(* compaction carries included, and every reference of the context and     *)
(* edge of the DAG has its row.                                            *)
THEOREM MemoryTypeCorrect == Spec => []MemoryTypeOK
BY MemoryTypeInit, MemoryTypeNext, TranscriptAlways, PTL DEF Spec

=============================================================================
