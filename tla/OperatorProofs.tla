-------------------------- MODULE OperatorProofs ---------------------------
(* Theorems about llmMap and agenticMap, for every number of clients,      *)
(* executors and items, every set of requests and every value of the       *)
(* limits and bounds: what a client is told of a run; the types and safety *)
(* invariants of OperatorExecution and, when leases outlive executions,    *)
(* that it implements OperatorRun; and what remains of them over           *)
(* PostgreSQL, where transactions interleave, and in one process next to   *)
(* compaction rounds that restore or undo the writes of executors.         *)
EXTENDS MCOperatorStores, OperatorRefinement, OperatorSubmission, FiniteSetTheorems, SequenceTheorems, TLAPS

-----------------------------------------------------------------------------
(* What clients are told: types. *)

KeyOf(r) == [conv |-> r.conv, key |-> r.key, run |-> RunId(r)]

BoundKeys(r) == {KeyOf(r) : k \in {r.key} \ {Anonymous}}

RunRows ==
    {[id |-> RunId(r), items |-> r.items, output |-> o, stage |-> s] :
        r \in SubmitRequests, o \in BOOLEAN, s \in {"not_started", "completed"}}

KeyRows == {KeyOf(r) : r \in SubmitRequests}

ArtifactRows ==
    {[of |-> d, conv |-> r.conv] :
        r \in SubmitRequests, d \in {Dataset(x.items) : x \in SubmitRequests} \cup {EmptyOutput}}

Db == [runs : SUBSET RunRows, keys : SUBSET KeyRows, artifacts : SUBSET ArtifactRows]

OpenPcs == {"dataset", "lookup", "insert", "output", "commit"}

Outcomes == {"refused", "conflict", "error", "run"}

OpenClient ==
    [pc : OpenPcs, request : SubmitRequests, seen : SUBSET KeyRows, copy : Db, own : Db]

AnsweredClient ==
    [pc : {"answered"}, request : SubmitRequests, seen : SUBSET KeyRows, outcome : Outcomes]

IdleClient == [pc |-> "idle"]

SubmissionTypeOK ==
    /\ engine \in {"memory", "sqlite", "postgres"}
    /\ stored \in Db
    /\ client \in [Clients -> OpenClient \cup AnsweredClient \cup {IdleClient}]
    /\ lost \in BOOLEAN

LEMMA DbKinds ==
    ASSUME NEW db \in Db
    PROVE  /\ db.runs \in SUBSET RunRows /\ db.keys \in SUBSET KeyRows
           /\ db.artifacts \in SUBSET ArtifactRows
           /\ db = [runs |-> db.runs, keys |-> db.keys, artifacts |-> db.artifacts]
BY DEF Db

LEMMA NothingType ==
    /\ Nothing \in Db
    /\ Nothing.runs = {} /\ Nothing.keys = {} /\ Nothing.artifacts = {}
BY DEF Nothing, Db

LEMMA MergeFacts ==
    ASSUME NEW db \in Db, NEW own \in Db
    PROVE  /\ Merge(db, own) \in Db
           /\ Merge(db, own).runs = db.runs \cup own.runs
           /\ Merge(db, own).keys = db.keys \cup own.keys
           /\ Merge(db, own).artifacts = db.artifacts \cup own.artifacts
<1> DEFINE m == [runs |-> db.runs \cup own.runs, keys |-> db.keys \cup own.keys,
                 artifacts |-> db.artifacts \cup own.artifacts]
           e == [table \in {"runs", "keys", "artifacts"} |-> db[table] \cup own[table]]
<1>1. DOMAIN db = {"runs", "keys", "artifacts"}
  BY DEF Db
<1>2. Merge(db, own) = e
  BY <1>1 DEF Merge
<1>3. e \in Db
  <2>1. /\ db.runs \cup own.runs \in SUBSET RunRows
        /\ db.keys \cup own.keys \in SUBSET KeyRows
        /\ db.artifacts \cup own.artifacts \in SUBSET ArtifactRows
    BY DbKinds
  <2>2. m \in Db
    BY <2>1 DEF Db
  <2>3. e = m
    BY SMTT(30)
  <2> QED
    BY <2>2, <2>3
<1> QED
  BY <1>2, <1>3

LEMMA ClientKinds ==
    ASSUME SubmissionTypeOK, NEW p \in Clients
    PROVE  /\ Open(p) => client[p] \in OpenClient
           /\ client[p].pc \in OpenPcs => Open(p) /\ client[p] \in OpenClient
           /\ client[p].pc = "answered" => client[p] \in AnsweredClient
           /\ ~Open(p) => client[p].pc \in {"idle", "answered"}
<1>1. client[p] \in OpenClient \cup AnsweredClient \cup {IdleClient}
  BY DEF SubmissionTypeOK
<1>2. CASE client[p] \in OpenClient
  BY <1>2 DEF OpenClient, OpenPcs, Open
<1>3. CASE client[p] \in AnsweredClient
  BY <1>3 DEF AnsweredClient, OpenPcs, Open
<1>4. CASE client[p] = IdleClient
  BY <1>4 DEF IdleClient, OpenPcs, Open
<1> QED
  BY <1>1, <1>2, <1>3, <1>4

LEMMA OpenKinds ==
    ASSUME NEW c \in OpenClient
    PROVE  /\ c.pc \in OpenPcs /\ c.request \in SubmitRequests /\ c.seen \in SUBSET KeyRows
           /\ c.copy \in Db /\ c.own \in Db
BY DEF OpenClient

LEMMA RowKinds ==
    /\ \A r \in SubmitRequests : KeyOf(r) \in KeyRows
    /\ \A r : /\ KeyOf(r).conv = r.conv /\ KeyOf(r).key = r.key /\ KeyOf(r).run = RunId(r)
              /\ r.key = Anonymous => BoundKeys(r) = {}
              /\ r.key # Anonymous => BoundKeys(r) = {KeyOf(r)}
BY DEF KeyOf, KeyRows, BoundKeys

-----------------------------------------------------------------------------
(* The invariant, as it holds while no commit was replaced unseen. *)

(* What is committed, or what an in-memory unit of work copied: no dangling*)
(* run or key, no key bound twice, and no empty run that is not completed. *)
Sound(db) ==
    /\ \A made \in db.runs :
         /\ made.items = 0 => made.stage = "completed"
         /\ \E a \in db.artifacts : a.of = Dataset(made.items)
    /\ \A k \in db.keys :
         /\ k.key # Anonymous
         /\ \E made \in db.runs : made.id = k.run
         /\ \A l \in db.keys : l.conv = k.conv /\ l.key = k.key => l = k

(* What an open unit of work starts from and is merged into. *)
Base(c, e, db) == IF e = "memory" THEN c.copy ELSE db

(* It has found its run ... *)
Found(c, base) ==
    /\ c.own.runs = {} /\ c.own.keys = {}
    /\ KeysOf(base, c.request) # {}
    /\ \A k \in KeysOf(base, c.request) : k.run = RunId(c.request)

(* ... or inserted it, and nobody else has bound its key. *)
Inserted(c, base) ==
    /\ KeysOf(base, c.request) = {}
    /\ c.own.keys = BoundKeys(c.request)
    /\ \E made \in RunRows :
         /\ c.own.runs = {made} /\ made.id = RunId(c.request) /\ made.items = c.request.items
         /\ c.pc = "commit" /\ made.items = 0 => made.stage = "completed"

HasDataset(c, base) ==
    \E a \in base.artifacts \cup c.own.artifacts : a.of = Dataset(c.request.items)

OpenSound(c, e, base) ==
    /\ Sound(base)
    /\ c.seen # {} => KeysOf(base, c.request) = c.seen
    /\ c.pc \in {"dataset", "lookup", "insert"} => c.own.runs = {} /\ c.own.keys = {}
    /\ c.pc # "dataset" => HasDataset(c, base)
    /\ c.pc = "insert" => c.seen = {} /\ (e = "memory" => KeysOf(base, c.request) = {})
    /\ c.pc \in {"output", "commit"} => Found(c, base) \/ Inserted(c, base)

(* What a client was told of the run ... *)
ToldOfRun(c, db) ==
    c.outcome = "run" =>
        /\ \E made \in db.runs :
              made.id = RunId(c.request) /\ (c.request.items = 0 => made.stage = "completed")
        /\ {k.run : k \in KeysOf(db, c.request)}
             = {RunId(c.request) : k \in {c.request.key} \ {Anonymous}}

(* ... if its key was bound when it asked. *)
Repeated(c) ==
    LET known == {k.run : k \in c.seen} IN
    known # {} /\ c.outcome # "refused" =>
        c.outcome = IF known = {RunId(c.request)} THEN "run" ELSE "conflict"

SamePlace(k, l) == k.conv = l.conv /\ k.key = l.key

(* SQLite has one unit of work at a time; in PostgreSQL no two hold rows   *)
(* of one key.                                                             *)
Apart ==
    \A p, q \in Clients : p # q /\ Open(p) /\ Open(q) =>
        /\ engine # "sqlite"
        /\ engine = "postgres" =>
             \A k \in client[p].own.keys, l \in client[q].own.keys : ~SamePlace(k, l)

ClientSound(p) ==
    /\ Open(p) => OpenSound(client[p], engine, Base(client[p], engine, stored))
    /\ client[p].pc = "answered" => ToldOfRun(client[p], stored) /\ Repeated(client[p])

SubmissionSound == ~lost => Sound(stored) /\ Apart /\ \A p \in Clients : ClientSound(p)

SubmissionInvariant == SubmissionTypeOK /\ SubmissionSound

-----------------------------------------------------------------------------
(* What the keys of a merge, and the steps of one client, come to. *)

LEMMA KeysMerge ==
    ASSUME NEW db \in Db, NEW own \in Db, NEW r
    PROVE  KeysOf(Merge(db, own), r) = KeysOf(db, r) \cup KeysOf(own, r)
BY MergeFacts DEF KeysOf

LEMMA BaseType ==
    ASSUME SubmissionTypeOK, NEW p \in Clients, client[p] \in OpenClient
    PROVE  /\ Base(client[p], engine, stored) \in Db
           /\ Sees(p) = Merge(Base(client[p], engine, stored), client[p].own)
           /\ Sees(p) \in Db
<1>1. Base(client[p], engine, stored) \in Db
  BY OpenKinds DEF Base, SubmissionTypeOK
<1>2. Sees(p) = Merge(Base(client[p], engine, stored), client[p].own)
  BY DEF Sees, Base
<1> QED
  BY <1>1, <1>2, MergeFacts, OpenKinds

(* Everyone but p is where it was. *)
OthersStay(p) == \A q \in Clients \ {p} : client'[q] = client[q]

LEMMA ReplacedClient ==
    ASSUME SubmissionTypeOK, NEW p \in Clients, NEW c,
           client' = [client EXCEPT ![p] = c],
           c \in OpenClient \cup AnsweredClient \cup {IdleClient}
    PROVE  /\ client'[p] = c /\ OthersStay(p)
           /\ client' \in [Clients -> OpenClient \cup AnsweredClient \cup {IdleClient}]
BY DEF SubmissionTypeOK, OthersStay

LEMMA AnsweredShape ==
    ASSUME NEW r \in SubmitRequests, NEW seen \in SUBSET KeyRows, NEW outcome \in Outcomes
    PROVE  LET c == [pc |-> "answered", request |-> r, seen |-> seen, outcome |-> outcome]
           IN /\ c \in AnsweredClient /\ c.pc = "answered" /\ c.request = r
              /\ c.seen = seen /\ c.outcome = outcome
BY DEF AnsweredClient

LEMMA ProceedsFacts ==
    ASSUME SubmissionTypeOK, NEW p \in Clients, client[p] \in OpenClient,
           NEW pc \in OpenPcs, NEW own \in Db, Proceeds(p, pc, own)
    PROVE  /\ client'[p] \in OpenClient
           /\ client'[p].pc = pc /\ client'[p].own = own
           /\ client'[p].request = client[p].request /\ client'[p].seen = client[p].seen
           /\ client'[p].copy = client[p].copy
           /\ OthersStay(p) /\ SubmissionTypeOK'
           /\ engine' = engine /\ stored' = stored /\ lost' = lost
<1> DEFINE c == [client[p] EXCEPT !.pc = pc, !.own = own]
<1>1. /\ c \in OpenClient /\ c.pc = pc /\ c.own = own
      /\ c.request = client[p].request /\ c.seen = client[p].seen /\ c.copy = client[p].copy
  BY DEF OpenClient
<1>2. client' = [client EXCEPT ![p] = c]
  BY DEF Proceeds, SubmissionTypeOK
<1>3. engine' = engine /\ stored' = stored /\ lost' = lost
  BY DEF Proceeds
<1> HIDE DEF c
<1>4. /\ client'[p] = c /\ OthersStay(p)
      /\ client' \in [Clients -> OpenClient \cup AnsweredClient \cup {IdleClient}]
  BY <1>1, <1>2, ReplacedClient
<1>5. SubmissionTypeOK'
  BY <1>3, <1>4 DEF SubmissionTypeOK
<1> QED
  BY <1>1, <1>3, <1>4, <1>5

LEMMA AnswersFacts ==
    ASSUME SubmissionTypeOK, NEW p \in Clients, NEW r \in SubmitRequests,
           NEW seen \in SUBSET KeyRows, NEW outcome \in Outcomes,
           AnswersWith(p, r, seen, outcome)
    PROVE  /\ client'[p] \in AnsweredClient
           /\ client'[p].pc = "answered" /\ client'[p].request = r
           /\ client'[p].seen = seen /\ client'[p].outcome = outcome
           /\ OthersStay(p)
           /\ client' \in [Clients -> OpenClient \cup AnsweredClient \cup {IdleClient}]
<1> DEFINE c == [pc |-> "answered", request |-> r, seen |-> seen, outcome |-> outcome]
<1>1. /\ c \in AnsweredClient /\ c.pc = "answered" /\ c.request = r
      /\ c.seen = seen /\ c.outcome = outcome
  BY AnsweredShape
<1>2. client' = [client EXCEPT ![p] = c]
  BY DEF AnswersWith
<1> HIDE DEF c
<1> QED
  BY <1>1, <1>2, ReplacedClient

(* A step of p that keeps what is committed keeps the others sound.        *)
LEMMA OthersSound ==
    ASSUME SubmissionInvariant, ~lost, NEW p \in Clients, OthersStay(p),
           engine' = engine, stored' = stored
    PROVE  \A q \in Clients \ {p} : ClientSound(q)'
<1> TAKE q \in Clients \ {p}
<1>1. client'[q] = client[q]
  BY DEF OthersStay
<1>2. ClientSound(q)
  BY DEF SubmissionInvariant, SubmissionSound
<1> QED
  BY <1>1, <1>2 DEF ClientSound, Open

(* Apart is kept when p closes ... *)
LEMMA ClosedApart ==
    ASSUME SubmissionInvariant, ~lost, NEW p \in Clients, OthersStay(p), engine' = engine,
           client'[p].pc \in {"idle", "answered"}
    PROVE  Apart'
<1> SUFFICES ASSUME NEW x \in Clients, NEW y \in Clients, x # y, Open(x)', Open(y)'
             PROVE  /\ engine' # "sqlite"
                    /\ engine' = "postgres" =>
                         \A k \in client'[x].own.keys, l \in client'[y].own.keys : ~SamePlace(k, l)
  BY DEF Apart
<1>1. x # p /\ y # p
  BY DEF Open
<1>2. client'[x] = client[x] /\ client'[y] = client[y] /\ Open(x) /\ Open(y)
  BY <1>1 DEF OthersStay, Open
<1> QED
  BY <1>2 DEF SubmissionInvariant, SubmissionSound, Apart

(* ... and when it goes on, if its keys are nobody else's. *)
LEMMA OpenApart ==
    ASSUME SubmissionInvariant, ~lost, NEW p \in Clients, OthersStay(p), engine' = engine,
           \A q \in Clients \ {p} : Open(q) =>
             /\ engine # "sqlite"
             /\ engine = "postgres" =>
                  \A k \in client'[p].own.keys, l \in client[q].own.keys : ~SamePlace(k, l)
    PROVE  Apart'
<1> SUFFICES ASSUME NEW x \in Clients, NEW y \in Clients, x # y, Open(x)', Open(y)'
             PROVE  /\ engine' # "sqlite"
                    /\ engine' = "postgres" =>
                         \A k \in client'[x].own.keys, l \in client'[y].own.keys : ~SamePlace(k, l)
  BY DEF Apart
<1>1. CASE x = p
  <2>1. client'[y] = client[y] /\ Open(y)
    BY <1>1 DEF OthersStay, Open
  <2> QED
    BY <1>1, <2>1
<1>2. CASE y = p
  <2>1. client'[x] = client[x] /\ Open(x)
    BY <1>2 DEF OthersStay, Open
  <2>2. \A k, l : SamePlace(k, l) <=> SamePlace(l, k)
    BY DEF SamePlace
  <2> QED
    BY <1>2, <2>1, <2>2
<1>3. CASE x # p /\ y # p
  <2>1. client'[x] = client[x] /\ client'[y] = client[y] /\ Open(x) /\ Open(y)
    BY <1>3 DEF OthersStay, Open
  <2> QED
    BY <2>1 DEF SubmissionInvariant, SubmissionSound, Apart
<1> QED
  BY <1>1, <1>2, <1>3

(* So an open p goes on soundly if it is sound itself, and binds no key or *)
(* one that nobody else holds.                                             *)
LEMMA ProceedsKeeps ==
    ASSUME SubmissionInvariant, NEW p \in Clients, client[p] \in OpenClient, Open(p),
           NEW pc \in OpenPcs, NEW own \in Db, Proceeds(p, pc, own),
           ~lost => OpenSound(client'[p], engine, Base(client[p], engine, stored)),
           \/ own.keys = client[p].own.keys
           \/ engine = "postgres" =>
                \A q \in Clients \ {p} : Open(q) =>
                   \A k \in own.keys, l \in client[q].own.keys : ~SamePlace(k, l)
    PROVE  SubmissionInvariant'
<1>1. /\ client'[p].pc = pc /\ client'[p].own = own /\ client'[p].copy = client[p].copy
      /\ OthersStay(p) /\ SubmissionTypeOK' /\ engine' = engine /\ stored' = stored /\ lost' = lost
  BY ProceedsFacts DEF SubmissionInvariant
<1>2. SUFFICES ASSUME ~lost PROVE Sound(stored)' /\ Apart' /\ \A q \in Clients : ClientSound(q)'
  BY <1>1 DEF SubmissionInvariant, SubmissionSound
<1>3. Sound(stored)'
  BY <1>1, <1>2 DEF SubmissionInvariant, SubmissionSound
<1>4. ASSUME NEW q \in Clients \ {p}, Open(q)
      PROVE  /\ engine # "sqlite"
             /\ engine = "postgres" =>
                  \A k \in client'[p].own.keys, l \in client[q].own.keys : ~SamePlace(k, l)
  BY <1>1, <1>2, <1>4 DEF SubmissionInvariant, SubmissionSound, Apart
<1>5. Apart'
  BY <1>1, <1>2, <1>4, OpenApart
<1>6. Base(client'[p], engine', stored') = Base(client[p], engine, stored)
  BY <1>1 DEF Base
<1>7. ClientSound(p)'
  BY <1>1, <1>2, <1>6 DEF ClientSound, OpenPcs
<1> QED
  BY <1>1, <1>2, <1>3, <1>5, <1>7, OthersSound

(* A p that is answered without a run leaves everything else alone. *)
LEMMA AnsweredKeeps ==
    ASSUME SubmissionInvariant, NEW p \in Clients, NEW r \in SubmitRequests,
           NEW seen \in SUBSET KeyRows, NEW outcome \in Outcomes,
           AnswersWith(p, r, seen, outcome), UNCHANGED <<engine, stored, lost>>,
           outcome # "run",
           ~lost => \/ outcome = "refused" \/ seen = {}
                    \/ outcome = "conflict" /\ {k.run : k \in seen} # {RunId(r)}
    PROVE  SubmissionInvariant'
<1>1. /\ client'[p].pc = "answered" /\ client'[p].request = r
      /\ client'[p].seen = seen /\ client'[p].outcome = outcome
      /\ OthersStay(p)
      /\ client' \in [Clients -> OpenClient \cup AnsweredClient \cup {IdleClient}]
  BY AnswersFacts DEF SubmissionInvariant
<1>2. SubmissionTypeOK'
  BY <1>1 DEF SubmissionInvariant, SubmissionTypeOK
<1>3. SUFFICES ASSUME ~lost PROVE Sound(stored)' /\ Apart' /\ \A q \in Clients : ClientSound(q)'
  BY <1>2 DEF SubmissionInvariant, SubmissionSound
<1>4. Sound(stored)'
  BY <1>3 DEF SubmissionInvariant, SubmissionSound
<1>5. Apart'
  BY <1>1, <1>3, ClosedApart
<1>6. ToldOfRun(client'[p], stored')
  BY <1>1 DEF ToldOfRun
<1>7. Repeated(client'[p])
  <2>1. seen = {} => {k.run : k \in seen} = {}
    OBVIOUS
  <2> QED
    BY <1>1, <1>3, <2>1 DEF Repeated
<1>8. ClientSound(p)'
  BY <1>1, <1>6, <1>7 DEF ClientSound, Open
<1> QED
  BY <1>1, <1>3, <1>4, <1>5, <1>8, OthersSound

-----------------------------------------------------------------------------
(* One lemma per action. *)

LEMMA AbandonKeeps ==
    ASSUME SubmissionInvariant, NEW p \in Clients, Abandon(p)
    PROVE  SubmissionInvariant'
<1> DEFINE c == [pc |-> "idle"]
<1>1. /\ client' = [client EXCEPT ![p] = c] /\ c = IdleClient /\ c.pc = "idle"
      /\ engine' = engine /\ stored' = stored /\ lost' = lost
  BY DEF Abandon, IdleClient
<1> HIDE DEF c
<1>2. /\ client'[p] = c /\ OthersStay(p)
      /\ client' \in [Clients -> OpenClient \cup AnsweredClient \cup {IdleClient}]
  BY <1>1, ReplacedClient DEF SubmissionInvariant
<1>3. SubmissionTypeOK'
  BY <1>1, <1>2 DEF SubmissionInvariant, SubmissionTypeOK
<1>4. SUFFICES ASSUME ~lost PROVE Sound(stored)' /\ Apart' /\ \A q \in Clients : ClientSound(q)'
  BY <1>1, <1>3 DEF SubmissionInvariant, SubmissionSound
<1>5. Sound(stored)'
  BY <1>1, <1>4 DEF SubmissionInvariant, SubmissionSound
<1>6. Apart'
  BY <1>1, <1>2, <1>4, ClosedApart
<1>7. ClientSound(p)'
  BY <1>1, <1>2 DEF ClientSound, Open
<1> QED
  BY <1>1, <1>2, <1>4, <1>5, <1>6, <1>7, OthersSound

LEMMA SubmitKeeps ==
    ASSUME SubmissionInvariant, NEW p \in Clients, NEW r \in SubmitRequests, Submit(p, r)
    PROVE  SubmissionInvariant'
<1> DEFINE seen == KeysOf(stored, r)
           c == [pc |-> "dataset", request |-> r, seen |-> seen, copy |-> stored, own |-> Nothing]
<1>1. seen \in SUBSET KeyRows
  BY DbKinds DEF KeysOf, SubmissionInvariant, SubmissionTypeOK
<1>2. engine' = engine /\ stored' = stored /\ lost' = lost
  BY DEF Submit
<1>3. CASE AnswersWith(p, r, seen, "refused")
  BY <1>1, <1>2, <1>3, AnsweredKeeps DEF Outcomes
<1>4. CASE /\ client' = [client EXCEPT ![p] = c]
           /\ ~(engine = "sqlite" /\ \E q \in Clients \ {p} : Open(q))
  <2>1. /\ c \in OpenClient /\ c.pc = "dataset" /\ c.request = r /\ c.seen = seen
        /\ c.copy = stored /\ c.own = Nothing
    BY <1>1, NothingType DEF OpenClient, OpenPcs, SubmissionInvariant, SubmissionTypeOK
  <2>2. client' = [client EXCEPT ![p] = c]
    BY <1>4
  <2> HIDE DEF c
  <2>3. /\ client'[p] = c /\ OthersStay(p)
        /\ client' \in [Clients -> OpenClient \cup AnsweredClient \cup {IdleClient}]
    BY <2>1, <2>2, ReplacedClient DEF SubmissionInvariant
  <2>4. SubmissionTypeOK'
    BY <1>2, <2>3 DEF SubmissionInvariant, SubmissionTypeOK
  <2>5. SUFFICES ASSUME ~lost PROVE Sound(stored)' /\ Apart' /\ \A q \in Clients : ClientSound(q)'
    BY <1>2, <2>4 DEF SubmissionInvariant, SubmissionSound
  <2>6. Sound(stored)
    BY <2>5 DEF SubmissionInvariant, SubmissionSound
  <2>7. client'[p].own.keys = {}
    BY <2>1, <2>3, NothingType
  <2>8. Apart'
    BY <1>2, <1>4, <2>3, <2>5, <2>7, OpenApart
  <2>9. ClientSound(p)'
    <3>1. Base(c, engine, stored) = stored
      BY <2>1 DEF Base
    <3>2. OpenSound(c, engine, stored)
      BY <2>1, <2>6, NothingType DEF OpenSound
    <3> QED
      BY <1>2, <2>1, <2>3, <3>1, <3>2 DEF ClientSound
  <2> QED
    BY <1>2, <2>3, <2>5, <2>6, <2>8, <2>9, OthersSound
<1> QED
  BY <1>3, <1>4 DEF Submit

LEMMA StoredOnceFacts ==
    ASSUME SubmissionTypeOK, NEW p \in Clients, client[p] \in OpenClient,
           NEW of \in {Dataset(x.items) : x \in SubmitRequests} \cup {EmptyOutput}
    PROVE  /\ StoredOnce(p, of) \in Db
           /\ StoredOnce(p, of).runs = client[p].own.runs
           /\ StoredOnce(p, of).keys = client[p].own.keys
           /\ client[p].own.artifacts \subseteq StoredOnce(p, of).artifacts
           /\ \E a \in Base(client[p], engine, stored).artifacts \cup StoredOnce(p, of).artifacts :
                 a.of = of
<1> DEFINE own == client[p].own
           row == [of |-> of, conv |-> client[p].request.conv]
           new == {a \in {row} : \A b \in Sees(p).artifacts : b.of # of}
           base == Base(client[p], engine, stored)
<1>1. own \in Db
  BY OpenKinds
<1>2. StoredOnce(p, of) = [own EXCEPT !.artifacts = own.artifacts \cup new]
  BY DEF StoredOnce
<1>3. row \in ArtifactRows
  <2> DEFINE contents == {Dataset(x.items) : x \in SubmitRequests} \cup {EmptyOutput}
  <2>1. of \in contents /\ client[p].request \in SubmitRequests
    BY OpenKinds
  <2>2. ArtifactRows = {[of |-> d, conv |-> r.conv] : r \in SubmitRequests, d \in contents}
    BY DEF ArtifactRows
  <2> HIDE DEF contents
  <2> QED
    BY <2>1, <2>2
<1>4. new \in SUBSET ArtifactRows
  BY <1>3
<1>5. /\ StoredOnce(p, of) \in Db
      /\ StoredOnce(p, of).runs = own.runs /\ StoredOnce(p, of).keys = own.keys
      /\ StoredOnce(p, of).artifacts = own.artifacts \cup new
  <2> HIDE DEF own, new
  <2> QED
    BY <1>1, <1>2, <1>4 DEF Db
<1>6. \E a \in base.artifacts \cup own.artifacts \cup new : a.of = of
  <2>1. Sees(p).artifacts = base.artifacts \cup own.artifacts
    BY <1>1, BaseType, MergeFacts
  <2>2. CASE \E b \in Sees(p).artifacts : b.of = of
    <3> HIDE DEF base, own, new
    <3> QED
      BY <2>1, <2>2
  <2>3. CASE \A b \in Sees(p).artifacts : b.of # of
    <3>1. new = {row} /\ row.of = of
      BY <2>3
    <3> HIDE DEF base, own, new, row
    <3> QED
      BY <3>1
  <2> QED
    BY <2>2, <2>3
<1> QED
  BY <1>5, <1>6

LEMMA OpenFacts ==
    ASSUME SubmissionInvariant, NEW p \in Clients, client[p].pc \in OpenPcs
    PROVE  /\ SubmissionTypeOK /\ Open(p) /\ client[p] \in OpenClient
           /\ client[p].request \in SubmitRequests /\ client[p].seen \in SUBSET KeyRows
           /\ client[p].copy \in Db /\ client[p].own \in Db
           /\ Base(client[p], engine, stored) \in Db
           /\ Sees(p) = Merge(Base(client[p], engine, stored), client[p].own)
           /\ Sees(p) \in Db
           /\ ~lost => OpenSound(client[p], engine, Base(client[p], engine, stored))
           /\ ~lost => Sound(stored) /\ Apart
<1>1. SubmissionTypeOK /\ SubmissionSound
  BY DEF SubmissionInvariant
<1>2. Open(p) /\ client[p] \in OpenClient
  BY <1>1, ClientKinds
<1>3. /\ client[p].request \in SubmitRequests /\ client[p].seen \in SUBSET KeyRows
      /\ client[p].copy \in Db /\ client[p].own \in Db
  BY <1>2, OpenKinds
<1>4. /\ Base(client[p], engine, stored) \in Db
      /\ Sees(p) = Merge(Base(client[p], engine, stored), client[p].own)
      /\ Sees(p) \in Db
  BY <1>1, <1>2, BaseType
<1> QED
  BY <1>1, <1>2, <1>3, <1>4 DEF SubmissionSound, ClientSound

LEMMA LoadDatasetKeeps ==
    ASSUME SubmissionInvariant, NEW p \in Clients, LoadDataset(p)
    PROVE  SubmissionInvariant'
<1> DEFINE r == client[p].request
           base == Base(client[p], engine, stored)
<1>0. client[p].pc = "dataset" /\ client[p].pc \in OpenPcs
  BY DEF LoadDataset, OpenPcs
<1>1. /\ SubmissionTypeOK /\ Open(p) /\ client[p] \in OpenClient /\ r \in SubmitRequests
      /\ client[p].seen \in SUBSET KeyRows /\ client[p].own \in Db /\ base \in Db
      /\ Sees(p) = Merge(base, client[p].own)
      /\ ~lost => OpenSound(client[p], engine, base)
  BY <1>0, OpenFacts
<1>2. ASSUME NEW own \in Db, Proceeds(p, "lookup", own),
             own.runs = client[p].own.runs, own.keys = client[p].own.keys,
             \E a \in base.artifacts \cup own.artifacts : a.of = Dataset(r.items)
      PROVE  SubmissionInvariant'
  <2>1. /\ client'[p].pc = "lookup" /\ client'[p].own = own /\ client'[p].request = r
        /\ client'[p].seen = client[p].seen
    BY <1>1, <1>2, ProceedsFacts DEF OpenPcs
  <2>2. ~lost => OpenSound(client'[p], engine, base)
    <3> HIDE DEF base
    <3> QED
      BY <1>0, <1>1, <1>2, <2>1 DEF OpenSound, HasDataset
  <2>3. "lookup" \in OpenPcs
    BY DEF OpenPcs
  <2> QED
    BY <1>1, <1>2, <2>2, <2>3, ProceedsKeeps
<1>3. CASE Proceeds(p, "lookup", StoredOnce(p, Dataset(r.items)))
  <2>1. Dataset(r.items) \in {Dataset(x.items) : x \in SubmitRequests} \cup {EmptyOutput}
    BY <1>1
  <2> QED
    BY <1>1, <1>2, <1>3, <2>1, StoredOnceFacts
<1>4. CASE Input(r) \in Sees(p).artifacts /\ Proceeds(p, "lookup", client[p].own)
  <2>1. Input(r) \in base.artifacts \cup client[p].own.artifacts
    BY <1>1, <1>4, MergeFacts
  <2>2. Input(r).of = Dataset(r.items)
    BY DEF Input
  <2> QED
    BY <1>1, <1>2, <1>4, <2>1, <2>2
<1>5. CASE FailsWith(p, "refused")
  BY <1>1, <1>5, AnsweredKeeps DEF FailsWith, Outcomes
<1> QED
  BY <1>3, <1>4, <1>5 DEF LoadDataset

LEMMA LookupKeyKeeps ==
    ASSUME SubmissionInvariant, NEW p \in Clients, LookupKey(p)
    PROVE  SubmissionInvariant'
<1> DEFINE r == client[p].request
           base == Base(client[p], engine, stored)
           found == IF r.key = Anonymous THEN {} ELSE KeysOf(Sees(p), r)
<1>0. client[p].pc = "lookup" /\ client[p].pc \in OpenPcs
  BY DEF LookupKey, OpenPcs
<1>1. /\ SubmissionTypeOK /\ Open(p) /\ client[p] \in OpenClient /\ r \in SubmitRequests
      /\ client[p].seen \in SUBSET KeyRows /\ client[p].own \in Db /\ base \in Db
      /\ Sees(p) = Merge(base, client[p].own)
      /\ ~lost => OpenSound(client[p], engine, base)
  BY <1>0, OpenFacts
<1>2. ASSUME ~lost
      PROVE  /\ found = KeysOf(base, r)
             /\ client[p].own.runs = {} /\ client[p].own.keys = {}
             /\ client[p].seen # {} => found = client[p].seen
             /\ HasDataset(client[p], base) /\ Sound(base)
  <2>1. /\ client[p].own.runs = {} /\ client[p].own.keys = {}
        /\ client[p].seen # {} => KeysOf(base, r) = client[p].seen
        /\ HasDataset(client[p], base) /\ Sound(base)
    <3> HIDE DEF base
    <3> QED
      BY <1>0, <1>1, <1>2 DEF OpenSound
  <2>2. KeysOf(Sees(p), r) = KeysOf(base, r)
    <3>1. KeysOf(client[p].own, r) = {}
      BY <2>1 DEF KeysOf
    <3> HIDE DEF base, r
    <3> QED
      BY <1>1, <3>1, KeysMerge, SMTT(30)
  <2>3. r.key = Anonymous => KeysOf(base, r) = {}
    <3> HIDE DEF base, r
    <3> QED
      BY <2>1 DEF KeysOf, Sound
  <2> QED
    BY <2>1, <2>2, <2>3
<1>3. ASSUME NEW pc \in {"insert", "output", "commit"}, Proceeds(p, pc, client[p].own),
             \/ pc = "insert" /\ found = {}
             \/ pc # "insert" /\ found # {} /\ \A k \in found : k.run = RunId(r)
      PROVE  SubmissionInvariant'
  <2>1. pc \in OpenPcs
    BY DEF OpenPcs
  <2>2. /\ client'[p].pc = pc /\ client'[p].own = client[p].own /\ client'[p].request = r
        /\ client'[p].seen = client[p].seen
    BY <1>1, <1>3, <2>1, ProceedsFacts
  <2>3. ~lost => OpenSound(client'[p], engine, base)
    <3> HIDE DEF base, found
    <3> QED
      BY <1>1, <1>2, <1>3, <2>2 DEF OpenSound, HasDataset, Found
  <2> QED
    BY <1>1, <1>3, <2>1, <2>3, ProceedsKeeps
<1>4. After(r) \in {"output", "commit"}
  BY DEF After
<1>5. CASE found = {} /\ Proceeds(p, "insert", client[p].own)
  <2> HIDE DEF found
  <2> QED
    BY <1>3, <1>5
<1>6. CASE found # {} /\ (\A k \in found : k.run = RunId(r)) /\ Proceeds(p, After(r), client[p].own)
  <2> HIDE DEF found
  <2> QED
    BY <1>3, <1>4, <1>6
<1>7. CASE (\E k \in found : k.run # RunId(r)) /\ FailsWith(p, "conflict")
  <2>1. ~lost => client[p].seen = {} \/ {k.run : k \in client[p].seen} # {RunId(r)}
    <3> HIDE DEF found, base
    <3> QED
      BY <1>2, <1>7
  <2> QED
    BY <1>1, <1>7, <2>1, AnsweredKeeps DEF FailsWith, Outcomes
<1> QED
  BY <1>5, <1>6, <1>7 DEF LookupKey

LEMMA RunRowKinds ==
    ASSUME NEW r \in SubmitRequests, NEW o \in BOOLEAN, NEW s \in {"not_started", "completed"}
    PROVE  /\ [id |-> RunId(r), items |-> r.items, output |-> o, stage |-> s] \in RunRows
BY DEF RunRows

(* What waits for p's keys does not hold them. *)
LEMMA WaitsApart ==
    ASSUME NEW p \in Clients, NEW r, NEW q \in Clients \ {p}, Open(q), engine = "postgres",
           NEW wanted, ~Waits(p, wanted),
           \A k \in BoundKeys(r) : <<"key", <<k.conv, k.key>>>> \in wanted
    PROVE  \A k \in BoundKeys(r), l \in client[q].own.keys : ~SamePlace(k, l)
<1> SUFFICES ASSUME NEW k \in BoundKeys(r), NEW l \in client[q].own.keys, SamePlace(k, l)
             PROVE  FALSE
  OBVIOUS
<1>1. <<"key", <<l.conv, l.key>>>> \in Uniques(client[q].own)
  BY DEF Uniques
<1>2. <<"key", <<l.conv, l.key>>>> \in wanted
  BY DEF SamePlace
<1> QED
  BY <1>1, <1>2 DEF Waits

LEMMA InsertRunKeeps ==
    ASSUME SubmissionInvariant, NEW p \in Clients, InsertRun(p)
    PROVE  SubmissionInvariant'
<1> DEFINE r == client[p].request
           base == Base(client[p], engine, stored)
           wanted == {<<"run", RunId(r)>>} \cup {<<"key", <<r.conv, k>>>> : k \in {r.key} \ {Anonymous}}
           made == [id |-> RunId(r), items |-> r.items, output |-> FALSE,
                   stage |-> IF r.items = 0 /\ engine # "sqlite" THEN "completed" ELSE "not_started"]
           keys == {[conv |-> r.conv, key |-> k, run |-> RunId(r)] : k \in {r.key} \ {Anonymous}}
           own == [client[p].own EXCEPT !.runs = {made}, !.keys = keys]
<1>0. client[p].pc = "insert" /\ client[p].pc \in OpenPcs /\ ~Waits(p, wanted)
  BY DEF InsertRun, OpenPcs
<1>1. /\ SubmissionTypeOK /\ Open(p) /\ client[p] \in OpenClient /\ r \in SubmitRequests
      /\ client[p].seen \in SUBSET KeyRows /\ client[p].own \in Db /\ base \in Db
      /\ Sees(p) = Merge(base, client[p].own)
      /\ ~lost => OpenSound(client[p], engine, base)
  BY <1>0, OpenFacts
<1>2. keys = BoundKeys(r)
  BY DEF BoundKeys, KeyOf
<1>3. made \in RunRows /\ made.id = RunId(r) /\ made.items = r.items
  BY <1>1, RunRowKinds
<1>4. own \in Db /\ own.runs = {made} /\ own.keys = keys /\ own.artifacts = client[p].own.artifacts
  <2>1. keys \in SUBSET KeyRows
    BY <1>1, <1>2, RowKinds DEF BoundKeys
  <2> HIDE DEF keys, made, wanted
  <2> QED
    BY <1>1, <1>3, <2>1 DEF Db
<1>5. \A k \in BoundKeys(r) : <<"key", <<k.conv, k.key>>>> \in wanted
  BY DEF BoundKeys, KeyOf
<1>6. CASE /\ engine # "memory" => Uniques(Sees(p)) \cap wanted = {}
           /\ Proceeds(p, After(r), own)
  <2>1. After(r) \in OpenPcs /\ After(r) \in {"output", "commit"}
        /\ (After(r) = "commit" => r.items # 0)
    BY DEF After, OpenPcs
  <2> HIDE DEF own, made, keys
  <2>2. /\ client'[p].pc = After(r) /\ client'[p].own = own /\ client'[p].request = r
        /\ client'[p].seen = client[p].seen
    BY <1>1, <1>4, <1>6, <2>1, ProceedsFacts
  <2>3. ASSUME ~lost PROVE OpenSound(client'[p], engine, base)
    <3>1. /\ Sound(base) /\ client[p].seen = {} /\ HasDataset(client[p], base)
          /\ engine = "memory" => KeysOf(base, r) = {}
      <4> HIDE DEF base
      <4> QED
        BY <1>0, <1>1, <2>3 DEF OpenSound
    <3>2. KeysOf(base, r) = {}
      <4>1. SUFFICES ASSUME engine # "memory", NEW k \in KeysOf(base, r) PROVE FALSE
        BY <3>1
      <4>2. k \in base.keys /\ k.conv = r.conv /\ k.key = r.key
        BY DEF KeysOf
      <4>3. r.key # Anonymous
        <5> HIDE DEF base
        <5> QED
          BY <3>1, <4>2 DEF Sound
      <4>4. <<"key", <<k.conv, k.key>>>> \in wanted
        BY <4>2, <4>3
      <4>5. k \in Sees(p).keys
        <5> HIDE DEF base
        <5> QED
          BY <1>1, <4>2, MergeFacts
      <4>6. <<"key", <<k.conv, k.key>>>> \in Uniques(Sees(p))
        BY <4>5 DEF Uniques
      <4> HIDE DEF wanted
      <4> QED
        BY <1>6, <4>1, <4>4, <4>6
    <3>3. Inserted(client'[p], base)
      <4> HIDE DEF base
      <4> QED
        BY <1>2, <1>3, <1>4, <2>1, <2>2, <3>2 DEF Inserted
    <3>4. HasDataset(client'[p], base)
      <4> HIDE DEF base
      <4> QED
        BY <1>4, <2>2, <3>1 DEF HasDataset
    <3> HIDE DEF base
    <3> QED
      BY <2>1, <2>2, <3>1, <3>3, <3>4 DEF OpenSound
  <2>4. engine = "postgres" =>
          \A q \in Clients \ {p} : Open(q) =>
             \A k \in own.keys, l \in client[q].own.keys : ~SamePlace(k, l)
    <3> HIDE DEF wanted
    <3> QED
      BY <1>0, <1>2, <1>4, <1>5, WaitsApart
  <2> QED
    BY <1>1, <1>4, <1>6, <2>1, <2>3, <2>4, ProceedsKeeps
<1>7. CASE FailsWith(p, "error")
  <2>1. ~lost => client[p].seen = {}
    <3> HIDE DEF base
    <3> QED
      BY <1>0, <1>1 DEF OpenSound
  <2> QED
    BY <1>1, <1>7, <2>1, AnsweredKeeps DEF FailsWith, Outcomes
<1> QED
  <2>1. IF engine # "memory" /\ Uniques(Sees(p)) \cap wanted # {} THEN FailsWith(p, "error")
        ELSE Proceeds(p, After(r), own)
    BY DEF InsertRun
  <2> HIDE DEF own, wanted
  <2> QED
    BY <1>6, <1>7, <2>1

LEMMA StoreOutputKeeps ==
    ASSUME SubmissionInvariant, NEW p \in Clients, StoreOutput(p)
    PROVE  SubmissionInvariant'
<1> DEFINE r == client[p].request
           base == Base(client[p], engine, stored)
           Completed(made) == IF made.stage = "completed" THEN made
                             ELSE [made EXCEPT !.stage = "completed", !.output = TRUE]
           once == StoredOnce(p, EmptyOutput)
           runs == {Completed(made) : made \in once.runs}
           own == [once EXCEPT !.runs = runs]
<1>0. client[p].pc = "output" /\ client[p].pc \in OpenPcs /\ Proceeds(p, "commit", own)
  BY DEF StoreOutput, OpenPcs
<1>1. /\ SubmissionTypeOK /\ Open(p) /\ client[p] \in OpenClient /\ r \in SubmitRequests
      /\ client[p].seen \in SUBSET KeyRows /\ client[p].own \in Db /\ base \in Db
      /\ ~lost => OpenSound(client[p], engine, base)
  BY <1>0, OpenFacts
<1>2. /\ once \in Db /\ once.runs = client[p].own.runs /\ once.keys = client[p].own.keys
      /\ client[p].own.artifacts \subseteq once.artifacts
  BY <1>1, StoredOnceFacts
<1>3. ASSUME NEW made \in RunRows
      PROVE  /\ Completed(made) \in RunRows /\ Completed(made).stage = "completed"
             /\ Completed(made).id = made.id /\ Completed(made).items = made.items
  <2>1. PICK x \in SubmitRequests, o \in BOOLEAN, s \in {"not_started", "completed"} :
          made = [id |-> RunId(x), items |-> x.items, output |-> o, stage |-> s]
    BY DEF RunRows
  <2>2. CASE made.stage = "completed"
    BY <2>2
  <2>3. CASE made.stage # "completed"
    <3>1. Completed(made) = [id |-> RunId(x), items |-> x.items, output |-> TRUE, stage |-> "completed"]
      BY <2>1, <2>3
    <3>2. Completed(made) \in RunRows
      BY <3>1, RunRowKinds
    <3> QED
      BY <2>1, <3>1, <3>2
  <2> QED
    BY <2>2, <2>3
<1> HIDE DEF Completed, once
<1>4. own \in Db /\ own.runs = runs /\ own.keys = once.keys /\ own.artifacts = once.artifacts
  <2>1. runs \in SUBSET RunRows
    BY <1>2, <1>3 DEF Db
  <2> HIDE DEF runs
  <2> QED
    BY <1>2, <2>1 DEF Db
<1> HIDE DEF own
<1>5. /\ client'[p].pc = "commit" /\ client'[p].own = own /\ client'[p].request = r
      /\ client'[p].seen = client[p].seen
  BY <1>0, <1>1, <1>4, ProceedsFacts DEF OpenPcs
<1>6. ASSUME ~lost PROVE OpenSound(client'[p], engine, base)
  <2>1. /\ Sound(base) /\ HasDataset(client[p], base)
        /\ client[p].seen # {} => KeysOf(base, r) = client[p].seen
        /\ Found(client[p], base) \/ Inserted(client[p], base)
    <3> HIDE DEF base
    <3> QED
      BY <1>0, <1>1, <1>6 DEF OpenSound
  <2>2. HasDataset(client'[p], base)
    <3> HIDE DEF base
    <3> QED
      BY <1>2, <1>4, <1>5, <2>1 DEF HasDataset
  <2>3. CASE Found(client[p], base)
    <3>1. runs = {}
      BY <1>2, <2>3 DEF Found
    <3>2. Found(client'[p], base)
      <4> HIDE DEF base, runs
      <4> QED
        BY <1>2, <1>4, <1>5, <2>3, <3>1 DEF Found
    <3> HIDE DEF base
    <3> QED
      BY <1>5, <2>1, <2>2, <3>2 DEF OpenSound
  <2>4. CASE Inserted(client[p], base)
    <3>1. PICK made \in RunRows :
             client[p].own.runs = {made} /\ made.id = RunId(r) /\ made.items = r.items
      BY <2>4 DEF Inserted
    <3>2. runs = {Completed(made)}
      BY <1>2, <3>1
    <3>3. /\ Completed(made) \in RunRows /\ Completed(made).stage = "completed"
          /\ Completed(made).id = RunId(r) /\ Completed(made).items = r.items
      BY <1>3, <3>1
    <3>4. Inserted(client'[p], base)
      <4> HIDE DEF base, runs
      <4> QED
        BY <1>2, <1>4, <1>5, <2>4, <3>2, <3>3 DEF Inserted
    <3> HIDE DEF base
    <3> QED
      BY <1>5, <2>1, <2>2, <3>4 DEF OpenSound
  <2> QED
    BY <2>1, <2>3, <2>4
<1> QED
  BY <1>0, <1>1, <1>2, <1>4, <1>6, ProceedsKeeps DEF OpenPcs

-----------------------------------------------------------------------------
(* What a commit makes of what is committed. *)

LEMMA CommittedKeys ==
    ASSUME NEW c \in OpenClient, c.pc = "commit", NEW e, NEW db \in Db, OpenSound(c, e, db), NEW x
    PROVE  LET m == Merge(db, c.own) IN
           /\ KeysOf(db, x) \subseteq KeysOf(m, x)
           /\ KeysOf(m, x) # KeysOf(db, x) =>
                /\ KeysOf(db, x) = {}
                /\ c.request.key # Anonymous
                /\ x.conv = c.request.conv /\ x.key = c.request.key
                /\ c.own.keys = {KeyOf(c.request)} /\ Inserted(c, db)
<1> DEFINE m == Merge(db, c.own)
           r == c.request
<1>1. c.own \in Db /\ r \in SubmitRequests
  BY OpenKinds
<1>2. KeysOf(m, x) = KeysOf(db, x) \cup KeysOf(c.own, x)
  BY <1>1, KeysMerge
<1>3. Found(c, db) \/ Inserted(c, db)
  BY DEF OpenSound
<1>4. CASE c.own.keys = {}
  <2>1. KeysOf(c.own, x) = {}
    BY <1>4 DEF KeysOf
  <2> QED
    BY <1>2, <2>1
<1>5. CASE c.own.keys # {}
  <2>1. Inserted(c, db)
    BY <1>3, <1>5 DEF Found
  <2>2. c.own.keys = BoundKeys(r) /\ KeysOf(db, r) = {}
    BY <2>1 DEF Inserted
  <2>3. r.key # Anonymous /\ c.own.keys = {KeyOf(r)}
    BY <1>1, <1>5, <2>2, RowKinds
  <2>4. KeysOf(c.own, x) # {} => x.conv = r.conv /\ x.key = r.key
    BY <2>3 DEF KeysOf, KeyOf
  <2>5. x.conv = r.conv /\ x.key = r.key => KeysOf(db, x) = KeysOf(db, r)
    BY DEF KeysOf
  <2> HIDE DEF r
  <2>6. CASE KeysOf(c.own, x) = {}
    BY <1>2, <2>6
  <2>7. CASE KeysOf(c.own, x) # {}
    <3>1. x.conv = r.conv /\ x.key = r.key /\ KeysOf(db, x) = {}
      BY <2>2, <2>4, <2>5, <2>7
    <3> QED
      BY <1>2, <2>1, <2>3, <3>1 DEF r
  <2> QED
    BY <2>6, <2>7
<1> QED
  BY <1>4, <1>5

LEMMA CommittedSound ==
    ASSUME NEW c \in OpenClient, c.pc = "commit", NEW e, NEW db \in Db, OpenSound(c, e, db)
    PROVE  Sound(Merge(db, c.own))
<1> DEFINE m == Merge(db, c.own)
           r == c.request
<1>1. c.own \in Db /\ r \in SubmitRequests
  BY OpenKinds
<1>2. /\ m \in Db /\ m.runs = db.runs \cup c.own.runs /\ m.keys = db.keys \cup c.own.keys
      /\ m.artifacts = db.artifacts \cup c.own.artifacts
  BY <1>1, MergeFacts
<1>3. Sound(db) /\ (Found(c, db) \/ Inserted(c, db)) /\ HasDataset(c, db)
  BY DEF OpenSound
<1> HIDE DEF m
<1>4. ASSUME NEW made \in m.runs
      PROVE  /\ made.items = 0 => made.stage = "completed"
             /\ \E a \in m.artifacts : a.of = Dataset(made.items)
  <2>1. CASE made \in db.runs
    BY <1>2, <1>3, <2>1 DEF Sound
  <2>2. CASE made \in c.own.runs
    <3>1. made.items = r.items /\ (made.items = 0 => made.stage = "completed")
      BY <1>3, <2>2 DEF Found, Inserted
    <3> QED
      BY <1>2, <1>3, <3>1 DEF HasDataset
  <2> QED
    BY <1>2, <1>4, <2>1, <2>2
<1>5. ASSUME NEW k \in m.keys
      PROVE  k.key # Anonymous /\ \E made \in m.runs : made.id = k.run
  <2>1. CASE k \in db.keys
    BY <1>2, <1>3, <2>1 DEF Sound
  <2>2. CASE k \in c.own.keys
    <3>1. Inserted(c, db) /\ c.own.keys = BoundKeys(r)
      BY <1>3, <2>2 DEF Found, Inserted
    <3>2. r.key # Anonymous /\ k = KeyOf(r)
      BY <1>1, <2>2, <3>1, RowKinds
    <3>3. k.key # Anonymous /\ k.run = RunId(r)
      BY <1>1, <3>2, RowKinds
    <3>4. PICK made \in c.own.runs : made.id = RunId(r)
      BY <3>1 DEF Inserted
    <3> QED
      BY <1>2, <3>3, <3>4
  <2> QED
    BY <1>2, <1>5, <2>1, <2>2
<1>6. ASSUME NEW k \in m.keys, NEW l \in m.keys, l.conv = k.conv, l.key = k.key
      PROVE  l = k
  <2>1. k \in KeysOf(m, k) /\ l \in KeysOf(m, k)
    BY <1>6 DEF KeysOf
  <2>2. CASE KeysOf(m, k) = KeysOf(db, k)
    <3>1. k \in db.keys /\ l \in db.keys
      BY <2>1, <2>2 DEF KeysOf
    <3> QED
      BY <1>3, <1>6, <3>1 DEF Sound
  <2>3. CASE KeysOf(m, k) # KeysOf(db, k)
    <3>1. KeysOf(db, k) = {} /\ c.own.keys = {KeyOf(r)}
      BY <2>3, CommittedKeys DEF m
    <3>2. KeysOf(m, k) \subseteq c.own.keys
      BY <1>2, <3>1 DEF KeysOf
    <3> QED
      BY <2>1, <3>1, <3>2
  <2> QED
    BY <2>2, <2>3
<1> QED
  BY <1>4, <1>5, <1>6 DEF Sound, m

LEMMA CommittedToldOfRun ==
    ASSUME NEW c \in OpenClient, c.pc = "commit", NEW e, NEW db \in Db, OpenSound(c, e, db)
    PROVE  LET m == Merge(db, c.own)
               r == c.request
           IN /\ \E made \in m.runs : made.id = RunId(r) /\ (r.items = 0 => made.stage = "completed")
              /\ {k.run : k \in KeysOf(m, r)} = {RunId(r) : k \in {r.key} \ {Anonymous}}
<1> DEFINE m == Merge(db, c.own)
           r == c.request
<1>1. c.own \in Db /\ r \in SubmitRequests
  BY OpenKinds
<1>2. m.runs = db.runs \cup c.own.runs /\ KeysOf(m, r) = KeysOf(db, r) \cup KeysOf(c.own, r)
  <2>1. m.runs = db.runs \cup c.own.runs
    BY <1>1, MergeFacts
  <2>2. KeysOf(m, r) = KeysOf(db, r) \cup KeysOf(c.own, r)
    BY <1>1, KeysMerge
  <2> QED
    BY <2>1, <2>2
<1>3. Sound(db) /\ (Found(c, db) \/ Inserted(c, db))
  BY DEF OpenSound
<1> HIDE DEF m
<1>4. CASE Found(c, db)
  <2>1. /\ KeysOf(m, r) = KeysOf(db, r) /\ KeysOf(db, r) # {}
        /\ \A k \in KeysOf(db, r) : k.run = RunId(r)
    <3>1. KeysOf(c.own, r) = {}
      BY <1>4 DEF Found, KeysOf
    <3> QED
      BY <1>2, <1>4, <3>1 DEF Found
  <2>2. PICK k \in KeysOf(db, r) : k.run = RunId(r)
    BY <2>1
  <2>3. k \in db.keys /\ k.key = r.key
    BY DEF KeysOf
  <2>4. r.key # Anonymous
    BY <1>3, <2>3 DEF Sound
  <2>5. PICK made \in db.runs : made.id = RunId(r)
    BY <1>3, <2>2, <2>3 DEF Sound
  <2>6. made.items = r.items
    <3>1. made \in RunRows
      BY DbKinds
    <3>2. PICK x \in SubmitRequests : made.id = RunId(x) /\ made.items = x.items
      BY <3>1 DEF RunRows
    <3>3. RunId(x) = RunId(r)
      BY <2>5, <3>2
    <3>4. x.items = r.items
      BY <3>3 DEF RunId
    <3> QED
      BY <3>2, <3>4
  <2>7. r.items = 0 => made.stage = "completed"
    BY <1>3, <2>5, <2>6 DEF Sound
  <2>8. {l.run : l \in KeysOf(m, r)} = {RunId(r)}
    BY <2>1
  <2>9. {RunId(r) : l \in {r.key} \ {Anonymous}} = {RunId(r)}
    BY <2>4
  <2> QED
    BY <1>2, <2>5, <2>7, <2>8, <2>9 DEF m
<1>5. CASE Inserted(c, db)
  <2>1. KeysOf(db, r) = {} /\ c.own.keys = BoundKeys(r)
    BY <1>5 DEF Inserted
  <2>2. PICK made \in c.own.runs : made.id = RunId(r) /\ (r.items = 0 => made.stage = "completed")
    BY <1>5 DEF Inserted
  <2>3. KeysOf(c.own, r) = BoundKeys(r)
    <3>1. \A k \in BoundKeys(r) : k.conv = r.conv /\ k.key = r.key
      BY DEF BoundKeys, KeyOf
    <3> QED
      BY <2>1, <3>1 DEF KeysOf
  <2>4. KeysOf(m, r) = BoundKeys(r)
    BY <1>2, <2>1, <2>3
  <2>5. {k.run : k \in BoundKeys(r)} = {RunId(r) : k \in {r.key} \ {Anonymous}}
    <3>1. CASE r.key = Anonymous
      BY <3>1 DEF BoundKeys
    <3>2. CASE r.key # Anonymous
      <4>1. BoundKeys(r) = {KeyOf(r)} /\ KeyOf(r).run = RunId(r)
        BY <3>2 DEF BoundKeys, KeyOf
      <4>2. {RunId(r) : k \in {r.key} \ {Anonymous}} = {RunId(r)}
        BY <3>2
      <4> HIDE DEF r
      <4> QED
        BY <4>1, <4>2
    <3> QED
      BY <3>1, <3>2
  <2> QED
    BY <1>2, <2>2, <2>4, <2>5 DEF m
<1> QED
  BY <1>3, <1>4, <1>5

(* What the commit of another c does to an open d, where no two hold rows  *)
(* of one key ...                                                          *)
LEMMA CommitKeepsOpen ==
    ASSUME NEW c \in OpenClient, c.pc = "commit", NEW e, NEW db \in Db, OpenSound(c, e, db),
           NEW d \in OpenClient, e = "postgres", OpenSound(d, e, db),
           \A k \in c.own.keys, l \in d.own.keys : ~SamePlace(k, l)
    PROVE  OpenSound(d, e, Merge(db, c.own))
<1> DEFINE m == Merge(db, c.own)
           x == d.request
<1>1. /\ Sound(m) /\ Sound(db) /\ m.artifacts = db.artifacts \cup c.own.artifacts
      /\ x \in SubmitRequests
  BY CommittedSound, MergeFacts, OpenKinds DEF OpenSound
<1>2. KeysOf(db, x) # {} => KeysOf(m, x) = KeysOf(db, x)
  BY CommittedKeys
<1>3. Inserted(d, db) => KeysOf(m, x) = {}
  <2>1. SUFFICES ASSUME Inserted(d, db), KeysOf(m, x) # KeysOf(db, x) PROVE FALSE
    BY DEF Inserted
  <2>2. /\ c.request.key # Anonymous /\ x.conv = c.request.conv /\ x.key = c.request.key
        /\ c.own.keys = {KeyOf(c.request)}
    BY <2>1, CommittedKeys
  <2>3. d.own.keys = {KeyOf(x)}
    BY <1>1, <2>1, <2>2, RowKinds DEF Inserted
  <2>4. SamePlace(KeyOf(c.request), KeyOf(x))
    BY <2>2 DEF SamePlace, KeyOf
  <2> QED
    BY <2>2, <2>3, <2>4
<1>4. HasDataset(d, db) => HasDataset(d, m)
  BY <1>1 DEF HasDataset
<1> HIDE DEF m
<1>5. Found(d, db) => Found(d, m)
  BY <1>2 DEF Found
<1>6. Inserted(d, db) => Inserted(d, m)
  BY <1>3 DEF Inserted
<1>7. OpenSound(d, e, m)
  BY <1>1, <1>2, <1>4, <1>5, <1>6 DEF OpenSound
<1> QED
  BY <1>7 DEF m

(* ... and to a d that was answered. *)
LEMMA CommitKeepsTold ==
    ASSUME NEW c \in OpenClient, c.pc = "commit", NEW e, NEW db \in Db, OpenSound(c, e, db),
           NEW d \in AnsweredClient, ToldOfRun(d, db)
    PROVE  ToldOfRun(d, Merge(db, c.own))
<1> DEFINE m == Merge(db, c.own)
           x == d.request
           bound == {RunId(x) : k \in {x.key} \ {Anonymous}}
<1>1. m.runs = db.runs \cup c.own.runs
  BY MergeFacts, OpenKinds
<1>2. SUFFICES ASSUME d.outcome = "run"
               PROVE  /\ \E made \in m.runs : made.id = RunId(x) /\ (x.items = 0 => made.stage = "completed")
                      /\ {k.run : k \in KeysOf(m, x)} = bound
  BY DEF ToldOfRun
<1>3. /\ \E made \in db.runs : made.id = RunId(x) /\ (x.items = 0 => made.stage = "completed")
      /\ {k.run : k \in KeysOf(db, x)} = bound
  BY <1>2 DEF ToldOfRun
<1>4. KeysOf(m, x) = KeysOf(db, x)
  <2>1. SUFFICES ASSUME KeysOf(m, x) # KeysOf(db, x) PROVE FALSE
    OBVIOUS
  <2>2. KeysOf(db, x) = {} /\ x.key # Anonymous
    BY <2>1, CommittedKeys
  <2>3. bound = {}
    BY <1>3, <2>2
  <2>4. RunId(x) \in bound
    BY <2>2
  <2> QED
    BY <2>3, <2>4
<1> HIDE DEF m, bound
<1> QED
  BY <1>1, <1>3, <1>4

LEMMA CommitKeeps ==
    ASSUME SubmissionInvariant, NEW p \in Clients, Commit(p)
    PROVE  SubmissionInvariant'
<1> DEFINE c == client[p]
           r == client[p].request
           base == Base(client[p], engine, stored)
<1>0. c.pc = "commit" /\ c.pc \in OpenPcs
  BY DEF Commit, OpenPcs
<1>1. /\ SubmissionTypeOK /\ Open(p) /\ c \in OpenClient /\ r \in SubmitRequests
      /\ c.seen \in SUBSET KeyRows /\ c.own \in Db /\ base \in Db
      /\ Sees(p) = Merge(base, c.own) /\ Sees(p) \in Db
      /\ ~lost => OpenSound(c, engine, base) /\ Sound(stored) /\ Apart
  BY <1>0, OpenFacts
<1>2. engine' = engine /\ stored' = Merge(base, c.own) /\ stored' \in Db
  BY <1>1 DEF Commit
<1>3. /\ client'[p].pc = "answered" /\ client'[p].request = r
      /\ client'[p].seen = c.seen /\ client'[p].outcome = "run"
      /\ OthersStay(p)
      /\ client' \in [Clients -> OpenClient \cup AnsweredClient \cup {IdleClient}]
  <2>1. AnswersWith(p, r, c.seen, "run") /\ "run" \in Outcomes
    BY DEF Commit, Outcomes
  <2> HIDE DEF c, r
  <2> QED
    BY <1>1, <2>1, AnswersFacts
<1>4. lost' \in BOOLEAN
  BY <1>1 DEF Commit, SubmissionTypeOK
<1>5. SubmissionTypeOK'
  BY <1>1, <1>2, <1>3, <1>4 DEF SubmissionTypeOK
<1>6. SUFFICES ASSUME ~lost' PROVE Sound(stored)' /\ Apart' /\ \A q \in Clients : ClientSound(q)'
  BY <1>5 DEF SubmissionInvariant, SubmissionSound
<1>7. ~lost /\ base = stored
  BY <1>6 DEF Commit, Base
<1>8. OpenSound(c, engine, stored) /\ stored' = Merge(stored, c.own) /\ stored \in Db
  BY <1>1, <1>2, <1>7
<1>9. Sound(stored)'
  BY <1>0, <1>1, <1>8, CommittedSound
<1>10. Apart'
  BY <1>2, <1>3, <1>7, ClosedApart
<1>11. ClientSound(p)'
  <2>1. ToldOfRun(client'[p], stored')
    <3>1. /\ \E made \in stored'.runs : made.id = RunId(r) /\ (r.items = 0 => made.stage = "completed")
          /\ {k.run : k \in KeysOf(stored', r)} = {RunId(r) : k \in {r.key} \ {Anonymous}}
      BY <1>0, <1>1, <1>8, CommittedToldOfRun
    <3> HIDE DEF r
    <3> QED
      BY <1>3, <3>1 DEF ToldOfRun
  <2>2. Repeated(client'[p])
    <3>1. CASE c.seen = {}
      <4>1. {k.run : k \in c.seen} = {}
        BY <3>1
      <4> QED
        BY <1>3, <4>1 DEF Repeated
    <3>2. CASE c.seen # {}
      <4>1. KeysOf(stored, r) = c.seen /\ (Found(c, stored) \/ Inserted(c, stored))
        BY <1>0, <1>8, <3>2 DEF OpenSound
      <4>2. \A k \in c.seen : k.run = RunId(r)
        BY <3>2, <4>1 DEF Found, Inserted
      <4>3. {k.run : k \in c.seen} = {RunId(r)}
        BY <3>2, <4>2
      <4> QED
        BY <1>3, <4>3 DEF Repeated
    <3> QED
      BY <3>1, <3>2
  <2> QED
    BY <1>3, <2>1, <2>2 DEF ClientSound, Open
<1>12. ASSUME NEW q \in Clients \ {p} PROVE ClientSound(q)'
  <2> DEFINE d == client[q]
  <2>1. client'[q] = d
    BY <1>3 DEF OthersStay
  <2>2. /\ Open(q) => d \in OpenClient
        /\ d.pc = "answered" => d \in AnsweredClient
    BY <1>1, ClientKinds
  <2>3. ClientSound(q)
    BY <1>7 DEF SubmissionInvariant, SubmissionSound
  <2>4. d.pc = "answered" => ToldOfRun(d, stored') /\ Repeated(d)
    BY <1>0, <1>1, <1>8, <2>2, <2>3, CommitKeepsTold DEF ClientSound
  <2>5. Open(q) => OpenSound(d, engine, Base(d, engine, stored'))
    <3>1. SUFFICES ASSUME Open(q) PROVE OpenSound(d, engine, Base(d, engine, stored'))
      OBVIOUS
    <3>2. OpenSound(d, engine, Base(d, engine, stored)) /\ d \in OpenClient
      BY <2>2, <2>3, <3>1 DEF ClientSound
    <3>3. engine \in {"memory", "postgres"}
      BY <1>1, <1>7, <3>1 DEF Apart, SubmissionTypeOK
    <3>4. CASE engine = "memory"
      BY <3>2, <3>4 DEF Base
    <3>5. CASE engine = "postgres"
      <4>1. \A k \in c.own.keys, l \in d.own.keys : ~SamePlace(k, l)
        BY <1>1, <1>7, <3>1, <3>5 DEF Apart
      <4>2. Base(d, engine, stored) = stored /\ Base(d, engine, stored') = stored'
        BY <3>5 DEF Base
      <4>3. OpenSound(d, engine, stored)
        BY <3>2, <4>2
      <4>4. OpenSound(d, engine, stored')
        <5> HIDE DEF c, d
        <5> QED
          BY <1>0, <1>1, <1>8, <3>2, <3>5, <4>1, <4>3, CommitKeepsOpen
      <4> QED
        BY <4>2, <4>4
    <3> QED
      BY <3>3, <3>4, <3>5
  <2> QED
    BY <1>2, <2>1, <2>4, <2>5 DEF ClientSound, Open
<1> QED
  BY <1>9, <1>10, <1>11, <1>12

-----------------------------------------------------------------------------
(* The invariant holds, and is as much as SubmissionAnswered asks. *)

LEMMA SubmissionStarts ==
    ASSUME SubmissionInit
    PROVE  SubmissionInvariant
<1>1. PICK artifacts \in SUBSET {Input(r) : r \in {x \in SubmitRequests : ~ x.inline}} :
        stored = [Nothing EXCEPT !.artifacts = artifacts]
  BY DEF SubmissionInit
<1>2. \A r \in SubmitRequests : Input(r) \in ArtifactRows
  <2> DEFINE contents == {Dataset(x.items) : x \in SubmitRequests} \cup {EmptyOutput}
  <2>1. \A r \in SubmitRequests : Dataset(r.items) \in contents
    OBVIOUS
  <2>2. ArtifactRows = {[of |-> d, conv |-> r.conv] : r \in SubmitRequests, d \in contents}
    BY DEF ArtifactRows
  <2> HIDE DEF contents
  <2> QED
    BY <2>1, <2>2 DEF Input
<1>3. artifacts \in SUBSET ArtifactRows
  BY <1>2
<1>4. /\ stored \in Db /\ stored.runs = {} /\ stored.keys = {}
  BY <1>1, <1>3 DEF Nothing, Db
<1>5. /\ client \in [Clients -> OpenClient \cup AnsweredClient \cup {IdleClient}]
      /\ \A p \in Clients : client[p].pc = "idle"
  BY DEF SubmissionInit, IdleClient
<1>6. SubmissionTypeOK
  BY <1>4, <1>5 DEF SubmissionInit, SubmissionTypeOK
<1>7. Sound(stored)
  BY <1>4 DEF Sound
<1>8. Apart /\ \A p \in Clients : ClientSound(p)
  BY <1>5 DEF Apart, ClientSound, Open
<1> QED
  BY <1>6, <1>7, <1>8 DEF SubmissionInvariant, SubmissionSound

LEMMA SubmissionStep ==
    ASSUME SubmissionInvariant, [SubmissionNext]_submissionVars
    PROVE  SubmissionInvariant'
<1>1. CASE UNCHANGED submissionVars
  BY <1>1 DEF submissionVars, SubmissionInvariant, SubmissionTypeOK, SubmissionSound, Apart,
              ClientSound, Open
<1>2. ASSUME NEW p \in Clients, NEW r \in SubmitRequests, Submit(p, r) PROVE SubmissionInvariant'
  BY <1>2, SubmitKeeps
<1>3. ASSUME NEW p \in Clients, LoadDataset(p) PROVE SubmissionInvariant'
  BY <1>3, LoadDatasetKeeps
<1>4. ASSUME NEW p \in Clients, LookupKey(p) PROVE SubmissionInvariant'
  BY <1>4, LookupKeyKeeps
<1>5. ASSUME NEW p \in Clients, InsertRun(p) PROVE SubmissionInvariant'
  BY <1>5, InsertRunKeeps
<1>6. ASSUME NEW p \in Clients, StoreOutput(p) PROVE SubmissionInvariant'
  BY <1>6, StoreOutputKeeps
<1>7. ASSUME NEW p \in Clients, Commit(p) PROVE SubmissionInvariant'
  BY <1>7, CommitKeeps
<1>8. ASSUME NEW p \in Clients, Abandon(p) PROVE SubmissionInvariant'
  BY <1>8, AbandonKeeps
<1> QED
  BY <1>1, <1>2, <1>3, <1>4, <1>5, <1>6, <1>7, <1>8 DEF SubmissionNext

LEMMA SubmissionSays ==
    ASSUME SubmissionInvariant
    PROVE  SubmissionAnswered
<1>1. SUFFICES ASSUME ~lost
      PROVE  /\ \A p \in {q \in Clients : client[q].pc = "answered"} :
                   LET r == client[p].request
                       known == {k.run : k \in client[p].seen}
                   IN /\ client[p].outcome = "run" =>
                            /\ \E made \in stored.runs : made.id = RunId(r) /\ (r.items = 0 => made.stage = "completed")
                            /\ {k.run : k \in KeysOf(stored, r)} = {RunId(r) : k \in {r.key} \ {Anonymous}}
                      /\ known # {} /\ client[p].outcome # "refused" =>
                            client[p].outcome = IF known = {RunId(r)} THEN "run" ELSE "conflict"
             /\ \A made \in stored.runs : \E a \in stored.artifacts : a.of = Dataset(made.items)
             /\ \A k \in stored.keys : Cardinality({x \in stored.keys : <<x.conv, x.key>> = <<k.conv, k.key>>}) = 1
  BY DEF SubmissionAnswered
<1>2. Sound(stored) /\ \A p \in Clients : ClientSound(p)
  BY <1>1 DEF SubmissionInvariant, SubmissionSound
<1>3. ASSUME NEW p \in {q \in Clients : client[q].pc = "answered"}
      PROVE  ToldOfRun(client[p], stored) /\ Repeated(client[p])
  BY <1>2 DEF ClientSound
<1>4. ASSUME NEW k \in stored.keys
      PROVE  Cardinality({x \in stored.keys : <<x.conv, x.key>> = <<k.conv, k.key>>}) = 1
  <2>1. {x \in stored.keys : <<x.conv, x.key>> = <<k.conv, k.key>>} = {k}
    BY <1>2 DEF Sound
  <2> QED
    BY <2>1, FS_Singleton
<1>5. \A made \in stored.runs : \E a \in stored.artifacts : a.of = Dataset(made.items)
  BY <1>2 DEF Sound
<1> QED
  BY <1>3, <1>4, <1>5 DEF ToldOfRun, Repeated

(* Clients, rows and tables are what they should be, at every step of      *)
(* llmMap and agenticMap; and while no in-memory commit replaced one that  *)
(* it had not seen, what is committed is sound and each unit of work goes  *)
(* on from something sound, having found its run or inserted the only one. *)
THEOREM SubmissionInvariantHolds == SubmissionSpec => []SubmissionInvariant
<1> QED
  BY SubmissionStarts, SubmissionStep, PTL DEF SubmissionSpec

(* A client that is told of a run can rely on it: the run is there with    *)
(* its dataset and is all that its key names, and a repeated submission is *)
(* answered with it or as a conflict.                                      *)
THEOREM SubmissionAnsweredHolds == SubmissionSpec => []SubmissionAnswered
<1> QED
  BY SubmissionInvariantHolds, SubmissionSays, PTL

-----------------------------------------------------------------------------
(* The executors. *)

USE WorkersAssumption, NAssumption, KindsAssumption, LimitAssumption, BoundsAssumption

-----------------------------------------------------------------------------
(* What the operators on task rows return. *)

(* The items are a finite set, and so is every set of them. *)
LEMMA ItemSets ==
    ASSUME NEW S \in SUBSET Items
    PROVE  IsFiniteSet(S) /\ Cardinality(S) \in Nat
<1>1. IsFiniteSet(Items)
  BY FS_Interval DEF Items
<1>2. IsFiniteSet(S)
  BY <1>1, FS_Subset
<1> QED
  BY <1>2, FS_CardinalityType

(* refreshRunFromTasks keeps a run row a run row, whatever the task rows,  *)
(* and touches neither its stage nor its artifact.                         *)
LEMMA RefreshType ==
    ASSUME NEW r \in RunRow, NEW t
    PROVE  /\ refreshRunFromTasks(r, t) \in RunRow
           /\ refreshRunFromTasks(r, t).stage = r.stage
           /\ refreshRunFromTasks(r, t).artifact = r.artifact
           /\ refreshRunFromTasks(r, t).needsRetry = r.needsRetry
           /\ refreshRunFromTasks(r, t).status = DerivedStatus(t)
<1>1. DerivedStatus(t) \in RunStatus
  BY DEF DerivedStatus, RunStatus
<1>2. Counts(t) \in [TaskStatus -> Nat]
  BY ItemSets DEF Counts, WithStatus
<1> QED
  BY <1>1, <1>2 DEF refreshRunFromTasks, RunRow

(* The artifact written from well-typed rows has one entry per item.       *)
LEMMA EntriesType ==
    ASSUME NEW t \in [Items -> TaskRow]
    PROVE  Entries(t) \in Artifact /\ deriveRunStatus(Entries(t)) \in RunStatus
BY DEF Entries, Artifact, TaskRow, deriveRunStatus, RunStatus

(* The entries over PostgreSQL lack outputs, not statuses.                 *)
LEMMA PgEntriesType ==
    ASSUME NEW t \in [Items -> TaskRow]
    PROVE  /\ PgEntries(t) \in Artifact /\ deriveRunStatus(PgEntries(t)) \in RunStatus
           /\ deriveRunStatus(PgEntries(t)) = deriveRunStatus(Entries(t))
<1>1. \A i \in Items : PgEntries(t)[i][1] = Entries(t)[i][1]
  BY DEF PgEntries, Entries
<1>2. {i \in Items : PgEntries(t)[i][1] = "failed"} = {i \in Items : Entries(t)[i][1] = "failed"}
  BY <1>1
<1>3. deriveRunStatus(PgEntries(t)) = deriveRunStatus(Entries(t))
  BY <1>2 DEF deriveRunStatus
<1>4. PgEntries(t) \in Artifact
  BY DEF PgEntries, Artifact, TaskRow
<1> QED
  BY <1>3, <1>4, EntriesType

-----------------------------------------------------------------------------
(* Type correctness. *)

LEMMA InitType == Init => TypeOK
<1> SUFFICES ASSUME Init PROVE TypeOK
  OBVIOUS
<1>1. task \in [Items -> TaskRow]
  BY DEF Init, createRunWithTasks, NewTask, TaskRow, TaskStatus, BootstrapState
<1>2. run \in RunRow
  BY DEF Init, createRunWithTasks, RunRow, RunStatus, TaskStatus
<1>3. exec \in [Workers -> Executor]
  BY DEF Init, Idle, Executor, Phase, Items
<1>4. handles \in Seq(Handle) /\ children \in Seq(Nat) /\ Len(children) = 0
  BY DEF Init
<1> QED
  BY <1>1, <1>2, <1>3, <1>4 DEF Init, TypeOK, createRunWithTasks, NewTask, Idle

(* Finalization, wherever it is called from, keeps run row and handles     *)
(* well-typed.                                                             *)
LEMMA FinalizeRunType ==
    ASSUME TypeOK, FinalizeRun
    PROVE  run' \in RunRow /\ handles' \in Seq(Handle)
<1>1. CASE AllTerminal(task) /\ Unfinalized(run)
  <2>1. Entries(task) \in Artifact /\ deriveRunStatus(Entries(task)) \in RunStatus
    BY EntriesType DEF TypeOK
  <2>2. refreshRunFromTasks(run, task) \in RunRow
    BY RefreshType DEF TypeOK
  <2>3. run' \in RunRow
    BY <1>1, <2>1, <2>2 DEF FinalizeRun, RunRow
  <2>4. handles' \in Seq(Handle)
    <3> DEFINE h == [status |-> deriveRunStatus(Entries(task)), artifact |-> Entries(task)]
    <3>1. h \in Handle
      BY <2>1 DEF Handle
    <3>2. handles' = Append(handles, h)
      BY <1>1 DEF FinalizeRun
    <3> HIDE DEF h
    <3> QED
      BY <3>1, <3>2, AppendProperties DEF TypeOK
  <2> QED
    BY <2>3, <2>4
<1>2. CASE ~(AllTerminal(task) /\ Unfinalized(run))
  BY <1>2 DEF FinalizeRun, TypeOK
<1> QED
  BY <1>1, <1>2

(* The store's row updates keep a row a row, and each changes the columns  *)
(* its UPDATE statement names.                                             *)
LEMMA ClaimedRowFacts ==
    ASSUME NEW r \in TaskRow
    PROVE  /\ ClaimedRow(r) \in TaskRow
           /\ ClaimedRow(r).status = "running"
           /\ ClaimedRow(r).lease = "live"
           /\ ClaimedRow(r).attempts = r.attempts + 1
           /\ ClaimedRow(r).answer = r.answer
           /\ ClaimedRow(r).child = r.child
<1>1. r.attempts + 1 \in Nat
  BY DEF TaskRow
<1> QED
  BY <1>1 DEF ClaimedRow, TaskRow, TaskStatus

LEMMA RecordedRowFacts ==
    ASSUME NEW r \in TaskRow, NEW s \in TaskStatus, NEW a \in Nat, NEW due \in BOOLEAN
    PROVE  /\ RecordedRow(r, s, a, due) \in TaskRow
           /\ RecordedRow(r, s, a, due).status = s
           /\ RecordedRow(r, s, a, due).lease = "none"
           /\ RecordedRow(r, s, a, due).attempts = r.attempts
           /\ RecordedRow(r, s, a, due).answer = a
           /\ RecordedRow(r, s, a, due).child = r.child
BY DEF RecordedRow, TaskRow

(* Updates that leave status, attempts, answer and child alone.            *)
LEMMA QuietRowFacts ==
    ASSUME NEW r \in TaskRow, NEW q \in {StartedRow(r), CompletedRow(r), ExpiredRow(r), DueRow(r)}
    PROVE  /\ q \in TaskRow
           /\ q.status = r.status
           /\ q.attempts = r.attempts
           /\ q.answer = r.answer
           /\ q.child = r.child
           /\ q.lease \in {r.lease, "expired"}
           /\ q # ExpiredRow(r) => q.lease = r.lease
BY DEF StartedRow, CompletedRow, ExpiredRow, DueRow, TaskRow, BootstrapState

LEMMA ChildRowFacts ==
    ASSUME NEW r \in TaskRow, NEW c \in Nat
    PROVE  /\ [r EXCEPT !.child = c] \in TaskRow
           /\ [r EXCEPT !.child = c].status = r.status
           /\ [r EXCEPT !.child = c].attempts = r.attempts
           /\ [r EXCEPT !.child = c].answer = r.answer
           /\ [r EXCEPT !.child = c].child = c
           /\ [r EXCEPT !.child = c].lease = r.lease
BY DEF TaskRow

(* An update of one row that keeps its child keeps the table well-typed.   *)
LEMMA TableUpdate ==
    ASSUME NEW t \in [Items -> TaskRow], NEW i \in Items, NEW r \in TaskRow,
           r.child = t[i].child
    PROVE  /\ [t EXCEPT ![i] = r] \in [Items -> TaskRow]
           /\ \A j \in Items : [t EXCEPT ![i] = r][j].child = t[j].child
OBVIOUS

LEMMA ExecUpdate ==
    ASSUME NEW e \in [Workers -> Executor], NEW w \in Workers, NEW x \in Executor, NEW n \in Nat,
           \A v \in Workers : e[v].child <= n, x.child <= n
    PROVE  /\ [e EXCEPT ![w] = x] \in [Workers -> Executor]
           /\ \A v \in Workers : [e EXCEPT ![w] = x][v].child <= n
OBVIOUS

LEMMA IdleType == Idle \in Executor /\ Idle.child = 0
BY DEF Idle, Executor, Phase, Items

LEMMA RecordTypeOK ==
    ASSUME TypeOK, NEW w \in Workers, NEW s \in TaskStatus, NEW a \in Nat,
           NEW due \in BOOLEAN, NEW next \in Executor, next.child <= Len(children),
           Record(w, s, a, due, next)
    PROVE  TypeOK'
<1> DEFINE i == exec[w].item
           r == RecordedRow(task[i], s, a, due)
<1>1. i \in Items /\ task[i] \in TaskRow
  BY DEF TypeOK, Executor
<1>2. r \in TaskRow /\ r.child = task[i].child
  BY <1>1, RecordedRowFacts
<1>3. task' = [task EXCEPT ![i] = r] /\ exec' = [exec EXCEPT ![w] = next]
  BY DEF Record
<1> HIDE DEF r, i
<1>4. task' \in [Items -> TaskRow] /\ \A j \in Items : task'[j].child = task[j].child
  BY <1>1, <1>2, <1>3, TableUpdate DEF TypeOK
<1>5. run' \in RunRow
  BY RefreshType DEF Record, TypeOK
<1>6. Len(children) \in Nat
  BY DEF TypeOK
<1>7. exec' \in [Workers -> Executor] /\ \A v \in Workers : exec'[v].child <= Len(children)
  BY <1>3, <1>6, ExecUpdate DEF TypeOK
<1> QED
  BY <1>4, <1>5, <1>7 DEF Record, TypeOK

LEMMA NextType == TypeOK /\ [Next]_vars => TypeOK'
<1> SUFFICES ASSUME TypeOK, [Next]_vars PROVE TypeOK'
  OBVIOUS
<1>0. /\ Len(children) \in Nat
      /\ \A w \in Workers : exec[w] \in Executor /\ exec[w].item \in Items
      /\ \A i \in Items : task[i] \in TaskRow
  BY DEF TypeOK, Executor
<1>1. ASSUME NEW w \in Workers, claimTaskLease(w) PROVE TypeOK'
  <2>1. PICK i \in Items :
          /\ task' = [task EXCEPT ![i] = ClaimedRow(@)]
          /\ exec' = [exec EXCEPT ![w] =
                        [phase |-> IF kind = "llmMap" THEN "executing" ELSE "claimed",
                         item |-> i, attempt |-> task[i].attempts + 1, child |-> 0]]
    BY <1>1 DEF claimTaskLease
  <2> DEFINE r == ClaimedRow(task[i])
             x == [phase |-> IF kind = "llmMap" THEN "executing" ELSE "claimed",
                   item |-> i, attempt |-> task[i].attempts + 1, child |-> 0]
  <2>2. r \in TaskRow /\ r.child = task[i].child
    BY <1>0, ClaimedRowFacts
  <2>3. x \in Executor /\ x.child <= Len(children)
    BY <1>0 DEF Executor, Phase, Working, Bootstrapping, TaskRow
  <2>4. task' = [task EXCEPT ![i] = r] /\ exec' = [exec EXCEPT ![w] = x]
    BY <2>1, Zenon
  <2> HIDE DEF r, x
  <2>5. task' \in [Items -> TaskRow] /\ \A j \in Items : task'[j].child = task[j].child
    BY <2>2, <2>4, TableUpdate DEF TypeOK
  <2>6. exec' \in [Workers -> Executor] /\ \A v \in Workers : exec'[v].child <= Len(children)
    BY <1>0, <2>3, <2>4, ExecUpdate DEF TypeOK
  <2>7. run' \in RunRow
    BY <1>1, RefreshType DEF claimTaskLease, TypeOK
  <2> QED
    BY <1>1, <2>5, <2>6, <2>7 DEF claimTaskLease, TypeOK
<1>2. ASSUME NEW w \in Workers, NEW x \in Executor, x.child <= Len(children),
             exec' = [exec EXCEPT ![w] = x],
             UNCHANGED <<kind, task, run, handles, children, stalls>>,
             crashes' \in 0 .. MaxCrashes
      PROVE  TypeOK'
  <2>1. exec' \in [Workers -> Executor] /\ \A v \in Workers : exec'[v].child <= Len(children)
    BY <1>0, <1>2, ExecUpdate DEF TypeOK
  <2> QED
    BY <1>2, <2>1 DEF TypeOK
<1>3. ASSUME NEW w \in Workers, ReadChild(w) PROVE TypeOK'
  <2> DEFINE c == task[exec[w].item].child
             x == [exec[w] EXCEPT !.phase = IF c = 0 THEN "childless" ELSE "hasChild", !.child = c]
  <2>1. c \in Nat /\ c <= Len(children)
    BY <1>0 DEF TypeOK, TaskRow
  <2>2. x \in Executor /\ x.child <= Len(children)
    BY <1>0, <2>1 DEF Executor, Phase, Working, Bootstrapping
  <2>3. exec' = [exec EXCEPT ![w] = x]
    BY <1>3 DEF ReadChild
  <2> HIDE DEF x
  <2> QED
    BY <1>2, <1>3, <2>2, <2>3 DEF ReadChild, TypeOK
<1>4. ASSUME NEW w \in Workers, assignTaskChildConversation(w) PROVE TypeOK'
  <2> DEFINE i == exec[w].item
             c == AssignedChild(task[i], Len(children) + 1)
             r == [task[i] EXCEPT !.child = c]
             x == [exec[w] EXCEPT !.phase = "hasChild", !.child = c]
  <2>1. i \in Items /\ children' = Append(children, 0)
        /\ task' = [task EXCEPT ![i] = r] /\ exec' = [exec EXCEPT ![w] = x]
    BY <1>0, <1>4 DEF assignTaskChildConversation
  <2>2. children' \in Seq(Nat) /\ Len(children') = Len(children) + 1
    BY <2>1 DEF TypeOK
  <2>3. c \in Nat /\ c <= Len(children')
    BY <1>0, <2>1, <2>2 DEF AssignedChild, TaskRow, TypeOK
  <2>4. r \in TaskRow /\ r.child = c
    BY <1>0, <2>1, <2>3, ChildRowFacts
  <2>5. x \in Executor /\ x.child = c
    BY <1>0, <2>3 DEF Executor, Phase, Working, Bootstrapping
  <2> HIDE DEF i, c, r, x
  <2>6. task' \in [Items -> TaskRow] /\ \A j \in Items : task'[j].child <= Len(children')
    <3>1. \A j \in Items : task[j].child <= Len(children') /\ task[j].child \in Nat
      BY <1>0, <2>2 DEF TypeOK, TaskRow
    <3> QED
      BY <2>1, <2>3, <2>4, <3>1 DEF TypeOK
  <2>7. exec' \in [Workers -> Executor] /\ \A v \in Workers : exec'[v].child <= Len(children')
    <3>1. \A v \in Workers : exec[v].child <= Len(children') /\ exec[v].child \in Nat
      BY <1>0, <2>2 DEF TypeOK, Executor
    <3> QED
      BY <2>1, <2>3, <2>5, <3>1 DEF TypeOK
  <2> QED
    BY <1>4, <2>2, <2>6, <2>7 DEF assignTaskChildConversation, TypeOK
<1>5. ASSUME NEW w \in Workers, NEW phase \in Phase, Goto(w, phase)
      PROVE  exec' \in [Workers -> Executor] /\ \A v \in Workers : exec'[v].child <= Len(children)
  <2> DEFINE x == [exec[w] EXCEPT !.phase = phase]
  <2>1. x \in Executor /\ x.child <= Len(children)
    BY <1>0 DEF Executor, TypeOK
  <2>2. exec' = [exec EXCEPT ![w] = x]
    BY <1>5 DEF Goto
  <2> HIDE DEF x
  <2> QED
    BY <1>0, <2>1, <2>2, ExecUpdate DEF TypeOK
<1>6. ASSUME NEW w \in Workers, getTaskBootstrapState(w) PROVE TypeOK'
  <2>1. PICK phase \in Phase : Goto(w, phase)
    BY <1>0, <1>6 DEF getTaskBootstrapState, Phase, Working, Bootstrapping, TaskRow,
                      BootstrapState
  <2> QED
    BY <1>5, <1>6, <2>1 DEF getTaskBootstrapState, TypeOK
<1>7. ASSUME NEW i \in Items, NEW r \in TaskRow, r.child = task[i].child,
             task' = [task EXCEPT ![i] = r]
      PROVE  task' \in [Items -> TaskRow] /\ \A j \in Items : task'[j].child = task[j].child
  BY <1>7, TableUpdate DEF TypeOK
<1>8. ASSUME NEW w \in Workers, markBootstrapStarted(w) PROVE TypeOK'
  <2> DEFINE i == exec[w].item
  <2>1. i \in Items /\ StartedRow(task[i]) \in TaskRow /\ StartedRow(task[i]).child = task[i].child
    BY <1>0, QuietRowFacts
  <2>2. task' = [task EXCEPT ![i] = StartedRow(task[i])] /\ Goto(w, "appending")
    BY <1>8 DEF markBootstrapStarted
  <2>3. "appending" \in Phase
    BY DEF Phase, Working, Bootstrapping
  <2> QED
    BY <1>5, <1>7, <1>8, <2>1, <2>2, <2>3 DEF markBootstrapStarted, TypeOK
<1>9. ASSUME NEW w \in Workers, AppendBootstrapEvents(w) PROVE TypeOK'
  <2> DEFINE c == exec[w].child
  <2>1. children' = [children EXCEPT ![c] = @ + 1] /\ c \in Nat /\ c <= Len(children)
    BY <1>0, <1>9 DEF AppendBootstrapEvents, Executor, TypeOK
  <2>2. children' \in Seq(Nat) /\ Len(children') = Len(children)
    <3>1. CASE c = 0
      <4>1. children' = children
        BY <2>1, <3>1 DEF TypeOK
      <4> QED
        BY <4>1 DEF TypeOK
    <3>2. CASE c # 0
      <4>1. c \in 1 .. Len(children) /\ children[c] + 1 \in Nat
        BY <2>1, <3>2 DEF TypeOK
      <4> QED
        BY <2>1, <4>1, ExceptSeq DEF TypeOK
    <3> QED
      BY <3>1, <3>2
  <2>3. Goto(w, "completing") /\ "completing" \in Phase
    BY <1>9 DEF AppendBootstrapEvents, Phase, Working, Bootstrapping
  <2> QED
    BY <1>5, <1>9, <2>2, <2>3 DEF AppendBootstrapEvents, TypeOK
<1>10. ASSUME NEW w \in Workers, markBootstrapCompleted(w) PROVE TypeOK'
  <2> DEFINE i == exec[w].item
  <2>1. i \in Items /\ CompletedRow(task[i]) \in TaskRow /\ CompletedRow(task[i]).child = task[i].child
    BY <1>0, QuietRowFacts
  <2>2. task' = [task EXCEPT ![i] = CompletedRow(task[i])] /\ Goto(w, "executing")
    BY <1>10 DEF markBootstrapCompleted
  <2>3. "executing" \in Phase
    BY DEF Phase, Working
  <2> QED
    BY <1>5, <1>7, <1>10, <2>1, <2>2, <2>3 DEF markBootstrapCompleted, TypeOK
<1>11. ASSUME NEW w \in Workers, recordTaskSuccess(w) \/ recordTaskFailure(w) PROVE TypeOK'
  <2>1. [exec[w] EXCEPT !.phase = "recorded"] \in Executor
        /\ [exec[w] EXCEPT !.phase = "recorded"].child <= Len(children)
        /\ exec[w].attempt \in Nat
    BY <1>0 DEF Executor, Phase, TypeOK
  <2> QED
    BY <1>11, <2>1, RecordTypeOK DEF recordTaskSuccess, recordTaskFailure, TaskStatus
<1>12. ASSUME NEW w \in Workers, markTaskRetryableFailure(w) PROVE TypeOK'
  <2>1. Record(w, "retryable_failure", 0, FALSE, Idle)
    BY <1>12 DEF markTaskRetryableFailure
  <2>2. /\ "retryable_failure" \in TaskStatus
        /\ 0 \in Nat
        /\ FALSE \in BOOLEAN
        /\ Idle \in Executor
        /\ Idle.child <= Len(children)
    BY <1>0, IdleType DEF TaskStatus
  <2> QED
    BY <2>1, <2>2, RecordTypeOK
<1>13. ASSUME NEW w \in Workers, finalizeRunIfReady(w) PROVE TypeOK'
  <2>1. exec' \in [Workers -> Executor] /\ \A v \in Workers : exec'[v].child <= Len(children)
    BY <1>0, <1>13, IdleType, ExecUpdate DEF finalizeRunIfReady, TypeOK
  <2> QED
    BY <1>13, <2>1, FinalizeRunType DEF finalizeRunIfReady, TypeOK
<1>14. ASSUME NEW w \in Workers, finalizeNextRun(w) PROVE TypeOK'
  BY <1>14, FinalizeRunType DEF finalizeNextRun, TypeOK
<1>15. ASSUME NEW w \in Workers, Crash(w) PROVE TypeOK'
  <2>1. crashes' \in 0 .. MaxCrashes
    BY <1>15 DEF Crash, TypeOK
  <2> QED
    <3>1. Idle \in Executor /\ Idle.child <= Len(children)
      BY <1>0, IdleType
    <3>2. /\ exec' = [exec EXCEPT ![w] = Idle]
          /\ UNCHANGED <<kind, task, run, handles, children, stalls>>
      BY <1>15 DEF Crash
    <3> QED
      BY <1>2, <2>1, <3>1, <3>2
<1>16. ASSUME NEW i \in Items, ClockStep(i) \/ LeaseExpiresEarly(i) PROVE TypeOK'
  <2>1. PICK r \in {ExpiredRow(task[i]), DueRow(task[i])} : task' = [task EXCEPT ![i] = r]
    BY <1>16 DEF ClockStep, LeaseExpires, LeaseExpiresEarly, ExpireLease, BackoffElapses
  <2>2. r \in TaskRow /\ r.child = task[i].child
    BY <1>0, QuietRowFacts
  <2>4. task' \in [Items -> TaskRow] /\ \A j \in Items : task'[j].child = task[j].child
    BY <1>7, <2>1, <2>2
  <2>3. /\ UNCHANGED <<kind, run, handles, children, exec, crashes>>
        /\ stalls' \in 0 .. MaxStalls
    BY <1>16 DEF ClockStep, LeaseExpires, LeaseExpiresEarly, ExpireLease, BackoffElapses, TypeOK
  <2> QED
    BY <2>3, <2>4 DEF TypeOK
<1>17. CASE UNCHANGED vars
  BY <1>17 DEF vars, TypeOK
<1> QED
  BY <1>1, <1>3, <1>4, <1>6, <1>8, <1>9, <1>10, <1>11, <1>12, <1>13, <1>14, <1>15, <1>16,
     <1>17 DEF Next, WorkerStep

(* Every reachable state of the store and of the executors is well-typed. *)
THEOREM TypeCorrect == Spec => []TypeOK
<1> QED
  BY InitType, NextType, PTL DEF Spec

-----------------------------------------------------------------------------
(* Six kinds of step, told apart by what they do to claims, rows and run.  *)

(* No executor takes up a claim: one that works under a claim afterwards   *)
(* worked under it before.                                                 *)
NoNewClaim ==
    \A w \in Workers : exec'[w].phase \in Working =>
        /\ exec[w].phase \in Working
        /\ exec'[w].item = exec[w].item
        /\ exec'[w].attempt = exec[w].attempt

(* An executor updates columns of its task that no claim depends on.       *)
BootstrapStep ==
    \E w \in Workers : \E r \in TaskRow :
        LET i == exec[w].item IN
        /\ exec[w].phase \in Working
        /\ task' = [task EXCEPT ![i] = r]
        /\ r.status = task[i].status
        /\ r.attempts = task[i].attempts
        /\ r.answer = task[i].answer
        /\ r.lease = task[i].lease
        /\ UNCHANGED <<run, handles, stalls>>

(* An executor records an outcome and is done with its claim.              *)
RecordStep ==
    \E w \in Workers : \E s \in {"succeeded", "failed", "retryable_failure"} :
    \E a \in Nat : \E due \in BOOLEAN : \E next \in Executor :
        /\ next.phase \notin Working
        /\ s # "retryable_failure" => a = exec[w].attempt
        /\ Record(w, s, a, due, next)

LEMMA StepKinds ==
    ASSUME TypeOK, [Next]_vars
    PROVE  \/ \E w \in Workers : claimTaskLease(w)
           \/ RecordStep
           \/ NoNewClaim /\ BootstrapStep
           \/ NoNewClaim /\ UNCHANGED <<task, stalls>> /\ FinalizeRun
           \/ NoNewClaim /\ UNCHANGED <<task, run, handles, stalls>>
           \/ \E i \in Items : ClockStep(i) \/ LeaseExpiresEarly(i)
<1>0. /\ \A w \in Workers : exec[w] \in Executor /\ exec[w].item \in Items
      /\ \A i \in Items : task[i] \in TaskRow
      /\ exec \in [Workers -> Executor]
      /\ Len(children) \in Nat
  BY DEF TypeOK, Executor
<1>1. ASSUME NEW w \in Workers, NEW x \in Executor, exec' = [exec EXCEPT ![w] = x],
             x.phase \in Working =>
               exec[w].phase \in Working /\ x.item = exec[w].item /\ x.attempt = exec[w].attempt
      PROVE  NoNewClaim
  BY <1>0, <1>1 DEF NoNewClaim
<1>2. ASSUME NEW w \in Workers, NEW phase \in Phase, Goto(w, phase), exec[w].phase \in Working
      PROVE  NoNewClaim
  <2> DEFINE x == [exec[w] EXCEPT !.phase = phase]
  <2>1. x \in Executor /\ x.item = exec[w].item /\ x.attempt = exec[w].attempt
    BY <1>0 DEF Executor
  <2>2. exec' = [exec EXCEPT ![w] = x]
    BY <1>2 DEF Goto
  <2> HIDE DEF x
  <2> QED
    BY <1>1, <1>2, <2>1, <2>2
<1>3. Idle \in Executor /\ Idle.phase \notin Working
  BY IdleType DEF Idle, Working, Bootstrapping
<1>4. ASSUME NEW w \in Workers, exec' = [exec EXCEPT ![w] = Idle] PROVE NoNewClaim
  BY <1>1, <1>3, <1>4
<1>5. ASSUME NEW w \in Workers, ReadChild(w)
      PROVE  NoNewClaim /\ UNCHANGED <<task, run, handles, stalls>>
  <2> DEFINE c == task[exec[w].item].child
             x == [exec[w] EXCEPT !.phase = IF c = 0 THEN "childless" ELSE "hasChild", !.child = c]
  <2>1. c \in Nat /\ exec[w].phase \in Working
    BY <1>0, <1>5 DEF ReadChild, TaskRow, Working, Bootstrapping
  <2>2. x \in Executor /\ x.item = exec[w].item /\ x.attempt = exec[w].attempt
    BY <1>0, <2>1 DEF Executor, Phase, Working, Bootstrapping
  <2>3. exec' = [exec EXCEPT ![w] = x]
    BY <1>5 DEF ReadChild
  <2> HIDE DEF x, c
  <2> QED
    BY <1>1, <1>5, <2>1, <2>2, <2>3 DEF ReadChild
<1>6. ASSUME NEW w \in Workers, assignTaskChildConversation(w) PROVE NoNewClaim /\ BootstrapStep
  <2> DEFINE i == exec[w].item
             c == AssignedChild(task[i], Len(children) + 1)
             r == [task[i] EXCEPT !.child = c]
             x == [exec[w] EXCEPT !.phase = "hasChild", !.child = c]
  <2>1. task' = [task EXCEPT ![i] = r] /\ exec' = [exec EXCEPT ![w] = x]
        /\ exec[w].phase \in Working
    BY <1>6 DEF assignTaskChildConversation, Working, Bootstrapping
  <2>2. c \in Nat
    BY <1>0 DEF AssignedChild, TaskRow
  <2>3. /\ r \in TaskRow /\ r.status = task[i].status /\ r.attempts = task[i].attempts
        /\ r.answer = task[i].answer /\ r.lease = task[i].lease
    BY <1>0, <2>2, ChildRowFacts
  <2>4. x \in Executor /\ x.item = exec[w].item /\ x.attempt = exec[w].attempt
    BY <1>0, <2>2 DEF Executor, Phase, Working, Bootstrapping
  <2>5. NoNewClaim
    <3> HIDE DEF x
    <3> QED
      BY <1>1, <2>1, <2>4
  <2>6. BootstrapStep
    <3> HIDE DEF r, x
    <3> QED
      BY <1>6, <2>1, <2>3 DEF BootstrapStep, assignTaskChildConversation
  <2> QED
    BY <2>5, <2>6
<1>7. ASSUME NEW w \in Workers, getTaskBootstrapState(w)
      PROVE  NoNewClaim /\ UNCHANGED <<task, run, handles, stalls>>
  <2>1. PICK phase \in Phase : Goto(w, phase)
    BY <1>0, <1>7 DEF getTaskBootstrapState, Phase, Working, Bootstrapping, TaskRow,
                      BootstrapState
  <2> QED
    BY <1>2, <1>7, <2>1 DEF getTaskBootstrapState, Working, Bootstrapping
<1>8. ASSUME NEW w \in Workers, markBootstrapStarted(w) \/ markBootstrapCompleted(w)
      PROVE  NoNewClaim /\ BootstrapStep
  <2> DEFINE i == exec[w].item
  <2>1. exec[w].phase \in Working /\ i \in Items /\ task[i] \in TaskRow
    BY <1>0, <1>8 DEF markBootstrapStarted, markBootstrapCompleted, Working, Bootstrapping
  <2>2. NoNewClaim
    BY <1>2, <1>8, <2>1 DEF markBootstrapStarted, markBootstrapCompleted, Phase, Working,
                            Bootstrapping
  <2>3. PICK r \in {StartedRow(task[i]), CompletedRow(task[i])} : task' = [task EXCEPT ![i] = r]
    BY <1>8 DEF markBootstrapStarted, markBootstrapCompleted
  <2>4. /\ r \in TaskRow /\ r.status = task[i].status /\ r.attempts = task[i].attempts
        /\ r.answer = task[i].answer
    BY <2>1, <2>3, QuietRowFacts
  <2>5. r.lease = task[i].lease
    BY <2>1, <2>3 DEF StartedRow, CompletedRow, TaskRow
  <2>6. UNCHANGED <<run, handles, stalls>>
    BY <1>8 DEF markBootstrapStarted, markBootstrapCompleted
  <2> QED
    BY <2>1, <2>2, <2>3, <2>4, <2>5, <2>6 DEF BootstrapStep
<1>9. ASSUME NEW w \in Workers, AppendBootstrapEvents(w)
      PROVE  NoNewClaim /\ UNCHANGED <<task, run, handles, stalls>>
  BY <1>2, <1>9 DEF AppendBootstrapEvents, Phase, Working, Bootstrapping
<1>10. ASSUME NEW w \in Workers,
              recordTaskSuccess(w) \/ recordTaskFailure(w) \/ markTaskRetryableFailure(w)
       PROVE  RecordStep
  <2> DEFINE x == [exec[w] EXCEPT !.phase = "recorded"]
  <2>1. x \in Executor /\ x.phase \notin Working /\ exec[w].attempt \in Nat
    BY <1>0 DEF Executor, Phase, Working, Bootstrapping
  <2>2. \/ Record(w, "succeeded", exec[w].attempt, TRUE, x)
        \/ Record(w, "failed", exec[w].attempt, TRUE, x)
        \/ Record(w, "retryable_failure", 0, FALSE, Idle)
    BY <1>10 DEF recordTaskSuccess, recordTaskFailure, markTaskRetryableFailure
  <2> HIDE DEF x
  <2>3. CASE Record(w, "succeeded", exec[w].attempt, TRUE, x)
    BY <2>1, <2>3 DEF RecordStep
  <2>4. CASE Record(w, "failed", exec[w].attempt, TRUE, x)
    BY <2>1, <2>4 DEF RecordStep
  <2>5. CASE Record(w, "retryable_failure", 0, FALSE, Idle)
    BY <1>3, <2>5 DEF RecordStep
  <2> QED
    BY <2>2, <2>3, <2>4, <2>5
<1>11. ASSUME NEW w \in Workers, finalizeRunIfReady(w)
       PROVE  NoNewClaim /\ UNCHANGED <<task, stalls>> /\ FinalizeRun
  BY <1>4, <1>11 DEF finalizeRunIfReady
<1>12. ASSUME NEW w \in Workers, finalizeNextRun(w)
       PROVE  /\ NoNewClaim
              /\ \/ UNCHANGED <<task, stalls>> /\ FinalizeRun
                 \/ UNCHANGED <<task, run, handles, stalls>>
  BY <1>12 DEF finalizeNextRun, NoNewClaim
<1>13. ASSUME NEW w \in Workers, Crash(w)
       PROVE  NoNewClaim /\ UNCHANGED <<task, run, handles, stalls>>
  BY <1>4, <1>13 DEF Crash
<1>14. CASE UNCHANGED vars
  BY <1>14 DEF vars, NoNewClaim
<1> QED
  BY <1>5, <1>6, <1>7, <1>8, <1>9, <1>10, <1>11, <1>12, <1>13, <1>14 DEF Next, WorkerStep

(* What each kind of step leaves in the row of an item.                    *)
LEMMA RowAfter ==
    ASSUME TypeOK, NEW j \in Items, NEW r, task' = [task EXCEPT ![j] = r]
    PROVE  \A i \in Items : task'[i] = IF i = j THEN r ELSE task[i]
BY DEF TypeOK

LEMMA BootstrapRows ==
    ASSUME TypeOK, BootstrapStep
    PROVE  \A i \in Items : /\ task'[i].status = task[i].status
                            /\ task'[i].attempts = task[i].attempts
                            /\ task'[i].answer = task[i].answer
                            /\ task'[i].lease = task[i].lease
<1>1. PICK w \in Workers, r \in TaskRow :
        /\ task' = [task EXCEPT ![exec[w].item] = r]
        /\ r.status = task[exec[w].item].status
        /\ r.attempts = task[exec[w].item].attempts
        /\ r.answer = task[exec[w].item].answer
        /\ r.lease = task[exec[w].item].lease
  BY DEF BootstrapStep
<1>2. exec[w].item \in Items
  BY DEF TypeOK, Executor
<1> QED
  BY <1>1, <1>2, RowAfter

LEMMA ClockRows ==
    ASSUME TypeOK, NEW j \in Items, ClockStep(j) \/ LeaseExpiresEarly(j)
    PROVE  /\ \A i \in Items : /\ task'[i].status = task[i].status
                               /\ task'[i].attempts = task[i].attempts
                               /\ task'[i].answer = task[i].answer
                               /\ i # j => task'[i] = task[i]
                               /\ task'[i].lease \in {task[i].lease, "expired"}
           /\ task[j].status \in {"running", "retryable_failure"}
           /\ task'[j].lease # task[j].lease =>
                j \in LiveLeases(task) /\ (\E w \in Workers : Holds(w, j)) = LeaseExpiresEarly(j)
           /\ UNCHANGED <<run, handles, exec>>
<1>0. task[j] \in TaskRow
  BY DEF TypeOK
<1>1. PICK r \in {ExpiredRow(task[j]), DueRow(task[j])} : task' = [task EXCEPT ![j] = r]
  BY DEF ClockStep, LeaseExpires, LeaseExpiresEarly, ExpireLease, BackoffElapses
<1>2. \A i \in Items : task'[i] = IF i = j THEN r ELSE task[i]
  BY <1>1, RowAfter
<1>3. /\ r.status = task[j].status
      /\ r.attempts = task[j].attempts
      /\ r.answer = task[j].answer
      /\ r.lease \in {task[j].lease, "expired"}
  BY <1>0, QuietRowFacts
<1>4. task[j].status \in {"running", "retryable_failure"}
  BY DEF ClockStep, LeaseExpires, LeaseExpiresEarly, ExpireLease, BackoffElapses, LiveLeases
<1>5. ASSUME task'[j].lease # task[j].lease
      PROVE  ExpireLease(j) /\ (\E w \in Workers : Holds(w, j)) = LeaseExpiresEarly(j)
  <2>1. DueRow(task[j]).lease = task[j].lease
    BY <1>0 DEF DueRow, TaskRow
  <2>2. ~BackoffElapses(j)
    BY <1>0, <1>5, <2>1, RowAfter DEF BackoffElapses
  <2> QED
    BY <2>2 DEF ClockStep, LeaseExpires, LeaseExpiresEarly
<1>6. UNCHANGED <<run, handles, exec>>
  BY DEF ClockStep, LeaseExpires, LeaseExpiresEarly, ExpireLease, BackoffElapses
<1> QED
  BY <1>2, <1>3, <1>4, <1>5, <1>6 DEF ExpireLease

-----------------------------------------------------------------------------
(* The concurrency limit. *)

LEMMA OneMore ==
    ASSUME NEW S, IsFiniteSet(S), NEW x, NEW T \in SUBSET (S \cup {x})
    PROVE  Cardinality(T) <= Cardinality(S) + 1
<1>1. IsFiniteSet(S \cup {x})
  BY FS_AddElement
<1>2. Cardinality(S \cup {x}) = IF x \in S THEN Cardinality(S) ELSE Cardinality(S) + 1
  BY FS_AddElement
<1>3. Cardinality(S) \in Nat /\ Cardinality(T) \in Nat /\ Cardinality(S \cup {x}) \in Nat
  BY <1>1, FS_CardinalityType, FS_Subset
<1>4. Cardinality(T) <= Cardinality(S \cup {x})
  BY <1>1, FS_Subset
<1> QED
  BY <1>2, <1>3, <1>4

LEMMA LeaseLimitInit == Init => LeaseLimit
<1> SUFFICES ASSUME Init PROVE LeaseLimit
  OBVIOUS
<1>1. LiveLeases(task) = {}
  BY DEF Init, createRunWithTasks, NewTask, LiveLeases
<1> QED
  BY <1>1, FS_EmptySet DEF LeaseLimit

LEMMA LeaseLimitNext == TypeOK /\ LeaseLimit /\ [Next]_vars => LeaseLimit'
<1> SUFFICES ASSUME TypeOK, LeaseLimit, [Next]_vars PROVE LeaseLimit'
  OBVIOUS
<1>0. /\ IsFiniteSet(LiveLeases(task))
      /\ Cardinality(LiveLeases(task)) \in Nat
      /\ Cardinality(LiveLeases(task')) \in Nat
  BY ItemSets DEF LiveLeases
<1>1. ASSUME \A i \in Items : task'[i].status = "running" /\ task'[i].lease = "live" =>
                                task[i].status = "running" /\ task[i].lease = "live"
      PROVE  LeaseLimit'
  <2>1. LiveLeases(task') \in SUBSET LiveLeases(task)
    BY <1>1 DEF LiveLeases
  <2>2. Cardinality(LiveLeases(task')) <= Cardinality(LiveLeases(task))
    BY <1>0, <2>1, FS_Subset
  <2> QED
    BY <1>0, <2>2 DEF LeaseLimit
<1>2. ASSUME NEW w \in Workers, claimTaskLease(w) PROVE LeaseLimit'
  <2>1. PICK i \in Items : BelowLimit(task) /\ task' = [task EXCEPT ![i] = ClaimedRow(@)]
    BY <1>2 DEF claimTaskLease, Claimable
  <2>2. LiveLeases(task') \in SUBSET (LiveLeases(task) \cup {i})
    BY <2>1, RowAfter DEF LiveLeases
  <2>3. Cardinality(LiveLeases(task')) <= Cardinality(LiveLeases(task)) + 1
    BY <1>0, <2>2, OneMore
  <2> QED
    BY <1>0, <2>1, <2>3 DEF BelowLimit, LeaseLimit
<1>3. CASE RecordStep
  <2>1. PICK w \in Workers, s \in {"succeeded", "failed", "retryable_failure"}, a \in Nat,
             due \in BOOLEAN : task' = [task EXCEPT ![exec[w].item] = RecordedRow(@, s, a, due)]
    BY <1>3 DEF RecordStep, Record
  <2>2. exec[w].item \in Items /\ task[exec[w].item] \in TaskRow
    BY DEF TypeOK, Executor
  <2>3. RecordedRow(task[exec[w].item], s, a, due).lease = "none"
    BY <2>2, RecordedRowFacts DEF TaskStatus
  <2> QED
    BY <1>1, <2>1, <2>2, <2>3, RowAfter
<1>4. CASE BootstrapStep
  BY <1>1, <1>4, BootstrapRows
<1>5. CASE UNCHANGED task
  BY <1>1, <1>5
<1>6. ASSUME NEW i \in Items, ClockStep(i) \/ LeaseExpiresEarly(i) PROVE LeaseLimit'
  BY <1>1, <1>6, ClockRows
<1> QED
  BY <1>2, <1>3, <1>4, <1>5, <1>6, StepKinds

(* claimTaskLease keeps the number of live leases within concurrencyLimit, *)
(* with any number of executors claiming, dying and outliving leases.      *)
THEOREM LeaseLimitHolds == Spec => []LeaseLimit
<1> QED
  BY TypeCorrect, LeaseLimitInit, LeaseLimitNext, PTL DEF Spec

-----------------------------------------------------------------------------
(* Exclusive execution, while leases outlive executions.  Neither invariant *)
(* is inductive alone: agreement keeps an item from being claimed while an  *)
(* executor works on it, exclusion keeps a record by one executor from      *)
(* pulling the lease from under another.                                    *)

Exclusive == LeaseAgreement /\ ExclusiveExecution

LEMMA ExclusiveInit == Init => Exclusive
BY DEF Init, Idle, Exclusive, LeaseAgreement, ExclusiveExecution, Working, Bootstrapping

LEMMA ExclusiveNext == TypeOK /\ Exclusive /\ [Next]_vars => Exclusive'
<1> SUFFICES ASSUME TypeOK, Exclusive, [Next]_vars, stalls' = 0 PROVE Exclusive'
  BY DEF Exclusive, LeaseAgreement, ExclusiveExecution
<1>0. /\ \A w \in Workers : exec[w].item \in Items /\ exec[w] \in Executor
      /\ \A i \in Items : task[i] \in TaskRow
      /\ exec \in [Workers -> Executor]
  BY DEF TypeOK, Executor
<1>1. ASSUME stalls = 0, NoNewClaim,
             \A w \in Workers : exec'[w].phase \in Working =>
               /\ task'[exec[w].item].status = task[exec[w].item].status
               /\ task'[exec[w].item].lease = task[exec[w].item].lease
               /\ task'[exec[w].item].attempts = task[exec[w].item].attempts
      PROVE  Exclusive'
  BY <1>1 DEF NoNewClaim, Exclusive, LeaseAgreement, ExclusiveExecution
<1>2. ASSUME NEW w \in Workers, claimTaskLease(w) PROVE Exclusive'
  <2>1. PICK i \in Items :
          /\ Claimable(task, i)
          /\ task' = [task EXCEPT ![i] = ClaimedRow(@)]
          /\ exec' = [exec EXCEPT ![w] =
                        [phase |-> IF kind = "llmMap" THEN "executing" ELSE "claimed",
                         item |-> i, attempt |-> task[i].attempts + 1, child |-> 0]]
          /\ stalls = 0
    BY <1>2 DEF claimTaskLease
  <2>2. \A v \in Workers : exec[v].phase \in Working => exec[v].item # i
    BY <2>1 DEF Claimable, Reclaimable, Exclusive, LeaseAgreement
  <2>3. /\ exec'[w].item = i
        /\ exec'[w].attempt = task[i].attempts + 1
        /\ \A v \in Workers : v # w => exec'[v] = exec[v]
    BY <1>0, <2>1
  <2>4. /\ task'[i] = ClaimedRow(task[i])
        /\ \A j \in Items : j # i => task'[j] = task[j]
    <3> DEFINE r == ClaimedRow(task[i])
    <3>1. task' = [task EXCEPT ![i] = r]
      BY <2>1
    <3> HIDE DEF r
    <3>2. \A j \in Items : task'[j] = IF j = i THEN r ELSE task[j]
      BY <3>1, RowAfter
    <3> QED
      BY <3>2 DEF r
  <2>5. /\ task'[i].status = "running"
        /\ task'[i].lease = "live"
        /\ task'[i].attempts = task[i].attempts + 1
    BY <1>0, <2>4, ClaimedRowFacts
  <2> QED
    BY <1>0, <2>1, <2>2, <2>3, <2>4, <2>5 DEF Exclusive, LeaseAgreement, ExclusiveExecution
<1>3. CASE RecordStep
  <2>1. PICK w, r, next :
          /\ w \in Workers
          /\ exec[w].phase \in Working
          /\ next.phase \notin Working
          /\ task' = [task EXCEPT ![exec[w].item] = r]
          /\ exec' = [exec EXCEPT ![w] = next]
          /\ stalls = 0
    BY <1>3 DEF RecordStep, Record, Working
  <2>2. /\ exec'[w] = next
        /\ \A v \in Workers : v # w => exec'[v] = exec[v]
    BY <1>0, <2>1
  <2>3. NoNewClaim
    BY <2>1, <2>2 DEF NoNewClaim
  <2>4. \A v \in Workers : exec'[v].phase \in Working => exec[v].item # exec[w].item
    BY <2>1, <2>2 DEF Exclusive, ExclusiveExecution
  <2>5. \A v \in Workers : exec'[v].phase \in Working =>
          task'[exec[v].item] = task[exec[v].item]
    BY <1>0, <2>1, <2>4, RowAfter
  <2> QED
    BY <1>1, <2>1, <2>3, <2>5
<1>4. CASE NoNewClaim /\ BootstrapStep
  <2>1. stalls = 0
    BY <1>4 DEF BootstrapStep
  <2> QED
    BY <1>0, <1>1, <1>4, <2>1, BootstrapRows
<1>5. CASE NoNewClaim /\ UNCHANGED <<task, stalls>>
  BY <1>1, <1>5
<1>6. ASSUME NEW i \in Items, ClockStep(i) \/ LeaseExpiresEarly(i) PROVE Exclusive'
  <2>1. stalls = 0 /\ ~LeaseExpiresEarly(i)
    BY <1>6 DEF ClockStep, LeaseExpires, LeaseExpiresEarly, BackoffElapses, TypeOK
  <2>2. exec' = exec
    BY <1>6, ClockRows
  <2>3. NoNewClaim
    BY <2>2 DEF NoNewClaim
  <2>4. ASSUME NEW w \in Workers, exec'[w].phase \in Working
        PROVE  task'[exec[w].item].lease = task[exec[w].item].lease
    <3>1. CASE exec[w].item # i
      BY <1>0, <1>6, <3>1, ClockRows
    <3>2. CASE exec[w].item = i
      <4>1. Holds(w, i)
        BY <2>1, <2>2, <2>4, <3>2 DEF Holds, Exclusive, LeaseAgreement
      <4>2. task'[i].lease = task[i].lease
        BY <1>6, <2>1, <4>1, ClockRows
      <4> QED
        BY <3>2, <4>2
    <3> QED
      BY <3>1, <3>2
  <2> QED
    BY <1>0, <1>1, <1>6, <2>1, <2>3, <2>4, ClockRows
<1> QED
  BY <1>2, <1>3, <1>4, <1>5, <1>6, StepKinds

(* While no lease runs out under a working executor, an executor that is   *)
(* bootstrapping or executing an item holds its lease, and no two          *)
(* executors are at work on the same item.                                 *)
THEOREM ExclusiveHolds == Spec => [](LeaseAgreement /\ ExclusiveExecution)
<1>1. Exclusive => LeaseAgreement /\ ExclusiveExecution
  BY DEF Exclusive
<1> QED
  BY <1>1, TypeCorrect, ExclusiveInit, ExclusiveNext, PTL DEF Spec

(* The first half by itself: whoever is at work holds the live lease of    *)
(* the claim that he works under, for every number of executors.           *)
THEOREM LeaseAgreementHolds == Spec => []LeaseAgreement
<1> QED
  BY ExclusiveHolds, PTL

-----------------------------------------------------------------------------
(* Terminal statuses are final under the same condition.                   *)

LEMMA TerminalStep ==
    ASSUME TypeOK, Exclusive, [Next]_vars, stalls' = 0,
           NEW i \in Items, task[i].status \in Terminal
    PROVE  task'[i] = task[i]
<1>0. \A w \in Workers : exec[w].item \in Items
  BY DEF TypeOK, Executor
<1>1. stalls = 0 => \A w \in Workers : exec[w].phase \in Working => exec[w].item # i
  BY DEF Exclusive, LeaseAgreement, Terminal
<1>2. ASSUME NEW w \in Workers, claimTaskLease(w) PROVE task'[i] = task[i]
  <2>1. PICK j \in Items : Claimable(task, j) /\ task' = [task EXCEPT ![j] = ClaimedRow(@)]
    BY <1>2 DEF claimTaskLease
  <2>2. i # j
    BY <2>1 DEF Claimable, Reclaimable, Terminal
  <2> QED
    BY <2>1, <2>2, RowAfter
<1>3. CASE RecordStep
  <2>1. PICK w, r :
          /\ w \in Workers
          /\ exec[w].phase \in Working
          /\ task' = [task EXCEPT ![exec[w].item] = r]
          /\ stalls = 0
    BY <1>3 DEF RecordStep, Record, Working
  <2> QED
    BY <1>0, <1>1, <2>1, RowAfter
<1>4. CASE BootstrapStep
  <2>1. PICK w, r :
          /\ w \in Workers
          /\ exec[w].phase \in Working
          /\ task' = [task EXCEPT ![exec[w].item] = r]
          /\ stalls = 0
    BY <1>4 DEF BootstrapStep
  <2> QED
    BY <1>0, <1>1, <2>1, RowAfter
<1>5. CASE UNCHANGED task
  BY <1>5
<1>6. ASSUME NEW j \in Items, ClockStep(j) \/ LeaseExpiresEarly(j) PROVE task'[i] = task[i]
  <2>1. i # j
    BY <1>6, ClockRows DEF Terminal
  <2> QED
    BY <1>6, <2>1, ClockRows
<1> QED
  BY <1>2, <1>3, <1>4, <1>5, <1>6, StepKinds

(* No step changes the row of a task that has succeeded or failed, unless  *)
(* a lease ran out under a working executor.                               *)
THEOREM TerminalIsFinalHolds == Spec => TerminalIsFinal
<1>1. TypeOK /\ Exclusive /\ [Next]_vars =>
        [stalls' = 0 => \A i \in Items :
            task[i].status \in Terminal => task'[i] = task[i]]_vars
  BY TerminalStep
<1> QED
  BY <1>1, TypeCorrect, ExclusiveInit, ExclusiveNext, PTL DEF Spec, TerminalIsFinal

-----------------------------------------------------------------------------
(* One handle, and an artifact that stays true. *)

LEMMA OneHandleInit == Init => OneHandle
BY DEF Init, createRunWithTasks, OneHandle

LEMMA OneHandleNext == TypeOK /\ OneHandle /\ [Next]_vars => OneHandle'
<1> SUFFICES ASSUME TypeOK, OneHandle, [Next]_vars PROVE OneHandle'
  OBVIOUS
<1>1. ASSUME run'.stage = run.stage, run'.artifact = run.artifact, handles' = handles
      PROVE  OneHandle'
  BY <1>1 DEF OneHandle
<1>2. ASSUME NEW t, run' = refreshRunFromTasks(run, t), handles' = handles
      PROVE  OneHandle'
  BY <1>1, <1>2, RefreshType DEF TypeOK
<1>3. CASE FinalizeRun
  <2>1. CASE AllTerminal(task) /\ Unfinalized(run)
    <3> DEFINE h == [status |-> deriveRunStatus(Entries(task)), artifact |-> Entries(task)]
    <3>1. Entries(task) \in Artifact /\ deriveRunStatus(Entries(task)) \in RunStatus
      BY EntriesType DEF TypeOK
    <3>2. h \in Handle /\ h.artifact = Entries(task)
      BY <3>1 DEF Handle
    <3>3. refreshRunFromTasks(run, task) \in RunRow
      BY RefreshType DEF TypeOK
    <3>4. run'.stage = "completed" /\ run'.artifact = Entries(task)
      BY <1>3, <2>1, <3>3 DEF FinalizeRun, RunRow
    <3>5. handles' = Append(handles, h)
      BY <1>3, <2>1 DEF FinalizeRun
    <3>6. Len(handles) = 0 /\ handles \in Seq(Handle)
      <4>1. handles \in Seq(Handle) /\ Len(handles) \in Nat
        BY LenProperties DEF TypeOK
      <4>2. Len(handles) <= 1 /\ Len(handles) # 1
        BY <2>1 DEF Unfinalized, OneHandle
      <4> QED
        BY <4>1, <4>2
    <3> HIDE DEF h
    <3>7. Len(handles') = 1 /\ handles'[1] = h /\ DOMAIN handles' = {1}
      BY <3>2, <3>5, <3>6, AppendProperties
    <3> QED
      BY <3>2, <3>4, <3>7 DEF OneHandle
  <2> QED
    BY <1>1, <1>3, <2>1 DEF FinalizeRun
<1>4. ASSUME NEW w \in Workers, claimTaskLease(w) PROVE OneHandle'
  BY <1>2, <1>4 DEF claimTaskLease
<1>5. CASE RecordStep
  BY <1>2, <1>5 DEF RecordStep, Record
<1>6. CASE UNCHANGED <<run, handles>>
  BY <1>1, <1>6
<1>7. BootstrapStep => UNCHANGED <<run, handles>>
  BY DEF BootstrapStep
<1>8. ASSUME NEW i \in Items, ClockStep(i) \/ LeaseExpiresEarly(i) PROVE OneHandle'
  BY <1>6, <1>8, ClockRows
<1> QED
  BY <1>3, <1>4, <1>5, <1>6, <1>7, <1>8, StepKinds

(* Whoever finalizes, retries or records late: a run sends its parent      *)
(* conversation at most one handle, and exactly one once it is completed.  *)
THEOREM OneHandleHolds == Spec => []OneHandle
<1> QED
  BY TypeCorrect, OneHandleInit, OneHandleNext, PTL DEF Spec

(* What makes ArtifactIsFinal inductive: a completed run has only terminal *)
(* tasks, whose rows no step changes.                                      *)
Settled ==
    stalls = 0 /\ run.stage = "completed" =>
        AllTerminal(task) /\ run.artifact = Entries(task)

LEMMA SettledInit == Init => Settled
BY DEF Init, createRunWithTasks, Settled

LEMMA SettledNext == TypeOK /\ Exclusive /\ Settled /\ [Next]_vars => Settled'
<1> SUFFICES ASSUME TypeOK, Exclusive, Settled, [Next]_vars,
                    stalls' = 0, run'.stage = "completed"
             PROVE  Settled'
  BY DEF Settled
<1>0. stalls = 0
  <2>1. \A w \in Workers : claimTaskLease(w) => stalls' = stalls
    BY DEF claimTaskLease
  <2>2. RecordStep => stalls' = stalls
    BY DEF RecordStep, Record
  <2>3. BootstrapStep => stalls' = stalls
    BY DEF BootstrapStep
  <2>4. \A i \in Items : ClockStep(i) \/ LeaseExpiresEarly(i) => stalls = 0
    BY DEF ClockStep, LeaseExpires, LeaseExpiresEarly, BackoffElapses, TypeOK
  <2> QED
    BY <2>1, <2>2, <2>3, <2>4, StepKinds
<1>1. ASSUME run.stage = "completed", run'.artifact = run.artifact
      PROVE  Settled'
  <2>1. AllTerminal(task) /\ run.artifact = Entries(task)
    BY <1>0, <1>1 DEF Settled
  <2>2. \A i \in Items : task'[i] = task[i]
    BY <2>1, TerminalStep DEF AllTerminal
  <2>3. Entries(task') = Entries(task) /\ AllTerminal(task')
    BY <2>1, <2>2 DEF Entries, AllTerminal
  <2> QED
    BY <1>1, <2>1, <2>3 DEF Settled
<1>2. ASSUME run' = refreshRunFromTasks(run, task') PROVE Settled'
  BY <1>1, <1>2, RefreshType DEF TypeOK
<1>3. ASSUME FinalizeRun, UNCHANGED task PROVE Settled'
  <2>1. CASE AllTerminal(task) /\ Unfinalized(run)
    <3>1. refreshRunFromTasks(run, task) \in RunRow
      BY RefreshType DEF TypeOK
    <3>2. run'.artifact = Entries(task)
      BY <1>3, <2>1, <3>1 DEF FinalizeRun, RunRow
    <3> QED
      BY <1>3, <2>1, <3>2 DEF Settled
  <2> QED
    BY <1>1, <1>3, <2>1 DEF FinalizeRun
<1>4. ASSUME NEW w \in Workers, claimTaskLease(w) PROVE Settled'
  BY <1>2, <1>4 DEF claimTaskLease
<1>5. CASE RecordStep
  BY <1>2, <1>5 DEF RecordStep, Record
<1>6. CASE UNCHANGED <<run, handles>>
  BY <1>1, <1>6
<1>7. BootstrapStep => UNCHANGED <<run, handles>>
  BY DEF BootstrapStep
<1>8. ASSUME NEW i \in Items, ClockStep(i) \/ LeaseExpiresEarly(i) PROVE Settled'
  BY <1>6, <1>8, ClockRows
<1> QED
  BY <1>3, <1>4, <1>5, <1>6, <1>7, <1>8, StepKinds

(* While leases outlive executions, the artifact of a completed run is     *)
(* what the task rows say, for good.                                       *)
THEOREM ArtifactIsFinalHolds == Spec => []ArtifactIsFinal
<1>1. Settled => ArtifactIsFinal
  BY DEF Settled, ArtifactIsFinal
<1> QED
  BY <1>1, TypeCorrect, ExclusiveInit, ExclusiveNext, SettledInit, SettledNext, PTL DEF Spec

-----------------------------------------------------------------------------
(* The run row mirrors the task rows. *)

Mirrors(r, t) ==
    /\ \A s \in TaskStatus : r.counts[s] = Cardinality(WithStatus(t, s))
    /\ r.status = "running" <=> \E i \in Items : t[i].status = "running"
    /\ r.status \in {"completed", "completed_with_failures", "failed"}
         <=> \A i \in Items : t[i].status \in Terminal
    /\ r.status = "completed" <=> \A i \in Items : t[i].status = "succeeded"

LEMMA ZeroIsItem == 0 \in Items
BY DEF Items

(* The status refreshRunFromTasks derives describes the rows ...           *)
LEMMA RefreshMirrors ==
    ASSUME NEW r \in RunRow, NEW t
    PROVE  Mirrors(refreshRunFromTasks(r, t), t)
<1> DEFINE q == refreshRunFromTasks(r, t)
<1>1. q.status = DerivedStatus(t) /\ q.counts = Counts(t)
  BY RefreshType DEF refreshRunFromTasks, RunRow
<1>2. \A s \in TaskStatus : q.counts[s] = Cardinality(WithStatus(t, s))
  BY <1>1 DEF Counts
<1>3. CASE WithStatus(t, "running") # {}
  <2>1. DerivedStatus(t) = "running"
    BY <1>3 DEF DerivedStatus, AllTerminal, Terminal, WithStatus
  <2>2. PICK i \in Items : t[i].status = "running"
    BY <1>3 DEF WithStatus
  <2> QED
    BY <1>1, <1>2, <2>1, <2>2 DEF Mirrors, Terminal
<1>4. CASE WithStatus(t, "running") = {} /\ ~AllTerminal(t)
  <2>1. DerivedStatus(t) = "pending"
    BY <1>4 DEF DerivedStatus
  <2>2. ~(\E i \in Items : t[i].status = "running")
    BY <1>4 DEF WithStatus
  <2>3. ~(\A i \in Items : t[i].status \in Terminal)
    BY <1>4 DEF AllTerminal
  <2> QED
    BY <1>1, <1>2, <2>1, <2>2, <2>3 DEF Mirrors, Terminal
<1>5. CASE AllTerminal(t)
  <2>1. \A i \in Items : t[i].status \in Terminal
    BY <1>5 DEF AllTerminal
  <2>2. WithStatus(t, "running") = {} /\ ~(\E i \in Items : t[i].status = "running")
    BY <2>1 DEF WithStatus, Terminal
  <2>3. CASE WithStatus(t, "succeeded") = {}
    <3>1. WithStatus(t, "failed") # {} /\ ~(\A i \in Items : t[i].status = "succeeded")
      BY <2>1, <2>3, ZeroIsItem DEF WithStatus, Terminal
    <3>2. DerivedStatus(t) = "failed"
      BY <1>5, <2>2, <2>3, <3>1 DEF DerivedStatus
    <3> QED
      BY <1>1, <1>2, <2>1, <2>2, <3>1, <3>2 DEF Mirrors
  <2>4. CASE WithStatus(t, "succeeded") # {} /\ WithStatus(t, "failed") = {}
    <3>1. \A i \in Items : t[i].status = "succeeded"
      BY <2>1, <2>4 DEF WithStatus, Terminal
    <3>2. DerivedStatus(t) = "completed"
      BY <1>5, <2>2, <2>4 DEF DerivedStatus
    <3> QED
      BY <1>1, <1>2, <2>1, <2>2, <3>1, <3>2 DEF Mirrors
  <2>5. CASE WithStatus(t, "succeeded") # {} /\ WithStatus(t, "failed") # {}
    <3>1. ~(\A i \in Items : t[i].status = "succeeded")
      BY <2>5 DEF WithStatus
    <3>2. DerivedStatus(t) = "completed_with_failures"
      BY <1>5, <2>2, <2>5 DEF DerivedStatus
    <3> QED
      BY <1>1, <1>2, <2>1, <2>2, <3>1, <3>2 DEF Mirrors
  <2> QED
    BY <2>3, <2>4, <2>5
<1> QED
  BY <1>3, <1>4, <1>5

(* ... and so does the status FinalizeOperatorRunUseCase derives, a second *)
(* time and differently, from the entries of the artifact.                 *)
LEMMA FinalStatus ==
    ASSUME NEW t \in [Items -> TaskRow], AllTerminal(t)
    PROVE  /\ deriveRunStatus(Entries(t)) \in {"completed", "completed_with_failures", "failed"}
           /\ deriveRunStatus(Entries(t)) = "completed" <=>
                \A i \in Items : t[i].status = "succeeded"
<1> DEFINE failed == {i \in Items : Entries(t)[i][1] = "failed"}
<1>1. \A i \in Items : Entries(t)[i][1] = t[i].status
  BY DEF Entries
<1>2. failed = {} <=> \A i \in Items : t[i].status = "succeeded"
  BY <1>1 DEF AllTerminal, Terminal
<1>3. deriveRunStatus(Entries(t)) =
        CASE failed = {} -> "completed"
          [] failed = Items -> "failed"
          [] OTHER -> "completed_with_failures"
  BY DEF deriveRunStatus
<1>4. ~(failed = {} /\ failed = Items)
  BY ZeroIsItem
<1> HIDE DEF failed
<1> QED
  BY <1>2, <1>3, <1>4

LEMMA MirrorsInit == Init => RunMirrorsTasks
<1> SUFFICES ASSUME Init PROVE RunMirrorsTasks
  OBVIOUS
<1>1. \A i \in Items : task[i].status = "pending"
  BY DEF Init, createRunWithTasks, NewTask
<1>2. WithStatus(task, "pending") = Items
  BY <1>1 DEF WithStatus
<1>3. \A s \in TaskStatus : s # "pending" => WithStatus(task, s) = {}
  BY <1>1 DEF WithStatus
<1>4. Cardinality(Items) = N /\ Cardinality({}) = 0
  BY FS_Interval, FS_EmptySet DEF Items
<1>5. run.status = "pending" /\ \A s \in TaskStatus : run.counts[s] = IF s = "pending" THEN N ELSE 0
  BY DEF Init, createRunWithTasks
<1>6. \A s \in TaskStatus : run.counts[s] = Cardinality(WithStatus(task, s))
  BY <1>2, <1>3, <1>4, <1>5
<1> QED
  BY <1>1, <1>5, <1>6, ZeroIsItem DEF RunMirrorsTasks, Terminal

LEMMA MirrorsNext == TypeOK /\ RunMirrorsTasks /\ [Next]_vars => RunMirrorsTasks'
<1> SUFFICES ASSUME TypeOK, RunMirrorsTasks, [Next]_vars PROVE RunMirrorsTasks'
  OBVIOUS
<1>1. ASSUME Mirrors(run', task') PROVE RunMirrorsTasks'
  BY <1>1 DEF Mirrors, RunMirrorsTasks
<1>2. ASSUME run' = run, \A i \in Items : task'[i].status = task[i].status
      PROVE  RunMirrorsTasks'
  <2>1. \A s \in TaskStatus : WithStatus(task', s) = WithStatus(task, s)
    BY <1>2 DEF WithStatus
  <2>2. Mirrors(run, task)
    BY DEF Mirrors, RunMirrorsTasks
  <2>3. Mirrors(run', task')
    BY <1>2, <2>1, <2>2 DEF Mirrors
  <2> QED
    BY <1>1, <2>3
<1>3. ASSUME run' = refreshRunFromTasks(run, task') PROVE RunMirrorsTasks'
  BY <1>1, <1>3, RefreshMirrors DEF TypeOK
<1>4. ASSUME FinalizeRun, UNCHANGED task PROVE RunMirrorsTasks'
  <2>1. CASE AllTerminal(task) /\ Unfinalized(run)
    <3> DEFINE q == refreshRunFromTasks(run, task)
    <3>1. q \in RunRow /\ Mirrors(q, task)
      BY RefreshType, RefreshMirrors DEF TypeOK
    <3>2. run' = [q EXCEPT !.status = deriveRunStatus(Entries(task)),
                           !.stage = "completed",
                           !.artifact = Entries(task),
                           !.needsRetry = FALSE]
      BY <1>4, <2>1 DEF FinalizeRun
    <3> HIDE DEF q
    <3>3. run'.status = deriveRunStatus(Entries(task)) /\ run'.counts = q.counts
      BY <3>1, <3>2 DEF RunRow
    <3>4. /\ run'.status \in {"completed", "completed_with_failures", "failed"}
          /\ run'.status = "completed" <=> \A i \in Items : task[i].status = "succeeded"
      BY <2>1, <3>3, FinalStatus DEF TypeOK
    <3>5. /\ \A i \in Items : task[i].status \in Terminal
          /\ ~(\E i \in Items : task[i].status = "running")
      BY <2>1 DEF AllTerminal, Terminal
    <3>6. Mirrors(run', task)
      BY <3>1, <3>3, <3>4, <3>5 DEF Mirrors
    <3> QED
      BY <1>1, <1>4, <3>6
  <2> QED
    BY <1>2, <1>4, <2>1 DEF FinalizeRun
<1>5. ASSUME NEW w \in Workers, claimTaskLease(w) PROVE RunMirrorsTasks'
  BY <1>3, <1>5 DEF claimTaskLease
<1>6. CASE RecordStep
  BY <1>3, <1>6 DEF RecordStep, Record
<1>7. CASE BootstrapStep
  BY <1>2, <1>7, BootstrapRows DEF BootstrapStep
<1>8. CASE UNCHANGED <<task, run, handles, stalls>>
  BY <1>2, <1>8
<1>9. ASSUME NEW i \in Items, ClockStep(i) \/ LeaseExpiresEarly(i) PROVE RunMirrorsTasks'
  BY <1>2, <1>9, ClockRows
<1> QED
  BY <1>4, <1>5, <1>6, <1>7, <1>8, <1>9, StepKinds

(* The counters and the status of the run row describe the task rows after *)
(* every transaction, and a terminal run status means that all tasks are.  *)
THEOREM RunMirrorsTasksHolds == Spec => []RunMirrorsTasks
<1> QED
  BY TypeCorrect, MirrorsInit, MirrorsNext, PTL DEF Spec

-----------------------------------------------------------------------------
(* Nothing is published before finalization. *)
Unpublished == run.stage # "completed" => run.artifact = NoArtifact

LEMMA UnpublishedInit == Init => Unpublished
BY DEF Init, createRunWithTasks, Unpublished

LEMMA UnpublishedNext == TypeOK /\ Unpublished /\ [Next]_vars => Unpublished'
<1> SUFFICES ASSUME TypeOK, Unpublished, [Next]_vars PROVE Unpublished'
  OBVIOUS
<1>1. ASSUME run'.stage = run.stage, run'.artifact = run.artifact PROVE Unpublished'
  BY <1>1 DEF Unpublished
<1>2. ASSUME NEW t, run' = refreshRunFromTasks(run, t) PROVE Unpublished'
  BY <1>1, <1>2, RefreshType DEF TypeOK
<1>3. CASE FinalizeRun
  <2>1. refreshRunFromTasks(run, task) \in RunRow
    BY RefreshType DEF TypeOK
  <2> QED
    BY <1>1, <1>3, <2>1 DEF FinalizeRun, RunRow, Unpublished
<1>4. ASSUME NEW w \in Workers, claimTaskLease(w) PROVE Unpublished'
  BY <1>2, <1>4 DEF claimTaskLease
<1>5. CASE RecordStep
  BY <1>2, <1>5 DEF RecordStep, Record
<1>6. CASE UNCHANGED <<run, handles>>
  BY <1>1, <1>6
<1>7. BootstrapStep => UNCHANGED <<run, handles>>
  BY DEF BootstrapStep
<1>8. ASSUME NEW i \in Items, ClockStep(i) \/ LeaseExpiresEarly(i) PROVE Unpublished'
  BY <1>6, <1>8, ClockRows
<1> QED
  BY <1>3, <1>4, <1>5, <1>6, <1>7, <1>8, StepKinds

-----------------------------------------------------------------------------
(* The initial states and the steps map to those of the abstract run. *)

Results == [i \in Items |-> SettledResult(i)]

LEMMA NoHandleYet ==
    ASSUME TypeOK, OneHandle, Unfinalized(run)
    PROVE  handles = <<>>
<1>1. handles \in Seq(Handle) /\ Len(handles) \in Nat
  BY LenProperties DEF TypeOK
<1>2. Len(handles) <= 1 /\ Len(handles) # 1
  BY DEF Unfinalized, OneHandle
<1>3. \A n \in Nat : n <= 1 /\ n # 1 => n = 0
  OBVIOUS
<1>4. Len(handles) = 0
  BY <1>1, <1>2, <1>3
<1> QED
  BY <1>1, <1>4, EmptySeq

LEMMA NotAnOutcome == <<>> \notin {"succeeded", "failed"} \X Nat
OBVIOUS

LEMMA RefinementInit == Init => Abstract!Init
<1> SUFFICES ASSUME Init PROVE Abstract!Init
  OBVIOUS
<1>1. \A i \in Items : SettledResult(i) = <<>>
  BY DEF Init, createRunWithTasks, NewTask, SettledResult, Terminal
<1>2. run.artifact = <<>> /\ handles = <<>> /\ stalls = 0
  BY DEF Init, createRunWithTasks, NoArtifact
<1> QED
  BY <1>1, <1>2 DEF Abstract!Init

LEMMA RefinementNext ==
    ASSUME TypeOK, Exclusive, OneHandle, Unpublished, [Next]_vars
    PROVE  [Abstract!Next]_(Abstract!runVars)
<1> DEFINE Stutter == /\ \A i \in Items : SettledResult(i)' = SettledResult(i)
                      /\ run'.artifact = run.artifact
                      /\ handles' = handles
                      /\ stalls' = stalls
<1>0. \A w \in Workers : exec[w].item \in Items
  BY DEF TypeOK, Executor
<1>1. ASSUME Stutter PROVE [Abstract!Next]_(Abstract!runVars)
  BY <1>1 DEF Abstract!runVars
<1>2. ASSUME \A i \in Items : task'[i].status = task[i].status /\ task'[i].answer = task[i].answer,
             run' = run, handles' = handles, stalls' = stalls
      PROVE  Stutter
  BY <1>2 DEF SettledResult
<1>3. ASSUME NEW w \in Workers, claimTaskLease(w) PROVE Stutter
  <2>1. PICK j \in Items : Claimable(task, j) /\ task' = [task EXCEPT ![j] = ClaimedRow(@)]
    BY <1>3 DEF claimTaskLease
  <2> DEFINE r == ClaimedRow(task[j])
  <2>2. r.status = "running" /\ task' = [task EXCEPT ![j] = r]
    BY <2>1, ClaimedRowFacts DEF TypeOK
  <2> HIDE DEF r
  <2>3. \A i \in Items : task'[i] = IF i = j THEN r ELSE task[i]
    BY <2>2, RowAfter, ZenonT(60)
  <2>4. task[j].status \notin Terminal /\ task'[j].status \notin Terminal
    BY <2>1, <2>2, <2>3 DEF Claimable, Reclaimable, Terminal
  <2>5. \A i \in Items : SettledResult(i)' = SettledResult(i)
    BY <2>3, <2>4 DEF SettledResult
  <2>6. run'.artifact = run.artifact /\ handles' = handles /\ stalls' = stalls
    BY <1>3, RefreshType DEF claimTaskLease, TypeOK
  <2> QED
    BY <2>5, <2>6
<1>4. CASE RecordStep
  <2>1. PICK w \in Workers, s \in {"succeeded", "failed", "retryable_failure"},
             a \in Nat, due \in BOOLEAN, next \in Executor : Record(w, s, a, due, next)
    BY <1>4 DEF RecordStep
  <2>2. PICK j \in Items : j = exec[w].item
    BY <1>0
  <2> DEFINE r == RecordedRow(task[j], s, a, due)
  <2>3. task' = [task EXCEPT ![j] = r] /\ r.status = s /\ r.answer = a
    <3>1. task[j] \in TaskRow /\ s \in TaskStatus
      BY DEF TypeOK, TaskStatus
    <3>2. task' = [task EXCEPT ![j] = r]
      BY <2>1, <2>2 DEF Record
    <3> QED
      BY <3>1, <3>2, RecordedRowFacts
  <2> HIDE DEF r
  <2>4. \A i \in Items : task'[i] = IF i = j THEN r ELSE task[i]
    BY <2>3, RowAfter, ZenonT(60)
  <2>5. run'.artifact = run.artifact /\ handles' = handles /\ stalls' = stalls
    BY <2>1, RefreshType DEF Record, TypeOK
  <2>6. \A i \in Items : i # j => SettledResult(i)' = SettledResult(i)
    BY <2>4 DEF SettledResult
  <2> DEFINE new == SettledResult(j)'
  <2>7. /\ new \in ({"succeeded", "failed"} \X Nat) \cup {<<>>}
        /\ s # "retryable_failure" => new \in {"succeeded", "failed"} \X Nat
        /\ s = "retryable_failure" => new = <<>>
    BY <2>3, <2>4 DEF SettledResult, Terminal
  <2>8. Results' = [Results EXCEPT ![j] = new] /\ Results'[j] = new
    BY <2>6 DEF Results
  <2> HIDE DEF new
  <2>9. CASE task[j].status \notin Terminal
    <3>1. SettledResult(j) = <<>> /\ Results[j] = <<>>
      BY <2>9 DEF SettledResult, Results
    <3>2. CASE s = "retryable_failure"
      BY <1>1, <2>5, <2>6, <2>7, <3>1, <3>2 DEF new
    <3>3. CASE s # "retryable_failure"
      <4>1. Abstract!Settle(j)
        BY <2>5, <2>7, <2>8, <3>1, <3>3, NotAnOutcome
           DEF Abstract!Settle, Abstract!Settled, Abstract!Outcomes, Results
      <4> QED
        BY <4>1 DEF Abstract!Next
    <3> QED
      BY <3>2, <3>3
  <2>10. CASE task[j].status \in Terminal
    <3>1. stalls > 0
      <4>1. stalls # 0
        BY <2>1, <2>2, <2>10 DEF Exclusive, LeaseAgreement, Record, Working, Terminal
      <4> QED
        BY <4>1, BoundsAssumption DEF TypeOK
    <3>2. Results[j] \in {"succeeded", "failed"} \X Nat
      BY <2>10 DEF Results, SettledResult, Terminal, TypeOK, TaskRow
    <3>3. Abstract!Replace(j)
      BY <2>5, <2>7, <2>8, <3>1, <3>2
         DEF Abstract!Replace, Abstract!Settled, Abstract!Outcomes, Results
    <3> QED
      BY <3>3 DEF Abstract!Next
  <2> QED
    BY <2>9, <2>10
<1>5. CASE FinalizeRun /\ UNCHANGED <<task, stalls>>
  <2>1. CASE AllTerminal(task) /\ Unfinalized(run)
    <3>1. refreshRunFromTasks(run, task) \in RunRow
      BY RefreshType DEF TypeOK
    <3>2. run'.artifact = Entries(task)
      BY <1>5, <2>1, <3>1 DEF FinalizeRun, RunRow
    <3>3. handles = <<>> /\ run.artifact = <<>>
      BY <2>1, NoHandleYet DEF Unfinalized, Unpublished, NoArtifact
    <3>4. Results = Entries(task) /\ \A i \in Items : Results[i] \in {"succeeded", "failed"} \X Nat
      BY <2>1 DEF Results, SettledResult, Entries, AllTerminal, Terminal, TypeOK, TaskRow
    <3>5. deriveRunStatus(Entries(task)) \in Abstract!Summaries(Results)
      <4>1. \A i \in Items : Results[i][1] \in {"succeeded", "failed"}
                             /\ Results[i][1] = Entries(task)[i][1]
        BY <3>4
      <4>2. 0 \in Items
        BY ZeroIsItem
      <4> DEFINE failed == {i \in Items : Entries(task)[i][1] = "failed"}
      <4>3. failed = {} <=> \A i \in Items : Results[i][1] = "succeeded"
        BY <4>1
      <4>4. failed = Items <=> \A i \in Items : Results[i][1] = "failed"
        BY <4>1
      <4>5. ~(failed = {} /\ failed = Items)
        BY <4>2
      <4>6. deriveRunStatus(Entries(task)) =
              CASE failed = {} -> "completed"
                [] failed = Items -> "failed"
                [] OTHER -> "completed_with_failures"
        BY DEF deriveRunStatus
      <4> HIDE DEF failed
      <4> QED
        BY <4>3, <4>4, <4>5, <4>6 DEF Abstract!Summaries
    <3>6. handles' = <<[status |-> deriveRunStatus(Entries(task)), artifact |-> Entries(task)]>>
      BY <1>5, <2>1, <3>3 DEF FinalizeRun
    <3>7. Results' = Results /\ stalls' = stalls
      BY <1>5 DEF Results, SettledResult
    <3>8. Abstract!Publish
      BY <3>2, <3>3, <3>4, <3>5, <3>6, <3>7
         DEF Abstract!Publish, Abstract!Settled, Abstract!Outcomes, Results
    <3> QED
      BY <3>8 DEF Abstract!Next
  <2>2. CASE ~(AllTerminal(task) /\ Unfinalized(run))
    BY <1>1, <1>2, <1>5, <2>2 DEF FinalizeRun
  <2> QED
    BY <2>1, <2>2
<1>6. CASE BootstrapStep
  <2>1. UNCHANGED <<run, handles, stalls>>
    BY <1>6 DEF BootstrapStep
  <2> QED
    BY <1>1, <1>2, <1>6, <2>1, BootstrapRows
<1>7. CASE UNCHANGED <<task, run, handles, stalls>>
  BY <1>1, <1>2, <1>7
<1>8. ASSUME NEW j \in Items, ClockStep(j) \/ LeaseExpiresEarly(j)
      PROVE  [Abstract!Next]_(Abstract!runVars)
  <2>1. /\ \A i \in Items : task'[i].status = task[i].status /\ task'[i].answer = task[i].answer
        /\ run' = run /\ handles' = handles
    BY <1>8, ClockRows
  <2>2. CASE ClockStep(j)
    <3>1. stalls' = stalls
      BY <2>2 DEF ClockStep, LeaseExpires, BackoffElapses
    <3> QED
      BY <1>1, <1>2, <2>1, <3>1
  <2>3. CASE LeaseExpiresEarly(j)
    <3>1. stalls' = stalls + 1
      BY <2>3 DEF LeaseExpiresEarly
    <3>2. Results' = Results
      BY <2>1 DEF Results, SettledResult
    <3>3. Abstract!Outlive
      BY <2>1, <3>1, <3>2 DEF Abstract!Outlive, Results
    <3> QED
      BY <3>3 DEF Abstract!Next
  <2> QED
    BY <1>8, <2>2, <2>3
<1> QED
  BY <1>1, <1>3, <1>4, <1>5, <1>6, <1>7, <1>8, StepKinds

(* The executors, the store and the clock together do what OperatorRun     *)
(* promises: each item gets an outcome, which only an execution that       *)
(* outlived its lease can replace, and the outcomes that the items have    *)
(* when all are settled are published once, whatever crashes.              *)
THEOREM RefinementHolds == Spec => ImplementsOperatorRun
<1>1. TypeOK /\ Exclusive /\ OneHandle /\ Unpublished /\ [Next]_vars
        => [Abstract!Next]_(Abstract!runVars)
  BY RefinementNext
<1> QED
  BY <1>1, TypeCorrect, ExclusiveInit, ExclusiveNext, OneHandleHolds, UnpublishedInit,
     UnpublishedNext, RefinementInit, PTL DEF Spec, ImplementsOperatorRun, Abstract!Spec

-----------------------------------------------------------------------------
(* What the attempts at an item may rely on.                               *)
(* Retries are bounded although a record does not say under which claim it *)
(* was made: a claim within the retry policy can be turned into a retry by *)
(* whoever is at work under it, once, and every claim beyond those is paid *)
(* for by a crash, a stall or a loss of writes.  And a sub-agent finds the *)
(* one child conversation of its task, bootstrapped.                       *)

(* What keeps a sub-agent out of an empty child: a bootstrap is marked     *)
(* complete only when the task's own child has its events, and a child, an *)
(* appended event and the mark are never taken back.                       *)
BootstrapKept ==
    /\ \A i \in Items : task[i].bootstrap = "bootstrap_completed" =>
        task[i].child # 0 /\ children[task[i].child] > 0
    /\ \A w \in Workers : exec[w].phase = "completing" => children[exec[w].child] > 0
    /\ \A w \in Workers : kind = "agenticMap" /\ exec[w].phase = "executing" =>
        /\ task[exec[w].item].bootstrap = "bootstrap_completed"
        /\ exec[w].child = task[exec[w].item].child

Bootstrapped == ChildAgreement /\ BootstrapKept

(* The phases in which an executor's child conversation plays no part.     *)
Childless == {"idle", "claimed", "childless", "recorded"}

LEMMA BootstrappedInit == Init => Bootstrapped
BY DEF Init, createRunWithTasks, NewTask, Idle, Bootstrapped, ChildAgreement, BootstrapKept

LEMMA ExecAfter ==
    ASSUME TypeOK, NEW w \in Workers, NEW x, exec' = [exec EXCEPT ![w] = x]
    PROVE  exec'[w] = x /\ \A v \in Workers : v # w => exec'[v] = exec[v]
BY DEF TypeOK

(* A step that leaves children and bootstraps alone keeps the invariant if *)
(* every executor it moves goes where its child does not matter.           *)
LEMMA BootstrappedQuiet ==
    ASSUME TypeOK, Bootstrapped, UNCHANGED <<kind, children>>,
           \A i \in Items : /\ task'[i].child = task[i].child
                            /\ task'[i].bootstrap = task[i].bootstrap,
           \A w \in Workers : \/ exec'[w] = exec[w]
                              \/ exec'[w].phase \in Childless
                              \/ exec'[w].phase = "executing" /\ kind = "llmMap"
    PROVE  Bootstrapped'
<1>1. \A w \in Workers : exec[w].item \in Items
  BY DEF TypeOK, Executor
<1>2. ChildAgreement'
  BY <1>1 DEF Bootstrapped, ChildAgreement, Childless
<1>3. BootstrapKept'
  BY <1>1 DEF Bootstrapped, BootstrapKept, Childless
<1> QED
  BY <1>2, <1>3 DEF Bootstrapped

LEMMA BootstrappedAssign ==
    ASSUME TypeOK, Bootstrapped, NEW w \in Workers, assignTaskChildConversation(w)
    PROVE  Bootstrapped'
<1> DEFINE i == exec[w].item
           n == Len(children) + 1
           c == AssignedChild(task[i], n)
           r == [task[i] EXCEPT !.child = c]
           x == [exec[w] EXCEPT !.phase = "hasChild", !.child = c]
<1>1. /\ i \in Items /\ task[i] \in TaskRow /\ exec[w] \in Executor
      /\ Len(children) \in Nat
      /\ \A v \in Workers : exec[v].item \in Items /\ exec[v].child \in Nat
      /\ \A j \in Items : task[j].child \in Nat /\ task[j].child < n
      /\ \A v \in Workers : exec[v].child < n
  BY DEF TypeOK, Executor, TaskRow
<1>2. /\ c \in Nat /\ c # 0
      /\ task[i].child # 0 => c = task[i].child
      /\ task[i].child = 0 => c = n
  BY <1>1 DEF AssignedChild
<1>3. /\ r.child = c /\ r.bootstrap = task[i].bootstrap
      /\ x.child = c /\ x.phase = "hasChild" /\ x.item = i
  BY <1>1, <1>2 DEF TaskRow, Executor
<1>4. /\ task' = [task EXCEPT ![i] = r]
      /\ exec' = [exec EXCEPT ![w] = x]
      /\ kind' = kind
      /\ children' = Append(children, 0)
  BY DEF assignTaskChildConversation
<1>5. \A k \in Nat : k # 0 /\ k < n => children'[k] = children[k]
  BY <1>1, <1>4, SMTT(30) DEF TypeOK
<1> HIDE DEF r, x, c, n, i
<1>6. /\ \A j \in Items : task'[j] = IF j = i THEN r ELSE task[j]
      /\ exec'[w] = x /\ \A v \in Workers : v # w => exec'[v] = exec[v]
  <2>1. \A j \in Items : task'[j] = IF j = i THEN r ELSE task[j]
    BY <1>1, <1>4, RowAfter
  <2>2. exec'[w] = x /\ \A v \in Workers : v # w => exec'[v] = exec[v]
    BY <1>4, ExecAfter
  <2> QED
    BY <2>1, <2>2
<1>7. \A j \in Items : /\ task'[j].bootstrap = task[j].bootstrap
                       /\ task[j].child # 0 => task'[j].child = task[j].child
  BY <1>2, <1>3, <1>6
<1>8. ChildAgreement'
  <2>1. ASSUME NEW v \in Workers,
               exec'[v].phase \in {"hasChild", "marking", "appending", "completing"}
        PROVE  exec'[v].child = task'[exec'[v].item].child /\ exec'[v].child # 0
    BY <1>1, <1>2, <1>3, <1>6, <1>7, <2>1 DEF Bootstrapped, ChildAgreement
  <2>2. ASSUME NEW j \in Items, NEW k \in Items, j # k, task'[j].child # 0
        PROVE  task'[j].child # task'[k].child
    BY <1>1, <1>2, <1>3, <1>6, <2>2 DEF Bootstrapped, ChildAgreement
  <2> QED
    BY <2>1, <2>2 DEF ChildAgreement
<1>9. BootstrapKept'
  <2>1. ASSUME NEW j \in Items, task'[j].bootstrap = "bootstrap_completed"
        PROVE  task'[j].child # 0 /\ children'[task'[j].child] > 0
    BY <1>1, <1>5, <1>7, <2>1 DEF Bootstrapped, BootstrapKept
  <2>2. ASSUME NEW v \in Workers, exec'[v].phase = "completing"
        PROVE  children'[exec'[v].child] > 0
    <3>1. v # w /\ exec'[v] = exec[v]
      BY <1>3, <1>6, <2>2
    <3>2. exec[v].child # 0
      BY <2>2, <3>1 DEF Bootstrapped, ChildAgreement
    <3> QED
      BY <1>1, <1>5, <2>2, <3>1, <3>2 DEF Bootstrapped, BootstrapKept
  <2>3. ASSUME NEW v \in Workers, kind' = "agenticMap", exec'[v].phase = "executing"
        PROVE  /\ task'[exec'[v].item].bootstrap = "bootstrap_completed"
               /\ exec'[v].child = task'[exec'[v].item].child
    <3>1. v # w /\ exec'[v] = exec[v] /\ exec[v].item \in Items
      BY <1>1, <1>3, <1>6, <2>3
    <3> QED
      BY <1>4, <1>7, <2>3, <3>1 DEF Bootstrapped, BootstrapKept
  <2> QED
    BY <2>1, <2>2, <2>3 DEF BootstrapKept
<1> QED
  BY <1>8, <1>9 DEF Bootstrapped

LEMMA BootstrappedNext == TypeOK /\ Bootstrapped /\ [Next]_vars => Bootstrapped'
<1> SUFFICES ASSUME TypeOK, Bootstrapped, [Next]_vars PROVE Bootstrapped'
  OBVIOUS
<1>0. /\ \A w \in Workers : exec[w] \in Executor /\ exec[w].item \in Items
      /\ \A i \in Items : task[i] \in TaskRow
      /\ Idle.phase = "idle"
  BY DEF TypeOK, Executor, Idle
<1>1. ASSUME NEW w \in Workers, claimTaskLease(w) PROVE Bootstrapped'
  <2>1. PICK i, x :
          /\ i \in Items
          /\ task' = [task EXCEPT ![i] = ClaimedRow(task[i])]
          /\ exec' = [exec EXCEPT ![w] = x]
          /\ x.phase = IF kind = "llmMap" THEN "executing" ELSE "claimed"
          /\ UNCHANGED <<kind, children>>
    BY <1>1 DEF claimTaskLease
  <2>2. ClaimedRow(task[i]).child = task[i].child
        /\ ClaimedRow(task[i]).bootstrap = task[i].bootstrap
    BY <1>0 DEF ClaimedRow, TaskRow
  <2> QED
    BY <1>0, <2>1, <2>2, RowAfter, ExecAfter, BootstrappedQuiet DEF Childless
<1>2. ASSUME NEW w \in Workers, ReadChild(w) PROVE Bootstrapped'
  <2> DEFINE c == task[exec[w].item].child
             x == [exec[w] EXCEPT !.phase = IF c = 0 THEN "childless" ELSE "hasChild", !.child = c]
  <2>1. /\ x.phase = IF c = 0 THEN "childless" ELSE "hasChild"
        /\ x.child = c /\ x.item = exec[w].item
    BY <1>0 DEF Executor
  <2>2. exec' = [exec EXCEPT ![w] = x] /\ UNCHANGED <<kind, task, children>>
    BY <1>2 DEF ReadChild
  <2> HIDE DEF x
  <2>3. exec'[w] = x /\ \A v \in Workers : v # w => exec'[v] = exec[v]
    BY <2>2, ExecAfter
  <2>4. ChildAgreement'
    BY <2>1, <2>2, <2>3 DEF Bootstrapped, ChildAgreement
  <2>5. BootstrapKept'
    BY <2>1, <2>2, <2>3 DEF Bootstrapped, BootstrapKept
  <2> QED
    BY <2>4, <2>5 DEF Bootstrapped
<1>3. ASSUME NEW w \in Workers, assignTaskChildConversation(w) PROVE Bootstrapped'
  BY <1>3, BootstrappedAssign
<1>4. ASSUME NEW w \in Workers, NEW p, Goto(w, p)
      PROVE  /\ exec'[w].phase = p
             /\ exec'[w].item = exec[w].item
             /\ exec'[w].child = exec[w].child
             /\ \A v \in Workers : v # w => exec'[v] = exec[v]
  <2> DEFINE x == [exec[w] EXCEPT !.phase = p]
  <2>1. x.phase = p /\ x.item = exec[w].item /\ x.child = exec[w].child
    BY <1>0 DEF Executor
  <2>2. exec' = [exec EXCEPT ![w] = x]
    BY <1>4 DEF Goto
  <2> HIDE DEF x
  <2> QED
    BY <2>1, <2>2, ExecAfter
<1>5. ASSUME NEW w \in Workers, getTaskBootstrapState(w) PROVE Bootstrapped'
  <2>1. PICK p : /\ Goto(w, p)
                 /\ p \in {"marking", "appending", "executing"}
                 /\ p = "executing" => task[exec[w].item].bootstrap = "bootstrap_completed"
    BY <1>0, <1>5 DEF getTaskBootstrapState, TaskRow, BootstrapState
  <2>2. exec[w].phase = "hasChild" /\ UNCHANGED <<kind, task, children>>
    BY <1>5 DEF getTaskBootstrapState
  <2>3. ChildAgreement'
    BY <1>4, <2>1, <2>2 DEF Bootstrapped, ChildAgreement
  <2>4. BootstrapKept'
    BY <1>4, <2>1, <2>2 DEF Bootstrapped, BootstrapKept, ChildAgreement
  <2> QED
    BY <2>3, <2>4 DEF Bootstrapped
<1>6. ASSUME NEW w \in Workers, markBootstrapStarted(w) PROVE Bootstrapped'
  <2> DEFINE i == exec[w].item
             r == StartedRow(task[i])
  <2>1. /\ r.child = task[i].child
        /\ task[i].bootstrap = "bootstrap_completed" <=> r.bootstrap = "bootstrap_completed"
    BY <1>0 DEF StartedRow, TaskRow
  <2>2. /\ task' = [task EXCEPT ![i] = r] /\ Goto(w, "appending")
        /\ exec[w].phase = "marking" /\ UNCHANGED <<kind, children>>
    BY <1>6 DEF markBootstrapStarted
  <2> HIDE DEF r, i
  <2>3. \A j \in Items :
          /\ task'[j].child = task[j].child
          /\ task'[j].bootstrap = "bootstrap_completed" <=> task[j].bootstrap = "bootstrap_completed"
    BY <1>0, <2>1, <2>2, RowAfter
  <2>4. ChildAgreement'
    BY <1>0, <1>4, <2>2, <2>3 DEF Bootstrapped, ChildAgreement
  <2>5. BootstrapKept'
    BY <1>0, <1>4, <2>2, <2>3 DEF Bootstrapped, BootstrapKept
  <2> QED
    BY <2>4, <2>5 DEF Bootstrapped
<1>7. ASSUME NEW w \in Workers, AppendBootstrapEvents(w) PROVE Bootstrapped'
  <2>1. /\ children' = [children EXCEPT ![exec[w].child] = @ + 1] /\ Goto(w, "completing")
        /\ exec[w].phase = "appending" /\ UNCHANGED <<kind, task>>
    BY <1>7 DEF AppendBootstrapEvents
  <2>2. exec[w].child \in Nat /\ exec[w].child # 0 /\ exec[w].child <= Len(children)
    BY <1>0, <2>1 DEF Bootstrapped, ChildAgreement, TypeOK, Executor
  <2>3. /\ children'[exec[w].child] > 0
        /\ \A k \in Nat : k # 0 /\ k <= Len(children) /\ children[k] > 0 => children'[k] > 0
    BY <2>1, <2>2 DEF TypeOK
  <2>4. ChildAgreement'
    BY <1>0, <1>4, <2>1 DEF Bootstrapped, ChildAgreement
  <2>5. BootstrapKept'
    <3>1. \A i \in Items : task[i].child \in Nat /\ task[i].child <= Len(children)
      BY <1>0 DEF TypeOK, TaskRow
    <3>2. \A v \in Workers : exec[v].child \in Nat /\ exec[v].child <= Len(children)
      BY <1>0 DEF TypeOK, Executor
    <3>3. \A v \in Workers : exec[v].phase = "completing" => exec[v].child # 0
      BY DEF Bootstrapped, ChildAgreement
    <3> QED
      BY <1>4, <2>1, <2>3, <3>1, <3>2, <3>3 DEF Bootstrapped, BootstrapKept
  <2> QED
    BY <2>4, <2>5 DEF Bootstrapped
<1>8. ASSUME NEW w \in Workers, markBootstrapCompleted(w) PROVE Bootstrapped'
  <2> DEFINE i == exec[w].item
             r == CompletedRow(task[i])
  <2>0. i = exec[w].item /\ i \in Items
    BY <1>0
  <2>1. r.child = task[i].child /\ r.bootstrap = "bootstrap_completed"
    BY <1>0 DEF CompletedRow, TaskRow, BootstrapState
  <2>2. /\ task' = [task EXCEPT ![i] = r] /\ Goto(w, "executing")
        /\ exec[w].phase = "completing" /\ UNCHANGED <<kind, children>>
    BY <1>8 DEF markBootstrapCompleted
  <2>3. /\ exec[w].child = task[i].child /\ task[i].child # 0
        /\ children[task[i].child] > 0
    BY <2>2 DEF Bootstrapped, ChildAgreement, BootstrapKept
  <2> HIDE DEF r, i
  <2>4. \A j \in Items : /\ task'[j].child = task[j].child
                         /\ task'[j].bootstrap = IF j = i THEN "bootstrap_completed"
                                                 ELSE task[j].bootstrap
    <3>1. \A j \in Items : task'[j] = IF j = i THEN r ELSE task[j]
      BY ONLY TypeOK, <2>0, <2>2, RowAfter, ZenonT(60)
    <3> QED
      BY <2>1, <3>1
  <2>5. ChildAgreement'
    BY <1>0, <1>4, <2>2, <2>4 DEF Bootstrapped, ChildAgreement
  <2>6. BootstrapKept'
    BY <1>0, <1>4, <2>0, <2>2, <2>3, <2>4 DEF Bootstrapped, BootstrapKept
  <2> QED
    BY <2>5, <2>6 DEF Bootstrapped
<1>9. ASSUME NEW w \in Workers, NEW s, NEW a, NEW due, NEW x, x.phase \in Childless,
             Record(w, s, a, due, x)
      PROVE  Bootstrapped'
  <2>1. /\ task' = [task EXCEPT ![exec[w].item] = RecordedRow(task[exec[w].item], s, a, due)]
        /\ exec' = [exec EXCEPT ![w] = x]
        /\ UNCHANGED <<kind, children>>
    BY <1>9 DEF Record
  <2>2. /\ RecordedRow(task[exec[w].item], s, a, due).child = task[exec[w].item].child
        /\ RecordedRow(task[exec[w].item], s, a, due).bootstrap = task[exec[w].item].bootstrap
    BY <1>0 DEF RecordedRow, TaskRow
  <2> QED
    BY <1>0, <1>9, <2>1, <2>2, RowAfter, ExecAfter, BootstrappedQuiet
<1>10. ASSUME NEW w \in Workers,
              recordTaskSuccess(w) \/ recordTaskFailure(w) \/ markTaskRetryableFailure(w)
       PROVE  Bootstrapped'
  <2>1. [exec[w] EXCEPT !.phase = "recorded"].phase \in Childless /\ Idle.phase \in Childless
    BY <1>0 DEF Executor, Childless
  <2> QED
    BY <1>9, <1>10, <2>1 DEF recordTaskSuccess, recordTaskFailure, markTaskRetryableFailure
<1>11. ASSUME NEW w \in Workers, finalizeRunIfReady(w) \/ Crash(w) PROVE Bootstrapped'
  <2>1. exec' = [exec EXCEPT ![w] = Idle] /\ UNCHANGED <<kind, task, children>>
    BY <1>11 DEF finalizeRunIfReady, Crash
  <2> QED
    BY <1>0, <2>1, ExecAfter, BootstrappedQuiet DEF Childless
<1>12. ASSUME NEW w \in Workers, finalizeNextRun(w) PROVE Bootstrapped'
  BY <1>12, BootstrappedQuiet DEF finalizeNextRun
<1>13. ASSUME NEW i \in Items, ClockStep(i) \/ LeaseExpiresEarly(i) PROVE Bootstrapped'
  <2>1. PICK r \in {ExpiredRow(task[i]), DueRow(task[i])} : task' = [task EXCEPT ![i] = r]
    BY <1>13 DEF ClockStep, LeaseExpires, LeaseExpiresEarly, ExpireLease, BackoffElapses
  <2>2. r.child = task[i].child /\ r.bootstrap = task[i].bootstrap
    BY <1>0, <2>1 DEF ExpiredRow, DueRow, TaskRow
  <2>3. UNCHANGED <<kind, children, exec>>
    BY <1>13 DEF ClockStep, LeaseExpires, LeaseExpiresEarly, ExpireLease, BackoffElapses
  <2> QED
    BY <2>1, <2>2, <2>3, RowAfter, BootstrappedQuiet
<1>14. CASE UNCHANGED vars
  BY <1>14, BootstrappedQuiet DEF vars
<1> QED
  BY <1>1, <1>2, <1>3, <1>5, <1>6, <1>7, <1>8, <1>10, <1>11, <1>12, <1>13, <1>14
  DEF Next, WorkerStep

(* assignTaskChildConversation lets the first child win: every executor    *)
(* that bootstraps an item uses that one, and no two items share it, with  *)
(* executors that died or lost their lease among them.                     *)
THEOREM ChildAgreementHolds == Spec => []ChildAgreement
<1>1. Bootstrapped => ChildAgreement
  BY DEF Bootstrapped
<1> QED
  BY <1>1, TypeCorrect, BootstrappedInit, BootstrappedNext, PTL DEF Spec

(* A sub-agent starts only after the bootstrap events are in the child it  *)
(* runs in, also when another executor appended them or died on the way.   *)
THEOREM BootstrapBeforeExecutionHolds == Spec => []BootstrapBeforeExecution
<1>1. TypeOK /\ Bootstrapped => BootstrapBeforeExecution
  <2>1. TypeOK => \A w \in Workers : exec[w].item \in Items
    BY DEF TypeOK, Executor
  <2> QED
    BY <2>1 DEF Bootstrapped, BootstrapKept, BootstrapBeforeExecution
<1> QED
  BY <1>1, TypeCorrect, BootstrappedInit, BootstrappedNext, PTL DEF Spec

-----------------------------------------------------------------------------
(* What is left of an item. *)

USE WorkersAssumption, NAssumption, KindsAssumption, LimitAssumption, BoundsAssumption

(* The attempts that the policy grants or that were taken, one more if the *)
(* item can be claimed, and one for each executor whose outcome may still  *)
(* be a retry.                                                             *)
Top(n) == IF n > MaxRetries THEN n ELSE MaxRetries

(* The executor of the latest claim is at work under its live lease.       *)
Held(i) ==
    task[i].status = "running" /\ task[i].lease = "live" /\ \E w \in Workers : Holds(w, i)

(* The item can be claimed, at once or when the clock has advanced.        *)
Due(i) == IF task[i].status \in Terminal \/ Held(i) THEN 0 ELSE 1

Retriers(i) ==
    {w \in Workers :
        exec[w].phase \in Working /\ exec[w].item = i /\ HasRetriesRemaining(w)}

Potential(i) == Top(task[i].attempts) + Due(i) + Cardinality(Retriers(i))

(* The tables that the lemmas are about: rows and executors of their types.*)
Rows == task \in [Items -> TaskRow] /\ exec \in [Workers -> Executor]

LEMMA RetriersType ==
    ASSUME NEW i \in Items
    PROVE  /\ IsFiniteSet(Retriers(i)) /\ Cardinality(Retriers(i)) \in Nat
           /\ IsFiniteSet(Retriers(i)') /\ Cardinality(Retriers(i)') \in Nat
<1>1. Retriers(i) \subseteq Workers /\ Retriers(i)' \subseteq Workers
  BY DEF Retriers
<1> QED
  BY <1>1, FS_Subset, FS_CardinalityType

LEMMA DueType == \A i \in Items : Due(i) \in {0, 1} /\ Due(i)' \in {0, 1}
BY DEF Due

LEMMA TopType == \A n \in Nat : Top(n) \in Nat /\ Top(n) >= n /\ Top(n) >= MaxRetries
BY DEF Top

LEMMA PotentialType ==
    ASSUME Rows, NEW i \in Items
    PROVE  /\ Potential(i) \in Nat
           /\ task[i].attempts <= Potential(i)
<1>1. task[i].attempts \in Nat
  BY DEF Rows, TaskRow
<1> DEFINE t == Top(task[i].attempts)
           d == Due(i)
           m == Cardinality(Retriers(i))
<1>2. t \in Nat /\ t >= task[i].attempts /\ d \in {0, 1} /\ m \in Nat
  BY <1>1, TopType, DueType, RetriersType
<1>3. Potential(i) = t + d + m
  BY DEF Potential
<1> HIDE DEF t, d, m
<1> QED
  BY <1>1, <1>2, <1>3

(* Steps that leave the attempts of an item alone: nothing is gained       *)
(* unless the item becomes due, and one at most if it does.                *)
LEMMA PotentialKept ==
    ASSUME Rows, NEW i \in Items, task'[i].attempts = task[i].attempts,
           Retriers(i)' \subseteq Retriers(i)
    PROVE  /\ Potential(i)' \in Nat
           /\ Potential(i)' <= Potential(i) + 1
           /\ Due(i)' <= Due(i) => Potential(i)' <= Potential(i)
           /\ Retriers(i)' # Retriers(i) => Potential(i)' <= Potential(i)
<1>1. task[i].attempts \in Nat
  BY DEF Rows, TaskRow
<1> DEFINE t == Top(task[i].attempts)
           d == Due(i)
           e == Due(i)'
           m == Cardinality(Retriers(i))
           n == Cardinality(Retriers(i)')
<1>2. t \in Nat /\ d \in {0, 1} /\ e \in {0, 1} /\ m \in Nat /\ n \in Nat
  BY <1>1, TopType, DueType, RetriersType
<1>3. n <= m
  BY RetriersType, FS_Subset
<1>4. Retriers(i)' # Retriers(i) => n # m
  BY RetriersType, FS_Subset
<1>5. Potential(i) = t + d + m /\ Potential(i)' = t + e + n
  BY DEF Potential
<1>6. Due(i)' <= Due(i) => e <= d
  OBVIOUS
<1> HIDE DEF t, d, e, m, n
<1>7. t + e + n \in Nat /\ t + e + n <= t + d + m + 1
  BY <1>2, <1>3
<1>8. e <= d => t + e + n <= t + d + m
  BY <1>2, <1>3
<1>9. n # m => t + e + n <= t + d + m
  BY <1>2, <1>3
<1> QED
  BY <1>4, <1>5, <1>6, <1>7, <1>8, <1>9

(* A claim spends what made the item due, and the executor gains a retry   *)
(* only if that was within the policy.                                     *)
LEMMA PotentialClaimed ==
    ASSUME Rows, NEW i \in Items, NEW w \in Workers, Due(i) = 1, Due(i)' = 0,
           task'[i].attempts = task[i].attempts + 1,
           Retriers(i)' \subseteq Retriers(i) \cup {w},
           task[i].attempts >= MaxRetries => Retriers(i)' \subseteq Retriers(i)
    PROVE  Potential(i)' \in Nat /\ Potential(i)' <= Potential(i)
<1>1. task[i].attempts \in Nat
  BY DEF Rows, TaskRow
<1> DEFINE a == task[i].attempts
           t == Top(a)
           u == Top(a + 1)
           m == Cardinality(Retriers(i))
           n == Cardinality(Retriers(i)')
<1>2. t \in Nat /\ u \in Nat /\ m \in Nat /\ n \in Nat
  BY <1>1, TopType, RetriersType
<1>3. Potential(i) = t + 1 + m /\ Potential(i)' = u + 0 + n
  BY DEF Potential
<1>4. CASE a >= MaxRetries
  <2>1. n <= m
    BY <1>4, RetriersType, FS_Subset
  <2>2. u = t + 1
    BY <1>1, <1>4 DEF Top
  <2> HIDE DEF t, u, m, n
  <2> QED
    BY <1>2, <1>3, <2>1, <2>2
<1>5. CASE ~(a >= MaxRetries)
  <2>1. n <= m + 1
    BY RetriersType, OneMore
  <2>2. u = t
    BY <1>1, <1>5 DEF Top
  <2> HIDE DEF t, u, m, n
  <2> QED
    BY <1>2, <1>3, <2>1, <2>2
<1> QED
  BY <1>4, <1>5

-----------------------------------------------------------------------------
(* What the steps of executors do to the potential of every item.          *)

LEMMA HoldersKept ==
    ASSUME NEW i \in Items, task'[i].attempts = task[i].attempts,
           \A w \in Workers : exec[w].phase \in Working /\ exec[w].item = i =>
               exec'[w].phase \in Working /\ exec'[w].item = i /\ exec'[w].attempt = exec[w].attempt,
           task'[i].status = task[i].status,
           task'[i].lease = task[i].lease \/ ~ \E w \in Workers : Holds(w, i)
    PROVE  Due(i)' <= Due(i)
<1>1. Held(i) => Held(i)'
  BY DEF Held, Holds
<1> QED
  BY <1>1 DEF Due

(* Everybody goes on with the claim he works under, and no lease that is   *)
(* held runs out.                                                          *)
LEMMA PotentialQuiet ==
    ASSUME Rows, NoNewClaim,
           \A w \in Workers : exec[w].phase \in Working => exec'[w].phase \in Working,
           \A i \in Items : /\ task'[i].status = task[i].status
                            /\ task'[i].attempts = task[i].attempts
                            /\ task'[i].lease = task[i].lease \/ ~ \E w \in Workers : Holds(w, i)
    PROVE  \A i \in Items : Potential(i)' \in Nat /\ Potential(i)' <= Potential(i)
<1> SUFFICES ASSUME NEW i \in Items PROVE Potential(i)' \in Nat /\ Potential(i)' <= Potential(i)
  OBVIOUS
<1>1. Retriers(i)' \subseteq Retriers(i)
  BY DEF Retriers, NoNewClaim, HasRetriesRemaining
<1>2. Due(i)' <= Due(i)
  BY HoldersKept DEF NoNewClaim
<1> QED
  BY <1>1, <1>2, PotentialKept

(* Whatever else becomes of executors and rows, as long as nothing is      *)
(* claimed, costs an item one.                                             *)
LEMMA PotentialPaid ==
    ASSUME Rows, NoNewClaim, \A i \in Items : task'[i].attempts = task[i].attempts
    PROVE  \A i \in Items : Potential(i)' \in Nat /\ Potential(i)' <= Potential(i) + 1
<1> SUFFICES ASSUME NEW i \in Items
             PROVE  Potential(i)' \in Nat /\ Potential(i)' <= Potential(i) + 1
  OBVIOUS
<1>1. Retriers(i)' \subseteq Retriers(i)
  BY DEF Retriers, NoNewClaim, HasRetriesRemaining
<1> QED
  BY <1>1, PotentialKept

(* An outcome: a retry spends what the executor had left, a terminal one   *)
(* leaves nothing due.                                                     *)
LEMMA PotentialRecorded ==
    ASSUME Rows, NEW w \in Workers, exec[w].phase \in Working, exec'[w].phase \notin Working,
           \A v \in Workers : v # w => exec'[v] = exec[v],
           task'[exec[w].item].attempts = task[exec[w].item].attempts,
           task'[exec[w].item].status \in Terminal \/ HasRetriesRemaining(w),
           \A j \in Items : j # exec[w].item => task'[j] = task[j]
    PROVE  \A i \in Items : Potential(i)' \in Nat /\ Potential(i)' <= Potential(i)
<1> SUFFICES ASSUME NEW i \in Items PROVE Potential(i)' \in Nat /\ Potential(i)' <= Potential(i)
  OBVIOUS
<1>1. Retriers(i)' \subseteq Retriers(i)
  BY DEF Retriers, HasRetriesRemaining
<1>2. task'[i].attempts = task[i].attempts
  OBVIOUS
<1>3. CASE i # exec[w].item
  <2>1. Due(i)' <= Due(i)
    BY <1>2, <1>3, HoldersKept
  <2> QED
    BY <1>1, <1>2, <2>1, PotentialKept
<1>4. CASE i = exec[w].item /\ task'[i].status \in Terminal
  <2>1. Due(i)' <= Due(i)
    BY <1>4, DueType DEF Due
  <2> QED
    BY <1>1, <1>2, <2>1, PotentialKept
<1>5. CASE i = exec[w].item /\ HasRetriesRemaining(w)
  <2>1. w \in Retriers(i) /\ w \notin Retriers(i)'
    BY <1>5 DEF Retriers
  <2> QED
    BY <1>1, <1>2, <2>1, PotentialKept
<1> QED
  BY <1>3, <1>4, <1>5

(* A claim of a row that is due. *)
LEMMA PotentialOfClaim ==
    ASSUME Rows, NEW w \in Workers, NEW i \in Items, exec[w].phase \notin Working,
           task[i].status \notin Terminal, ~Held(i),
           exec'[w].phase \in Working, exec'[w].item = i,
           exec'[w].attempt = task[i].attempts + 1,
           \A v \in Workers : v # w => exec'[v] = exec[v],
           task'[i] = ClaimedRow(task[i]),
           \A j \in Items : j # i => task'[j] = task[j]
    PROVE  \A j \in Items : Potential(j)' \in Nat /\ Potential(j)' <= Potential(j)
<1> SUFFICES ASSUME NEW j \in Items PROVE Potential(j)' \in Nat /\ Potential(j)' <= Potential(j)
  OBVIOUS
<1>1. CASE j # i
  <2>1. Retriers(j)' \subseteq Retriers(j)
    BY <1>1 DEF Retriers, HasRetriesRemaining
  <2>2. Due(j)' <= Due(j)
    BY <1>1, HoldersKept
  <2> QED
    BY <1>1, <2>1, <2>2, PotentialKept
<1>2. CASE j = i
  <2>1. /\ task[i].attempts \in Nat
        /\ task'[i].attempts = task[i].attempts + 1
        /\ task'[i].status = "running" /\ task'[i].lease = "live"
    BY ClaimedRowFacts DEF Rows, TaskRow
  <2>2. Due(i) = 1 /\ Due(i)' = 0
    <3>1. Holds(w, i)'
      BY <2>1 DEF Holds
    <3> QED
      BY <2>1, <3>1 DEF Due, Held
  <2>3. Retriers(i)' \subseteq Retriers(i) \cup {w}
    BY DEF Retriers, HasRetriesRemaining
  <2>4. ASSUME task[i].attempts >= MaxRetries PROVE Retriers(i)' \subseteq Retriers(i)
    <3>1. ~(task[i].attempts + 1 < MaxRetries + 1)
      BY <2>1, <2>4
    <3>2. w \notin Retriers(i)'
      BY <3>1 DEF Retriers, HasRetriesRemaining
    <3> QED
      BY <2>3, <3>2
  <2> QED
    BY <1>2, <2>1, <2>2, <2>3, <2>4, PotentialClaimed
<1> QED
  BY <1>1, <1>2

-----------------------------------------------------------------------------
(* An executor's step from its claim to the execution: it goes on under    *)
(* the same claim, and no column that a claim depends on changes.          *)
BootstrapAction(w) ==
    \/ ReadChild(w) \/ assignTaskChildConversation(w) \/ getTaskBootstrapState(w)
    \/ markBootstrapStarted(w) \/ AppendBootstrapEvents(w) \/ markBootstrapCompleted(w)

BootstrapMove(w) ==
    /\ exec[w].phase \in Bootstrapping
    /\ exec' \in [Workers -> Executor]
    /\ exec'[w].phase \in Working
    /\ exec'[w].item = exec[w].item /\ exec'[w].attempt = exec[w].attempt
    /\ \A v \in Workers : v # w => exec'[v] = exec[v]
    /\ task' \in [Items -> TaskRow]
    /\ \A i \in Items : /\ task'[i].status = task[i].status
                         /\ task'[i].attempts = task[i].attempts
                         /\ task'[i].answer = task[i].answer
                         /\ task'[i].lease = task[i].lease
    /\ UNCHANGED <<kind, run, handles, crashes, stalls>>

LEMMA BootstrapMoves ==
    ASSUME Rows, Len(children) \in Nat, NEW w \in Workers, BootstrapAction(w)
    PROVE  BootstrapMove(w)
<1>0. /\ exec[w] \in Executor /\ exec[w].item \in Items
      /\ task[exec[w].item] \in TaskRow
  BY DEF Rows, Executor
<1> DEFINE i == exec[w].item
<1>1. ASSUME NEW x \in Executor, x.phase \in Working, x.item = i, x.attempt = exec[w].attempt,
             exec' = [exec EXCEPT ![w] = x]
      PROVE  /\ exec' \in [Workers -> Executor]
             /\ exec'[w].phase \in Working
             /\ exec'[w].item = i /\ exec'[w].attempt = exec[w].attempt
             /\ \A v \in Workers : v # w => exec'[v] = exec[v]
  BY <1>1 DEF Rows
<1>2. ASSUME NEW p \in Working, Goto(w, p)
      PROVE  /\ exec' \in [Workers -> Executor]
             /\ exec'[w].phase \in Working
             /\ exec'[w].item = i /\ exec'[w].attempt = exec[w].attempt
             /\ \A v \in Workers : v # w => exec'[v] = exec[v]
  <2> DEFINE x == [exec[w] EXCEPT !.phase = p]
  <2>1. x \in Executor /\ x.phase = p /\ x.item = i /\ x.attempt = exec[w].attempt
    BY <1>0 DEF Executor, Phase
  <2>2. exec' = [exec EXCEPT ![w] = x]
    BY <1>2 DEF Goto
  <2> HIDE DEF x
  <2> QED
    BY <1>1, <2>1, <2>2
<1>3. ASSUME NEW p \in Working, NEW c \in Nat,
             exec' = [exec EXCEPT ![w] = [exec[w] EXCEPT !.phase = p, !.child = c]]
      PROVE  /\ exec' \in [Workers -> Executor]
             /\ exec'[w].phase \in Working
             /\ exec'[w].item = i /\ exec'[w].attempt = exec[w].attempt
             /\ \A v \in Workers : v # w => exec'[v] = exec[v]
  <2> DEFINE x == [exec[w] EXCEPT !.phase = p, !.child = c]
  <2>1. x \in Executor /\ x.phase = p /\ x.item = i /\ x.attempt = exec[w].attempt
    BY <1>0 DEF Executor, Phase
  <2>2. exec' = [exec EXCEPT ![w] = x]
    BY <1>3
  <2> HIDE DEF x
  <2> QED
    BY <1>1, <2>1, <2>2
<1>4. ASSUME NEW r \in TaskRow, task' = [task EXCEPT ![i] = r],
             r.status = task[i].status, r.attempts = task[i].attempts,
             r.answer = task[i].answer, r.lease = task[i].lease
      PROVE  /\ task' \in [Items -> TaskRow]
             /\ \A j \in Items : /\ task'[j].status = task[j].status
                                  /\ task'[j].attempts = task[j].attempts
                                  /\ task'[j].answer = task[j].answer
                                  /\ task'[j].lease = task[j].lease
  BY <1>0, <1>4 DEF Rows
<1>5. CASE ReadChild(w)
  <2>1. PICK p \in {"childless", "hasChild"} :
          exec' = [exec EXCEPT ![w] = [exec[w] EXCEPT !.phase = p, !.child = task[i].child]]
    BY <1>5 DEF ReadChild
  <2>2. task[i].child \in Nat /\ p \in Working
    BY <1>0 DEF TaskRow, Working, Bootstrapping
  <2> QED
    BY <1>3, <1>5, <2>1, <2>2 DEF ReadChild, BootstrapMove, Rows, Bootstrapping
<1>6. CASE assignTaskChildConversation(w)
  <2> DEFINE c == AssignedChild(task[i], Len(children) + 1)
             r == [task[i] EXCEPT !.child = c]
  <2>1. c \in Nat
    BY <1>0 DEF AssignedChild, TaskRow
  <2>2. /\ r \in TaskRow /\ r.status = task[i].status /\ r.attempts = task[i].attempts
        /\ r.answer = task[i].answer /\ r.lease = task[i].lease
    BY <1>0, <2>1, ChildRowFacts
  <2>3. /\ task' = [task EXCEPT ![i] = r]
        /\ exec' = [exec EXCEPT ![w] = [exec[w] EXCEPT !.phase = "hasChild", !.child = c]]
        /\ "hasChild" \in Working /\ exec[w].phase \in Bootstrapping
        /\ UNCHANGED <<kind, run, handles, crashes, stalls>>
    BY <1>6 DEF assignTaskChildConversation, Working, Bootstrapping
  <2> HIDE DEF c, r, i
  <2> QED
    BY <1>3, <1>4, <2>1, <2>2, <2>3 DEF BootstrapMove, i
<1>7. CASE getTaskBootstrapState(w)
  <2>1. PICK p \in Working : Goto(w, p)
    BY <1>0, <1>7 DEF getTaskBootstrapState, Working, Bootstrapping, TaskRow, BootstrapState
  <2> QED
    BY <1>2, <1>7, <2>1 DEF getTaskBootstrapState, BootstrapMove, Rows, Bootstrapping
<1>8. CASE markBootstrapStarted(w) \/ markBootstrapCompleted(w)
  <2>1. PICK p \in {"appending", "executing"}, r \in {StartedRow(task[i]), CompletedRow(task[i])} :
          Goto(w, p) /\ task' = [task EXCEPT ![i] = r]
    BY <1>8 DEF markBootstrapStarted, markBootstrapCompleted
  <2>2. p \in Working
    BY DEF Working, Bootstrapping
  <2>3. /\ r \in TaskRow /\ r.status = task[i].status /\ r.attempts = task[i].attempts
        /\ r.answer = task[i].answer
    BY <1>0, QuietRowFacts
  <2>4. r.lease = task[i].lease
    BY <1>0 DEF StartedRow, CompletedRow, TaskRow
  <2>5. exec[w].phase \in Bootstrapping /\ UNCHANGED <<kind, run, handles, crashes, stalls>>
    BY <1>8 DEF markBootstrapStarted, markBootstrapCompleted, Bootstrapping
  <2> QED
    BY <1>2, <1>4, <2>1, <2>2, <2>3, <2>4, <2>5 DEF BootstrapMove
<1>9. CASE AppendBootstrapEvents(w)
  <2>1. "completing" \in Working
    BY DEF Working, Bootstrapping
  <2> QED
    BY <1>2, <1>9, <2>1 DEF AppendBootstrapEvents, BootstrapMove, Rows, Bootstrapping
<1> QED
  BY <1>5, <1>6, <1>7, <1>8, <1>9 DEF BootstrapAction

LEMMA PotentialOfBootstrap ==
    ASSUME Rows, NEW w \in Workers, BootstrapMove(w)
    PROVE  \A i \in Items : Potential(i)' \in Nat /\ Potential(i)' <= Potential(i)
<1>1. exec[w].phase \in Working
  BY DEF BootstrapMove, Working
<1>2. NoNewClaim /\ \A v \in Workers : exec[v].phase \in Working => exec'[v].phase \in Working
  BY <1>1 DEF NoNewClaim, BootstrapMove
<1> QED
  BY <1>2, PotentialQuiet DEF BootstrapMove

-----------------------------------------------------------------------------
(* The budget of OperatorExecution. *)

LEMMA PotentialOfClock ==
    ASSUME TypeOK, NEW i \in Items, ClockStep(i)
    PROVE  /\ \A j \in Items : Potential(j)' \in Nat /\ Potential(j)' <= Potential(j)
           /\ UNCHANGED <<crashes, stalls>>
<1>1. UNCHANGED <<exec, crashes, stalls>>
  BY DEF ClockStep, LeaseExpires, ExpireLease, BackoffElapses
<1>2. ~LeaseExpiresEarly(i)
  BY <1>1 DEF LeaseExpiresEarly, TypeOK
<1>3. \A j \in Items : task'[j].lease = task[j].lease \/ ~ \E w \in Workers : Holds(w, j)
  <2>1. task'[i].lease # task[i].lease => (\E w \in Workers : Holds(w, i)) = LeaseExpiresEarly(i)
    BY ClockRows
  <2>2. \A j \in Items : j # i => task'[j] = task[j]
    BY ClockRows, ZenonT(60)
  <2> QED
    BY <1>2, <2>1, <2>2
<1>4. NoNewClaim /\ Rows
  BY <1>1 DEF NoNewClaim, TypeOK, Rows
<1> QED
  BY <1>1, <1>3, <1>4, ClockRows, PotentialQuiet

(* An item gains no more than the crashes and stalls grow by.              *)
Paid ==
    \A i \in Items : /\ Potential(i)' \in Nat
                     /\ Potential(i)' + crashes + stalls <= Potential(i) + crashes' + stalls'

LEMMA PotentialNext == TypeOK /\ TypeOK' /\ [Next]_vars => Paid
<1> SUFFICES ASSUME TypeOK, TypeOK', [Next]_vars PROVE Paid
  OBVIOUS
<1>0. /\ Rows /\ Len(children) \in Nat
      /\ \A w \in Workers : exec[w] \in Executor /\ exec[w].item \in Items
      /\ \A i \in Items : task[i] \in TaskRow /\ Potential(i) \in Nat
      /\ crashes \in Nat /\ stalls \in Nat
  BY PotentialType DEF TypeOK, Rows, Executor
<1>1. ASSUME \A i \in Items : Potential(i)' \in Nat /\ Potential(i)' <= Potential(i),
             UNCHANGED <<crashes, stalls>>
      PROVE  Paid
  BY <1>0, <1>1 DEF Paid
<1>2. ASSUME \A i \in Items : Potential(i)' \in Nat /\ Potential(i)' <= Potential(i) + 1,
             \/ crashes' = crashes + 1 /\ stalls' = stalls
             \/ crashes' = crashes /\ stalls' = stalls + 1
      PROVE  Paid
  BY <1>0, <1>2 DEF Paid
<1>3. ASSUME NEW w \in Workers, claimTaskLease(w) PROVE Paid
  <2>1. PICK i \in Items :
          /\ Claimable(task, i)
          /\ task' = [task EXCEPT ![i] = ClaimedRow(task[i])]
          /\ exec' = [exec EXCEPT ![w] =
                        [phase |-> IF kind = "llmMap" THEN "executing" ELSE "claimed",
                         item |-> i, attempt |-> task[i].attempts + 1, child |-> 0]]
    BY <1>3 DEF claimTaskLease
  <2>2. task[i].status \notin Terminal /\ ~Held(i)
    BY <2>1 DEF Claimable, Reclaimable, Terminal, Held
  <2>3. task'[i] = ClaimedRow(task[i]) /\ \A j \in Items : j # i => task'[j] = task[j]
    BY <1>0, <2>1 DEF Rows
  <2>4. /\ exec'[w].phase \in Working /\ exec'[w].item = i
        /\ exec'[w].attempt = task[i].attempts + 1
        /\ \A v \in Workers : v # w => exec'[v] = exec[v]
    BY <1>0, <2>1 DEF Rows, Working, Bootstrapping
  <2>5. exec[w].phase \notin Working /\ UNCHANGED <<crashes, stalls>>
    BY <1>3 DEF claimTaskLease, Working, Bootstrapping
  <2> QED
    BY <1>0, <1>1, <2>2, <2>3, <2>4, <2>5, PotentialOfClaim
<1>4. ASSUME NEW w \in Workers, BootstrapAction(w) PROVE Paid
  <2>1. BootstrapMove(w)
    BY <1>0, <1>4, BootstrapMoves
  <2> QED
    BY <1>0, <1>1, <2>1, PotentialOfBootstrap DEF BootstrapMove
<1>5. ASSUME NEW w \in Workers,
             recordTaskSuccess(w) \/ recordTaskFailure(w) \/ markTaskRetryableFailure(w)
      PROVE  Paid
  <2> DEFINE x == [exec[w] EXCEPT !.phase = "recorded"]
             i == exec[w].item
  <2>1. x \in Executor /\ x.phase \notin Working /\ exec[w].attempt \in Nat
        /\ Idle \in Executor /\ Idle.phase \notin Working
    BY <1>0, IdleType DEF Executor, Phase, Working, Bootstrapping, Idle
  <2>2. PICK s \in TaskStatus, a \in Nat, due \in BOOLEAN, y \in {x, Idle} :
          Record(w, s, a, due, y) /\ (s \in Terminal \/ HasRetriesRemaining(w))
    <3>1. {"succeeded", "failed", "retryable_failure"} \subseteq TaskStatus
          /\ "succeeded" \in Terminal /\ "failed" \in Terminal /\ 0 \in Nat
      BY DEF TaskStatus, Terminal
    <3> HIDE DEF x
    <3> QED
      BY <1>5, <2>1, <3>1 DEF recordTaskSuccess, recordTaskFailure, markTaskRetryableFailure, x
  <2>3. /\ task' = [task EXCEPT ![i] = RecordedRow(task[i], s, a, due)]
        /\ exec' = [exec EXCEPT ![w] = y]
        /\ exec[w].phase \in Working /\ UNCHANGED <<crashes, stalls>>
    BY <2>2 DEF Record, Working
  <2>4. /\ RecordedRow(task[i], s, a, due).status = s
        /\ RecordedRow(task[i], s, a, due).attempts = task[i].attempts
    BY <1>0, RecordedRowFacts, SMTT(30)
  <2> HIDE DEF x
  <2>5. exec'[w].phase \notin Working /\ \A v \in Workers : v # w => exec'[v] = exec[v]
    BY <1>0, <2>1, <2>3 DEF Rows
  <2>6. /\ task'[i].attempts = task[i].attempts /\ task'[i].status = s
        /\ \A j \in Items : j # i => task'[j] = task[j]
    BY <1>0, <2>3, <2>4 DEF Rows
  <2> QED
    BY <1>0, <1>1, <2>2, <2>3, <2>5, <2>6, PotentialRecorded
<1>6. ASSUME NEW w \in Workers, finalizeRunIfReady(w) \/ finalizeNextRun(w) PROVE Paid
  <2>1. UNCHANGED <<task, crashes, stalls>>
    BY <1>6 DEF finalizeRunIfReady, finalizeNextRun
  <2>2. NoNewClaim /\ \A v \in Workers : exec[v].phase \in Working => exec'[v].phase \in Working
    <3>1. CASE finalizeRunIfReady(w)
      BY <1>0, <3>1 DEF finalizeRunIfReady, NoNewClaim, Idle, Working, Bootstrapping, Rows
    <3>2. CASE finalizeNextRun(w)
      BY <3>2 DEF finalizeNextRun, NoNewClaim
    <3> QED
      BY <1>6, <3>1, <3>2
  <2> QED
    BY <1>0, <1>1, <2>1, <2>2, PotentialQuiet
<1>7. ASSUME NEW w \in Workers, Crash(w) PROVE Paid
  <2>1. NoNewClaim
    BY <1>0, <1>7 DEF Crash, NoNewClaim, Idle, Working, Bootstrapping, Rows
  <2> QED
    BY <1>0, <1>2, <1>7, <2>1, PotentialPaid DEF Crash
<1>8. ASSUME NEW i \in Items, LeaseExpiresEarly(i) PROVE Paid
  <2>1. NoNewClaim /\ UNCHANGED crashes /\ stalls' = stalls + 1
    BY <1>8 DEF LeaseExpiresEarly, ExpireLease, NoNewClaim
  <2> QED
    BY <1>0, <1>2, <1>8, <2>1, ClockRows, PotentialPaid
<1>9. ASSUME NEW i \in Items, ClockStep(i) PROVE Paid
  BY <1>1, <1>9, PotentialOfClock
<1>10. CASE UNCHANGED vars
  BY <1>0, <1>1, <1>10, PotentialQuiet DEF vars, NoNewClaim
<1>11. ASSUME NEW w \in Workers, WorkerStep(w) PROVE Paid
  BY <1>3, <1>4, <1>5, <1>6, <1>11 DEF WorkerStep, BootstrapAction
<1>12. CASE Next
  BY <1>7, <1>8, <1>9, <1>11, <1>12 DEF Next
<1> QED
  BY <1>10, <1>12

Budgeted == \A i \in Items : Potential(i) <= MaxRetries + 1 + crashes + stalls

LEMMA PotentialInit ==
    ASSUME Init PROVE \A i \in Items : Potential(i) = MaxRetries + 1
<1> SUFFICES ASSUME NEW i \in Items PROVE Potential(i) = MaxRetries + 1
  OBVIOUS
<1>1. task[i] = NewTask /\ \A w \in Workers : exec[w] = Idle
  BY DEF Init, createRunWithTasks
<1>2. Retriers(i) = {}
  BY <1>1 DEF Retriers, Idle, Working, Bootstrapping
<1>3. Top(task[i].attempts) = MaxRetries /\ Due(i) = 1
  BY <1>1 DEF NewTask, Top, Due, Held, Terminal
<1> QED
  BY <1>2, <1>3, FS_EmptySet DEF Potential

LEMMA PaidBudget == TypeOK /\ TypeOK' /\ Budgeted /\ Paid => Budgeted'
<1> SUFFICES ASSUME TypeOK, TypeOK', Budgeted, Paid, NEW i \in Items
             PROVE  Potential(i)' <= MaxRetries + 1 + crashes' + stalls'
  BY DEF Budgeted
<1>1. /\ Potential(i) \in Nat /\ Potential(i)' \in Nat
      /\ Potential(i) <= MaxRetries + 1 + crashes + stalls
      /\ Potential(i)' + crashes + stalls <= Potential(i) + crashes' + stalls'
      /\ crashes \in Nat /\ stalls \in Nat /\ crashes' \in Nat /\ stalls' \in Nat
  BY PotentialType DEF TypeOK, Rows, Budgeted, Paid
<1>2. \A m, n, a, b, c, d \in Nat :
        m <= MaxRetries + 1 + a + b /\ n + a + b <= m + c + d => n <= MaxRetries + 1 + c + d
  OBVIOUS
<1> QED
  BY <1>1, <1>2

LEMMA BudgetWithin == TypeOK /\ Budgeted => AttemptBudget
<1> SUFFICES ASSUME TypeOK, Budgeted, NEW i \in Items
             PROVE  task[i].attempts <= MaxRetries + 1 + crashes + stalls
  BY DEF AttemptBudget
<1>1. /\ Potential(i) \in Nat /\ task[i].attempts <= Potential(i)
      /\ Potential(i) <= MaxRetries + 1 + crashes + stalls
  BY PotentialType DEF TypeOK, Rows, Budgeted
<1>2. task[i].attempts \in Nat /\ crashes \in Nat /\ stalls \in Nat
  BY DEF TypeOK, TaskRow
<1> QED
  BY <1>1, <1>2

(* The choice between retry and failure looks at the executor's own        *)
(* attempt number, which may be stale: attempts beyond maxRetries + 1 are  *)
(* nevertheless at most as many as executors died and leases ran out.      *)
THEOREM AttemptBudgetHolds == Spec => []AttemptBudget
<1>1. Init => Budgeted
  BY PotentialInit DEF Budgeted, Init
<1>2. TypeOK /\ TypeOK' /\ Budgeted /\ [Next]_vars => Budgeted'
  BY PotentialNext, PaidBudget
<1> QED
  BY <1>1, <1>2, BudgetWithin, TypeCorrect, PTL DEF Spec

-----------------------------------------------------------------------------
(* Types, and what an open record holds.                                   *)

ClaimTx == [op : {"claim"}, candidates : SUBSET Items, stale : BOOLEAN]
RecordTx == [op : {"record"}, next : Executor, row : TaskRow]
RefreshTx ==
    [op : {"refresh"}, next : Executor, row : TaskRow, counts : [TaskStatus -> Nat],
     status : RunStatus]
FinalizeTx == [op : {"finalize", "stored", "advancing"}, entries : Artifact]

Tx == {NoTx} \cup ClaimTx \cup RecordTx \cup RefreshTx \cup FinalizeTx

Recording == {"record", "refresh"}
Finalizing == {"finalize", "stored", "advancing"}

(* An executor with an open record is still in the phase it records from,  *)
(* and the record ends its claim.                                          *)
OpenRecord(w) ==
    /\ exec[w].phase = "executing"
    /\ tx[w].row.status # "running"
    /\ tx[w].row.lease = "none"
    /\ tx[w].row.child <= Len(children)
    /\ tx[w].next.phase \notin Working
    /\ tx[w].next.child <= Len(children)

PgTypeOK ==
    /\ TypeOK
    /\ tx \in [Workers -> Tx]
    /\ \A w \in Workers : tx[w].op \in Recording => OpenRecord(w)

LEMMA TxKinds ==
    ASSUME NEW t \in Tx
    PROVE  /\ t.op \in {"none", "claim"} \cup Recording \cup Finalizing
           /\ t.op = "claim" => t \in ClaimTx
           /\ t.op = "record" => t \in RecordTx
           /\ t.op = "refresh" => t \in RefreshTx
           /\ t.op \in Recording => t.row \in TaskRow /\ t.next \in Executor
           /\ t.op \in Finalizing => t \in FinalizeTx
BY DEF Tx, NoTx, ClaimTx, RecordTx, RefreshTx, FinalizeTx, Recording, Finalizing

LEMMA NoTxType == NoTx \in Tx /\ NoTx.op = "none" /\ NoTx.op \notin Recording \cup Finalizing
BY DEF Tx, NoTx, Recording, Finalizing

LEMMA TxUpdate ==
    ASSUME tx \in [Workers -> Tx], NEW w \in Workers, NEW t \in Tx, Begin(w, t)
    PROVE  /\ tx' \in [Workers -> Tx]
           /\ tx'[w] = t
           /\ \A v \in Workers : v # w => tx'[v] = tx[v]
BY DEF Begin

(* Executors that keep their open record keep their phase.                 *)
LEMMA PgKept ==
    ASSUME PgTypeOK, TypeOK', tx' \in [Workers -> Tx], Len(children') >= Len(children),
           \A v \in Workers : tx'[v].op \in Recording =>
               OpenRecord(v)' \/ (tx'[v] = tx[v] /\ exec'[v] = exec[v])
    PROVE  PgTypeOK'
<1>1. Len(children) \in Nat /\ Len(children') \in Nat
  BY DEF PgTypeOK, TypeOK
<1>2. ASSUME NEW v \in Workers, tx'[v].op \in Recording, tx'[v] = tx[v], exec'[v] = exec[v]
      PROVE  OpenRecord(v)'
  <2>1. OpenRecord(v)
    BY <1>2 DEF PgTypeOK
  <2>2. tx[v].row \in TaskRow /\ tx[v].next \in Executor
    BY <1>2, TxKinds DEF PgTypeOK
  <2>3. tx[v].row.child \in Nat /\ tx[v].next.child \in Nat
    BY <2>2 DEF TaskRow, Executor
  <2> QED
    BY <1>1, <1>2, <2>1, <2>3 DEF OpenRecord
<1> QED
  BY <1>2 DEF PgTypeOK

LEMMA PgRefreshType ==
    ASSUME NEW r \in RunRow, NEW t
    PROVE  /\ PgRefreshed(r, t) \in RunRow
           /\ PgRefreshed(r, t).stage = r.stage
           /\ PgRefreshed(r, t).artifact = r.artifact
           /\ PgRefreshed(r, t).counts = Counts(t)
           /\ Counts(t) \in [TaskStatus -> Nat]
           /\ PgDerivedStatus(t) \in RunStatus
<1>1. PgDerivedStatus(t) \in RunStatus
  BY DEF PgDerivedStatus, RunStatus
<1>2. Counts(t) \in [TaskStatus -> Nat]
  BY ItemSets DEF Counts, WithStatus
<1> QED
  BY <1>1, <1>2 DEF PgRefreshed, RunRow

LEMMA PgInitType == PgInit => PgTypeOK
<1> SUFFICES ASSUME PgInit PROVE PgTypeOK
  OBVIOUS
<1>1. TypeOK
  BY InitType DEF PgInit
<1>2. tx \in [Workers -> Tx] /\ \A w \in Workers : tx[w] = NoTx
  BY NoTxType DEF PgInit
<1> QED
  BY <1>1, <1>2, NoTxType DEF PgTypeOK

-----------------------------------------------------------------------------
(* The steps, by what they do to the rows.                                 *)

(* One that is a step of OperatorExecution too, of executor w or the clock:*)
(* no status changes, and no lease but by running out.                     *)
SharedStep ==
    /\ [Next]_vars
    /\ \A i \in Items : /\ task'[i].status = task[i].status
                        /\ task'[i].lease \in {task[i].lease, "expired"}
    /\ UNCHANGED <<run, handles>>
    /\ Len(children') >= Len(children)
    /\ \/ \E w \in Workers :
            /\ \A v \in Workers : v # w => exec'[v] = exec[v]
            /\ \/ exec[w].phase \in Bootstrapping /\ UNCHANGED tx
               \/ Crash(w) /\ End(w)
       \/ UNCHANGED <<exec, tx>>

(* One that changes no row, and at most the phase of an executor that is   *)
(* done with its claim: executor w goes on to transaction t.               *)
QuietStep ==
    \E w \in Workers : \E t \in Tx :
        /\ UNCHANGED <<kind, task, run, handles, children, crashes, stalls>>
        /\ \/ exec' = exec
           \/ \E p \in {"idle", "recorded"} : Goto(w, p) /\ t = NoTx
        /\ Begin(w, t)
        /\ t.op \in Recording => OpenRecord(w)'
        /\ t.op = "claim" => Cardinality(LiveLeases(task)) < ConcurrencyLimit
        /\ t.op \in Finalizing =>
            \/ AllTerminal(task) /\ t.entries = PgEntries(task)
            \/ tx[w].op \in Finalizing /\ t.entries = tx[w].entries

LEMMA BootstrapShared ==
    ASSUME PgTypeOK, NEW w \in Workers, PgBootstrap(w)
    PROVE  SharedStep
<1>1. [Next]_vars /\ UNCHANGED <<run, handles, tx>>
  BY DEF PgBootstrap, Unlocked, Next, WorkerStep, ReadChild, assignTaskChildConversation,
         getTaskBootstrapState, markBootstrapStarted, AppendBootstrapEvents, markBootstrapCompleted
<1>2. exec[w].phase \in Bootstrapping
  BY DEF PgBootstrap, Bootstrapping, ReadChild, assignTaskChildConversation,
         getTaskBootstrapState, markBootstrapStarted, AppendBootstrapEvents, markBootstrapCompleted
<1>3. \A v \in Workers : v # w => exec'[v] = exec[v]
  <2>1. \E x : exec' = [exec EXCEPT ![w] = x]
    BY DEF PgBootstrap, Goto, ReadChild, assignTaskChildConversation,
           getTaskBootstrapState, markBootstrapStarted, AppendBootstrapEvents, markBootstrapCompleted
  <2> QED
    BY <2>1 DEF PgTypeOK, TypeOK
<1>4. Len(children') >= Len(children)
  <2>0. children \in Seq(Nat) /\ Len(children) \in Nat
    BY DEF PgTypeOK, TypeOK
  <2>1. \/ children' = children
        \/ children' = Append(children, 0)
        \/ children' = [children EXCEPT ![exec[w].child] = @ + 1]
    BY DEF PgBootstrap, ReadChild, assignTaskChildConversation,
           getTaskBootstrapState, markBootstrapStarted, AppendBootstrapEvents, markBootstrapCompleted
  <2>2. Len([children EXCEPT ![exec[w].child] = @ + 1]) = Len(children)
    BY <2>0
  <2>3. Len(Append(children, 0)) = Len(children) + 1
    BY <2>0
  <2> QED
    BY <2>0, <2>1, <2>2, <2>3
<1>5. \A i \in Items : task'[i].status = task[i].status /\ task'[i].lease = task[i].lease
  <2> DEFINE i == exec[w].item
             c == AssignedChild(task[i], Len(children) + 1)
  <2>1. TypeOK /\ i \in Items /\ task[i] \in TaskRow /\ Len(children) \in Nat
    BY DEF PgTypeOK, TypeOK, Executor
  <2>2. c \in Nat
    BY <2>1 DEF AssignedChild, TaskRow
  <2>3. \/ task' = task
        \/ \E r \in {StartedRow(task[i]), CompletedRow(task[i]), [task[i] EXCEPT !.child = c]} :
              task' = [task EXCEPT ![i] = r]
    BY DEF PgBootstrap, ReadChild, assignTaskChildConversation,
           getTaskBootstrapState, markBootstrapStarted, AppendBootstrapEvents, markBootstrapCompleted
  <2>4. \A r \in {StartedRow(task[i]), CompletedRow(task[i])} :
          r.status = task[i].status /\ r.lease = task[i].lease
    BY <2>1 DEF StartedRow, CompletedRow, TaskRow
  <2> HIDE DEF c, i
  <2>5. [task[i] EXCEPT !.child = c].status = task[i].status
        /\ [task[i] EXCEPT !.child = c].lease = task[i].lease
    BY <2>1, <2>2, ChildRowFacts
  <2>6. ASSUME NEW r, task' = [task EXCEPT ![i] = r], r.status = task[i].status, r.lease = task[i].lease
        PROVE  \A j \in Items : task'[j].status = task[j].status /\ task'[j].lease = task[j].lease
    BY <2>1, <2>6, RowAfter
  <2> QED
    BY <2>3, <2>4, <2>5, <2>6
<1> QED
  BY <1>1, <1>2, <1>3, <1>4, <1>5 DEF SharedStep

LEMMA ClockShared ==
    ASSUME PgTypeOK, NEW i \in Items, PgClockStep(i) \/ (LeaseExpiresEarly(i) /\ UNCHANGED tx)
    PROVE  SharedStep
<1>1. [Next]_vars
  BY DEF PgClockStep, Next
<1>2. UNCHANGED <<run, handles, children, exec, tx>>
  BY DEF PgClockStep, ClockStep, LeaseExpires, LeaseExpiresEarly, ExpireLease, BackoffElapses
<1>3. Len(children) \in Nat
  BY DEF PgTypeOK, TypeOK
<1>4. \A j \in Items : task'[j].status = task[j].status /\ task'[j].lease \in {task[j].lease, "expired"}
  BY ClockRows DEF PgClockStep, PgTypeOK
<1> QED
  BY <1>1, <1>2, <1>3, <1>4 DEF SharedStep

LEMMA CrashShared ==
    ASSUME PgTypeOK, NEW w \in Workers, PgCrash(w)
    PROVE  SharedStep
<1>1. [Next]_vars
  BY DEF PgCrash, Next
<1>2. UNCHANGED <<task, run, handles, children>> /\ \A v \in Workers : v # w => exec'[v] = exec[v]
  BY DEF PgCrash, Crash, PgTypeOK, TypeOK
<1>3. Len(children) \in Nat
  BY DEF PgTypeOK, TypeOK
<1> QED
  BY <1>1, <1>2, <1>3 DEF SharedStep, PgCrash

LEMMA QuietNoTx ==
    ASSUME PgTypeOK, NEW w \in Workers, End(w),
           UNCHANGED <<kind, task, run, handles, children, crashes, stalls>>,
           exec' = exec \/ Goto(w, "idle") \/ Goto(w, "recorded")
    PROVE  QuietStep
<1>1. exec' = exec \/ \E p \in {"idle", "recorded"} : Goto(w, p) /\ NoTx = NoTx
  OBVIOUS
<1> QED
  BY <1>1, NoTxType, SMT DEF QuietStep, End

LEMMA RecordQuiet ==
    ASSUME PgTypeOK, NEW w \in Workers, NEW s \in {"succeeded", "failed", "retryable_failure"},
           NEW a \in Nat, NEW due \in BOOLEAN, NEW next \in Executor,
           next.phase \notin Working, next.child <= Len(children),
           PgRecord(w, s, a, due, next)
    PROVE  QuietStep
<1> DEFINE r == RecordedRow(task[exec[w].item], s, a, due)
           t == [op |-> "record", next |-> next, row |-> r]
<1>1. task[exec[w].item] \in TaskRow /\ task[exec[w].item].child <= Len(children)
  BY DEF PgTypeOK, TypeOK, Executor
<1>2. r \in TaskRow /\ r.status = s /\ r.lease = "none" /\ r.child = task[exec[w].item].child
  <2>1. s \in TaskStatus
    BY DEF TaskStatus
  <2> QED
    BY <1>1, <2>1, RecordedRowFacts
<1>3. UNCHANGED vars /\ exec[w].phase = "executing" /\ Begin(w, t)
  BY DEF PgRecord
<1> HIDE DEF r
<1>4. t \in RecordTx /\ t.op = "record" /\ t.row = r /\ t.next = next
  BY <1>2 DEF RecordTx
<1> HIDE DEF t
<1>5. t \in Tx
  BY <1>4 DEF Tx
<1>6. tx'[w] = t
  BY <1>3, <1>5, TxUpdate DEF PgTypeOK
<1>7. OpenRecord(w)'
  BY <1>1, <1>2, <1>3, <1>4, <1>6 DEF OpenRecord, vars
<1> QED
  BY <1>3, <1>4, <1>5, <1>7 DEF QuietStep, vars, Finalizing

LEMMA QuietSteps ==
    ASSUME PgTypeOK, NEW w \in Workers,
           \/ PgClaimSnapshot(w) \/ PgClaimNothing(w)
           \/ PgRecordSuccess(w) \/ PgRecordFailure(w) \/ PgRetryableFailure(w) \/ PgCount(w)
           \/ PgFinalizeRead(w) \/ PgStoreArtifact(w) \/ PgReadStage(w) \/ PgFinalizeNextRun(w)
           \/ (PgFinalizeCommit(w) /\ ~HandleAccepted(w))
    PROVE  QuietStep
<1>0. /\ tx[w] \in Tx /\ exec[w] \in Executor /\ task \in [Items -> TaskRow]
      /\ tx \in [Workers -> Tx]
  BY DEF PgTypeOK, TypeOK
<1>1. CASE PgClaimSnapshot(w)
  <2> DEFINE t == [op |-> "claim", candidates |-> PgCandidates(task), stale |-> FALSE]
  <2>1. t \in ClaimTx /\ t.op = "claim"
    BY DEF ClaimTx, PgCandidates
  <2>2. Cardinality(LiveLeases(task)) < ConcurrencyLimit
    BY <1>1 DEF PgClaimSnapshot, PgCandidates
  <2>3. UNCHANGED vars /\ Begin(w, t)
    BY <1>1 DEF PgClaimSnapshot
  <2> HIDE DEF t
  <2> QED
    BY <2>1, <2>2, <2>3 DEF QuietStep, vars, Tx, Recording, Finalizing
<1>2. CASE \/ PgClaimNothing(w)
          \/ (PgReadStage(w) /\ ~Unfinalized(run))
          \/ (PgFinalizeCommit(w) /\ ~HandleAccepted(w))
  BY <1>2, QuietNoTx DEF PgClaimNothing, PgReadStage, PgFinalizeCommit, vars
<1>3. CASE PgRecordSuccess(w) \/ PgRecordFailure(w)
  <2> DEFINE x == [exec[w] EXCEPT !.phase = "recorded"]
  <2>1. x \in Executor /\ x.phase \notin Working /\ exec[w].attempt \in Nat
        /\ x.child <= Len(children)
    BY <1>0 DEF Executor, Phase, Working, Bootstrapping, PgTypeOK, TypeOK
  <2>2. PgRecord(w, "succeeded", exec[w].attempt, TRUE, x) \/ PgRecord(w, "failed", exec[w].attempt, TRUE, x)
    BY <1>3 DEF PgRecordSuccess, PgRecordFailure
  <2> HIDE DEF x
  <2> QED
    BY <2>1, <2>2, RecordQuiet
<1>4. CASE PgRetryableFailure(w)
  <2>1. PgRecord(w, "retryable_failure", 0, FALSE, Idle)
    BY <1>4 DEF PgRetryableFailure
  <2>2. Idle \in Executor /\ Idle.phase \notin Working /\ Idle.child <= Len(children) /\ 0 \in Nat
    <3>1. Len(children) \in Nat
      BY DEF PgTypeOK, TypeOK
    <3> QED
      BY <3>1, IdleType DEF Idle, Working, Bootstrapping
  <2> QED
    BY <2>1, <2>2, RecordQuiet
<1>5. CASE PgCount(w)
  <2> DEFINE c == Counts(Seen(w))
             q == PgDerivedStatus(Seen(w))
             t == [op |-> "refresh", next |-> tx[w].next, row |-> tx[w].row, counts |-> c, status |-> q]
  <2>1. tx[w].op = "record" /\ Begin(w, t) /\ UNCHANGED vars
    BY <1>5 DEF PgCount
  <2>2. tx[w].next \in Executor /\ tx[w].row \in TaskRow /\ OpenRecord(w)
    BY <1>0, <2>1, TxKinds DEF Recording, PgTypeOK
  <2>3. c \in [TaskStatus -> Nat] /\ q \in RunStatus
    BY PgRefreshType DEF PgTypeOK, TypeOK
  <2> HIDE DEF c, q
  <2>4. t \in RefreshTx /\ t.op = "refresh" /\ t.row = tx[w].row /\ t.next = tx[w].next
    BY <2>2, <2>3 DEF RefreshTx
  <2> HIDE DEF t
  <2>5. t \in Tx
    BY <2>4 DEF Tx
  <2>6. tx'[w] = t
    BY <1>0, <2>1, <2>5, TxUpdate
  <2>7. OpenRecord(w)'
    BY <2>1, <2>2, <2>4, <2>6 DEF OpenRecord, vars
  <2> QED
    BY <2>1, <2>4, <2>5, <2>7 DEF QuietStep, vars, Finalizing
<1>6. CASE PgFinalizeRead(w)
  <2>1. CASE AllTerminal(task) /\ Unfinalized(run)
    <3> DEFINE e == PgEntries(task)
               t == [op |-> "finalize", entries |-> e]
    <3>1. Begin(w, t) /\ UNCHANGED vars
      BY <1>6, <2>1 DEF PgFinalizeRead, vars
    <3>2. e \in Artifact
      BY <1>0, PgEntriesType
    <3> HIDE DEF e
    <3>3. t \in FinalizeTx /\ t.op = "finalize" /\ t.entries = e
      BY <3>2 DEF FinalizeTx
    <3> HIDE DEF t
    <3> QED
      BY <2>1, <3>1, <3>3 DEF QuietStep, vars, Tx, Recording, Finalizing, e
  <2>2. CASE ~(AllTerminal(task) /\ Unfinalized(run))
    <3>1. Goto(w, "idle") /\ UNCHANGED tx /\ tx[w] = NoTx
      BY <1>6, <2>2 DEF PgFinalizeRead
    <3>2. End(w)
      BY <1>0, <3>1 DEF End, Begin
    <3> QED
      BY <1>6, <3>1, <3>2, QuietNoTx DEF PgFinalizeRead
  <2> QED
    BY <2>1, <2>2
<1>7. ASSUME NEW o \in {"stored", "advancing"}, Begin(w, [tx[w] EXCEPT !.op = o]), UNCHANGED vars,
             tx[w].op \in Finalizing
      PROVE  QuietStep
  <2> DEFINE t == [tx[w] EXCEPT !.op = o]
  <2>1. t \in FinalizeTx /\ t.op = o /\ t.entries = tx[w].entries
    BY <1>0, <1>7, TxKinds DEF FinalizeTx
  <2>2. Begin(w, t)
    BY <1>7
  <2> HIDE DEF t
  <2> QED
    BY <1>7, <2>1, <2>2 DEF QuietStep, vars, Tx, Recording
<1>8. CASE PgStoreArtifact(w)
  BY <1>7, <1>8 DEF PgStoreArtifact, Finalizing
<1>9. CASE PgReadStage(w) /\ Unfinalized(run)
  BY <1>7, <1>9 DEF PgReadStage, Finalizing, vars
<1>10. CASE PgFinalizeNextRun(w)
  <2>1. End(w)
    BY <1>0, <1>10 DEF PgFinalizeNextRun, End, Begin
  <2> QED
    BY <1>10, <2>1, QuietNoTx DEF PgFinalizeNextRun
<1>11. PgReadStage(w) => QuietStep
  BY <1>2, <1>9
<1> QED
  BY <1>1, <1>2, <1>3, <1>4, <1>5, <1>6, <1>8, <1>10, <1>11

LEMMA PgStepKinds ==
    ASSUME PgTypeOK, [PgNext]_pgVars
    PROVE  \/ SharedStep
           \/ QuietStep
           \/ \E w \in Workers : \/ PgClaim(w)
                                \/ PgRecordCommit(w)
                                \/ (PgFinalizeCommit(w) /\ HandleAccepted(w))
<1>1. CASE UNCHANGED pgVars
  <2>1. Len(children) \in Nat
    BY DEF PgTypeOK, TypeOK
  <2> QED
    BY <1>1, <2>1 DEF SharedStep, pgVars, vars
<1> DEFINE Kind == \/ SharedStep
                   \/ QuietStep
                   \/ \E w \in Workers : \/ PgClaim(w)
                                        \/ PgRecordCommit(w)
                                        \/ (PgFinalizeCommit(w) /\ HandleAccepted(w))
<1>2. ASSUME NEW w \in Workers, PgWorkerStep(w) PROVE Kind
  <2>1. CASE PgBootstrap(w)
    BY <2>1, BootstrapShared
  <2>2. CASE PgClaim(w) \/ PgRecordCommit(w) \/ (PgFinalizeCommit(w) /\ HandleAccepted(w))
    BY <2>2
  <2>3. CASE ~PgBootstrap(w) /\ ~(PgClaim(w) \/ PgRecordCommit(w) \/ (PgFinalizeCommit(w) /\ HandleAccepted(w)))
    <3>1. \/ PgClaimSnapshot(w) \/ PgClaimNothing(w)
          \/ PgRecordSuccess(w) \/ PgRecordFailure(w) \/ PgRetryableFailure(w) \/ PgCount(w)
          \/ PgFinalizeRead(w) \/ PgStoreArtifact(w) \/ PgReadStage(w) \/ PgFinalizeNextRun(w)
          \/ (PgFinalizeCommit(w) /\ ~HandleAccepted(w))
      BY <1>2, <2>3 DEF PgWorkerStep
    <3>2. QuietStep
      BY <3>1, QuietSteps
    <3> QED
      BY <3>2
  <2> QED
    BY <2>1, <2>2, <2>3
<1>3. ASSUME NEW w \in Workers, PgCrash(w) PROVE Kind
  BY <1>3, CrashShared
<1>4. ASSUME NEW i \in Items, PgClockStep(i) \/ (LeaseExpiresEarly(i) /\ UNCHANGED tx) PROVE Kind
  BY <1>4, ClockShared
<1> HIDE DEF Kind
<1>5. Kind
  BY <1>1, <1>2, <1>3, <1>4 DEF PgNext, Kind
<1> QED
  BY <1>5 DEF Kind

-----------------------------------------------------------------------------
(* Type correctness. *)

LEMMA GotoType ==
    ASSUME TypeOK, NEW w \in Workers, NEW p \in Phase, Goto(w, p)
    PROVE  /\ exec' \in [Workers -> Executor]
           /\ \A v \in Workers : exec'[v].child = exec[v].child
           /\ \A v \in Workers : v # w => exec'[v] = exec[v]
           /\ exec'[w].phase = p
<1> DEFINE x == [exec[w] EXCEPT !.phase = p]
<1>1. exec \in [Workers -> Executor]
  BY DEF TypeOK
<1>2. x \in Executor /\ x.child = exec[w].child /\ x.phase = p
  BY <1>1 DEF Executor
<1>3. exec' = [exec EXCEPT ![w] = x]
  BY DEF Goto
<1> HIDE DEF x
<1> QED
  BY <1>1, <1>2, <1>3

LEMMA SharedType == PgTypeOK /\ SharedStep => PgTypeOK'
<1> SUFFICES ASSUME PgTypeOK, SharedStep PROVE PgTypeOK'
  OBVIOUS
<1>0. TypeOK' /\ Len(children') >= Len(children) /\ tx \in [Workers -> Tx]
  BY NextType DEF SharedStep, PgTypeOK
<1>1. ASSUME NEW w \in Workers, \A v \in Workers : v # w => exec'[v] = exec[v],
             exec[w].phase \in Bootstrapping, UNCHANGED tx
      PROVE  PgTypeOK'
  <2>1. tx[w].op \notin Recording
    BY <1>1 DEF PgTypeOK, OpenRecord, Bootstrapping
  <2> QED
    BY <1>0, <1>1, <2>1, PgKept
<1>2. ASSUME NEW w \in Workers, \A v \in Workers : v # w => exec'[v] = exec[v], End(w)
      PROVE  PgTypeOK'
  <2>1. tx' \in [Workers -> Tx] /\ tx'[w] = NoTx /\ \A v \in Workers : v # w => tx'[v] = tx[v]
    BY <1>0, <1>2, NoTxType, TxUpdate DEF End
  <2> QED
    BY <1>0, <1>2, <2>1, NoTxType, PgKept
<1>3. CASE UNCHANGED <<exec, tx>>
  BY <1>0, <1>3, PgKept
<1> QED
  BY <1>1, <1>2, <1>3 DEF SharedStep

LEMMA QuietType == PgTypeOK /\ QuietStep => PgTypeOK'
<1> SUFFICES ASSUME PgTypeOK, QuietStep PROVE PgTypeOK'
  OBVIOUS
<1>1. PICK w \in Workers, t \in Tx :
        /\ UNCHANGED <<kind, task, run, handles, children, crashes, stalls>>
        /\ exec' = exec \/ \E p \in {"idle", "recorded"} : Goto(w, p) /\ t = NoTx
        /\ Begin(w, t)
        /\ t.op \in Recording => OpenRecord(w)'
  BY DEF QuietStep
<1>2. tx' \in [Workers -> Tx] /\ tx'[w] = t /\ \A v \in Workers : v # w => tx'[v] = tx[v]
  BY <1>1, TxUpdate DEF PgTypeOK
<1>3. Len(children) \in Nat /\ Len(children') >= Len(children)
  BY <1>1 DEF PgTypeOK, TypeOK
<1>4. {"idle", "recorded"} \subseteq Phase
  BY DEF Phase
<1>5. TypeOK' /\ \A v \in Workers : v # w => exec'[v] = exec[v]
  <2>1. CASE exec' = exec
    BY <1>1, <2>1 DEF PgTypeOK, TypeOK
  <2>2. ASSUME NEW p \in {"idle", "recorded"}, Goto(w, p)
        PROVE  TypeOK' /\ \A v \in Workers : v # w => exec'[v] = exec[v]
    <3>1. /\ exec' \in [Workers -> Executor]
          /\ \A v \in Workers : exec'[v].child = exec[v].child
          /\ \A v \in Workers : v # w => exec'[v] = exec[v]
      BY <1>4, <2>2, GotoType DEF PgTypeOK
    <3> QED
      BY <1>1, <3>1 DEF PgTypeOK, TypeOK
  <2> QED
    BY <1>1, <2>1, <2>2
<1> QED
  BY <1>1, <1>2, <1>3, <1>5, PgKept

(* What a claim does, and what the claims it overtakes keep.               *)
LEMMA ClaimFacts ==
    ASSUME PgTypeOK, NEW w \in Workers, PgClaim(w)
    PROVE  \E i \in Items, p \in Working :
             /\ Ready(task[i])
             /\ i \in tx[w].candidates
             /\ tx[w].op = "claim"
             /\ task' \in [Items -> TaskRow]
             /\ task'[i] = ClaimedRow(task[i])
             /\ \A j \in Items : j # i => task'[j] = task[j]
             /\ exec' \in [Workers -> Executor]
             /\ exec'[w] = [phase |-> p, item |-> i, attempt |-> task[i].attempts + 1, child |-> 0]
             /\ \A v \in Workers : v # w => exec'[v] = exec[v]
             /\ run' = PgRefreshed(run, task')
             /\ UNCHANGED <<kind, handles, children, crashes, stalls>>
<1>0. task \in [Items -> TaskRow] /\ exec \in [Workers -> Executor] /\ tx[w] \in Tx
  BY DEF PgTypeOK, TypeOK
<1> DEFINE p == IF kind = "llmMap" THEN "executing" ELSE "claimed"
<1>1. PICK i \in Lockable(w) :
        /\ task' = [task EXCEPT ![i] = ClaimedRow(@)]
        /\ exec' = [exec EXCEPT ![w] =
                      [phase |-> p, item |-> i, attempt |-> task[i].attempts + 1, child |-> 0]]
  BY DEF PgClaim
<1> DEFINE r == ClaimedRow(task[i])
           x == [phase |-> p, item |-> i, attempt |-> task[i].attempts + 1, child |-> 0]
<1>2. tx[w].op = "claim" /\ tx[w].candidates \subseteq Items
  BY <1>0, TxKinds DEF PgClaim, ClaimTx
<1>3. i \in Items /\ Ready(task[i]) /\ i \in tx[w].candidates
  BY <1>1, <1>2 DEF Lockable
<1>4. r \in TaskRow /\ task[i].attempts + 1 \in Nat
  BY <1>0, <1>3, ClaimedRowFacts DEF TaskRow
<1>5. p \in Working /\ p \in Phase
  BY DEF Phase, Working, Bootstrapping
<1>6. x \in Executor
  BY <1>3, <1>4, <1>5 DEF Executor
<1>7. task' = [task EXCEPT ![i] = r] /\ exec' = [exec EXCEPT ![w] = x]
  BY <1>1, Zenon
<1> HIDE DEF r
<1>8. /\ task' \in [Items -> TaskRow]
      /\ task'[i] = r
      /\ \A j \in Items : j # i => task'[j] = task[j]
  BY <1>0, <1>3, <1>4, <1>7
<1> HIDE DEF x
<1>9. /\ exec' \in [Workers -> Executor]
      /\ exec'[w] = x
      /\ \A v \in Workers : v # w => exec'[v] = exec[v]
  BY <1>0, <1>6, <1>7
<1>10. run' = PgRefreshed(run, task') /\ UNCHANGED <<kind, handles, children, crashes, stalls>>
  BY DEF PgClaim
<1> HIDE DEF p
<1> QED
  BY <1>2, <1>3, <1>5, <1>8, <1>9, <1>10, Zenon DEF r, x

LEMMA OvertakeFacts ==
    ASSUME PgTypeOK, NEW w \in Workers, Overtake(w)
    PROVE  /\ tx' \in [Workers -> Tx]
           /\ tx'[w] = NoTx
           /\ \A v \in Workers : v # w /\ tx[v].op # "claim" => tx'[v] = tx[v]
           /\ \A v \in Workers : v # w /\ tx[v].op = "claim" =>
                tx'[v].op = "claim" /\ tx'[v].stale = TRUE
<1>1. \A v \in Workers : tx[v].op = "claim" =>
        /\ [tx[v] EXCEPT !.stale = TRUE] \in ClaimTx
        /\ [tx[v] EXCEPT !.stale = TRUE].op = "claim"
        /\ [tx[v] EXCEPT !.stale = TRUE].stale = TRUE
  <2> SUFFICES ASSUME NEW v \in Workers, tx[v].op = "claim"
               PROVE  /\ [tx[v] EXCEPT !.stale = TRUE] \in ClaimTx
                      /\ [tx[v] EXCEPT !.stale = TRUE].op = "claim"
                      /\ [tx[v] EXCEPT !.stale = TRUE].stale = TRUE
    OBVIOUS
  <2>1. tx[v] \in ClaimTx
    BY TxKinds DEF PgTypeOK
  <2> QED
    BY <2>1 DEF ClaimTx
<1>2. \A v \in Workers :
        tx'[v] = IF v = w THEN NoTx
                 ELSE IF tx[v].op = "claim" THEN [tx[v] EXCEPT !.stale = TRUE]
                 ELSE tx[v]
  BY DEF Overtake
<1>3. \A v \in Workers : tx'[v] \in Tx
  BY <1>1, <1>2, NoTxType DEF Tx, PgTypeOK
<1>4. tx' = [v \in Workers |-> tx'[v]]
  BY DEF Overtake
<1>5. tx' \in [Workers -> Tx]
  BY <1>3, <1>4
<1> QED
  BY <1>1, <1>2, <1>5

LEMMA ClaimType == ASSUME PgTypeOK, NEW w \in Workers, PgClaim(w) PROVE PgTypeOK'
<1>0. /\ Len(children) \in Nat
      /\ \A i \in Items : task[i] \in TaskRow
  BY DEF PgTypeOK, TypeOK
<1>1. PICK i \in Items, p \in Working :
        /\ task' \in [Items -> TaskRow]
        /\ task'[i] = ClaimedRow(task[i])
        /\ \A j \in Items : j # i => task'[j] = task[j]
        /\ exec' \in [Workers -> Executor]
        /\ exec'[w] = [phase |-> p, item |-> i, attempt |-> task[i].attempts + 1, child |-> 0]
        /\ \A v \in Workers : v # w => exec'[v] = exec[v]
        /\ run' = PgRefreshed(run, task')
        /\ UNCHANGED <<kind, handles, children, crashes, stalls>>
  BY ClaimFacts
<1>2. /\ tx' \in [Workers -> Tx]
      /\ tx'[w] = NoTx
      /\ \A v \in Workers : v # w /\ tx[v].op # "claim" => tx'[v] = tx[v]
      /\ \A v \in Workers : v # w /\ tx[v].op = "claim" => tx'[v].op = "claim"
  BY OvertakeFacts DEF PgClaim
<1>3. run' \in RunRow
  BY <1>1, PgRefreshType DEF PgTypeOK, TypeOK
<1>4. \A j \in Items : task'[j].child = task[j].child
  BY <1>0, <1>1, ClaimedRowFacts
<1>5. exec'[w].child = 0
  BY <1>1
<1>6. TypeOK'
  <2>1. /\ kind' \in Kinds /\ handles' \in Seq(Handle) /\ children' \in Seq(Nat)
        /\ crashes' \in 0 .. MaxCrashes /\ stalls' \in 0 .. MaxStalls
    BY <1>1 DEF PgTypeOK, TypeOK
  <2>2. \A j \in Items : task'[j].child <= Len(children')
    BY <1>1, <1>4 DEF PgTypeOK, TypeOK
  <2>3. \A v \in Workers : exec[v].child <= Len(children)
    BY DEF PgTypeOK, TypeOK
  <2>4. children' = children /\ \A v \in Workers : v # w => exec'[v] = exec[v]
    BY <1>1
  <2>5. \A v \in Workers : exec'[v].child <= Len(children')
    BY ONLY <1>0, <1>5, <2>3, <2>4
  <2> QED
    BY <1>1, <1>3, <2>1, <2>2, <2>5 DEF TypeOK
<1>7. Len(children') >= Len(children) /\ "claim" \notin Recording
  BY <1>0, <1>1 DEF Recording
<1> QED
  BY <1>1, <1>2, <1>6, <1>7, NoTxType, PgKept

(* What the commit of a record does.                                       *)
LEMMA CommitFacts ==
    ASSUME PgTypeOK, NEW w \in Workers, PgRecordCommit(w)
    PROVE  /\ exec[w].phase = "executing"
           /\ tx[w].row \in TaskRow /\ tx[w].row.lease = "none"
           /\ tx[w].row.child <= Len(children)
           /\ task' \in [Items -> TaskRow]
           /\ task'[exec[w].item] = tx[w].row
           /\ \A j \in Items : j # exec[w].item => task'[j] = task[j]
           /\ exec' \in [Workers -> Executor]
           /\ exec'[w].phase \notin Working /\ exec'[w].child <= Len(children)
           /\ \A v \in Workers : v # w => exec'[v] = exec[v]
           /\ tx' \in [Workers -> Tx]
           /\ tx'[w] = NoTx
           /\ \A v \in Workers : v # w => tx'[v] = tx[v]
           /\ run' \in RunRow /\ run'.stage = run.stage /\ run'.artifact = run.artifact
           /\ UNCHANGED <<kind, handles, children, crashes, stalls>>
<1>0. /\ task \in [Items -> TaskRow] /\ exec \in [Workers -> Executor] /\ run \in RunRow
      /\ exec[w].item \in Items /\ tx \in [Workers -> Tx]
  BY DEF PgTypeOK, TypeOK, Executor
<1>1. tx[w] \in RefreshTx /\ tx[w].op \in Recording
  BY <1>0, TxKinds DEF PgRecordCommit, Recording
<1>2. /\ tx[w].row \in TaskRow /\ tx[w].next \in Executor
      /\ tx[w].counts \in [TaskStatus -> Nat] /\ tx[w].status \in RunStatus
  BY <1>1 DEF RefreshTx
<1>3. OpenRecord(w)
  BY <1>1 DEF PgTypeOK
<1>4. task' = [task EXCEPT ![exec[w].item] = tx[w].row] /\ exec' = [exec EXCEPT ![w] = tx[w].next]
  BY DEF PgRecordCommit, Seen
<1>5. run' = [run EXCEPT !.counts = tx[w].counts, !.status = tx[w].status]
  BY DEF PgRecordCommit
<1>6. run' \in RunRow /\ run'.stage = run.stage /\ run'.artifact = run.artifact
  BY <1>0, <1>2, <1>5 DEF RunRow
<1>7. tx' \in [Workers -> Tx] /\ tx'[w] = NoTx /\ \A v \in Workers : v # w => tx'[v] = tx[v]
  BY <1>0, NoTxType, TxUpdate DEF PgRecordCommit, End
<1>8. /\ task' \in [Items -> TaskRow]
      /\ task'[exec[w].item] = tx[w].row
      /\ \A j \in Items : j # exec[w].item => task'[j] = task[j]
  BY <1>0, <1>2, <1>4
<1>9. /\ exec' \in [Workers -> Executor]
      /\ exec'[w] = tx[w].next
      /\ \A v \in Workers : v # w => exec'[v] = exec[v]
  BY <1>0, <1>2, <1>4
<1> QED
  BY <1>2, <1>3, <1>6, <1>7, <1>8, <1>9 DEF OpenRecord, PgRecordCommit

LEMMA CommitType == ASSUME PgTypeOK, NEW w \in Workers, PgRecordCommit(w) PROVE PgTypeOK'
<1>0. Len(children') = Len(children) /\ Len(children) \in Nat
  BY CommitFacts DEF PgTypeOK, TypeOK
<1>1. \A i \in Items : task'[i].child <= Len(children')
  BY <1>0, CommitFacts DEF PgTypeOK, TypeOK
<1>2. \A v \in Workers : exec'[v].child <= Len(children')
  BY <1>0, CommitFacts DEF PgTypeOK, TypeOK
<1>3. TypeOK'
  BY <1>1, <1>2, CommitFacts DEF PgTypeOK, TypeOK
<1> QED
  BY <1>0, <1>3, CommitFacts, NoTxType, PgKept

(* What the one finalization does that gets its handle into the ledger.    *)
LEMMA FinalizeFacts ==
    ASSUME PgTypeOK, NEW w \in Workers, PgFinalizeCommit(w), HandleAccepted(w)
    PROVE  /\ tx[w].op = "advancing" /\ tx[w].entries \in Artifact
           /\ run' \in RunRow
           /\ run'.stage = "completed" /\ run'.artifact = tx[w].entries
           /\ run'.counts = Counts(task) /\ run'.status = deriveRunStatus(tx[w].entries)
           /\ \E h \in Handle : handles' = <<h>> /\ h.artifact = tx[w].entries
           /\ exec' \in [Workers -> Executor]
           /\ \A v \in Workers : exec'[v].child = exec[v].child
           /\ \A v \in Workers : v # w => exec'[v] = exec[v]
           /\ exec'[w].phase = "idle"
           /\ tx' \in [Workers -> Tx]
           /\ tx'[w] = NoTx
           /\ \A v \in Workers : v # w => tx'[v] = tx[v]
           /\ UNCHANGED <<kind, task, children, crashes, stalls>>
<1> DEFINE e == tx[w].entries
           q == PgRefreshed(run, task)
           d == deriveRunStatus(e)
           h == [status |-> d, artifact |-> e]
<1>0. run \in RunRow /\ tx \in [Workers -> Tx]
  BY DEF PgTypeOK, TypeOK
<1>1. tx[w].op = "advancing" /\ e \in Artifact
  BY <1>0, TxKinds DEF PgFinalizeCommit, Finalizing, FinalizeTx
<1>2. d \in RunStatus
  BY DEF deriveRunStatus, RunStatus
<1>3. q \in RunRow /\ q.counts = Counts(task)
  BY <1>0, PgRefreshType
<1>4. run' = [q EXCEPT !.status = d, !.stage = "completed", !.artifact = e, !.needsRetry = FALSE]
  BY DEF PgFinalizeCommit, PgFinalizedRun
<1>5. handles' = Append(<<>>, h)
  BY DEF PgFinalizeCommit, HandleAccepted
<1> HIDE DEF e, q, d
<1>6. /\ run' \in RunRow /\ run'.stage = "completed" /\ run'.artifact = e
      /\ run'.counts = Counts(task) /\ run'.status = d
  BY <1>1, <1>2, <1>3, <1>4 DEF RunRow
<1>7. h \in Handle /\ h.artifact = e
  BY <1>1, <1>2 DEF Handle
<1>8. handles' = <<h>>
  BY <1>5
<1> HIDE DEF h
<1>9. Goto(w, "idle") /\ "idle" \in Phase
  BY DEF PgFinalizeCommit, Phase
<1>10. /\ exec' \in [Workers -> Executor]
       /\ \A v \in Workers : exec'[v].child = exec[v].child
       /\ \A v \in Workers : v # w => exec'[v] = exec[v]
       /\ exec'[w].phase = "idle"
  BY <1>9, GotoType DEF PgTypeOK
<1>11. tx' \in [Workers -> Tx] /\ tx'[w] = NoTx /\ \A v \in Workers : v # w => tx'[v] = tx[v]
  BY <1>0, NoTxType, TxUpdate DEF PgFinalizeCommit, End
<1>12. UNCHANGED <<kind, task, children, crashes, stalls>>
  BY DEF PgFinalizeCommit
<1> QED
  BY <1>1, <1>6, <1>7, <1>8, <1>10, <1>11, <1>12 DEF e, d

LEMMA FinalizeType ==
    ASSUME PgTypeOK, NEW w \in Workers, PgFinalizeCommit(w), HandleAccepted(w)
    PROVE  PgTypeOK'
<1>0. PICK h \in Handle : handles' = <<h>>
  BY FinalizeFacts
<1>1. handles' \in Seq(Handle)
  BY <1>0
<1>2. TypeOK'
  BY <1>1, FinalizeFacts DEF PgTypeOK, TypeOK
<1>3. Len(children') >= Len(children)
  BY FinalizeFacts DEF PgTypeOK, TypeOK
<1> QED
  BY <1>2, <1>3, FinalizeFacts, NoTxType, PgKept

LEMMA PgNextType == PgTypeOK /\ [PgNext]_pgVars => PgTypeOK'
<1> SUFFICES ASSUME PgTypeOK, [PgNext]_pgVars PROVE PgTypeOK'
  OBVIOUS
<1>1. \A w \in Workers : PgFinalizeCommit(w) /\ HandleAccepted(w) => PgTypeOK'
  BY FinalizeType
<1>2. \A w \in Workers : PgClaim(w) \/ PgRecordCommit(w) => PgTypeOK'
  BY ClaimType, CommitType
<1>3. SharedStep \/ QuietStep => PgTypeOK'
  BY SharedType, QuietType
<1> QED
  BY <1>1, <1>2, <1>3, PgStepKinds

(* Every state of the executors over the PostgreSQL store is well-typed,   *)
(* and so is what each open transaction holds.                             *)
THEOREM PgTypeCorrect == PgSpec => []PgTypeOK
<1> QED
  BY PgInitType, PgNextType, PTL DEF PgSpec

-----------------------------------------------------------------------------
(* The concurrency limit. *)

(* What makes the count of a claim's snapshot good for as long as no claim *)
(* has overtaken it: every other step keeps or shrinks the live leases.    *)
SnapshotCount ==
    \A w \in Workers : tx[w].op = "claim" /\ ~tx[w].stale =>
        Cardinality(LiveLeases(task)) < ConcurrencyLimit

LEMMA FewerLeases ==
    ASSUME \A i \in Items : task'[i].status = "running" /\ task'[i].lease = "live" =>
                              task[i].status = "running" /\ task[i].lease = "live",
           Cardinality(LiveLeases(task)) < ConcurrencyLimit
    PROVE  Cardinality(LiveLeases(task')) < ConcurrencyLimit
<1>1. LiveLeases(task') \in SUBSET LiveLeases(task)
  BY DEF LiveLeases
<1>2. /\ IsFiniteSet(LiveLeases(task))
      /\ Cardinality(LiveLeases(task)) \in Nat
      /\ Cardinality(LiveLeases(task')) \in Nat
  BY ItemSets DEF LiveLeases
<1>3. Cardinality(LiveLeases(task')) <= Cardinality(LiveLeases(task))
  BY <1>1, <1>2, FS_Subset
<1> QED
  BY <1>2, <1>3

LEMMA SnapshotInitial == PgInit => SnapshotCount
BY NoTxType DEF PgInit, SnapshotCount, NoTx

LEMMA SnapshotNext == PgTypeOK /\ SnapshotCount /\ [PgNext]_pgVars => SnapshotCount'
<1> SUFFICES ASSUME PgTypeOK, SnapshotCount, [PgNext]_pgVars PROVE SnapshotCount'
  OBVIOUS
<1>0. tx \in [Workers -> Tx]
  BY DEF PgTypeOK
<1>1. ASSUME \A i \in Items : task'[i].status = "running" /\ task'[i].lease = "live" =>
                              task[i].status = "running" /\ task[i].lease = "live",
             \A w \in Workers : tx'[w] = tx[w] \/ tx'[w].op # "claim"
      PROVE  SnapshotCount'
  BY <1>1, FewerLeases DEF SnapshotCount
<1>2. CASE SharedStep
  <2>1. \A w \in Workers : tx'[w] = tx[w] \/ tx'[w].op # "claim"
    BY <1>0, <1>2, NoTxType, TxUpdate DEF SharedStep, End
  <2>2. \A i \in Items : task'[i].status = "running" /\ task'[i].lease = "live" =>
                         task[i].status = "running" /\ task[i].lease = "live"
    BY <1>2 DEF SharedStep
  <2> QED
    BY <1>1, <2>1, <2>2
<1>3. CASE QuietStep
  <2>1. PICK w \in Workers, t \in Tx :
          UNCHANGED task /\ Begin(w, t)
          /\ (t.op = "claim" => Cardinality(LiveLeases(task)) < ConcurrencyLimit)
    BY <1>3 DEF QuietStep
  <2>2. tx'[w] = t /\ \A v \in Workers : v # w => tx'[v] = tx[v]
    BY <1>0, <2>1, TxUpdate
  <2> QED
    BY <2>1, <2>2 DEF SnapshotCount
<1>4. ASSUME NEW w \in Workers, PgClaim(w) PROVE SnapshotCount'
  <2>1. /\ tx'[w] = NoTx
        /\ \A v \in Workers : v # w /\ tx[v].op # "claim" => tx'[v] = tx[v]
        /\ \A v \in Workers : v # w /\ tx[v].op = "claim" => tx'[v].stale = TRUE
    BY <1>4, OvertakeFacts DEF PgClaim
  <2> QED
    BY <2>1, NoTxType DEF SnapshotCount, NoTx
<1>5. ASSUME NEW w \in Workers, PgRecordCommit(w) PROVE SnapshotCount'
  <2>1. /\ tx[w].row.lease = "none"
        /\ task'[exec[w].item] = tx[w].row
        /\ \A j \in Items : j # exec[w].item => task'[j] = task[j]
        /\ tx'[w] = NoTx
        /\ \A v \in Workers : v # w => tx'[v] = tx[v]
    BY <1>5, CommitFacts
  <2> QED
    BY <1>1, <2>1, NoTxType
<1>6. ASSUME NEW w \in Workers, PgFinalizeCommit(w), HandleAccepted(w) PROVE SnapshotCount'
  <2>1. UNCHANGED task /\ tx'[w] = NoTx /\ \A v \in Workers : v # w => tx'[v] = tx[v]
    BY <1>6, FinalizeFacts
  <2> QED
    BY <1>1, <2>1, NoTxType
<1> QED
  BY <1>2, <1>3, <1>4, <1>5, <1>6, PgStepKinds

LEMMA LimitStep ==
    ASSUME PgTypeOK, SnapshotCount, [PgNext]_pgVars, NEW w \in Workers,
           tx[w].op = "claim", ~tx[w].stale, exec[w].phase = "idle", exec'[w].phase # "idle"
    PROVE  Cardinality(LiveLeases(task')) <= ConcurrencyLimit
<1>0. /\ tx \in [Workers -> Tx]
      /\ exec \in [Workers -> Executor]
      /\ TypeOK
  BY DEF PgTypeOK, TypeOK
<1>1. ~SharedStep
  BY <1>0 DEF SharedStep, Bootstrapping, Crash
<1>2. ASSUME QuietStep PROVE Cardinality(LiveLeases(task')) <= ConcurrencyLimit
  <2>1. UNCHANGED task
    BY <1>2 DEF QuietStep
  <2>2. Cardinality(LiveLeases(task)) < ConcurrencyLimit
    BY DEF SnapshotCount
  <2>3. Cardinality(LiveLeases(task)) \in Nat
    BY ItemSets DEF LiveLeases
  <2> QED
    BY <2>1, <2>2, <2>3
<1>3. ASSUME NEW v \in Workers, PgClaim(v)
      PROVE  Cardinality(LiveLeases(task')) <= ConcurrencyLimit
  <2>1. PICK i \in Items : \A j \in Items : j # i => task'[j] = task[j]
    BY <1>3, ClaimFacts
  <2>2. LiveLeases(task') \in SUBSET (LiveLeases(task) \cup {i})
    BY <2>1 DEF LiveLeases
  <2>3. /\ IsFiniteSet(LiveLeases(task))
        /\ Cardinality(LiveLeases(task)) \in Nat
        /\ Cardinality(LiveLeases(task')) \in Nat
    BY ItemSets DEF LiveLeases
  <2>4. Cardinality(LiveLeases(task')) <= Cardinality(LiveLeases(task)) + 1
    BY <2>2, <2>3, OneMore
  <2>5. Cardinality(LiveLeases(task)) < ConcurrencyLimit
    BY DEF SnapshotCount
  <2> QED
    BY <2>3, <2>4, <2>5
<1>4. ASSUME NEW v \in Workers, PgRecordCommit(v) PROVE FALSE
  <2>1. v # w
    BY <1>4, CommitFacts
  <2> QED
    BY <1>4, <2>1, CommitFacts
<1>5. ASSUME NEW v \in Workers, PgFinalizeCommit(v), HandleAccepted(v) PROVE FALSE
  <2>1. exec'[v].phase = "idle" /\ \A u \in Workers : u # v => exec'[u] = exec[u]
    BY <1>5, FinalizeFacts
  <2> QED
    BY <2>1
<1> QED
  BY <1>1, <1>2, <1>3, <1>4, <1>5, PgStepKinds

(* The count of a claim's snapshot is good until another claim commits: a  *)
(* claim that none has overtaken leaves no more live leases than the limit *)
(* allows, with any number of executors claiming, recording and dying.     *)
THEOREM PgLimitHolds == PgSpec => LimitKeptUnlessOvertaken
<1>1. PgTypeOK /\ SnapshotCount /\ [PgNext]_pgVars =>
        [\A w \in Workers :
            /\ tx[w].op = "claim" /\ ~tx[w].stale
            /\ exec[w].phase = "idle" /\ exec'[w].phase # "idle"
            => Cardinality(LiveLeases(task')) <= ConcurrencyLimit]_pgVars
  BY LimitStep
<1> QED
  BY <1>1, PgTypeCorrect, SnapshotInitial, SnapshotNext, PTL DEF PgSpec, LimitKeptUnlessOvertaken

-----------------------------------------------------------------------------
(* Exclusive execution. *)

LEMMA StallsKept ==
    ASSUME PgTypeOK, [PgNext]_pgVars, stalls' = 0
    PROVE  stalls = 0
<1>1. SharedStep => stalls = 0
  <2>1. \A w \in Workers : claimTaskLease(w) => stalls' = stalls
    BY DEF claimTaskLease
  <2>2. RecordStep => stalls' = stalls
    BY DEF RecordStep, Record
  <2>3. BootstrapStep => stalls' = stalls
    BY DEF BootstrapStep
  <2>4. \A i \in Items : ClockStep(i) \/ LeaseExpiresEarly(i) => stalls = 0
    BY DEF ClockStep, LeaseExpires, LeaseExpiresEarly, BackoffElapses, PgTypeOK, TypeOK
  <2> QED
    BY <2>1, <2>2, <2>3, <2>4, StepKinds DEF SharedStep, PgTypeOK
<1>2. QuietStep => stalls = 0
  BY DEF QuietStep
<1>3. \A w \in Workers : PgClaim(w) => stalls = 0
  BY DEF PgClaim
<1>4. \A w \in Workers : PgRecordCommit(w) => stalls = 0
  BY DEF PgRecordCommit
<1>5. \A w \in Workers : PgFinalizeCommit(w) => stalls = 0
  BY DEF PgFinalizeCommit
<1> QED
  BY <1>1, <1>2, <1>3, <1>4, <1>5, PgStepKinds

LEMMA PgExclusiveNext == PgTypeOK /\ Exclusive /\ [PgNext]_pgVars => Exclusive'
<1> SUFFICES ASSUME PgTypeOK, Exclusive, [PgNext]_pgVars, stalls' = 0 PROVE Exclusive'
  BY DEF Exclusive, LeaseAgreement, ExclusiveExecution
<1>0. /\ TypeOK /\ stalls = 0
      /\ \A w \in Workers : exec[w].item \in Items
      /\ \A i \in Items : task[i] \in TaskRow
  BY StallsKept DEF PgTypeOK, TypeOK, Executor
<1>1. CASE SharedStep
  BY <1>0, <1>1, ExclusiveNext DEF SharedStep
<1>2. ASSUME NEW w \in Workers, exec'[w].phase \notin Working,
             \A v \in Workers : v # w => exec'[v] = exec[v],
             UNCHANGED task
      PROVE  Exclusive'
  BY <1>0, <1>2 DEF Exclusive, LeaseAgreement, ExclusiveExecution
<1>3. CASE QuietStep
  <2>1. PICK w \in Workers, t \in Tx :
          /\ UNCHANGED <<task, stalls>>
          /\ exec' = exec \/ \E p \in {"idle", "recorded"} : Goto(w, p)
    BY <1>3 DEF QuietStep
  <2>2. CASE exec' = exec
    BY <2>1, <2>2 DEF Exclusive, LeaseAgreement, ExclusiveExecution
  <2>3. ASSUME NEW p \in {"idle", "recorded"}, Goto(w, p) PROVE Exclusive'
    <3>1. p \in Phase /\ p \notin Working
      BY DEF Phase, Working, Bootstrapping
    <3>2. exec'[w].phase = p /\ \A v \in Workers : v # w => exec'[v] = exec[v]
      BY <1>0, <2>3, <3>1, GotoType
    <3> QED
      BY <1>2, <2>1, <3>1, <3>2
  <2> QED
    BY <2>1, <2>2, <2>3
<1>4. ASSUME NEW w \in Workers, PgClaim(w) PROVE Exclusive'
  <2>1. PICK i \in Items, p \in Working :
          /\ Ready(task[i])
          /\ i \in tx[w].candidates
          /\ tx[w].op = "claim"
          /\ task' \in [Items -> TaskRow]
          /\ task'[i] = ClaimedRow(task[i])
          /\ \A j \in Items : j # i => task'[j] = task[j]
          /\ exec' \in [Workers -> Executor]
          /\ exec'[w] = [phase |-> p, item |-> i, attempt |-> task[i].attempts + 1, child |-> 0]
          /\ \A v \in Workers : v # w => exec'[v] = exec[v]
          /\ run' = PgRefreshed(run, task')
          /\ UNCHANGED <<kind, handles, children, crashes, stalls>>
    BY <1>4, ClaimFacts
  <2>2. \A v \in Workers : exec[v].phase \in Working => exec[v].item # i
    BY <1>0, <2>1 DEF Ready, Exclusive, LeaseAgreement
  <2>3. exec'[w].item = i /\ exec'[w].attempt = task[i].attempts + 1
    BY <2>1
  <2>4. /\ task'[i].status = "running"
        /\ task'[i].lease = "live"
        /\ task'[i].attempts = task[i].attempts + 1
    BY <1>0, <2>1, ClaimedRowFacts
  <2> QED
    BY <1>0, <2>1, <2>2, <2>3, <2>4 DEF Exclusive, LeaseAgreement, ExclusiveExecution
<1>5. ASSUME NEW w \in Workers, PgRecordCommit(w) PROVE Exclusive'
  <2>1. /\ exec[w].phase \in Working
        /\ exec'[w].phase \notin Working
        /\ \A v \in Workers : v # w => exec'[v] = exec[v]
        /\ \A j \in Items : j # exec[w].item => task'[j] = task[j]
    BY <1>5, CommitFacts DEF Working
  <2>2. \A v \in Workers : exec'[v].phase \in Working =>
          exec[v].item # exec[w].item /\ exec'[v] = exec[v]
    BY <1>0, <2>1 DEF Exclusive, ExclusiveExecution
  <2>3. \A v \in Workers : exec'[v].phase \in Working => task'[exec[v].item] = task[exec[v].item]
    BY <1>0, <2>1, <2>2
  <2> QED
    BY <1>0, <2>1, <2>2, <2>3 DEF Exclusive, LeaseAgreement, ExclusiveExecution
<1>6. ASSUME NEW w \in Workers, PgFinalizeCommit(w), HandleAccepted(w) PROVE Exclusive'
  <2>1. /\ exec'[w].phase = "idle" /\ UNCHANGED task
        /\ \A v \in Workers : v # w => exec'[v] = exec[v]
    BY <1>6, FinalizeFacts
  <2> QED
    BY <1>2, <2>1 DEF Working, Bootstrapping
<1> QED
  BY <1>1, <1>3, <1>4, <1>5, <1>6, PgStepKinds

LEMMA PgExclusiveInit == PgInit => Exclusive
BY ExclusiveInit DEF PgInit

(* Although a claim chooses among the rows of an old snapshot and a record *)
(* is seen only when it commits, no two executors are at work on one item  *)
(* while no lease runs out under a working one.                            *)
THEOREM PgExclusiveHolds == PgSpec => []ExclusiveExecution
<1>1. Exclusive => ExclusiveExecution
  BY DEF Exclusive
<1> QED
  BY <1>1, PgTypeCorrect, PgExclusiveInit, PgExclusiveNext, PTL DEF PgSpec

-----------------------------------------------------------------------------
(* One handle. *)

LEMMA PgOneHandleInit == PgInit => OneHandle
BY OneHandleInit DEF PgInit

LEMMA PgOneHandleNext == PgTypeOK /\ OneHandle /\ [PgNext]_pgVars => OneHandle'
<1> SUFFICES ASSUME PgTypeOK, OneHandle, [PgNext]_pgVars PROVE OneHandle'
  OBVIOUS
<1>1. ASSUME run'.stage = run.stage, run'.artifact = run.artifact, handles' = handles
      PROVE  OneHandle'
  BY <1>1 DEF OneHandle
<1>2. CASE SharedStep \/ QuietStep
  BY <1>1, <1>2 DEF SharedStep, QuietStep
<1>3. ASSUME NEW w \in Workers, PgClaim(w) PROVE OneHandle'
  <2>1. run' = PgRefreshed(run, task') /\ handles' = handles
    BY <1>3 DEF PgClaim
  <2> QED
    BY <1>1, <2>1, PgRefreshType DEF PgTypeOK, TypeOK
<1>4. ASSUME NEW w \in Workers, PgRecordCommit(w) PROVE OneHandle'
  BY <1>1, <1>4, CommitFacts
<1>5. ASSUME NEW w \in Workers, PgFinalizeCommit(w), HandleAccepted(w) PROVE OneHandle'
  <2>1. PICK h \in Handle :
          handles' = <<h>> /\ h.artifact = run'.artifact /\ run'.stage = "completed"
    BY <1>5, FinalizeFacts
  <2> QED
    BY <2>1 DEF OneHandle
<1> QED
  BY <1>2, <1>3, <1>4, <1>5, PgStepKinds

(* Any number of finalizations may read the run as unfinalized at once:    *)
(* the key of the handle lets one of them commit, and the completed run    *)
(* names the artifact that the one handle names.                           *)
THEOREM PgOneHandleHolds == PgSpec => []OneHandle
<1> QED
  BY PgTypeCorrect, PgOneHandleInit, PgOneHandleNext, PTL DEF PgSpec

-----------------------------------------------------------------------------
(* A completed run's row. *)

(* A finalization that is under way, or done, is about tasks that are all  *)
(* terminal, and their rows no longer change: what it read stays true.     *)
Sealed ==
    stalls = 0 =>
        /\ run.stage = "completed" =>
             /\ AllTerminal(task)
             /\ run.counts = Counts(task)
             /\ run.status = deriveRunStatus(Entries(task))
        /\ \A w \in Workers : tx[w].op \in Finalizing =>
             AllTerminal(task) /\ tx[w].entries = PgEntries(task)

LEMMA SealedInit == PgInit => Sealed
BY NoTxType DEF PgInit, Init, createRunWithTasks, Sealed

LEMMA SealedNext == PgTypeOK /\ Exclusive /\ Sealed /\ [PgNext]_pgVars => Sealed'
<1> SUFFICES ASSUME PgTypeOK, Exclusive, Sealed, [PgNext]_pgVars, stalls' = 0 PROVE Sealed'
  BY DEF Sealed
<1>0. /\ TypeOK /\ stalls = 0 /\ tx \in [Workers -> Tx] /\ run \in RunRow
      /\ \A w \in Workers : exec[w].item \in Items
  BY StallsKept DEF PgTypeOK, TypeOK, Executor
<1>1. "claim" \notin Finalizing /\ "none" \notin Finalizing
  BY DEF Finalizing
<1>2. CASE SharedStep
  <2>1. ASSUME AllTerminal(task)
        PROVE  /\ AllTerminal(task') /\ Entries(task') = Entries(task)
               /\ PgEntries(task') = PgEntries(task) /\ Counts(task') = Counts(task)
    <3>1. \A i \in Items : task'[i] = task[i]
      BY <1>0, <1>2, <2>1, TerminalStep DEF SharedStep, AllTerminal
    <3>2. \A s \in TaskStatus : WithStatus(task', s) = WithStatus(task, s)
      BY <3>1 DEF WithStatus
    <3> QED
      BY <2>1, <3>1, <3>2 DEF AllTerminal, Entries, PgEntries, Counts
  <2>2. \A w \in Workers : tx'[w] = tx[w] \/ tx'[w].op \notin Finalizing
    BY <1>0, <1>2, NoTxType, TxUpdate DEF SharedStep, End
  <2>3. run' = run
    BY <1>2 DEF SharedStep
  <2> QED
    BY <1>0, <2>1, <2>2, <2>3 DEF Sealed
<1>3. CASE QuietStep
  <2>1. PICK w \in Workers, t \in Tx :
          /\ UNCHANGED <<task, run>>
          /\ Begin(w, t)
          /\ t.op \in Finalizing =>
              \/ AllTerminal(task) /\ t.entries = PgEntries(task)
              \/ tx[w].op \in Finalizing /\ t.entries = tx[w].entries
    BY <1>3 DEF QuietStep
  <2>2. tx'[w] = t /\ \A v \in Workers : v # w => tx'[v] = tx[v]
    BY <1>0, <2>1, TxUpdate
  <2>3. \A v \in Workers : tx'[v].op \in Finalizing =>
          AllTerminal(task) /\ tx'[v].entries = PgEntries(task)
    BY <1>0, <2>1, <2>2 DEF Sealed
  <2> QED
    BY <1>0, <2>1, <2>3 DEF Sealed
<1>4. ASSUME NEW w \in Workers, PgClaim(w) PROVE Sealed'
  <2>1. PICK i \in Items : Ready(task[i])
    BY <1>4, ClaimFacts
  <2>2. ~AllTerminal(task)
    BY <2>1 DEF Ready, AllTerminal, Terminal
  <2>3. run' = PgRefreshed(run, task')
    BY <1>4 DEF PgClaim
  <2>4. run'.stage # "completed"
    BY <1>0, <2>2, <2>3, PgRefreshType DEF Sealed
  <2>5. \A v \in Workers : tx'[v].op \notin Finalizing
    BY <1>0, <1>1, <1>4, <2>2, OvertakeFacts, NoTxType DEF PgClaim, Sealed
  <2> QED
    BY <2>4, <2>5 DEF Sealed
<1>5. ASSUME NEW w \in Workers, PgRecordCommit(w) PROVE Sealed'
  <2>1. exec[w].phase \in Working
    BY <1>5, CommitFacts DEF Working
  <2>2. ~AllTerminal(task)
    BY <1>0, <2>1 DEF Exclusive, LeaseAgreement, AllTerminal, Terminal
  <2>3. run'.stage # "completed"
    BY <1>0, <1>5, <2>2, CommitFacts DEF Sealed
  <2>4. \A v \in Workers : tx'[v].op \notin Finalizing
    BY <1>0, <1>1, <1>5, <2>2, CommitFacts, NoTxType DEF Sealed
  <2> QED
    BY <2>3, <2>4 DEF Sealed
<1>6. ASSUME NEW w \in Workers, PgFinalizeCommit(w), HandleAccepted(w) PROVE Sealed'
  <2>1. /\ tx[w].op = "advancing"
        /\ run'.counts = Counts(task) /\ run'.status = deriveRunStatus(tx[w].entries)
        /\ UNCHANGED task
        /\ tx'[w] = NoTx
        /\ \A v \in Workers : v # w => tx'[v] = tx[v]
    BY <1>6, FinalizeFacts
  <2>2. AllTerminal(task) /\ tx[w].entries = PgEntries(task)
    BY <1>0, <2>1 DEF Sealed, Finalizing
  <2>3. \A v \in Workers : tx'[v].op \in Finalizing => tx'[v] = tx[v]
    BY <2>1, NoTxType
  <2>4. run'.status = deriveRunStatus(Entries(task))
    BY <1>0, <2>1, <2>2, PgEntriesType DEF TypeOK
  <2> QED
    BY <1>0, <2>1, <2>2, <2>3, <2>4 DEF Sealed
<1> QED
  BY <1>2, <1>3, <1>4, <1>5, <1>6, PgStepKinds

(* Records that overlap may leave the run row wrong, but not the row of a  *)
(* completed run: its counters and its status are those of its tasks,      *)
(* while leases outlive executions.                                        *)
THEOREM SettledRunHolds == PgSpec => []SettledRun
<1>1. Sealed => SettledRun
  BY DEF Sealed, SettledRun
<1> QED
  BY <1>1, PgTypeCorrect, PgExclusiveInit, PgExclusiveNext, SealedInit, SealedNext, PTL
     DEF PgSpec


-----------------------------------------------------------------------------
(* Types. *)

Image ==
    [task : [Items -> TaskRow], run : RunRow, handles : Seq(Handle), children : Seq(Nat)]

OpenRound == [open : {TRUE}, image : Image, touched : BOOLEAN]

TablesOK ==
    /\ task \in [Items -> TaskRow]
    /\ run \in RunRow
    /\ handles \in Seq(Handle)
    /\ children \in Seq(Nat)

EmbTypeOK ==
    /\ TablesOK
    /\ kind \in Kinds
    /\ exec \in [Workers -> Executor]
    /\ crashes \in Nat /\ stalls \in Nat /\ upsets \in Nat
    /\ backend \in Backends
    /\ round \in {NoRound} \cup OpenRound

LEMMA RoundKinds ==
    ASSUME NEW r \in {NoRound} \cup OpenRound
    PROVE  /\ r.open \in BOOLEAN
           /\ r.open => r \in OpenRound /\ r.image \in Image /\ r.touched \in BOOLEAN
           /\ ~r.open => r = NoRound
<1>1. CASE r = NoRound
  <2>1. NoRound.open = FALSE
    BY DEF NoRound
  <2> QED
    BY <1>1, <2>1
<1>2. CASE r \in OpenRound
  <2>1. r.open = TRUE /\ r.image \in Image /\ r.touched \in BOOLEAN
    BY <1>2 DEF OpenRound
  <2> QED
    BY <1>2, <2>1
<1> QED
  BY <1>1, <1>2

LEMMA ImageKinds ==
    ASSUME NEW s \in Image
    PROVE  /\ s.task \in [Items -> TaskRow] /\ s.run \in RunRow
           /\ s.handles \in Seq(Handle) /\ s.children \in Seq(Nat)
BY DEF Image

(* Whoever writes beside an open round leaves a mark on it, and no more.   *)
LEMMA BesideFacts ==
    ASSUME round \in {NoRound} \cup OpenRound, Beside
    PROVE  /\ round' \in {NoRound} \cup OpenRound
           /\ round'.open = round.open
           /\ round.open => round'.touched = TRUE /\ round'.image = round.image
BY RoundKinds DEF Beside, OpenRound, NoRound

LEMMA TablesFacts ==
    /\ Tables.task = task /\ Tables.run = run
    /\ Tables.handles = handles /\ Tables.children = children
    /\ TablesOK => Tables \in Image
BY DEF Tables, TablesOK, Image

(* Ending a round, or the process, puts the image in place or keeps the    *)
(* tables as they are.                                                     *)
LEMMA InstallFacts ==
    ASSUME NEW s \in Image, Install(s)
    PROVE  /\ TablesOK'
           /\ task' = s.task /\ run' = s.run /\ handles' = s.handles /\ children' = s.children
BY ImageKinds DEF Install, TablesOK

-----------------------------------------------------------------------------
(* The steps, by what they do. *)

(* An executor records an outcome and is done with its claim.              *)
EmbOutcome(w) ==
    \E s \in Terminal \cup {"retryable_failure"} : \E a \in Nat, due \in BOOLEAN, next \in Executor :
        /\ s \in Terminal \/ HasRetriesRemaining(w)
        /\ next.phase \notin Working
        /\ EmbRecord(w, s, a, due, next)

EmbMove(w) ==
    /\ BootstrapMove(w)
    /\ children' \in Seq(Nat)
    /\ Beside \/ UNCHANGED <<round, task, children>>
    /\ UNCHANGED <<backend, upsets>>

EmbFinal(w) ==
    /\ exec[w].phase = "recorded"
    /\ Install(EmbFinalized(Tables))
    /\ Goto(w, "idle")
    /\ Beside
    /\ UNCHANGED <<kind, crashes, stalls, upsets>>

(* It gives up, as a provider threw, or its unit of work was refused.      *)
GivesUp(w) ==
    /\ exec' = [exec EXCEPT ![w] = Idle]
    /\ \/ crashes' = crashes + 1 /\ upsets' = upsets
       \/ crashes' = crashes /\ upsets' = upsets + 1
    /\ UNCHANGED <<kind, task, run, handles, children, stalls, backend, round>>

LEMMA EmbMoves ==
    ASSUME EmbTypeOK, NEW w \in Workers,
           \/ EmbBootstrapState(w)
           \/ /\ assignTaskChildConversation(w) \/ AppendBootstrapEvents(w)
              /\ Beside /\ UNCHANGED upsets
    PROVE  EmbMove(w)
<1>1. BootstrapAction(w)
  BY DEF EmbBootstrapState, BootstrapAction
<1>2. BootstrapMove(w)
  BY <1>1, BootstrapMoves, LenProperties DEF EmbTypeOK, TablesOK, Rows
<1>3. children' \in Seq(Nat)
  <2>1. CASE assignTaskChildConversation(w)
    BY <2>1, AppendProperties DEF assignTaskChildConversation, EmbTypeOK, TablesOK
  <2>2. CASE AppendBootstrapEvents(w)
    <3> DEFINE c == exec[w].child
    <3>1. children' = [children EXCEPT ![c] = children[c] + 1] /\ children \in Seq(Nat) /\ c \in Nat
      BY <2>2 DEF AppendBootstrapEvents, EmbTypeOK, TablesOK, Executor
    <3>2. CASE c \in 1 .. Len(children)
      <4>1. children[c] + 1 \in Nat
        BY <3>1, <3>2
      <4> QED
        BY <3>1, <3>2, <4>1, ExceptSeq
    <3>3. CASE c \notin 1 .. Len(children)
      <4>1. children' = children
        BY <3>1, <3>3
      <4> QED
        BY <3>1, <4>1
    <3> QED
      BY <3>2, <3>3
  <2>3. CASE EmbBootstrapState(w)
    BY <2>3 DEF EmbBootstrapState, ReadChild, getTaskBootstrapState, markBootstrapStarted,
                markBootstrapCompleted, EmbTypeOK, TablesOK
  <2> QED
    BY <2>1, <2>2, <2>3
<1>4. Beside \/ UNCHANGED <<round, task, children>>
  BY DEF EmbBootstrapState, ReadChild, getTaskBootstrapState
<1>5. UNCHANGED <<backend, upsets>>
  BY DEF EmbBootstrapState, Beside
<1> QED
  BY <1>2, <1>3, <1>4, <1>5 DEF EmbMove

LEMMA EmbOutcomes ==
    ASSUME EmbTypeOK, NEW w \in Workers, EmbRecordOutcome(w)
    PROVE  EmbOutcome(w)
<1>0. exec[w] \in Executor /\ exec[w].attempt \in Nat
  BY DEF EmbTypeOK, Executor
<1>1. /\ [exec[w] EXCEPT !.phase = "recorded"] \in Executor
      /\ [exec[w] EXCEPT !.phase = "recorded"].phase \notin Working
      /\ Idle \in Executor /\ Idle.phase \notin Working
  BY <1>0, IdleType DEF Executor, Phase, Working, Bootstrapping, Idle
<1>2. CASE \E s \in Terminal :
             EmbRecord(w, s, exec[w].attempt, TRUE, [exec[w] EXCEPT !.phase = "recorded"])
  <2> DEFINE x == [exec[w] EXCEPT !.phase = "recorded"]
  <2>1. PICK s \in Terminal : EmbRecord(w, s, exec[w].attempt, TRUE, x)
    BY <1>2
  <2>2. x \in Executor /\ x.phase \notin Working
    BY <1>1
  <2> HIDE DEF x
  <2> QED
    BY <1>0, <2>1, <2>2 DEF EmbOutcome
<1>3. CASE HasRetriesRemaining(w) /\ EmbRecord(w, "retryable_failure", 0, FALSE, Idle)
  BY <1>1, <1>3 DEF EmbOutcome
<1> QED
  BY <1>2, <1>3 DEF EmbRecordOutcome

(* Time passes for a row: its claim's executor is gone, or it stalls.      *)
EmbTick(i) == EmbClockStep(i) \/ EmbLeaseExpiresEarly(i)

EmbStepKind ==
    \/ \E w \in Workers :
          EmbClaim(w) \/ EmbOutcome(w) \/ EmbMove(w) \/ EmbFinal(w) \/ GivesUp(w)
    \/ BeginRound \/ EndRound \/ Restart
    \/ \E i \in Items : EmbTick(i)
    \/ UNCHANGED embVars

LEMMA EmbStepKinds == EmbTypeOK /\ [EmbNext]_embVars => EmbStepKind
<1> SUFFICES ASSUME EmbTypeOK, [EmbNext]_embVars PROVE EmbStepKind
  OBVIOUS
<1>1. ASSUME NEW w \in Workers, EmbUow(w) PROVE EmbStepKind
  <2>1. CASE exec[w].phase = "childless"
    <3>1. assignTaskChildConversation(w) /\ Beside /\ UNCHANGED upsets
      BY <1>1, <2>1 DEF EmbUow
    <3> QED
      BY <3>1, EmbMoves DEF EmbStepKind
  <2>2. CASE exec[w].phase = "appending"
    <3>1. AppendBootstrapEvents(w) /\ Beside /\ UNCHANGED upsets
      BY <1>1, <2>2 DEF EmbUow
    <3> QED
      BY <3>1, EmbMoves DEF EmbStepKind
  <2>3. CASE exec[w].phase = "recorded"
    <3>1. EmbFinal(w)
      BY <1>1, <2>3 DEF EmbUow, EmbFinal
    <3> QED
      BY <3>1 DEF EmbStepKind
  <2> QED
    BY <1>1, <2>1, <2>2, <2>3 DEF EmbUow
<1>2. ASSUME NEW w \in Workers, EmbUowFails(w) \/ EmbThrow(w) PROVE EmbStepKind
  <2>1. GivesUp(w)
    BY <1>2 DEF EmbUowFails, EmbThrow, Crash, GivesUp
  <2> QED
    BY <2>1 DEF EmbStepKind
<1>3. ASSUME NEW w \in Workers, EmbBootstrapState(w) PROVE EmbStepKind
  BY <1>3, EmbMoves DEF EmbStepKind
<1>4. ASSUME NEW w \in Workers, EmbRecordOutcome(w) PROVE EmbStepKind
  BY <1>4, EmbOutcomes DEF EmbStepKind
<1>5. ASSUME NEW w \in Workers, EmbPoll(w) PROVE EmbStepKind
  BY <1>5 DEF EmbPoll, EmbStepKind
<1>6. ASSUME NEW w \in Workers, EmbWorkerStep(w) PROVE EmbStepKind
  BY <1>1, <1>2, <1>3, <1>4, <1>5, <1>6 DEF EmbWorkerStep, EmbStepKind
<1>7. CASE BeginRound \/ EndRound \/ Restart \/ UNCHANGED embVars
           \/ \E i \in Items : EmbTick(i)
  BY <1>7 DEF EmbStepKind
<1> QED
  BY <1>2, <1>6, <1>7 DEF EmbNext, EmbTick

-----------------------------------------------------------------------------
(* What each kind of step leaves behind. *)

LEMMA UpdatedRun ==
    ASSUME NEW r \in RunRow, NEW t
    PROVE  /\ updateRunFromTasks(r, t) \in RunRow
           /\ updateRunFromTasks(r, t).counts = Counts(t)
           /\ updateRunFromTasks(r, t).stage = r.stage
           /\ updateRunFromTasks(r, t).artifact = r.artifact
<1>1. MemDerivedStatus(t) \in RunStatus
  BY DEF MemDerivedStatus, RunStatus
<1>2. Counts(t) \in [TaskStatus -> Nat]
  BY ItemSets DEF Counts, WithStatus
<1>3. CASE backend = "memory"
  BY <1>1, <1>2, <1>3 DEF updateRunFromTasks, RunRow
<1>4. CASE backend # "memory"
  <2>1. refreshRunFromTasks(r, t).counts = Counts(t)
    BY DEF refreshRunFromTasks, RunRow
  <2> QED
    BY <1>4, <2>1, RefreshType DEF updateRunFromTasks
<1> QED
  BY <1>3, <1>4

ClaimedItem(w, i) ==
    /\ exec[w].phase = "idle"
    /\ i \in EmbClaimable(task)
    /\ task[i].status \notin Terminal
    /\ ~(task[i].status = "running" /\ task[i].lease = "live")
    /\ task' \in [Items -> TaskRow]
    /\ task'[i] = ClaimedRow(task[i])
    /\ \A j \in Items : j # i => task'[j] = task[j]
    /\ exec' \in [Workers -> Executor]
    /\ exec'[w].phase \in Working /\ exec'[w].item = i
    /\ exec'[w].attempt = task[i].attempts + 1
    /\ \A v \in Workers : v # w => exec'[v] = exec[v]

LEMMA EmbClaimFacts ==
    ASSUME EmbTypeOK, NEW w \in Workers, EmbClaim(w)
    PROVE  /\ \E i \in Items : ClaimedItem(w, i)
           /\ run' = updateRunFromTasks(run, task')
           /\ Beside
           /\ UNCHANGED <<kind, handles, children, crashes, stalls, upsets, backend>>
<1>0. task \in [Items -> TaskRow] /\ exec \in [Workers -> Executor]
  BY DEF EmbTypeOK, TablesOK
<1>1. PICK i \in EmbClaimable(task) :
        /\ task' = [task EXCEPT ![i] = ClaimedRow(task[i])]
        /\ exec' = [exec EXCEPT ![w] =
                      [phase |-> IF kind = "llmMap" THEN "executing" ELSE "claimed",
                       item |-> i, attempt |-> task[i].attempts + 1, child |-> 0]]
  BY DEF EmbClaim
<1>2. /\ i \in Items /\ task[i].status \notin Terminal
      /\ ~(task[i].status = "running" /\ task[i].lease = "live")
  BY DEF EmbClaimable, MemClaimable, Claimable, Reclaimable, Terminal
<1> DEFINE x == [phase |-> IF kind = "llmMap" THEN "executing" ELSE "claimed",
                 item |-> i, attempt |-> task[i].attempts + 1, child |-> 0]
<1>3. /\ x \in Executor /\ x.phase \in Working /\ x.item = i
      /\ x.attempt = task[i].attempts + 1
  BY <1>0, <1>2 DEF Executor, TaskRow, Phase, Working, Bootstrapping
<1>4. ClaimedRow(task[i]) \in TaskRow
  BY <1>0, <1>2, ClaimedRowFacts
<1>5. exec' = [exec EXCEPT ![w] = x]
  BY <1>1
<1> HIDE DEF x
<1>6. /\ exec' \in [Workers -> Executor] /\ exec'[w] = x
      /\ \A v \in Workers : v # w => exec'[v] = exec[v]
  BY <1>0, <1>3, <1>5
<1>7. /\ task' \in [Items -> TaskRow] /\ task'[i] = ClaimedRow(task[i])
      /\ \A j \in Items : j # i => task'[j] = task[j]
  BY <1>0, <1>1, <1>2, <1>4
<1>8. ClaimedItem(w, i)
  BY <1>2, <1>3, <1>6, <1>7 DEF ClaimedItem, EmbClaim
<1> QED
  BY <1>2, <1>8 DEF EmbClaim, Beside

(* The row of the item is in one of the three states an outcome leaves.    *)
RecordedItem(w, s) ==
    /\ exec[w].phase \in Working
    /\ s \in TaskStatus \ {"running"}
    /\ s \in Terminal \/ HasRetriesRemaining(w)
    /\ task' \in [Items -> TaskRow]
    /\ task'[exec[w].item].status = s /\ task'[exec[w].item].lease = "none"
    /\ task'[exec[w].item].attempts = task[exec[w].item].attempts
    /\ \A j \in Items : j # exec[w].item => task'[j] = task[j]
    /\ exec' \in [Workers -> Executor]
    /\ exec'[w].phase \notin Working
    /\ \A v \in Workers : v # w => exec'[v] = exec[v]

LEMMA EmbOutcomeFacts ==
    ASSUME EmbTypeOK, NEW w \in Workers, EmbOutcome(w)
    PROVE  /\ \E s \in TaskStatus : RecordedItem(w, s)
           /\ run' = updateRunFromTasks(run, task')
           /\ Beside
           /\ UNCHANGED <<kind, handles, children, crashes, stalls, upsets, backend>>
<1>0. /\ task \in [Items -> TaskRow] /\ exec \in [Workers -> Executor]
      /\ exec[w].item \in Items
  BY DEF EmbTypeOK, TablesOK, Executor
<1>1. PICK s \in Terminal \cup {"retryable_failure"}, a \in Nat, due \in BOOLEAN, x \in Executor :
        /\ s \in Terminal \/ HasRetriesRemaining(w)
        /\ x.phase \notin Working
        /\ EmbRecord(w, s, a, due, x)
  BY DEF EmbOutcome
<1>2. s \in TaskStatus \ {"running"}
  BY DEF Terminal, TaskStatus
<1> DEFINE i == exec[w].item
           r == RecordedRow(task[i], s, a, due)
<1>3. r \in TaskRow /\ r.status = s /\ r.lease = "none" /\ r.attempts = task[i].attempts
  BY <1>0, <1>2, RecordedRowFacts
<1>4. /\ task' = [task EXCEPT ![i] = r] /\ exec' = [exec EXCEPT ![w] = x]
      /\ exec[w].phase \in Working
  BY <1>1 DEF EmbRecord, Working
<1> HIDE DEF r
<1>5. RecordedItem(w, s)
  BY <1>0, <1>1, <1>2, <1>3, <1>4 DEF RecordedItem
<1> QED
  BY <1>1, <1>2, <1>5 DEF EmbRecord, Beside

(* A finalization leaves the task rows alone, and completes a run of which *)
(* all tasks are terminal and which is not completed yet, or nothing.      *)
Completes ==
    /\ AllTerminal(task) /\ Unfinalized(run)
    /\ run'.counts = Counts(task) /\ run'.stage = "completed"
    /\ run'.status = deriveRunStatus(Entries(task))
    /\ run'.artifact = Entries(task)
    /\ handles' = Append(handles, [status |-> deriveRunStatus(Entries(task)),
                                   artifact |-> Entries(task)])

LEMMA EmbFinalFacts ==
    ASSUME EmbTypeOK, NEW w \in Workers, EmbFinal(w)
    PROVE  /\ TablesOK' /\ UNCHANGED <<task, children>>
           /\ Completes \/ UNCHANGED <<run, handles>>
           /\ exec[w].phase \notin Working
           /\ exec' \in [Workers -> Executor] /\ exec'[w].phase \notin Working
           /\ \A v \in Workers : v # w => exec'[v] = exec[v]
           /\ Beside
           /\ UNCHANGED <<kind, crashes, stalls, upsets, backend>>
<1>0. /\ exec[w] \in Executor /\ exec \in [Workers -> Executor] /\ task \in [Items -> TaskRow]
      /\ run \in RunRow /\ handles \in Seq(Handle) /\ Tables \in Image
  BY TablesFacts DEF EmbTypeOK, TablesOK
<1>1. /\ exec[w].phase \notin Working
      /\ exec' \in [Workers -> Executor] /\ exec'[w].phase \notin Working
      /\ \A v \in Workers : v # w => exec'[v] = exec[v]
  <2> DEFINE x == [exec[w] EXCEPT !.phase = "idle"]
  <2>1. x \in Executor /\ x.phase \notin Working
    BY <1>0 DEF Executor, Phase, Working, Bootstrapping
  <2>2. exec' = [exec EXCEPT ![w] = x]
    BY DEF EmbFinal, Goto
  <2> HIDE DEF x
  <2>3. exec' \in [Workers -> Executor] /\ exec'[w] = x /\ \A v \in Workers : v # w => exec'[v] = exec[v]
    BY <1>0, <2>1, <2>2
  <2> QED
    BY <2>1, <2>3 DEF EmbFinal, Working, Bootstrapping
<1>2. CASE AllTerminal(task) /\ Unfinalized(run)
  <2> DEFINE e == Entries(task)
             d == deriveRunStatus(e)
             q == [run EXCEPT !.counts = Counts(task), !.stage = "completed", !.status = d,
                              !.artifact = e, !.needsRetry = FALSE]
             h == [status |-> d, artifact |-> e]
  <2>1. e \in Artifact /\ d \in RunStatus /\ Counts(task) \in [TaskStatus -> Nat]
    BY <1>0, EntriesType, ItemSets DEF Counts, WithStatus
  <2>2. EmbFinalized(Tables) = [Tables EXCEPT !.run = q, !.handles = Append(handles, h)]
    BY <1>2, TablesFacts DEF EmbFinalized
  <2>3. /\ q \in RunRow /\ q.counts = Counts(task) /\ q.stage = "completed"
        /\ q.status = d /\ q.artifact = e
    BY <1>0, <2>1 DEF RunRow
  <2>4. h \in Handle /\ Append(handles, h) \in Seq(Handle)
    BY <1>0, <2>1, AppendProperties DEF Handle
  <2> HIDE DEF q, h
  <2>5. /\ task' = task /\ children' = children
        /\ run' = q /\ handles' = Append(handles, h)
    BY <2>2, TablesFacts DEF EmbFinal, Install, Tables
  <2>6. TablesOK' /\ UNCHANGED <<task, children>>
    BY <2>3, <2>4, <2>5 DEF EmbTypeOK, TablesOK
  <2>7. Completes
    BY <1>2, <2>3, <2>5 DEF Completes, h
  <2> QED
    BY <1>1, <2>6, <2>7 DEF EmbFinal, Beside
<1>3. CASE ~(AllTerminal(task) /\ Unfinalized(run))
  <2>1. EmbFinalized(Tables) = Tables
    BY <1>3, TablesFacts DEF EmbFinalized
  <2>2. UNCHANGED <<task, run, handles, children>>
    BY <2>1, TablesFacts DEF EmbFinal, Install
  <2> QED
    BY <1>1, <2>2 DEF EmbFinal, Beside, EmbTypeOK, TablesOK
<1> QED
  BY <1>2, <1>3

-----------------------------------------------------------------------------
(* Rounds.  One that nobody wrote beside has the tables as its image.      *)

RoundFaithful == round.open /\ ~round.touched => round.image = Tables

TablesKept == UNCHANGED <<task, run, handles, children>>

Restored ==
    /\ round.open
    /\ task' = round.image.task
    /\ run' = round.image.run
    /\ handles' = round.image.handles
    /\ children' = round.image.children

LEMMA KeptOrRestored ==
    ASSUME EmbTypeOK, TablesKept \/ Restored
    PROVE  TablesOK'
<1>1. CASE TablesKept
  BY <1>1 DEF TablesKept, EmbTypeOK, TablesOK
<1>2. CASE Restored
  <2>1. round.image \in Image
    BY <1>2, RoundKinds DEF Restored, EmbTypeOK
  <2> QED
    BY <1>2, <2>1, ImageKinds DEF Restored, TablesOK
<1> QED
  BY <1>1, <1>2

LEMMA InstallKeeps == Install(Tables) => TablesKept
BY TablesFacts DEF Install, TablesKept

LEMMA InstallRestores == round.open /\ Install(round.image) => Restored
BY DEF Install, Restored

(* The end of a round loses what was written beside it, at the price of an *)
(* upset, or nothing.                                                      *)
LEMMA EndFacts ==
    ASSUME EmbTypeOK, RoundFaithful, EndRound
    PROVE  /\ \/ TablesKept /\ upsets' = upsets
              \/ Restored /\ upsets' = upsets + 1
           /\ round' = NoRound
           /\ UNCHANGED <<kind, exec, crashes, stalls, backend>>
<1>0. round' = NoRound /\ UNCHANGED <<kind, exec, crashes, stalls, backend>>
  BY DEF EndRound
<1>1. PICK committed \in BOOLEAN :
        /\ Install(Left(committed))
        /\ upsets' = IF round.touched /\ committed = (backend = "memory")
                     THEN upsets + 1 ELSE upsets
  BY DEF EndRound
<1>2. round.open /\ round.touched \in BOOLEAN
  BY RoundKinds DEF EndRound, EmbTypeOK
<1>3. CASE committed = (backend = "memory")
  <2>1. Install(round.image)
    BY <1>1, <1>3 DEF Left
  <2>2. CASE round.touched
    <3>1. Restored
      BY <1>2, <2>1, InstallRestores
    <3>2. upsets' = upsets + 1
      BY <1>1, <1>3, <2>2
    <3> QED
      BY <1>0, <3>1, <3>2
  <2>3. CASE ~round.touched
    <3>1. TablesKept
      BY <1>2, <2>1, <2>3, InstallKeeps DEF RoundFaithful
    <3>2. upsets' = upsets
      BY <1>1, <2>3
    <3> QED
      BY <1>0, <3>1, <3>2
  <2> QED
    BY <2>2, <2>3
<1>4. CASE committed # (backend = "memory")
  <2>1. TablesKept
    BY <1>1, <1>4, InstallKeeps DEF Left
  <2>2. upsets' = upsets
    BY <1>1, <1>4
  <2> QED
    BY <1>0, <2>1, <2>2
<1> QED
  BY <1>3, <1>4

LEMMA RestartFacts ==
    ASSUME EmbTypeOK, Restart
    PROVE  /\ TablesKept \/ Restored
           /\ exec' = [w \in Workers |-> Idle]
           /\ crashes' = crashes + 1
           /\ round' = NoRound
           /\ UNCHANGED <<kind, stalls, backend, upsets>>
<1>1. CASE round.open
  BY <1>1, InstallRestores DEF Restart
<1>2. CASE ~round.open
  BY <1>2, InstallKeeps DEF Restart
<1> QED
  BY <1>1, <1>2 DEF Restart

LEMMA BeginFacts ==
    ASSUME EmbTypeOK, BeginRound
    PROVE  /\ round' \in OpenRound /\ round'.open /\ round'.image = Tables
           /\ UNCHANGED vars /\ UNCHANGED <<backend, upsets>>
<1>1. Tables \in Image
  BY TablesFacts DEF EmbTypeOK
<1> DEFINE r == [open |-> TRUE, image |-> Tables, touched |-> FALSE]
<1>2. r \in OpenRound /\ r.open /\ r.image = Tables
  BY <1>1 DEF OpenRound
<1>3. round' = r
  BY DEF BeginRound
<1> HIDE DEF r
<1> QED
  BY <1>2, <1>3 DEF BeginRound

(* The clock changes one row's lease or backoff, no other column, and the  *)
(* same in the image of an open round unless the image has another claim.  *)
ClockedRow(r, q) ==
    /\ q \in TaskRow
    /\ q.status = r.status /\ q.attempts = r.attempts /\ q.answer = r.answer
    /\ q.status = "running" => q.lease \in {r.lease, "expired"}

ClockedTable(t, u) == u \in [Items -> TaskRow] /\ \A j \in Items : ClockedRow(t[j], u[j])

LEMMA ClockedKept ==
    ASSUME NEW t \in [Items -> TaskRow]
    PROVE  ClockedTable(t, t)
BY DEF ClockedTable, ClockedRow

LEMMA ClockedUpdate ==
    ASSUME NEW t \in [Items -> TaskRow], NEW i \in Items, NEW r \in TaskRow,
           ClockedRow(t[i], r)
    PROVE  ClockedTable(t, [t EXCEPT ![i] = r])
BY DEF ClockedTable, ClockedRow

LEMMA EmbClockFacts ==
    ASSUME EmbTypeOK, NEW i \in Items, EmbTick(i)
    PROVE  /\ ClockedTable(task, task')
           /\ \/ /\ stalls' = stalls
                 /\ \A j \in Items : task'[j].lease = task[j].lease
                                     \/ ~ \E w \in Workers : Holds(w, j)
              \/ stalls' = stalls + 1
           /\ stalls' \in Nat
           /\ round' \in {NoRound} \cup OpenRound /\ round'.open = round.open
           /\ round.open =>
                /\ ClockedTable(round.image.task, round'.image.task)
                /\ round'.image.run = round.image.run
                /\ round'.image.handles = round.image.handles
                /\ round'.touched = round.touched
                /\ round.image = Tables => round'.image = Tables'
           /\ UNCHANGED <<kind, run, handles, children, exec, crashes, upsets, backend>>
<1>0. task \in [Items -> TaskRow] /\ task[i] \in TaskRow /\ stalls \in Nat
  BY DEF EmbTypeOK, TablesOK
<1>1. PICK r \in {ExpiredRow(task[i]), DueRow(task[i])} :
        /\ task' = [task EXCEPT ![i] = r]
        /\ r = ExpiredRow(task[i]) \/ task[i].status # "running"
        /\ \/ stalls' = stalls /\ (r = DueRow(task[i]) \/ ~ \E w \in Workers : Holds(w, i))
           \/ stalls' = stalls + 1
  <2>1. CASE BackoffElapses(i)
    BY <2>1 DEF BackoffElapses
  <2>2. CASE LeaseExpires(i)
    BY <2>2 DEF LeaseExpires, ExpireLease
  <2>3. CASE LeaseExpiresEarly(i)
    BY <2>3 DEF LeaseExpiresEarly, ExpireLease
  <2> QED
    BY <2>1, <2>2, <2>3 DEF EmbTick, EmbClockStep, EmbLeaseExpiresEarly, ClockStep
<1>2. /\ ClockedRow(task[i], r) /\ r \in TaskRow
      /\ r.status = task[i].status
      /\ r.status = "running" => r.lease = "expired"
  <2>1. ExpiredRow(task[i]).lease = "expired"
    BY <1>0 DEF ExpiredRow, TaskRow
  <2> QED
    BY <1>0, <1>1, <2>1, QuietRowFacts DEF ClockedRow
<1>3. ClockedTable(task, task')
  BY <1>0, <1>1, <1>2, ClockedUpdate
<1>4. DueRow(task[i]).lease = task[i].lease
  BY <1>0 DEF DueRow, TaskRow
<1>5. /\ \/ /\ stalls' = stalls
            /\ \A j \in Items : task'[j].lease = task[j].lease
                                \/ ~ \E w \in Workers : Holds(w, j)
         \/ stalls' = stalls + 1
      /\ stalls' \in Nat
  <2>1. \A j \in Items : task'[j] = IF j = i THEN r ELSE task[j]
    BY <1>0, <1>1, <1>2
  <2> QED
    BY <1>0, <1>1, <1>4, <2>1
<1>6. /\ UNCHANGED <<kind, run, handles, children, exec, crashes, upsets, backend>>
      /\ round' = Aged(i)
  BY DEF EmbTick, EmbClockStep, EmbLeaseExpiresEarly, ClockStep, LeaseExpires, LeaseExpiresEarly,
         ExpireLease, BackoffElapses
<1>7. task'[i] = r
  BY <1>0, <1>1
<1>8. CASE ~(round.open /\ SameClaim(round.image.task[i], task[i]))
  <2>1. round' = round
    BY <1>6, <1>8 DEF Aged
  <2>2. round.open => ClockedTable(round.image.task, round'.image.task)
    BY <2>1, RoundKinds, ImageKinds, ClockedKept DEF EmbTypeOK
  <2>3. round.open => round.image # Tables
    BY <1>8, TablesFacts DEF SameClaim
  <2> QED
    BY <1>3, <1>5, <1>6, <2>1, <2>2, <2>3 DEF EmbTypeOK
<1>9. CASE round.open /\ SameClaim(round.image.task[i], task[i])
  <2> DEFINE m == round.image
             t == m.task
             q == [t[i] EXCEPT !.lease = r.lease, !.retryDue = r.retryDue]
             u == [t EXCEPT ![i] = q]
  <2>1. round \in OpenRound /\ m \in Image /\ t \in [Items -> TaskRow] /\ t[i] \in TaskRow
    BY <1>9, RoundKinds, ImageKinds DEF EmbTypeOK
  <2>2. round' = [round EXCEPT !.image = [m EXCEPT !.task = u]]
    BY <1>6, <1>7, <1>9 DEF Aged
  <2>3. ClockedTable(t, u) /\ u \in [Items -> TaskRow]
    <3>1. /\ q \in TaskRow /\ q.lease = r.lease
          /\ q.status = t[i].status /\ q.attempts = t[i].attempts /\ q.answer = t[i].answer
      BY <1>2, <2>1 DEF TaskRow
    <3>2. t[i].status = task[i].status
      BY <1>9 DEF SameClaim
    <3>3. ClockedRow(t[i], q)
      BY <1>2, <3>1, <3>2 DEF ClockedRow
    <3> HIDE DEF q
    <3> QED
      BY <2>1, <3>1, <3>3, ClockedUpdate DEF ClockedTable
  <2>4. t[i] = task[i] => q = r
    <3>1. r.retryDue = task[i].retryDue \/ r.lease = task[i].lease
      BY <1>0, <1>1 DEF ExpiredRow, DueRow, TaskRow
    <3> QED
      BY <1>0, <1>1 DEF ExpiredRow, DueRow, TaskRow
  <2> HIDE DEF q
  <2>5. [m EXCEPT !.task = u] \in Image
    BY <2>1, <2>3 DEF Image
  <2>6. /\ [m EXCEPT !.task = u].task = u /\ [m EXCEPT !.task = u].run = m.run
        /\ [m EXCEPT !.task = u].handles = m.handles
    BY <2>1 DEF Image
  <2>7. /\ round' \in OpenRound /\ round'.open = TRUE
        /\ round'.image = [m EXCEPT !.task = u] /\ round'.touched = round.touched
    BY <2>1, <2>2, <2>5 DEF OpenRound
  <2>8. m = Tables => round'.image = Tables'
    <3>1. SUFFICES ASSUME m = Tables PROVE round'.image = Tables'
      OBVIOUS
    <3>2. t = task /\ u = task'
      BY <1>1, <2>4, <3>1, TablesFacts
    <3>3. [m EXCEPT !.task = u] = [task |-> u, run |-> run, handles |-> handles, children |-> children]
      BY <3>1 DEF Tables
    <3> QED
      BY <1>6, <2>7, <3>2, <3>3 DEF Tables
  <2> HIDE DEF u
  <2> QED
    BY <1>3, <1>5, <1>6, <1>9, <2>3, <2>6, <2>7, <2>8
<1> QED
  BY <1>8, <1>9

-----------------------------------------------------------------------------
(* Type correctness, and that an unmarked round has the tables as they are.*)

EmbState == EmbTypeOK /\ RoundFaithful

LEMMA EmbStateInit == EmbInit => EmbState
<1> SUFFICES ASSUME EmbInit PROVE EmbState
  OBVIOUS
<1>1. TypeOK /\ stalls = 0 /\ crashes = 0
  BY InitType DEF EmbInit, Init
<1>2. EmbTypeOK
  BY <1>1 DEF EmbInit, EmbTypeOK, TablesOK, TypeOK
<1>3. ~round.open
  BY DEF EmbInit, NoRound
<1> QED
  BY <1>2, <1>3 DEF EmbState, RoundFaithful

LEMMA EmbStateNext == EmbState /\ [EmbNext]_embVars => EmbState'
<1> SUFFICES ASSUME EmbState, [EmbNext]_embVars PROVE EmbState'
  OBVIOUS
<1>0. EmbTypeOK /\ RoundFaithful /\ TablesOK /\ round \in {NoRound} \cup OpenRound
  BY DEF EmbState, EmbTypeOK
<1>1. ASSUME TablesOK', exec' \in [Workers -> Executor], Beside,
             UNCHANGED <<kind, crashes, stalls, upsets, backend>>
      PROVE  EmbState'
  <2>1. EmbTypeOK'
    BY <1>0, <1>1, BesideFacts DEF EmbTypeOK
  <2>2. round'.open => round'.touched = TRUE
    BY <1>0, <1>1, BesideFacts
  <2> QED
    BY <2>1, <2>2 DEF EmbState, RoundFaithful
<1>2. ASSUME TablesOK', exec' \in [Workers -> Executor], round' = NoRound,
             crashes' \in Nat, upsets' \in Nat, UNCHANGED <<kind, stalls, backend>>
      PROVE  EmbState'
  <2>1. ~round'.open
    BY <1>2 DEF NoRound
  <2> QED
    BY <1>0, <1>2, <2>1 DEF EmbTypeOK, EmbState, RoundFaithful
<1>3. ASSUME UNCHANGED <<task, run, handles, children, round>>,
             exec' \in [Workers -> Executor], crashes' \in Nat, upsets' \in Nat,
             UNCHANGED <<kind, stalls, backend>>
      PROVE  EmbState'
  <2>1. TablesOK' /\ Tables' = Tables
    BY <1>0, <1>3 DEF TablesOK, Tables
  <2> QED
    BY <1>0, <1>3, <2>1 DEF EmbTypeOK, EmbState, RoundFaithful
<1>4. ASSUME NEW w \in Workers, EmbClaim(w) PROVE EmbState'
  <2>1. PICK i \in Items : ClaimedItem(w, i)
    BY <1>0, <1>4, EmbClaimFacts
  <2>2. run' \in RunRow
    BY <1>0, <1>4, EmbClaimFacts, UpdatedRun DEF TablesOK
  <2>3. Beside /\ UNCHANGED <<kind, handles, children, crashes, stalls, upsets, backend>>
    BY <1>0, <1>4, EmbClaimFacts
  <2>4. TablesOK' /\ exec' \in [Workers -> Executor]
    BY <1>0, <2>1, <2>2, <2>3 DEF TablesOK, ClaimedItem
  <2> QED
    BY <1>1, <2>3, <2>4
<1>5. ASSUME NEW w \in Workers, EmbOutcome(w) PROVE EmbState'
  <2>1. PICK s \in TaskStatus : RecordedItem(w, s)
    BY <1>0, <1>5, EmbOutcomeFacts
  <2>2. run' \in RunRow
    BY <1>0, <1>5, EmbOutcomeFacts, UpdatedRun DEF TablesOK
  <2>3. Beside /\ UNCHANGED <<kind, handles, children, crashes, stalls, upsets, backend>>
    BY <1>0, <1>5, EmbOutcomeFacts
  <2>4. TablesOK' /\ exec' \in [Workers -> Executor]
    BY <1>0, <2>1, <2>2, <2>3 DEF TablesOK, RecordedItem
  <2> QED
    BY <1>1, <2>3, <2>4
<1>6. ASSUME NEW w \in Workers, EmbMove(w) PROVE EmbState'
  <2>1. /\ TablesOK' /\ exec' \in [Workers -> Executor]
        /\ UNCHANGED <<kind, run, handles, crashes, stalls, backend, upsets>>
    BY <1>0, <1>6 DEF EmbMove, BootstrapMove, TablesOK
  <2>2. CASE Beside
    BY <1>1, <2>1, <2>2
  <2>3. CASE UNCHANGED <<round, task, children>>
    BY <1>0, <1>3, <2>1, <2>3 DEF EmbTypeOK
  <2> QED
    BY <1>6, <2>2, <2>3 DEF EmbMove
<1>7. ASSUME NEW w \in Workers, EmbFinal(w) PROVE EmbState'
  BY <1>0, <1>1, <1>7, EmbFinalFacts
<1>8. ASSUME NEW w \in Workers, GivesUp(w) PROVE EmbState'
  <2>1. exec' \in [Workers -> Executor]
    BY <1>0, <1>8, IdleType DEF GivesUp, EmbTypeOK
  <2>2. crashes' \in Nat /\ upsets' \in Nat
    BY <1>0, <1>8 DEF GivesUp, EmbTypeOK
  <2> QED
    BY <1>3, <1>8, <2>1, <2>2 DEF GivesUp
<1>9. CASE BeginRound
  <2>1. UNCHANGED <<vars, backend, upsets>> /\ round' \in OpenRound /\ round'.image = Tables
    BY <1>0, <1>9, BeginFacts
  <2>2. Tables' = Tables
    BY <2>1 DEF vars, Tables
  <2> QED
    BY <1>0, <2>1, <2>2 DEF vars, EmbTypeOK, TablesOK, EmbState, RoundFaithful
<1>10. CASE EndRound
  <2>1. TablesOK'
    BY <1>0, <1>10, EndFacts, KeptOrRestored
  <2>2. upsets' \in Nat
    BY <1>0, <1>10, EndFacts DEF EmbTypeOK
  <2> QED
    BY <1>0, <1>2, <1>10, <2>1, <2>2, EndFacts DEF EmbTypeOK
<1>11. CASE Restart
  <2>1. TablesOK'
    BY <1>0, <1>11, RestartFacts, KeptOrRestored
  <2>2. exec' \in [Workers -> Executor] /\ crashes' \in Nat
    BY <1>0, <1>11, RestartFacts, IdleType DEF EmbTypeOK
  <2> QED
    BY <1>0, <1>2, <1>11, <2>1, <2>2, RestartFacts DEF EmbTypeOK
<1>12. ASSUME NEW i \in Items, EmbTick(i) PROVE EmbState'
  <2>1. TablesOK'
    BY <1>0, <1>12, EmbClockFacts DEF ClockedTable, TablesOK
  <2>2. EmbTypeOK'
    BY <1>0, <1>12, <2>1, EmbClockFacts DEF EmbTypeOK
  <2>3. RoundFaithful'
    BY <1>0, <1>12, EmbClockFacts DEF RoundFaithful
  <2> QED
    BY <2>2, <2>3 DEF EmbState
<1>13. CASE UNCHANGED embVars
  BY <1>0, <1>3, <1>13 DEF embVars, vars, EmbTypeOK
<1> QED
  BY <1>0, <1>4, <1>5, <1>6, <1>7, <1>8, <1>9, <1>10, <1>11, <1>12, <1>13, EmbStepKinds
  DEF EmbStepKind

(* Rounds that restore and undo whole tables leave rows and rounds of      *)
(* their types, and one nobody wrote beside has the tables as they are.    *)
THEOREM EmbTypeCorrect == EmbSpec => [](EmbTypeOK /\ RoundFaithful)
<1>1. EmbState => EmbTypeOK /\ RoundFaithful
  BY DEF EmbState
<1> QED
  BY <1>1, EmbStateInit, EmbStateNext, PTL DEF EmbSpec

-----------------------------------------------------------------------------
(* What a step does to the tables, and to the image of an open round.      *)

(* Executors give up, or writes are lost, at the price of one crash or     *)
(* upset.  Only a crash of everybody loses writes without an upset.        *)
Loss ==
    /\ TablesKept \/ (Restored /\ ~round'.open)
    /\ \A w \in Workers : exec'[w] \in {exec[w], Idle}
    /\ \/ crashes' = crashes + 1 /\ upsets' = upsets
       \/ crashes' = crashes /\ upsets' = upsets + 1
    /\ stalls' = stalls
    /\ TablesKept \/ upsets' # upsets \/ \A w \in Workers : exec'[w] = Idle

TableStep ==
    \/ \E w \in Workers : EmbClaim(w) \/ EmbOutcome(w) \/ EmbMove(w) \/ EmbFinal(w)
    \/ \E i \in Items : EmbTick(i)
    \/ TablesKept /\ UNCHANGED <<exec, crashes, stalls, upsets>>
    \/ Loss

ImageStep ==
    round'.open =>
        \/ /\ round.open
           /\ ClockedTable(round.image.task, round'.image.task)
           /\ round'.image.run = round.image.run
           /\ round'.image.handles = round.image.handles
        \/ round'.image = Tables /\ TablesKept

LEMMA EmbTableSteps ==
    ASSUME EmbState, [EmbNext]_embVars
    PROVE  TableStep /\ ImageStep /\ backend' = backend
<1>0. EmbTypeOK /\ RoundFaithful /\ round \in {NoRound} \cup OpenRound
  BY DEF EmbState, EmbTypeOK
<1>1. ASSUME round'.open => round.open /\ round'.image = round.image
      PROVE  ImageStep
  BY <1>0, <1>1, RoundKinds, ImageKinds, ClockedKept DEF ImageStep
<1>2. ~NoRound.open
  BY DEF NoRound
<1>3. ASSUME NEW w \in Workers, EmbClaim(w) \/ EmbOutcome(w) \/ EmbFinal(w)
      PROVE  TableStep /\ ImageStep /\ backend' = backend
  <2>1. Beside /\ backend' = backend
    BY <1>0, <1>3, EmbClaimFacts, EmbOutcomeFacts, EmbFinalFacts
  <2> QED
    BY <1>0, <1>1, <1>3, <2>1, BesideFacts DEF TableStep
<1>4. ASSUME NEW w \in Workers, EmbMove(w)
      PROVE  TableStep /\ ImageStep /\ backend' = backend
  BY <1>0, <1>1, <1>4, BesideFacts DEF EmbMove, TableStep
<1>5. ASSUME NEW w \in Workers, GivesUp(w)
      PROVE  TableStep /\ ImageStep /\ backend' = backend
  <2>1. TablesKept /\ round' = round /\ backend' = backend
    BY <1>5 DEF GivesUp, TablesKept
  <2>2. \A v \in Workers : exec'[v] \in {exec[v], Idle}
    BY <1>0, <1>5 DEF GivesUp, EmbTypeOK
  <2> QED
    BY <1>1, <1>5, <2>1, <2>2 DEF GivesUp, Loss, TableStep
<1>6. CASE BeginRound
  BY <1>0, <1>6, BeginFacts DEF TableStep, ImageStep, TablesKept, vars
<1>7. CASE EndRound
  <2>1. /\ round' = NoRound /\ UNCHANGED <<backend, crashes, stalls, exec>>
        /\ \/ TablesKept /\ upsets' = upsets
           \/ Restored /\ upsets' = upsets + 1
    BY <1>0, <1>7, EndFacts
  <2>2. upsets + 1 # upsets
    BY <1>0 DEF EmbTypeOK
  <2> QED
    BY <1>1, <1>2, <2>1, <2>2 DEF TableStep, Loss
<1>8. CASE Restart
  BY <1>0, <1>1, <1>2, <1>8, RestartFacts DEF TableStep, Loss
<1>9. ASSUME NEW i \in Items, EmbTick(i)
      PROVE  TableStep /\ ImageStep /\ backend' = backend
  BY <1>0, <1>9, EmbClockFacts DEF TableStep, ImageStep
<1>10. CASE UNCHANGED embVars
  BY <1>1, <1>10 DEF embVars, vars, TableStep, TablesKept
<1> QED
  BY <1>0, <1>3, <1>4, <1>5, <1>6, <1>7, <1>8, <1>9, <1>10, EmbStepKinds DEF EmbStepKind

-----------------------------------------------------------------------------
(* The concurrency limit.  In memory it is kept by all running rows, since *)
(* expired leases are taken over before anything else is claimed; in       *)
(* SQLite by those whose lease is live, since only they are counted.       *)

Taken(t) == IF backend = "memory" THEN WithStatus(t, "running") ELSE LiveLeases(t)

Within(t) ==
    /\ \A i \in Items : t[i].status = "running" => t[i].lease # "none"
    /\ Cardinality(Taken(t)) <= ConcurrencyLimit

EmbWithin == Within(task) /\ (round.open => Within(round.image.task))

LEMMA TakenKinds ==
    ASSUME NEW t
    PROVE  /\ Taken(t) \in SUBSET Items
           /\ Taken(t) \subseteq WithStatus(t, "running")
           /\ LiveLeases(t) \subseteq Taken(t)
           /\ IsFiniteSet(Taken(t)) /\ Cardinality(Taken(t)) \in Nat
<1>1. Taken(t) \in SUBSET Items
  BY DEF Taken, WithStatus, LiveLeases
<1> QED
  BY <1>1, ItemSets DEF Taken, WithStatus, LiveLeases

LEMMA WithinFewer ==
    ASSUME NEW t, NEW u, Within(t),
           \A j \in Items : u[j].status = "running" =>
               t[j].status = "running" /\ u[j].lease \in {t[j].lease, "expired"}
    PROVE  Within(u)
<1>1. Taken(u) \subseteq Taken(t)
  BY DEF Taken, WithStatus, LiveLeases
<1>2. Cardinality(Taken(u)) <= Cardinality(Taken(t))
  BY <1>1, TakenKinds, FS_Subset
<1>3. \A m, n \in Nat : m <= n /\ n <= ConcurrencyLimit => m <= ConcurrencyLimit
  BY LimitAssumption
<1> QED
  BY <1>2, <1>3, TakenKinds DEF Within

LEMMA WithinClaimed ==
    ASSUME EmbTypeOK, NEW w \in Workers, NEW i \in Items, ClaimedItem(w, i), Within(task)
    PROVE  Within(task')
<1>1. /\ task'[i].status = "running" /\ task'[i].lease = "live"
      /\ \A j \in Items : j # i => task'[j] = task[j]
      /\ i \in EmbClaimable(task)
  BY ClaimedRowFacts DEF ClaimedItem, EmbTypeOK, TablesOK
<1>2. \A j \in Items : task'[j].status = "running" => task'[j].lease # "none"
  BY <1>1 DEF Within
<1>3. Taken(task') \in SUBSET (Taken(task) \cup {i})
  BY <1>1 DEF Taken, WithStatus, LiveLeases
<1>4. CASE Taken(task') \subseteq Taken(task)
  <2>1. Cardinality(Taken(task')) <= Cardinality(Taken(task))
    BY <1>4, TakenKinds, FS_Subset
  <2>2. \A m, n \in Nat : m <= n /\ n <= ConcurrencyLimit => m <= ConcurrencyLimit
    BY LimitAssumption
  <2> QED
    BY <1>2, <2>1, <2>2, TakenKinds DEF Within
<1>5. CASE ~(Taken(task') \subseteq Taken(task))
  <2>1. i \notin Taken(task)
    BY <1>3, <1>5
  <2>2. BelowLimit(task) /\ Taken(task) = LiveLeases(task)
    <3>1. CASE backend = "memory"
      <4>1. ~Reclaimable(task, i)
        BY <2>1, <3>1 DEF Taken, WithStatus, Reclaimable
      <4>2. Claimable(task, i) /\ \A j \in Items : ~Reclaimable(task, j)
        BY <1>1, <3>1, <4>1 DEF EmbClaimable, MemClaimable
      <4>3. \A j \in Items : task[j].status = "running" => task[j].lease = "live"
        BY <4>2 DEF Reclaimable, Within, EmbTypeOK, TablesOK, TaskRow
      <4> QED
        BY <3>1, <4>2, <4>3 DEF Claimable, Taken, WithStatus, LiveLeases
    <3>2. CASE backend # "memory"
      BY <1>1, <3>2 DEF EmbClaimable, Claimable, Taken
    <3> QED
      BY <3>1, <3>2
  <2>3. Cardinality(Taken(task)) < ConcurrencyLimit
    BY <2>2 DEF BelowLimit
  <2>4. Cardinality(Taken(task')) <= Cardinality(Taken(task)) + 1
    BY <1>3, TakenKinds, OneMore
  <2>5. \A m, n \in Nat : m <= n + 1 /\ n < ConcurrencyLimit => m <= ConcurrencyLimit
    BY LimitAssumption
  <2> QED
    BY <1>2, <2>3, <2>4, <2>5, TakenKinds DEF Within
<1> QED
  BY <1>4, <1>5

LEMMA EmbWithinInit == EmbInit => EmbWithin
<1> SUFFICES ASSUME EmbInit PROVE EmbWithin
  OBVIOUS
<1>1. \A i \in Items : task[i].status = "pending"
  BY DEF EmbInit, Init, createRunWithTasks, NewTask
<1>2. Taken(task) = {}
  BY <1>1 DEF Taken, WithStatus, LiveLeases
<1>3. Cardinality(Taken(task)) = 0
  BY <1>2, FS_EmptySet
<1>4. ~round.open
  BY DEF EmbInit, NoRound
<1> QED
  BY <1>1, <1>3, <1>4, LimitAssumption DEF EmbWithin, Within

LEMMA EmbWithinNext == EmbState /\ EmbWithin /\ [EmbNext]_embVars => EmbWithin'
<1> SUFFICES ASSUME EmbState, EmbWithin, [EmbNext]_embVars PROVE EmbWithin'
  OBVIOUS
<1>0. EmbTypeOK /\ Within(task) /\ TableStep /\ ImageStep /\ backend' = backend
  BY EmbTableSteps DEF EmbState, EmbWithin
<1>1. Within(task')
  <2>1. ASSUME NEW w \in Workers, EmbClaim(w) PROVE Within(task')
    <3>1. PICK i \in Items : ClaimedItem(w, i)
      BY <1>0, <2>1, EmbClaimFacts
    <3> QED
      BY <1>0, <3>1, WithinClaimed
  <2>2. ASSUME NEW w \in Workers, EmbOutcome(w) PROVE Within(task')
    <3>1. PICK s \in TaskStatus : RecordedItem(w, s)
      BY <1>0, <2>2, EmbOutcomeFacts
    <3>2. \A j \in Items : task'[j].status = "running" => task'[j] = task[j]
      BY <3>1 DEF RecordedItem
    <3> QED
      BY <1>0, <3>2, WithinFewer
  <2>3. ASSUME NEW w \in Workers, EmbMove(w) PROVE Within(task')
    BY <1>0, <2>3, WithinFewer DEF EmbMove, BootstrapMove
  <2>4. ASSUME NEW w \in Workers, EmbFinal(w) PROVE Within(task')
    BY <1>0, <2>4, EmbFinalFacts
  <2>5. ASSUME NEW i \in Items, EmbTick(i) PROVE Within(task')
    BY <1>0, <2>5, EmbClockFacts, WithinFewer DEF ClockedTable, ClockedRow
  <2>6. CASE TablesKept
    BY <1>0, <2>6 DEF TablesKept
  <2>7. CASE Restored
    BY <2>7 DEF Restored, EmbWithin
  <2> QED
    BY <1>0, <2>1, <2>2, <2>3, <2>4, <2>5, <2>6, <2>7 DEF TableStep, Loss
<1>2. round'.open => Within(round'.image.task)
  <2>1. ASSUME round.open, ClockedTable(round.image.task, round'.image.task)
        PROVE  Within(round'.image.task)
    BY <2>1, WithinFewer DEF EmbWithin, ClockedTable, ClockedRow
  <2>2. ASSUME round'.image = Tables PROVE Within(round'.image.task)
    BY <1>0, <2>2, TablesFacts
  <2> QED
    BY <1>0, <2>1, <2>2 DEF ImageStep
<1>3. Taken(task)' = Taken(task') /\ Taken(round.image.task)' = Taken(round'.image.task)
  BY <1>0 DEF Taken, WithStatus, LiveLeases
<1> QED
  BY <1>1, <1>2, <1>3 DEF EmbWithin, Within

LEMMA WithinLimit == EmbWithin => LeaseLimit
<1> SUFFICES ASSUME EmbWithin PROVE LeaseLimit
  OBVIOUS
<1>1. Cardinality(LiveLeases(task)) <= Cardinality(Taken(task))
  BY TakenKinds, FS_Subset
<1>2. Cardinality(LiveLeases(task)) \in Nat
  BY ItemSets DEF LiveLeases
<1>3. \A m, n \in Nat : m <= n /\ n <= ConcurrencyLimit => m <= ConcurrencyLimit
  BY LimitAssumption
<1> QED
  BY <1>1, <1>2, <1>3, TakenKinds DEF EmbWithin, Within, LeaseLimit

-----------------------------------------------------------------------------
(* One executor for an item, until a claim is undone. *)

EmbExclusive == upsets = 0 => Exclusive

LEMMA LossesGrow ==
    ASSUME EmbState, [EmbNext]_embVars
    PROVE  (upsets' = 0 => upsets = 0) /\ (stalls' = 0 => stalls = 0)
<1>0. EmbTypeOK /\ RoundFaithful /\ upsets \in Nat /\ stalls \in Nat /\ TableStep
  BY EmbTableSteps DEF EmbState, EmbTypeOK
<1>1. ASSUME NEW w \in Workers, EmbClaim(w) \/ EmbOutcome(w) \/ EmbMove(w) \/ EmbFinal(w)
      PROVE  UNCHANGED <<stalls, upsets>>
  BY <1>0, <1>1, EmbClaimFacts, EmbOutcomeFacts, EmbFinalFacts DEF EmbMove, BootstrapMove
<1>2. ASSUME NEW i \in Items, EmbTick(i) PROVE upsets' = upsets /\ stalls' \in {stalls, stalls + 1}
  BY <1>0, <1>2, EmbClockFacts
<1>3. ASSUME Loss PROVE stalls' = stalls /\ upsets' \in {upsets, upsets + 1}
  BY <1>3 DEF Loss
<1>4. upsets' \in {upsets, upsets + 1} /\ stalls' \in {stalls, stalls + 1}
  BY <1>0, <1>1, <1>2, <1>3 DEF TableStep
<1> QED
  BY <1>0, <1>4

LEMMA EmbExclusiveInit == EmbInit => EmbExclusive
BY ExclusiveInit DEF EmbInit, EmbExclusive

LEMMA EmbExclusiveNext == EmbState /\ EmbExclusive /\ [EmbNext]_embVars => EmbExclusive'
<1> SUFFICES ASSUME EmbState, EmbExclusive, [EmbNext]_embVars, upsets' = 0, stalls' = 0
             PROVE  Exclusive'
  BY DEF EmbExclusive, Exclusive, LeaseAgreement, ExclusiveExecution
<1>0. /\ EmbTypeOK /\ stalls = 0 /\ Exclusive /\ TableStep
      /\ \A w \in Workers : exec[w].item \in Items
  BY LossesGrow, EmbTableSteps DEF EmbState, EmbTypeOK, EmbExclusive, Executor
<1>1. ASSUME NoNewClaim,
             \A w \in Workers : exec'[w].phase \in Working =>
               /\ task'[exec[w].item].status = task[exec[w].item].status
               /\ task'[exec[w].item].lease = task[exec[w].item].lease
               /\ task'[exec[w].item].attempts = task[exec[w].item].attempts
      PROVE  Exclusive'
  BY <1>0, <1>1 DEF NoNewClaim, Exclusive, LeaseAgreement, ExclusiveExecution
<1>2. ASSUME NEW w \in Workers, EmbClaim(w) PROVE Exclusive'
  <2>1. PICK i \in Items : ClaimedItem(w, i)
    BY <1>0, <1>2, EmbClaimFacts
  <2>2. \A v \in Workers : exec[v].phase \in Working => exec[v].item # i
    BY <1>0, <2>1 DEF ClaimedItem, Exclusive, LeaseAgreement
  <2>3. \A v \in Workers : v # w /\ exec'[v].phase \in Working =>
            exec'[v] = exec[v] /\ exec[v].item # i /\ task'[exec[v].item] = task[exec[v].item]
    BY <1>0, <2>1, <2>2 DEF ClaimedItem
  <2>4. /\ task'[i].status = "running" /\ task'[i].lease = "live"
        /\ task'[i].attempts = task[i].attempts + 1
    BY <1>0, <2>1, ClaimedRowFacts DEF ClaimedItem, EmbTypeOK, TablesOK
  <2>5. LeaseAgreement'
    BY <1>0, <2>1, <2>3, <2>4 DEF ClaimedItem, Exclusive, LeaseAgreement
  <2>6. ExclusiveExecution'
    BY <1>0, <2>1, <2>3 DEF ClaimedItem, Exclusive, ExclusiveExecution
  <2> QED
    BY <2>5, <2>6 DEF Exclusive
<1>3. ASSUME NEW w \in Workers, EmbOutcome(w) PROVE Exclusive'
  <2>1. PICK s \in TaskStatus : RecordedItem(w, s)
    BY <1>0, <1>3, EmbOutcomeFacts
  <2>2. NoNewClaim
    BY <2>1 DEF RecordedItem, NoNewClaim
  <2>3. \A v \in Workers : exec'[v].phase \in Working => exec[v].item # exec[w].item
    BY <1>0, <2>1 DEF RecordedItem, Exclusive, ExclusiveExecution
  <2>4. \A v \in Workers : exec'[v].phase \in Working => task'[exec[v].item] = task[exec[v].item]
    BY <1>0, <2>1, <2>3 DEF RecordedItem
  <2> QED
    BY <1>1, <2>2, <2>4
<1>4. ASSUME NEW w \in Workers, EmbMove(w) PROVE Exclusive'
  <2>1. NoNewClaim
    BY <1>4 DEF EmbMove, BootstrapMove, NoNewClaim, Working
  <2> QED
    BY <1>0, <1>1, <1>4, <2>1 DEF EmbMove, BootstrapMove
<1>5. ASSUME NEW w \in Workers, EmbFinal(w) PROVE Exclusive'
  <2>1. NoNewClaim /\ task' = task
    BY <1>0, <1>5, EmbFinalFacts DEF NoNewClaim
  <2> QED
    BY <1>1, <2>1
<1>6. ASSUME NEW i \in Items, EmbTick(i) PROVE Exclusive'
  <2>1. exec' = exec /\ ClockedTable(task, task')
        /\ \A j \in Items : task'[j].lease = task[j].lease \/ ~ \E w \in Workers : Holds(w, j)
    BY <1>0, <1>6, EmbClockFacts
  <2>2. \A w \in Workers : exec[w].phase \in Working => Holds(w, exec[w].item)
    BY <1>0 DEF Exclusive, LeaseAgreement, Holds
  <2>3. \A w \in Workers : exec[w].phase \in Working =>
               /\ task'[exec[w].item].status = task[exec[w].item].status
               /\ task'[exec[w].item].lease = task[exec[w].item].lease
               /\ task'[exec[w].item].attempts = task[exec[w].item].attempts
    BY <1>0, <2>1, <2>2 DEF ClockedTable, ClockedRow
  <2> QED
    BY <1>1, <2>1, <2>3 DEF NoNewClaim
<1>7. CASE TablesKept /\ UNCHANGED exec
  BY <1>1, <1>7 DEF TablesKept, NoNewClaim
<1>8. CASE Loss
  <2>1. upsets' = upsets
    BY <1>8, LossesGrow
  <2>2. Idle.phase \notin Working
    BY DEF Idle, Working, Bootstrapping
  <2>3. NoNewClaim
    BY <1>8, <2>2 DEF Loss, NoNewClaim
  <2>4. CASE TablesKept
    BY <1>1, <2>3, <2>4 DEF TablesKept
  <2>5. CASE \A w \in Workers : exec'[w] = Idle
    BY <2>2, <2>5 DEF Exclusive, LeaseAgreement, ExclusiveExecution
  <2> QED
    BY <1>8, <2>1, <2>4, <2>5 DEF Loss
<1> QED
  BY <1>0, <1>2, <1>3, <1>4, <1>5, <1>6, <1>7, <1>8 DEF TableStep

-----------------------------------------------------------------------------
(* One handle, in the tables and in the image alike. *)

Handled(r, h) ==
    \/ r.stage = "not_started" /\ h = <<>>
    \/ r.stage = "completed" /\ \E e \in Handle : h = <<e>> /\ e.artifact = r.artifact

EmbHandled ==
    /\ Handled(run, handles)
    /\ round.open => Handled(round.image.run, round.image.handles)

LEMMA EmbHandledInit == EmbInit => EmbHandled
BY DEF EmbInit, Init, createRunWithTasks, NoRound, EmbHandled, Handled

LEMMA EmbHandledNext == EmbState /\ EmbHandled /\ [EmbNext]_embVars => EmbHandled'
<1> SUFFICES ASSUME EmbState, EmbHandled, [EmbNext]_embVars PROVE EmbHandled'
  OBVIOUS
<1>0. /\ EmbTypeOK /\ TablesOK /\ TableStep /\ ImageStep /\ Handled(run, handles)
      /\ round.open => Handled(round.image.run, round.image.handles)
  BY EmbTableSteps DEF EmbState, EmbTypeOK, EmbHandled
<1>1. ASSUME run'.stage = run.stage, run'.artifact = run.artifact, handles' = handles
      PROVE  Handled(run', handles')
  BY <1>0, <1>1 DEF Handled
<1>2. Handled(run', handles')
  <2>1. ASSUME NEW w \in Workers, EmbClaim(w) \/ EmbOutcome(w) PROVE Handled(run', handles')
    <3>1. run' = updateRunFromTasks(run, task') /\ handles' = handles
      BY <1>0, <2>1, EmbClaimFacts, EmbOutcomeFacts
    <3> QED
      BY <1>0, <1>1, <3>1, UpdatedRun DEF TablesOK
  <2>2. ASSUME NEW w \in Workers, EmbMove(w) PROVE Handled(run', handles')
    BY <1>0, <2>2 DEF EmbMove, BootstrapMove
  <2>3. ASSUME NEW w \in Workers, EmbFinal(w) PROVE Handled(run', handles')
    <3>1. CASE Completes
      <4> DEFINE e == [status |-> deriveRunStatus(Entries(task)), artifact |-> Entries(task)]
      <4>1. e \in Handle /\ e.artifact = Entries(task)
        BY <1>0, EntriesType DEF Handle, TablesOK
      <4>2. handles = <<>>
        BY <1>0, <3>1 DEF Completes, Unfinalized, Handled
      <4>3. handles' = <<e>> /\ run'.stage = "completed" /\ run'.artifact = Entries(task)
        BY <3>1, <4>2 DEF Completes
      <4> HIDE DEF e
      <4> QED
        BY <4>1, <4>3 DEF Handled
    <3>2. CASE UNCHANGED <<run, handles>>
      BY <1>0, <3>2
    <3> QED
      BY <1>0, <2>3, <3>1, <3>2, EmbFinalFacts
  <2>4. ASSUME NEW i \in Items, EmbTick(i) PROVE Handled(run', handles')
    BY <1>0, <2>4, EmbClockFacts
  <2>5. CASE TablesKept
    BY <1>0, <2>5 DEF TablesKept
  <2>6. CASE Restored
    BY <1>0, <2>6 DEF Restored
  <2> QED
    BY <1>0, <2>1, <2>2, <2>3, <2>4, <2>5, <2>6 DEF TableStep, Loss
<1>3. round'.open => Handled(round'.image.run, round'.image.handles)
  BY <1>0, TablesFacts DEF ImageStep
<1> QED
  BY <1>2, <1>3 DEF EmbHandled

LEMMA HandledOnce == EmbHandled => OneHandle
<1> SUFFICES ASSUME Handled(run, handles) PROVE OneHandle
  BY DEF EmbHandled
<1>1. CASE run.stage = "not_started" /\ handles = <<>>
  BY <1>1 DEF OneHandle
<1>2. CASE run.stage = "completed" /\ \E e \in Handle : handles = <<e>> /\ e.artifact = run.artifact
  BY <1>2 DEF OneHandle
<1> QED
  BY <1>1, <1>2 DEF Handled

-----------------------------------------------------------------------------
(* A completed run's row, in the tables and in the image alike. *)

Settles(t, r) ==
    r.stage = "completed" =>
        AllTerminal(t) /\ r.counts = Counts(t) /\ r.status = deriveRunStatus(Entries(t))

EmbSettled ==
    upsets = 0 /\ stalls = 0 =>
        /\ Settles(task, run)
        /\ round.open => Settles(round.image.task, round.image.run)

LEMMA SettlesSame ==
    ASSUME NEW t, NEW u, NEW r, Settles(t, r),
           \A j \in Items : u[j].status = t[j].status /\ u[j].answer = t[j].answer
    PROVE  Settles(u, r)
<1>1. \A s \in TaskStatus : WithStatus(u, s) = WithStatus(t, s)
  BY DEF WithStatus
<1>2. Counts(u) = Counts(t)
  BY <1>1 DEF Counts
<1>3. Entries(u) = Entries(t) /\ AllTerminal(u) = AllTerminal(t)
  BY DEF Entries, AllTerminal
<1> QED
  BY <1>2, <1>3 DEF Settles

LEMMA EmbSettledInit == EmbInit => EmbSettled
BY DEF EmbInit, Init, createRunWithTasks, NoRound, EmbSettled, Settles

LEMMA EmbSettledNext ==
    EmbState /\ EmbExclusive /\ EmbSettled /\ [EmbNext]_embVars => EmbSettled'
<1> SUFFICES ASSUME EmbState, EmbExclusive, EmbSettled, [EmbNext]_embVars,
                    upsets' = 0, stalls' = 0
             PROVE  /\ Settles(task', run')
                    /\ round'.open => Settles(round'.image.task, round'.image.run)
  <2>1. \A r : Settles(task, r)' = Settles(task', r') /\ Settles(round.image.task, r)' = Settles(round'.image.task, r')
    BY DEF Settles, AllTerminal, Counts, Entries, deriveRunStatus, WithStatus
  <2> QED
    BY <2>1 DEF EmbSettled
<1>0. /\ EmbTypeOK /\ TablesOK /\ stalls = 0 /\ Exclusive /\ TableStep /\ ImageStep
      /\ Settles(task, run) /\ (round.open => Settles(round.image.task, round.image.run))
      /\ \A w \in Workers : exec[w].item \in Items
  BY LossesGrow, EmbTableSteps
  DEF EmbState, EmbTypeOK, EmbExclusive, EmbSettled, Executor
<1>1. run.stage = "completed" => \A w \in Workers : exec[w].phase \notin Working
  BY <1>0 DEF Settles, AllTerminal, Terminal, Exclusive, LeaseAgreement
<1>2. Settles(task', run')
  <2>1. ASSUME NEW w \in Workers, EmbClaim(w) PROVE Settles(task', run')
    <3>1. PICK i \in Items : ClaimedItem(w, i)
      BY <1>0, <2>1, EmbClaimFacts
    <3>2. run' = updateRunFromTasks(run, task')
      BY <1>0, <2>1, EmbClaimFacts
    <3>3. run.stage # "completed"
      BY <1>0, <3>1 DEF ClaimedItem, Settles, AllTerminal
    <3>4. run'.stage # "completed"
      BY <1>0, <3>2, <3>3, UpdatedRun DEF TablesOK
    <3> QED
      BY <3>4 DEF Settles
  <2>2. ASSUME NEW w \in Workers, EmbOutcome(w) PROVE Settles(task', run')
    <3>1. PICK s \in TaskStatus : RecordedItem(w, s)
      BY <1>0, <2>2, EmbOutcomeFacts
    <3>2. run' = updateRunFromTasks(run, task')
      BY <1>0, <2>2, EmbOutcomeFacts
    <3>3. run.stage # "completed"
      BY <1>1, <3>1 DEF RecordedItem
    <3>4. run'.stage # "completed"
      BY <1>0, <3>2, <3>3, UpdatedRun DEF TablesOK
    <3> QED
      BY <3>4 DEF Settles
  <2>3. ASSUME NEW w \in Workers, EmbMove(w) PROVE Settles(task', run')
    BY <1>0, <2>3, SettlesSame DEF EmbMove, BootstrapMove
  <2>4. ASSUME NEW w \in Workers, EmbFinal(w) PROVE Settles(task', run')
    BY <1>0, <2>4, EmbFinalFacts DEF Completes, Settles
  <2>5. ASSUME NEW i \in Items, EmbTick(i) PROVE Settles(task', run')
    BY <1>0, <2>5, EmbClockFacts, SettlesSame DEF ClockedTable, ClockedRow
  <2>6. CASE TablesKept
    BY <1>0, <2>6 DEF TablesKept
  <2>7. CASE Restored
    BY <1>0, <2>7 DEF Restored
  <2> QED
    BY <1>0, <2>1, <2>2, <2>3, <2>4, <2>5, <2>6, <2>7 DEF TableStep, Loss
<1>3. round'.open => Settles(round'.image.task, round'.image.run)
  <2>1. ASSUME round.open, ClockedTable(round.image.task, round'.image.task),
               round'.image.run = round.image.run
        PROVE  Settles(round'.image.task, round'.image.run)
    BY <1>0, <2>1, SettlesSame DEF ClockedTable, ClockedRow
  <2>2. ASSUME round'.image = Tables PROVE Settles(round'.image.task, round'.image.run)
    BY <1>0, <2>2, TablesFacts
  <2> QED
    BY <1>0, <2>1, <2>2 DEF ImageStep
<1> QED
  BY <1>2, <1>3

-----------------------------------------------------------------------------
(* The attempt budget over the embedded stores.  What a restored table has *)
(* is what the tables had when the round began, give or take the clock: no *)
(* more attempts, and the executors that are at work are the same.         *)

EmbBudgeted ==
    /\ \A i \in Items : Potential(i) <= MaxRetries + 1 + crashes + stalls + upsets
    /\ round.open => \A i \in Items : round.image.task[i].attempts <= task[i].attempts

LEMMA PotentialRestored ==
    ASSUME Rows, NEW i \in Items, task'[i].attempts \in Nat,
           task'[i].attempts <= task[i].attempts, Retriers(i)' \subseteq Retriers(i)
    PROVE  Potential(i)' \in Nat /\ Potential(i)' <= Potential(i) + 1
<1> DEFINE a == task[i].attempts
           b == task'[i].attempts
           t == Top(a)
           u == Top(b)
           d == Due(i)
           e == Due(i)'
           m == Cardinality(Retriers(i))
           n == Cardinality(Retriers(i)')
<1>1. a \in Nat /\ b \in Nat
  BY DEF Rows, TaskRow
<1>2. t \in Nat /\ u \in Nat /\ d \in {0, 1} /\ e \in {0, 1} /\ m \in Nat /\ n \in Nat
  BY <1>1, TopType, DueType, RetriersType
<1>3. n <= m
  BY RetriersType, FS_Subset
<1>4. u <= t
  BY <1>1, BoundsAssumption DEF Top
<1>5. Potential(i) = t + d + m /\ Potential(i)' = u + e + n
  BY DEF Potential
<1> HIDE DEF t, u, d, e, m, n
<1> QED
  BY <1>2, <1>3, <1>4, <1>5

LEMMA RowsFacts ==
    ASSUME EmbTypeOK
    PROVE  /\ Rows
           /\ \A i \in Items : task[i].attempts \in Nat /\ Potential(i) \in Nat
           /\ \A w \in Workers : exec[w].item \in Items
           /\ crashes \in Nat /\ stalls \in Nat /\ upsets \in Nat
           /\ round.open => \A i \in Items : round.image.task[i].attempts \in Nat
<1>1. Rows
  BY DEF EmbTypeOK, TablesOK, Rows
<1>2. round.open => \A i \in Items : round.image.task[i].attempts \in Nat
  BY RoundKinds, ImageKinds DEF EmbTypeOK, TaskRow
<1> QED
  BY <1>1, <1>2, PotentialType DEF EmbTypeOK, TablesOK, TaskRow, Executor

(* No step gives an item more than it costs in crashes, stalls and upsets. *)
EmbPaid ==
    \/ /\ UNCHANGED <<crashes, stalls, upsets>>
       /\ \A i \in Items : /\ Potential(i)' \in Nat /\ Potential(i)' <= Potential(i)
                           /\ task'[i].attempts \in Nat /\ task[i].attempts <= task'[i].attempts
    \/ /\ crashes' + stalls' + upsets' = crashes + stalls + upsets + 1
       /\ ~round'.open \/ \A i \in Items : task'[i].attempts = task[i].attempts
       /\ \A i \in Items : Potential(i)' \in Nat /\ Potential(i)' <= Potential(i) + 1

LEMMA EmbPaidNext ==
    ASSUME EmbState, EmbBudgeted, [EmbNext]_embVars
    PROVE  EmbPaid
<1>0. /\ EmbTypeOK /\ Rows /\ TableStep
      /\ \A i \in Items : task[i].attempts \in Nat /\ task[i] \in TaskRow
      /\ \A w \in Workers : exec[w].item \in Items
      /\ crashes \in Nat /\ stalls \in Nat /\ upsets \in Nat
  BY EmbTableSteps, RowsFacts DEF EmbState, EmbTypeOK, TablesOK
<1>1. ASSUME \A i \in Items : Potential(i)' \in Nat /\ Potential(i)' <= Potential(i),
             UNCHANGED <<crashes, stalls, upsets>>,
             \A i \in Items : task'[i].attempts \in {task[i].attempts, task[i].attempts + 1}
      PROVE  EmbPaid
  BY <1>0, <1>1 DEF EmbPaid
<1>2. ASSUME NEW w \in Workers, EmbClaim(w) PROVE EmbPaid
  <2>1. PICK i \in Items : ClaimedItem(w, i)
    BY <1>0, <1>2, EmbClaimFacts
  <2>2. UNCHANGED <<crashes, stalls, upsets>>
    BY <1>0, <1>2, EmbClaimFacts
  <2>3. exec[w].phase \notin Working /\ ~Held(i)
    BY <2>1 DEF ClaimedItem, Held, Working, Bootstrapping
  <2>4. task'[i].attempts = task[i].attempts + 1
    BY <1>0, <2>1, ClaimedRowFacts DEF ClaimedItem
  <2>5. \A j \in Items : Potential(j)' \in Nat /\ Potential(j)' <= Potential(j)
    BY <1>0, <2>1, <2>3, PotentialOfClaim DEF ClaimedItem
  <2> QED
    BY <1>1, <2>1, <2>2, <2>4, <2>5 DEF ClaimedItem
<1>3. ASSUME NEW w \in Workers, EmbOutcome(w) PROVE EmbPaid
  <2>1. PICK s \in TaskStatus : RecordedItem(w, s)
    BY <1>0, <1>3, EmbOutcomeFacts
  <2>2. UNCHANGED <<crashes, stalls, upsets>>
    BY <1>0, <1>3, EmbOutcomeFacts
  <2>3. \A j \in Items : Potential(j)' \in Nat /\ Potential(j)' <= Potential(j)
    BY <1>0, <2>1, PotentialRecorded DEF RecordedItem
  <2>4. \A j \in Items : task'[j].attempts = task[j].attempts
    BY <2>1 DEF RecordedItem
  <2> QED
    BY <1>1, <2>2, <2>3, <2>4
<1>4. ASSUME NEW w \in Workers, EmbMove(w) PROVE EmbPaid
  BY <1>0, <1>1, <1>4, PotentialOfBootstrap DEF EmbMove, BootstrapMove
<1>5. ASSUME NoNewClaim, UNCHANGED <<task, crashes, stalls, upsets>>,
             \A v \in Workers : exec[v].phase \in Working => exec'[v].phase \in Working
      PROVE  EmbPaid
  BY <1>0, <1>1, <1>5, PotentialQuiet
<1>6. ASSUME NEW w \in Workers, EmbFinal(w) PROVE EmbPaid
  <2>1. NoNewClaim /\ \A v \in Workers : exec[v].phase \in Working => exec'[v].phase \in Working
    BY <1>0, <1>6, EmbFinalFacts DEF NoNewClaim
  <2> QED
    BY <1>0, <1>5, <1>6, <2>1, EmbFinalFacts
<1>7. ASSUME NEW i \in Items, EmbTick(i) PROVE EmbPaid
  <2>1. UNCHANGED <<exec, crashes, upsets>> /\ ClockedTable(task, task')
    BY <1>0, <1>7, EmbClockFacts
  <2>2. \A j \in Items : task'[j].status = task[j].status /\ task'[j].attempts = task[j].attempts
    BY <2>1 DEF ClockedTable, ClockedRow
  <2>3. NoNewClaim
    BY <2>1 DEF NoNewClaim
  <2>4. CASE /\ stalls' = stalls
             /\ \A j \in Items : task'[j].lease = task[j].lease \/ ~ \E w \in Workers : Holds(w, j)
    <3>1. \A j \in Items : Potential(j)' \in Nat /\ Potential(j)' <= Potential(j)
      BY <1>0, <2>1, <2>2, <2>3, <2>4, PotentialQuiet
    <3> QED
      BY <1>1, <2>1, <2>2, <2>4, <3>1
  <2>5. CASE stalls' = stalls + 1
    <3>1. \A j \in Items : Potential(j)' \in Nat /\ Potential(j)' <= Potential(j) + 1
      BY <1>0, <2>2, <2>3, PotentialPaid
    <3>2. crashes' + stalls' + upsets' = crashes + stalls + upsets + 1
      BY <1>0, <2>1, <2>5
    <3> QED
      BY <2>2, <3>1, <3>2 DEF EmbPaid
  <2> QED
    BY <1>0, <1>7, <2>4, <2>5, EmbClockFacts
<1>8. CASE TablesKept /\ UNCHANGED <<exec, crashes, stalls, upsets>>
  BY <1>5, <1>8 DEF TablesKept, NoNewClaim
<1>9. CASE Loss
  <2>1. NoNewClaim
    BY <1>9 DEF Loss, NoNewClaim, Idle, Working, Bootstrapping
  <2>2. \A i \in Items : Retriers(i)' \subseteq Retriers(i)
    BY <2>1 DEF Retriers, NoNewClaim, HasRetriesRemaining
  <2>3. \A i \in Items : task'[i].attempts \in Nat /\ task'[i].attempts <= task[i].attempts
    <3>1. CASE TablesKept
      BY <1>0, <3>1 DEF TablesKept
    <3>2. CASE Restored
      BY <1>0, <3>2, RowsFacts DEF Restored, EmbBudgeted
    <3> QED
      BY <1>9, <3>1, <3>2 DEF Loss
  <2>4. \A i \in Items : Potential(i)' \in Nat /\ Potential(i)' <= Potential(i) + 1
    BY <1>0, <2>2, <2>3, PotentialRestored
  <2>5. crashes' + stalls' + upsets' = crashes + stalls + upsets + 1
    BY <1>0, <1>9 DEF Loss
  <2>6. ~round'.open \/ \A i \in Items : task'[i].attempts = task[i].attempts
    BY <1>9 DEF Loss, TablesKept
  <2> QED
    BY <2>4, <2>5, <2>6 DEF EmbPaid
<1> QED
  BY <1>0, <1>2, <1>3, <1>4, <1>6, <1>7, <1>8, <1>9 DEF TableStep

LEMMA EmbBudgetInit == EmbInit => EmbBudgeted
<1> SUFFICES ASSUME EmbInit PROVE EmbBudgeted
  OBVIOUS
<1>1. \A i \in Items : Potential(i) = MaxRetries + 1
  BY PotentialInit DEF EmbInit
<1>2. crashes = 0 /\ stalls = 0 /\ upsets = 0 /\ ~round.open
  BY DEF EmbInit, Init, NoRound
<1> QED
  BY <1>1, <1>2, BoundsAssumption DEF EmbBudgeted

LEMMA EmbBudgetNext == EmbState /\ EmbState' /\ EmbBudgeted /\ [EmbNext]_embVars => EmbBudgeted'
<1> SUFFICES ASSUME EmbState, EmbState', EmbBudgeted, [EmbNext]_embVars PROVE EmbBudgeted'
  OBVIOUS
<1>0. /\ EmbTypeOK /\ EmbPaid /\ ImageStep
      /\ crashes \in Nat /\ stalls \in Nat /\ upsets \in Nat
      /\ crashes' \in Nat /\ stalls' \in Nat /\ upsets' \in Nat
  BY EmbPaidNext, EmbTableSteps, RowsFacts DEF EmbState, EmbTypeOK
<1>1. ASSUME NEW i \in Items
      PROVE  Potential(i)' <= MaxRetries + 1 + crashes' + stalls' + upsets'
  <2>1. /\ Potential(i) \in Nat /\ Potential(i)' \in Nat
        /\ Potential(i) <= MaxRetries + 1 + crashes + stalls + upsets
    BY <1>0, <1>1, RowsFacts DEF EmbPaid, EmbBudgeted
  <2> DEFINE m == Potential(i)
             n == Potential(i)'
             a == crashes + stalls + upsets
             b == crashes' + stalls' + upsets'
  <2>2. a \in Nat /\ b \in Nat
    <3>1. \A x, y, z \in Nat : x + y + z \in Nat
      OBVIOUS
    <3> QED
      BY ONLY <1>0, <3>1
  <2>3. \/ n <= m /\ b = a
        \/ n <= m + 1 /\ b = a + 1
    <3>1. CASE UNCHANGED <<crashes, stalls, upsets>> /\ n <= m
      <4>1. crashes' = crashes /\ stalls' = stalls /\ upsets' = upsets
        BY ONLY <3>1
      <4>2. b = a
        BY ONLY <4>1
      <4> QED
        BY ONLY <3>1, <4>2
    <3>2. CASE b = a + 1 /\ n <= m + 1
      BY ONLY <3>2
    <3>3. \/ UNCHANGED <<crashes, stalls, upsets>> /\ n <= m
          \/ b = a + 1 /\ n <= m + 1
      BY <1>0, <1>1 DEF EmbPaid
    <3> QED
      BY ONLY <3>1, <3>2, <3>3
  <2>4. /\ MaxRetries + 1 + crashes + stalls + upsets = MaxRetries + 1 + a
        /\ MaxRetries + 1 + crashes' + stalls' + upsets' = MaxRetries + 1 + b
    <3>1. \A k, x, y, z \in Nat : k + 1 + x + y + z = k + 1 + (x + y + z)
      OBVIOUS
    <3>2. MaxRetries \in Nat
      BY BoundsAssumption
    <3> QED
      BY ONLY <1>0, <3>1, <3>2
  <2>5. m \in Nat /\ n \in Nat /\ m <= MaxRetries + 1 + a
    BY ONLY <2>1, <2>4
  <2> HIDE DEF m, n, a, b
  <2>6. n <= MaxRetries + 1 + b
    <3>1. MaxRetries \in Nat
      BY BoundsAssumption
    <3> QED
      BY ONLY <2>2, <2>3, <2>5, <3>1
  <2>7. Potential(i)' <= MaxRetries + 1 + b
    BY <2>6 DEF n
  <2> QED
    BY ONLY <2>4, <2>7
<1>2. ASSUME round'.open, NEW i \in Items
      PROVE  round'.image.task[i].attempts <= task'[i].attempts
  <2>1. /\ task[i].attempts \in Nat /\ task'[i].attempts \in Nat
        /\ task[i].attempts <= task'[i].attempts
    <3>1. CASE \A j \in Items : task'[j].attempts = task[j].attempts
      BY <1>0, <3>1, RowsFacts
    <3>2. CASE ~ \A j \in Items : task'[j].attempts = task[j].attempts
      BY <1>0, <1>2, <3>2, RowsFacts DEF EmbPaid
    <3> QED
      BY <3>1, <3>2
  <2>2. CASE /\ round.open
             /\ ClockedTable(round.image.task, round'.image.task)
    <3>1. round'.image.task[i].attempts = round.image.task[i].attempts
      BY <2>2 DEF ClockedTable, ClockedRow
    <3>2. round.image.task[i].attempts \in Nat /\ round.image.task[i].attempts <= task[i].attempts
      BY <1>0, <2>2, RowsFacts DEF EmbBudgeted
    <3>3. \A m, n, a \in Nat : m <= n /\ n <= a => m <= a
      OBVIOUS
    <3> QED
      BY <2>1, <3>1, <3>2, <3>3
  <2>3. CASE round'.image = Tables
    BY <2>1, <2>3, TablesFacts
  <2> QED
    BY <1>0, <1>2, <2>2, <2>3 DEF ImageStep
<1> QED
  BY <1>1, <1>2 DEF EmbBudgeted

LEMMA EmbBudgetPays == EmbState /\ EmbBudgeted => LossesArePaidFor
<1> SUFFICES ASSUME EmbState, EmbBudgeted, NEW i \in Items
             PROVE  task[i].attempts <= MaxRetries + 1 + crashes + stalls + upsets
  BY DEF LossesArePaidFor
<1>1. /\ task[i].attempts \in Nat /\ Potential(i) \in Nat
      /\ crashes \in Nat /\ stalls \in Nat /\ upsets \in Nat
      /\ task[i].attempts <= Potential(i)
      /\ Potential(i) <= MaxRetries + 1 + crashes + stalls + upsets
  BY RowsFacts, PotentialType DEF EmbState, EmbBudgeted, EmbTypeOK
<1>2. \A m, n, a, b, c \in Nat :
        m <= n /\ n <= MaxRetries + 1 + a + b + c => m <= MaxRetries + 1 + a + b + c
  BY BoundsAssumption
<1> QED
  BY <1>1, <1>2

-----------------------------------------------------------------------------
(* The attempt budget over PostgreSQL.  A record is decided when its       *)
(* transaction begins and takes effect when it commits: the row it writes  *)
(* is still that of the task, because its lock keeps every claim out.      *)

TxFits(w) ==
    /\ tx[w].op = "claim" => exec[w].phase = "idle"
    /\ tx[w].op \in Finalizing => exec[w].phase = "recorded"
    /\ tx[w].op \in Recording =>
         /\ tx[w].row.attempts = task[exec[w].item].attempts
         /\ tx[w].row.status \in Terminal \/ HasRetriesRemaining(w)

TxsFit == \A w \in Workers : TxFits(w)

OpKinds == {"none", "claim"} \cup Recording \cup Finalizing

LEMMA TxsFitKept ==
    ASSUME PgTypeOK, TxsFit, NEW w \in Workers, TxFits(w)',
           \A v \in Workers : v # w =>
               /\ exec'[v] = exec[v]
               /\ tx'[v] = tx[v] \/ (tx[v].op = "claim" /\ tx'[v].op = "claim")
               /\ tx[v].op \in Recording => task'[exec[v].item].attempts = task[exec[v].item].attempts
    PROVE  TxsFit'
<1> SUFFICES ASSUME NEW v \in Workers, v # w PROVE TxFits(v)'
  BY DEF TxsFit
<1>1. TxFits(v)
  BY DEF TxsFit
<1>2. CASE tx'[v] = tx[v]
  BY <1>1, <1>2 DEF TxFits, HasRetriesRemaining
<1>3. CASE tx[v].op = "claim" /\ tx'[v].op = "claim"
  BY <1>1, <1>3 DEF TxFits, Recording, Finalizing
<1> QED
  BY <1>2, <1>3

LEMMA NoTxFits == ASSUME NEW w \in Workers, tx'[w] = NoTx PROVE TxFits(w)'
BY NoTxType DEF TxFits, NoTx, Recording, Finalizing

(* Steps that leave all rows and counters alone, and whom they concern at  *)
(* work or not at work.                                                    *)
LEMMA PaidQuietly ==
    ASSUME TypeOK, NEW w \in Workers, UNCHANGED <<task, crashes, stalls>>,
           \A v \in Workers : v # w => exec'[v] = exec[v],
           exec'[w] = exec[w] \/ (exec[w].phase \notin Working /\ exec'[w].phase \notin Working)
    PROVE  Paid
<1>1. Rows /\ NoNewClaim /\ \A v \in Workers : exec[v].phase \in Working => exec'[v].phase \in Working
  BY DEF TypeOK, Rows, NoNewClaim
<1>2. \A i \in Items : Potential(i)' \in Nat /\ Potential(i)' <= Potential(i) /\ Potential(i) \in Nat
  BY <1>1, PotentialQuiet, PotentialType
<1>3. crashes \in Nat /\ stalls \in Nat
  BY DEF TypeOK
<1> QED
  BY <1>2, <1>3 DEF Paid

(* A step of the executor on its transaction alone. *)
LEMMA TxStep ==
    ASSUME PgTypeOK, TxsFit, NEW w \in Workers, NEW t, Begin(w, t),
           UNCHANGED <<task, crashes, stalls>>,
           \/ exec' = exec
           \/ /\ exec[w].phase \notin Working
              /\ \E p \in {"idle", "recorded"} : Goto(w, p),
           TxFits(w)'
    PROVE  TxsFit' /\ Paid
<1>1. tx \in [Workers -> Tx] /\ exec \in [Workers -> Executor] /\ TypeOK
  BY DEF PgTypeOK, TypeOK
<1>2. \A v \in Workers : v # w => tx'[v] = tx[v]
  BY <1>1 DEF Begin
<1>3. /\ \A v \in Workers : v # w => exec'[v] = exec[v]
      /\ exec'[w] = exec[w] \/ (exec[w].phase \notin Working /\ exec'[w].phase \notin Working)
  <2>1. CASE exec' = exec
    BY <2>1
  <2>2. CASE exec[w].phase \notin Working /\ \E p \in {"idle", "recorded"} : Goto(w, p)
    <3>1. PICK p \in {"idle", "recorded"} : Goto(w, p)
      BY <2>2
    <3>2. p \in Phase /\ p \notin Working
      BY DEF Phase, Working, Bootstrapping
    <3> QED
      BY <1>1, <2>2, <3>1, <3>2, GotoType
  <2> QED
    BY <2>1, <2>2
<1> QED
  BY <1>1, <1>2, <1>3, TxsFitKept, PaidQuietly

LEMMA ClaimPays ==
    ASSUME PgTypeOK, TxsFit, NEW w \in Workers, PgClaim(w)
    PROVE  TxsFit' /\ Paid
<1>0. /\ TypeOK /\ Rows /\ tx \in [Workers -> Tx] /\ tx[w] \in Tx
      /\ exec[w].phase = "idle"
  BY DEF PgTypeOK, TypeOK, Rows, TxsFit, TxFits, PgClaim
<1>1. PICK i \in Lockable(w) :
        /\ task' = [task EXCEPT ![i] = ClaimedRow(task[i])]
        /\ exec' = [exec EXCEPT ![w] =
                      [phase |-> IF kind = "llmMap" THEN "executing" ELSE "claimed",
                       item |-> i, attempt |-> task[i].attempts + 1, child |-> 0]]
  BY DEF PgClaim
<1>2. i \in Items /\ Ready(task[i]) /\ ~RowLocked(i)
  <2>1. tx[w].op = "claim" /\ tx[w].candidates \subseteq Items
    BY <1>0, TxKinds DEF PgClaim, ClaimTx
  <2> QED
    BY <1>1, <2>1 DEF Lockable
<1>3. /\ task'[i] = ClaimedRow(task[i]) /\ \A j \in Items : j # i => task'[j] = task[j]
      /\ exec'[w].phase \in Working /\ exec'[w].item = i
      /\ exec'[w].attempt = task[i].attempts + 1
      /\ \A v \in Workers : v # w => exec'[v] = exec[v]
  BY <1>0, <1>1, <1>2 DEF Rows, Working, Bootstrapping
<1>4. /\ task[i].status \notin Terminal /\ ~Held(i)
      /\ exec[w].phase \notin Working
  BY <1>0, <1>2 DEF Ready, Terminal, Held, Working, Bootstrapping
<1>5. \A j \in Items : Potential(j)' \in Nat /\ Potential(j)' <= Potential(j) /\ Potential(j) \in Nat
  BY <1>0, <1>2, <1>3, <1>4, PotentialOfClaim, PotentialType
<1>6. UNCHANGED <<crashes, stalls>> /\ crashes \in Nat /\ stalls \in Nat
  BY <1>0 DEF PgClaim, TypeOK
<1>7. Paid
  BY <1>5, <1>6 DEF Paid
<1>8. /\ tx'[w] = NoTx
      /\ \A v \in Workers : v # w /\ tx[v].op # "claim" => tx'[v] = tx[v]
      /\ \A v \in Workers : v # w /\ tx[v].op = "claim" => tx'[v].op = "claim"
  BY OvertakeFacts DEF PgClaim
<1>9. \A v \in Workers : tx[v].op \in Recording => exec[v].item # i
  BY <1>2 DEF RowLocked, Recording
<1>10. \A v \in Workers : exec[v].item \in Items
  BY <1>0 DEF TypeOK, Executor
<1>11. TxsFit'
  BY <1>3, <1>8, <1>9, <1>10, NoTxFits, TxsFitKept
<1> QED
  BY <1>7, <1>11

LEMMA BootstrapPays ==
    ASSUME PgTypeOK, TxsFit, NEW w \in Workers, PgBootstrap(w)
    PROVE  TxsFit' /\ Paid
<1>0. /\ TypeOK /\ Rows /\ Len(children) \in Nat /\ tx' = tx /\ TxFits(w) /\ tx[w] \in Tx
      /\ \A v \in Workers : exec[v].item \in Items
  BY DEF PgTypeOK, TypeOK, Rows, TxsFit, PgBootstrap, Unlocked, Executor
<1>1. BootstrapAction(w)
  BY DEF PgBootstrap, BootstrapAction
<1>2. BootstrapMove(w)
  BY <1>0, <1>1, BootstrapMoves
<1>3. tx[w].op \notin {"claim"} \cup Recording \cup Finalizing
  BY <1>0, <1>2 DEF TxFits, PgTypeOK, OpenRecord, BootstrapMove, Bootstrapping
<1>4. TxFits(w)'
  BY <1>0, <1>3 DEF TxFits
<1>5. TxsFit'
  BY <1>0, <1>2, <1>4, TxsFitKept DEF BootstrapMove
<1>6. \A j \in Items : Potential(j)' \in Nat /\ Potential(j)' <= Potential(j) /\ Potential(j) \in Nat
  BY <1>0, <1>2, PotentialOfBootstrap, PotentialType
<1>7. Paid
  BY <1>0, <1>2, <1>6 DEF Paid, BootstrapMove, TypeOK
<1> QED
  BY <1>5, <1>7

LEMMA RecordPays ==
    ASSUME PgTypeOK, TxsFit, NEW w \in Workers,
           NEW s \in {"succeeded", "failed", "retryable_failure"}, NEW a \in Nat,
           NEW due \in BOOLEAN, NEW next, s \in Terminal \/ HasRetriesRemaining(w),
           PgRecord(w, s, a, due, next)
    PROVE  TxsFit' /\ Paid
<1>0. /\ tx \in [Workers -> Tx] /\ task[exec[w].item] \in TaskRow /\ s \in TaskStatus
  BY DEF PgTypeOK, TypeOK, Executor, TaskStatus
<1> DEFINE r == RecordedRow(task[exec[w].item], s, a, due)
           t == [op |-> "record", next |-> next, row |-> r]
<1>1. r.attempts = task[exec[w].item].attempts /\ r.status = s
  BY <1>0, RecordedRowFacts
<1>2. Begin(w, t) /\ UNCHANGED vars
  BY DEF PgRecord
<1> HIDE DEF r
<1>3. t.op = "record" /\ t.row = r
  OBVIOUS
<1> HIDE DEF t
<1>4. tx'[w] = t
  BY <1>0, <1>2 DEF Begin
<1>5. TxFits(w)'
  BY <1>1, <1>2, <1>3, <1>4 DEF TxFits, vars, HasRetriesRemaining, Recording, Finalizing
<1> QED
  BY <1>2, <1>5, TxStep DEF vars

LEMMA CommitPays ==
    ASSUME PgTypeOK, TxsFit, NEW w \in Workers, PgRecordCommit(w)
    PROVE  TxsFit' /\ Paid
<1>0. /\ TypeOK /\ Rows /\ TxFits(w) /\ tx[w].op \in Recording
      /\ \A v \in Workers : exec[v].item \in Items
      /\ crashes \in Nat /\ stalls \in Nat
  BY DEF PgTypeOK, TypeOK, Rows, TxsFit, PgRecordCommit, Recording, Executor
<1>1. /\ tx[w].row.attempts = task[exec[w].item].attempts
      /\ tx[w].row.status \in Terminal \/ HasRetriesRemaining(w)
  BY <1>0 DEF TxFits
<1>2. /\ exec[w].phase \in Working /\ exec'[w].phase \notin Working
      /\ \A v \in Workers : v # w => exec'[v] = exec[v] /\ tx'[v] = tx[v]
      /\ task'[exec[w].item] = tx[w].row
      /\ \A j \in Items : j # exec[w].item => task'[j] = task[j]
      /\ tx'[w] = NoTx /\ UNCHANGED <<crashes, stalls>>
  BY CommitFacts DEF Working
<1>3. \A j \in Items : Potential(j)' \in Nat /\ Potential(j)' <= Potential(j) /\ Potential(j) \in Nat
  BY <1>0, <1>1, <1>2, PotentialRecorded, PotentialType
<1>4. \A j \in Items : task'[j].attempts = task[j].attempts
  BY <1>1, <1>2
<1>5. TxsFit'
  BY <1>0, <1>2, <1>4, NoTxFits, TxsFitKept
<1>6. Paid
  BY <1>0, <1>2, <1>3 DEF Paid
<1> QED
  BY <1>5, <1>6

(* Claims that begin or find nothing, and the steps of a finalization.     *)
LEMMA TxPays ==
    ASSUME PgTypeOK, TxsFit, NEW w \in Workers,
           \/ PgClaimSnapshot(w) \/ PgClaimNothing(w) \/ PgCount(w)
           \/ PgFinalizeRead(w) \/ PgStoreArtifact(w) \/ PgReadStage(w)
           \/ PgFinalizeCommit(w) \/ PgFinalizeNextRun(w)
    PROVE  TxsFit' /\ Paid
<1>0. /\ tx \in [Workers -> Tx] /\ tx[w] \in Tx /\ TxFits(w) /\ exec \in [Workers -> Executor]
      /\ "idle" \notin Working /\ "recorded" \notin Working
  BY DEF PgTypeOK, TypeOK, TxsFit, Working, Bootstrapping
<1>1. \A t : Begin(w, t) => tx'[w] = t
  BY <1>0 DEF Begin
<1>2. CASE PgClaimSnapshot(w)
  <2> DEFINE t == [op |-> "claim", candidates |-> PgCandidates(task), stale |-> FALSE]
  <2>1. Begin(w, t) /\ UNCHANGED vars /\ exec[w].phase = "idle"
    BY <1>2 DEF PgClaimSnapshot
  <2>2. t.op = "claim"
    OBVIOUS
  <2> HIDE DEF t
  <2>3. TxFits(w)'
    BY <1>1, <2>1, <2>2 DEF TxFits, vars, Recording, Finalizing
  <2> QED
    BY <2>1, <2>3, TxStep DEF vars
<1>3. ASSUME End(w), UNCHANGED <<task, crashes, stalls>>,
             exec' = exec \/ (exec[w].phase \notin Working /\ Goto(w, "idle"))
      PROVE  TxsFit' /\ Paid
  <2>1. tx'[w] = NoTx /\ Begin(w, NoTx)
    BY <1>1, <1>3 DEF End
  <2>2. TxFits(w)'
    BY <2>1, NoTxFits
  <2> QED
    BY <1>3, <2>1, <2>2, TxStep
<1>4. CASE PgClaimNothing(w)
  BY <1>3, <1>4 DEF PgClaimNothing, vars
<1>5. CASE PgCount(w)
  <2> DEFINE c == Counts(Seen(w))
             q == PgDerivedStatus(Seen(w))
             t == [op |-> "refresh", next |-> tx[w].next, row |-> tx[w].row, counts |-> c, status |-> q]
  <2>1. Begin(w, t) /\ UNCHANGED vars /\ tx[w].op = "record"
    BY <1>5 DEF PgCount
  <2> HIDE DEF c, q
  <2>2. t.op = "refresh" /\ t.row = tx[w].row
    OBVIOUS
  <2> HIDE DEF t
  <2>3. TxFits(w)'
    BY <1>0, <1>1, <2>1, <2>2 DEF TxFits, vars, HasRetriesRemaining, Recording, Finalizing
  <2> QED
    BY <2>1, <2>3, TxStep DEF vars
<1>6. ASSUME NEW t, Begin(w, t), t.op \in Finalizing, UNCHANGED vars, exec[w].phase = "recorded"
      PROVE  TxsFit' /\ Paid
  <2>1. t.op \notin Recording /\ t.op # "claim"
    BY <1>6 DEF Recording, Finalizing
  <2>2. TxFits(w)'
    BY <1>1, <1>6, <2>1 DEF TxFits, vars
  <2> QED
    BY <1>6, <2>2, TxStep DEF vars
<1>7. CASE PgFinalizeRead(w)
  <2>1. CASE AllTerminal(task) /\ Unfinalized(run)
    <3> DEFINE t == [op |-> "finalize", entries |-> PgEntries(task)]
    <3>1. Begin(w, t) /\ UNCHANGED vars /\ exec[w].phase = "recorded"
      BY <1>7, <2>1 DEF PgFinalizeRead, vars
    <3>2. t.op \in Finalizing
      BY DEF Finalizing
    <3> HIDE DEF t
    <3> QED
      BY <1>6, <3>1, <3>2
  <2>2. CASE ~(AllTerminal(task) /\ Unfinalized(run))
    <3>1. Goto(w, "idle") /\ UNCHANGED tx /\ tx[w] = NoTx /\ exec[w].phase = "recorded"
      BY <1>7, <2>2 DEF PgFinalizeRead
    <3>2. End(w)
      BY <1>0, <3>1 DEF End, Begin
    <3> QED
      BY <1>0, <1>3, <1>7, <3>1, <3>2 DEF PgFinalizeRead
  <2> QED
    BY <2>1, <2>2
<1>8. ASSUME NEW o \in {"stored", "advancing"}, Begin(w, [tx[w] EXCEPT !.op = o]), UNCHANGED vars,
             tx[w].op \in Finalizing
      PROVE  TxsFit' /\ Paid
  <2> DEFINE t == [tx[w] EXCEPT !.op = o]
  <2>1. t.op = o /\ o \in Finalizing
    BY <1>0, <1>8, TxKinds DEF FinalizeTx, Finalizing
  <2>2. Begin(w, t) /\ exec[w].phase = "recorded"
    BY <1>0, <1>8 DEF TxFits
  <2> HIDE DEF t
  <2> QED
    BY <1>6, <1>8, <2>1, <2>2
<1>9. CASE PgStoreArtifact(w)
  BY <1>8, <1>9 DEF PgStoreArtifact, Finalizing
<1>10. CASE PgReadStage(w)
  <2>1. tx[w].op \in Finalizing /\ exec[w].phase \notin Working
    BY <1>0, <1>10 DEF PgReadStage, Finalizing, TxFits
  <2>2. CASE Unfinalized(run)
    BY <1>8, <1>10, <2>1, <2>2 DEF PgReadStage, vars
  <2>3. CASE ~Unfinalized(run)
    BY <1>3, <1>10, <2>1, <2>3 DEF PgReadStage
  <2> QED
    BY <2>2, <2>3
<1>11. CASE PgFinalizeCommit(w)
  <2>1. exec[w].phase \notin Working
    BY <1>0, <1>11 DEF PgFinalizeCommit, Finalizing, TxFits
  <2> QED
    BY <1>3, <1>11, <2>1 DEF PgFinalizeCommit
<1>12. CASE PgFinalizeNextRun(w)
  <2>1. End(w) /\ tx[w] = NoTx /\ exec[w].phase = "idle"
    BY <1>0, <1>12 DEF PgFinalizeNextRun, End, Begin
  <2>2. TxFits(w)' /\ Begin(w, NoTx)
    BY <1>1, <2>1, NoTxFits DEF End
  <2> QED
    BY <1>0, <1>12, <2>1, <2>2, TxStep DEF PgFinalizeNextRun
<1> QED
  BY <1>2, <1>4, <1>5, <1>7, <1>9, <1>10, <1>11, <1>12

LEMMA PgPaidNext == PgTypeOK /\ PgTypeOK' /\ TxsFit /\ [PgNext]_pgVars => TxsFit' /\ Paid
<1> SUFFICES ASSUME PgTypeOK, PgTypeOK', TxsFit, [PgNext]_pgVars PROVE TxsFit' /\ Paid
  OBVIOUS
<1>0. TypeOK /\ TypeOK' /\ tx \in [Workers -> Tx] /\ \A w \in Workers : exec[w] \in Executor
  BY DEF PgTypeOK, TypeOK
<1>1. ASSUME NEW w \in Workers, PgRecordSuccess(w) \/ PgRecordFailure(w) \/ PgRetryableFailure(w)
      PROVE  TxsFit' /\ Paid
  <2>1. exec[w].attempt \in Nat /\ "succeeded" \in Terminal /\ "failed" \in Terminal
    BY <1>0 DEF Executor, Terminal
  <2>2. CASE PgRecordSuccess(w) \/ PgRecordFailure(w)
    <3> DEFINE x == [exec[w] EXCEPT !.phase = "recorded"]
    <3>1. PgRecord(w, "succeeded", exec[w].attempt, TRUE, x) \/ PgRecord(w, "failed", exec[w].attempt, TRUE, x)
      BY <2>2 DEF PgRecordSuccess, PgRecordFailure
    <3> HIDE DEF x
    <3> QED
      BY <2>1, <3>1, RecordPays
  <2>3. CASE PgRetryableFailure(w)
    BY <2>3, RecordPays DEF PgRetryableFailure
  <2> QED
    BY <1>1, <2>2, <2>3
<1>2. ASSUME NEW w \in Workers, PgCrash(w) PROVE TxsFit' /\ Paid
  <2>1. Paid
    BY <1>0, <1>2, PotentialNext DEF PgCrash, Next
  <2>2. /\ tx'[w] = NoTx /\ \A v \in Workers : v # w => tx'[v] = tx[v] /\ exec'[v] = exec[v]
        /\ task' = task
    BY <1>0, <1>2 DEF PgCrash, Crash, End, Begin, TypeOK
  <2> QED
    BY <2>1, <2>2, NoTxFits, TxsFitKept
<1>3. ASSUME NEW i \in Items, PgClockStep(i) \/ (LeaseExpiresEarly(i) /\ UNCHANGED tx)
      PROVE  TxsFit' /\ Paid
  <2>1. Paid
    BY <1>0, <1>3, PotentialNext DEF PgClockStep, Next
  <2>2. ClockStep(i) \/ LeaseExpiresEarly(i)
    BY <1>3 DEF PgClockStep
  <2>3. tx' = tx /\ exec' = exec /\ \A j \in Items : task'[j].attempts = task[j].attempts
    BY <1>0, <1>3, <2>2, ClockRows DEF PgClockStep
  <2>4. \A w \in Workers : TxFits(w) => TxFits(w)'
    BY <1>0, <2>3 DEF TxFits, HasRetriesRemaining, Executor
  <2> QED
    BY <2>1, <2>4 DEF TxsFit
<1>4. CASE UNCHANGED pgVars
  <2>1. Paid
    BY <1>0, <1>4, PotentialNext DEF pgVars
  <2> QED
    BY <1>4, <2>1 DEF pgVars, vars, TxsFit, TxFits, HasRetriesRemaining
<1> QED
  BY <1>1, <1>2, <1>3, <1>4, ClaimPays, BootstrapPays, CommitPays, TxPays DEF PgNext, PgWorkerStep

LEMMA PgBudgetInit == PgInit => TxsFit /\ Budgeted
<1> SUFFICES ASSUME PgInit PROVE TxsFit /\ Budgeted
  OBVIOUS
<1>1. \A w \in Workers : tx[w] = NoTx
  BY DEF PgInit
<1>2. TxsFit
  BY <1>1, NoTxType DEF TxsFit, TxFits, NoTx, Recording, Finalizing
<1>3. Budgeted
  BY PotentialInit, BoundsAssumption DEF PgInit, Init, Budgeted
<1> QED
  BY <1>2, <1>3

LEMMA PgBudgetNext ==
    PgTypeOK /\ PgTypeOK' /\ TxsFit /\ Budgeted /\ [PgNext]_pgVars => TxsFit' /\ Budgeted'
BY PgPaidNext, PaidBudget DEF PgTypeOK

(* Over PostgreSQL, where a record takes effect long after it was decided, *)
(* retries keep to the same budget.                                        *)
THEOREM PgAttemptBudgetHolds == PgSpec => []AttemptBudget
<1>1. PgTypeOK /\ Budgeted => AttemptBudget
  BY BudgetWithin DEF PgTypeOK
<1> QED
  BY <1>1, PgTypeCorrect, PgBudgetInit, PgBudgetNext, PTL DEF PgSpec

-----------------------------------------------------------------------------
(* Whichever deployment runs, it keeps to its own invariant. *)

PgInvariant ==
    /\ PgTypeOK /\ SnapshotCount /\ Exclusive /\ OneHandle /\ Sealed /\ TxsFit /\ Budgeted
    /\ backend \notin Backends /\ upsets = 0

EmbInvariant ==
    /\ EmbState /\ EmbWithin /\ EmbExclusive /\ EmbHandled /\ EmbSettled /\ EmbBudgeted
    /\ tx = [w \in Workers |-> NoTx]

StoresInvariant ==
    \/ deployment = postgres /\ PgInvariant
    \/ deployment = embedded /\ EmbInvariant

LEMMA StoresInvariantInit == StoresInit => StoresInvariant
<1> SUFFICES ASSUME StoresInit PROVE StoresInvariant
  OBVIOUS
<1>1. CASE deployment = embedded
  <2>1. EmbInit /\ tx = [w \in Workers |-> NoTx]
    BY <1>1 DEF StoresInit, EmbInit
  <2> QED
    BY <1>1, <2>1, EmbStateInit, EmbWithinInit, EmbExclusiveInit, EmbHandledInit,
       EmbSettledInit, EmbBudgetInit DEF StoresInvariant, EmbInvariant
<1>2. CASE deployment # embedded
  <2>1. deployment = postgres /\ PgInit /\ backend \notin Backends /\ upsets = 0
    BY <1>2, BackendsAssumption DEF StoresInit, PgInit
  <2> QED
    BY <2>1, PgInitType, SnapshotInitial, PgExclusiveInit, PgOneHandleInit, SealedInit,
       PgBudgetInit DEF StoresInvariant, PgInvariant
<1> QED
  BY <1>1, <1>2

LEMMA StoresSteps ==
    ASSUME [StoresNext]_storesVars
    PROVE  /\ deployment' = deployment
           /\ deployment = postgres => [PgNext]_pgVars /\ UNCHANGED <<backend, upsets>>
           /\ deployment = embedded => [EmbNext]_embVars /\ UNCHANGED tx
BY DeploymentsAssumption DEF StoresNext, storesVars, pgVars, embVars, vars

LEMMA StoresInvariantNext == StoresInvariant /\ [StoresNext]_storesVars => StoresInvariant'
<1> SUFFICES ASSUME StoresInvariant, [StoresNext]_storesVars PROVE StoresInvariant'
  OBVIOUS
<1>1. CASE deployment = postgres /\ PgInvariant
  <2>1. [PgNext]_pgVars /\ UNCHANGED <<deployment, backend, upsets>>
    BY <1>1, StoresSteps
  <2>2. PgTypeOK' /\ SnapshotCount' /\ Exclusive' /\ OneHandle' /\ Sealed'
    BY <1>1, <2>1, PgNextType, SnapshotNext, PgExclusiveNext, PgOneHandleNext, SealedNext
    DEF PgInvariant
  <2>3. TxsFit' /\ Budgeted'
    BY <1>1, <2>1, <2>2, PgBudgetNext DEF PgInvariant
  <2> QED
    BY <1>1, <2>1, <2>2, <2>3 DEF StoresInvariant, PgInvariant
<1>2. CASE deployment = embedded /\ EmbInvariant
  <2>1. [EmbNext]_embVars /\ UNCHANGED <<deployment, tx>>
    BY <1>2, StoresSteps
  <2>2. EmbState' /\ EmbWithin' /\ EmbExclusive' /\ EmbHandled' /\ EmbSettled'
    BY <1>2, <2>1, EmbStateNext, EmbWithinNext, EmbExclusiveNext, EmbHandledNext, EmbSettledNext
    DEF EmbInvariant
  <2>3. EmbBudgeted'
    BY <1>2, <2>1, <2>2, EmbBudgetNext DEF EmbInvariant
  <2> QED
    BY <1>2, <2>1, <2>2, <2>3 DEF StoresInvariant, EmbInvariant
<1> QED
  BY <1>1, <1>2 DEF StoresInvariant

THEOREM StoresInvariantHolds == StoresSpec => []StoresInvariant
<1> QED
  BY StoresInvariantInit, StoresInvariantNext, PTL DEF StoresSpec

(* In every deployment an item has one executor at a time, until a lease   *)
(* runs out early or an overlapping unit of work undoes a claim.           *)
THEOREM StoresExclusiveHolds == StoresSpec => []StoresExclusive
<1>1. StoresInvariant => StoresExclusive
  BY DEF StoresInvariant, PgInvariant, EmbInvariant, EmbExclusive, Exclusive, StoresExclusive
<1> QED
  BY <1>1, StoresInvariantHolds, PTL

(* ... and a completed run's row is about the rows of its tasks.           *)
THEOREM StoresSettledRunHolds == StoresSpec => []StoresSettledRun
<1>1. StoresInvariant => StoresSettledRun
  <2>1. PgInvariant => SettledRun
    BY DEF PgInvariant, Sealed, SettledRun
  <2>2. EmbInvariant /\ upsets = 0 => SettledRun
    BY DEF EmbInvariant, EmbSettled, Settles, SettledRun
  <2> QED
    BY <2>1, <2>2 DEF StoresInvariant, StoresSettledRun
<1> QED
  BY <1>1, StoresInvariantHolds, PTL

(* One handle is published in every deployment.  A round that restores the *)
(* run row restores the ledger with it: the handle is published again only *)
(* when its publication was undone.                                        *)
THEOREM StoresOneHandleHolds == StoresSpec => []OneHandle
<1>1. StoresInvariant => OneHandle
  BY HandledOnce DEF StoresInvariant, PgInvariant, EmbInvariant
<1> QED
  BY <1>1, StoresInvariantHolds, PTL

(* A round may undo an executor's record while the executor goes on, and a *)
(* lease may run out under its executor, in process as over PostgreSQL:    *)
(* what is done again is bounded, in every deployment, by the executors    *)
(* that died or stalled and the units of work that were refused or undone. *)
THEOREM StoresLossesHold == StoresSpec => []LossesArePaidFor
<1>1. StoresInvariant => LossesArePaidFor
  <2>1. CASE PgInvariant
    <3>1. AttemptBudget /\ upsets = 0 /\ crashes \in Nat /\ stalls \in Nat
      BY <2>1, BudgetWithin DEF PgInvariant, PgTypeOK, TypeOK
    <3> QED
      BY <3>1, BoundsAssumption DEF AttemptBudget, LossesArePaidFor
  <2>2. CASE EmbInvariant
    BY <2>2, EmbBudgetPays DEF EmbInvariant
  <2> QED
    BY <2>1, <2>2 DEF StoresInvariant
<1> QED
  BY <1>1, StoresInvariantHolds, PTL

(* Neither the rows that rounds restore nor the takeovers of expired       *)
(* leases, their executors gone or still at work, push the live leases of  *)
(* an embedded store beyond concurrencyLimit.                              *)
THEOREM StoresLimitHolds == StoresSpec => []EmbLeaseLimit
<1>1. StoresInvariant => EmbLeaseLimit
  BY WithinLimit DEF StoresInvariant, PgInvariant, EmbInvariant, EmbLeaseLimit
<1> QED
  BY <1>1, StoresInvariantHolds, PTL

(* PostgreSQL's claims exceed it only when another overtook them.          *)
THEOREM StoresOvertakenHolds == StoresSpec => LimitKeptUnlessOvertaken
<1>1. StoresInvariant /\ [StoresNext]_storesVars =>
        [\A w \in Workers :
            /\ tx[w].op = "claim" /\ ~tx[w].stale
            /\ exec[w].phase = "idle" /\ exec'[w].phase # "idle"
            => Cardinality(LiveLeases(task')) <= ConcurrencyLimit]_pgVars
  <2> SUFFICES ASSUME StoresInvariant, [StoresNext]_storesVars, NEW w \in Workers,
                      tx[w].op = "claim", ~tx[w].stale,
                      exec[w].phase = "idle", exec'[w].phase # "idle"
               PROVE  Cardinality(LiveLeases(task')) <= ConcurrencyLimit
    OBVIOUS
  <2>1. deployment = postgres /\ PgInvariant
    BY NoTxType DEF StoresInvariant, EmbInvariant, NoTx
  <2>2. [PgNext]_pgVars
    BY <2>1, StoresSteps
  <2> QED
    BY <2>1, <2>2, LimitStep DEF PgInvariant
<1> QED
  BY <1>1, StoresInvariantHolds, PTL DEF StoresSpec, LimitKeptUnlessOvertaken
=============================================================================
