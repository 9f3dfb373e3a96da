------------------------ MODULE AgentSessionsProofs ------------------------
(* The bindings of sessions to conversations, and what the checkpoints say *)
(* is archived, for every number of sessions and processes, every pattern  *)
(* of crashes and overlaps, and every growth of the transcripts; then the   *)
(* state that is read off the records of a conversation, and what every     *)
(* Stop leaves in it.                                                       *)
EXTENDS AgentSessions, ListTheorems

(* What a value must be for EXCEPT and Append to do what they say.         *)
SessionsType ==
    /\ cast \in Casts
    /\ transcript \in [Sessions -> Seq({"step", "other", "torn"})]
    /\ issued \in Nat
    /\ archive \in Seq(ToSet(archive))
    /\ files = [f \in Files |-> [torn |-> files[f].torn, contested |-> files[f].contested,
                                 rows |-> files[f].rows]]
    /\ caller = [p \in Callers |-> caller[p]]
    /\ \A p \in Callers :
        /\ caller[p].pc # "idle" => caller[p].session \in Sessions
        /\ caller[p].pc \in {"read_file", "truncate", "write"} => caller[p].file \in Files

Moved(p, x) == caller' = [caller EXCEPT ![p] = x]

(* At the end of its way a process has either found its session's row, or  *)
(* has not yet, or is about to write it.                                   *)
Unsaved(r) ==
    \/ r.pc = "parent" /\ r.conv = 0
    \/ r.pc = "create"
    \/ r.pc \in {"read_file", "truncate"} /\ r.file = "bindings"

Resolved(r) ==
    /\ r.pc \notin {"idle", "find", "create"}
    /\ r.pc = "parent" => r.conv # 0
    /\ r.pc \in {"read_file", "truncate"} => r.file # "bindings"

Has(B, s, c) == \E x \in B : x.session = s /\ x.conv = c

(* The row that r adds to B. *)
NewRow(B, r, row) ==
    /\ row.session = r.session /\ row.conv = r.conv
    /\ r.conv \in 1 .. issued
    /\ \A x \in B : x.conv # r.conv
    /\ ParentOf[r.session] # NoSession => Has(B, ParentOf[r.session], row.parent)

PathOK(B, r) ==
    /\ Resolved(r) => Has(B, r.session, r.conv)
    /\ Unsaved(r) => \A x \in B : x.session # r.session
    /\ r.pc = "append" => \A e \in r.events : e.type = "record" \/ e.session = r.session
    /\ r.pc = "create" /\ ParentOf[r.session] # NoSession => Has(B, ParentOf[r.session], r.parent)
    /\ r.pc = "read_file" /\ r.file = "bindings" => NewRow(B, r, r.row)
    /\ r.pc = "truncate" /\ r.file = "bindings" =>
        \E row \in r.rows : NewRow(B, r, row) /\ r.rows = WithRow(B, row)

Writing(f, r) == r.pc \in {"truncate", "write"} /\ r.file = f

(* The rows of file f, E, as they are or, once the file is torn, as they   *)
(* will be or would have been.                                             *)
FileHolds(f, E) ==
    /\ files[f].rows = IF files[f].torn THEN {} ELSE E
    /\ \A p \in Callers :
        /\ caller[p].pc = "truncate" /\ caller[p].file = f => ~ files[f].torn
        /\ caller[p].pc = "write" /\ caller[p].file = f =>
            /\ files[f].torn /\ ~ files[f].contested
            /\ caller[p].rows = E
    /\ \A p, q \in Callers : Writing(f, caller[p]) /\ Writing(f, caller[q]) => p = q

(* The bindings B: one row per session, a conversation of its own in each  *)
(* except those that the host bound, and lineages that are bound; all that *)
(* was archived for a session is in its conversation.                      *)
BindingsOK(B) ==
    /\ \A r, x \in B : r.session = x.session => r = x
    /\ \A r \in B : r.conv \in 1 .. issued
    /\ \A r, x \in B : r.conv = x.conv => r = x \/ r.conv = 1
    /\ \A r \in B : ParentOf[r.session] # NoSession => Has(B, ParentOf[r.session], r.parent)
    /\ \A j \in DOMAIN archive : \A e \in archive[j].events :
        e.type = "record" \/ Has(B, e.session, archive[j].conv)

(* Of two on their way to the file each has its own session, and each that  *)
(* has made up a conversation its own conversation.                        *)
Apart(r, x) ==
    Unsaved(r) /\ Unsaved(x) =>
        /\ r.session # x.session
        /\ {r.pc, x.pc} \cap {"parent", "create"} = {} => r.conv # x.conv

PathsApart == \A p, q \in Callers : p # q => Apart(caller[p], caller[q])

BindingInv(B) ==
    /\ BindingsOK(B)
    /\ FileHolds("bindings", B)
    /\ PathsApart
    /\ \A p \in Callers : PathOK(B, caller[p])
-----------------------------------------------------------------------------
(* What the first n lines of s say is in the ledger, as far as they hold   *)
(* messages and were read whole.                                           *)
Covered(s, n) ==
    /\ s \in Sessions /\ n \in 0 .. Len(transcript[s])
    /\ \A i \in 1 .. n :
        transcript[s][i] = "other" \/ <<"torn", s, i>> \in mishaps \/ Said(s, i)

CoverOK(r) ==
    /\ r.pc = "parse" => Covered(r.session, r.start)
    /\ r.pc = "append" =>
        /\ r.row.session = r.session /\ r.row.lines \in 0 .. Len(transcript[r.session])
        /\ \A i \in 1 .. r.row.lines :
            \/ transcript[r.session][i] = "other"
            \/ <<"torn", r.session, i>> \in mishaps
            \/ Said(r.session, i)
            \/ Message(r.session, i) \in r.events
    /\ r.pc = "read_file" /\ r.file = "checkpoints" => Covered(r.row.session, r.row.lines)
    /\ Writing("checkpoints", r) => \A x \in r.rows : Covered(x.session, x.lines)

CoverInv ==
    /\ \A x \in files["checkpoints"].rows : Covered(x.session, x.lines)
    /\ \A p \in Callers : CoverOK(caller[p])

(* How far the checkpoints E say that the transcript of s is archived.     *)
Mark(E, s) == IF \E x \in E : x.session = s THEN (CHOOSE x \in E : x.session = s).lines ELSE 0

Archiver(r) ==
    \/ r.pc \in {"parse", "append"}
    \/ r.pc \in {"read_file", "truncate"} /\ r.file = "checkpoints"

(* r has appended the lines of s up to i, and goes on to its checkpoint.   *)
Keeps(r, s, i) ==
    /\ r.pc \in {"read_file", "truncate"} /\ r.file = "checkpoints" /\ r.appended
    /\ r.session = s
    /\ r.pc = "read_file" => i <= r.row.lines
    /\ r.pc = "truncate" => i <= Mark(r.rows, s)

ArchiverOK(E, r) ==
    /\ r.pc = "parse" => r.start = Mark(E, r.session)
    /\ r.pc = "append" =>
        \A s \in Sessions, i \in Nat : Message(s, i) \in r.events =>
            s = r.session /\ Mark(E, s) < i /\ i <= r.row.lines
    /\ r.pc = "append" \/ (r.pc = "read_file" /\ r.file = "checkpoints") =>
        /\ r.row.session = r.session /\ r.row.lines \in Nat
        /\ Mark(E, r.session) <= r.row.lines
    /\ r.pc = "truncate" /\ r.file = "checkpoints" =>
        \E row \in r.rows :
            /\ row.session = r.session /\ row.lines \in Nat /\ Mark(E, r.session) <= row.lines
            /\ r.rows = WithRow(E, row)

(* The checkpoints E: a line beyond them is in the ledger only if the one   *)
(* process that appended it is about to say so, and no line is there twice. *)
CheckpointsOK(E) ==
    /\ \A r, x \in E : r.session = x.session => r = x
    /\ \A r \in E : r.lines \in Nat
    /\ \A s \in Sessions, i \in Nat, j \in DOMAIN archive :
        Message(s, i) \in archive[j].events =>
            /\ i <= Mark(E, s) \/ \E p \in Callers : Keeps(caller[p], s, i)
            /\ \A k \in DOMAIN archive : Message(s, i) \in archive[k].events => j = k

ArchiversApart ==
    \A p, q \in Callers :
        p # q /\ Archiver(caller[p]) /\ Archiver(caller[q]) => caller[p].session # caller[q].session

CheckpointInv(E) ==
    /\ CheckpointsOK(E)
    /\ FileHolds("checkpoints", E)
    /\ ArchiversApart
    /\ \A p \in Callers : ArchiverOK(E, caller[p])

-----------------------------------------------------------------------------
(* The new record of a process that goes on. *)
LEMMA GoesShape ==
    ASSUME NEW p \in Callers, NEW pc, NEW fields, Goes(p, pc, fields)
    PROVE  \E x : /\ Moved(p, x)
                  /\ x.pc = pc
                  /\ \A f \in DOMAIN fields \ {"pc"} : x[f] = fields[f]
                  /\ \A f \in {"kind", "session", "last", "conv", "appended"} \ DOMAIN fields :
                        x[f] = caller[p][f]
<1> DEFINE x == [f \in {"pc", "kind", "session", "last", "conv", "appended"} \cup DOMAIN fields |->
                    IF f = "pc" THEN pc ELSE IF f \in DOMAIN fields THEN fields[f] ELSE caller[p][f]]
<1>1. Moved(p, x)
  BY DEF Goes, Moved
<1>2. x.pc = pc
  OBVIOUS
<1>3. \A f \in DOMAIN fields \ {"pc"} : x[f] = fields[f]
  OBVIOUS
<1>4. \A f \in {"kind", "session", "last", "conv", "appended"} \ DOMAIN fields : x[f] = caller[p][f]
  OBVIOUS
<1> HIDE DEF x
<1> QED
  BY <1>1, <1>2, <1>3, <1>4

(* What a move means for the other processes. *)
LEMMA MovedShape ==
    ASSUME caller = [q \in Callers |-> caller[q]], NEW p \in Callers, NEW x, Moved(p, x)
    PROVE  /\ caller' = [q \in Callers |-> caller'[q]]
           /\ caller'[p] = x
           /\ \A q \in Callers \ {p} : caller'[q] = caller[q]
BY DEF Moved

-----------------------------------------------------------------------------
(* What an append leaves: the batches so far, and its own among them.      *)
LEMMA ArchiveGrows ==
    ASSUME archive \in Seq(ToSet(archive)), NEW b, archive' = Append(archive, b)
    PROVE  /\ archive' \in Seq(ToSet(archive'))
           /\ DOMAIN archive = 1 .. Len(archive) /\ Len(archive) \in Nat
           /\ DOMAIN archive' = 1 .. Len(archive) + 1
           /\ \A j \in DOMAIN archive : archive'[j] = archive[j]
           /\ archive'[Len(archive) + 1] = b
<1> DEFINE S == ToSet(archive)
           T == S \cup {b}
           n == Len(archive)
<1>1. archive \in Seq(S) /\ archive \in Seq(T)
  OBVIOUS
<1>2. n \in Nat /\ DOMAIN archive = 1 .. n
  BY <1>1
<1> HIDE DEF S
<1>3. /\ archive' \in Seq(T)
      /\ Len(archive') = n + 1
      /\ \A j \in 1 .. n : archive'[j] = archive[j]
      /\ archive'[n + 1] = b
  BY <1>1, AppendProperties
<1>4. DOMAIN archive' = 1 .. n + 1
  BY <1>3
<1>5. T \subseteq ToSet(archive')
  BY <1>2, <1>3, <1>4 DEF S, ToSet
<1>6. archive' \in Seq(ToSet(archive'))
  BY <1>3, <1>5
<1> QED
  BY <1>2, <1>3, <1>4, <1>6

LEMMA AppendsShape ==
    ASSUME archive \in Seq(ToSet(archive)), NEW c, NEW key, NEW events, Appends(c, key, events)
    PROVE  /\ archive' \in Seq(ToSet(archive'))
           /\ DOMAIN archive \subseteq DOMAIN archive'
           /\ \A j \in DOMAIN archive : archive'[j] = archive[j]
           /\ \A j \in DOMAIN archive' \ DOMAIN archive :
                archive'[j].conv = c /\ archive'[j].events = events
           /\ \E j \in DOMAIN archive' : Digest(archive'[j].events) = Digest(events)
           /\ \A j, k \in DOMAIN archive' \ DOMAIN archive : j = k
<1>1. CASE BatchesOf(c, key) = {}
  <2>1. PICK b : b = [conv |-> c, key |-> key, events |-> events]
    OBVIOUS
  <2>2. archive' = Append(archive, b)
    BY <1>1, <2>1 DEF Appends
  <2>3. /\ archive' \in Seq(ToSet(archive'))
        /\ DOMAIN archive = 1 .. Len(archive) /\ Len(archive) \in Nat
        /\ DOMAIN archive' = 1 .. Len(archive) + 1
        /\ \A j \in DOMAIN archive : archive'[j] = archive[j]
        /\ archive'[Len(archive) + 1] = b
    BY <2>2, ArchiveGrows
  <2>4. \A j \in DOMAIN archive' \ DOMAIN archive : j = Len(archive) + 1
    BY <2>3
  <2>5. Len(archive) + 1 \in DOMAIN archive'
    BY <2>3
  <2> QED
    BY <2>1, <2>3, <2>4, <2>5
<1>2. CASE BatchesOf(c, key) # {}
  <2>1. archive' = archive
    BY <1>2 DEF Appends
  <2>2. PICK b \in BatchesOf(c, key) : Digest(b.events) = Digest(events)
    BY <1>2 DEF Appends
  <2>3. \E j \in DOMAIN archive : archive[j] = b
    BY <2>2 DEF BatchesOf, ToSet
  <2> QED
    BY <2>1, <2>2, <2>3
<1> QED
  BY <1>1, <1>2

-----------------------------------------------------------------------------
(* The types are kept. *)
LEMMA FilesShape ==
    ASSUME SessionsType, NEW f \in Files, NEW torn, NEW contested, NEW rows,
           files' = [files EXCEPT ![f] = [torn |-> torn, contested |-> contested, rows |-> rows]]
    PROVE  /\ files'[f].torn = torn /\ files'[f].contested = contested /\ files'[f].rows = rows
           /\ \A g \in Files \ {f} : files'[g] = files[g]
           /\ files' = [g \in Files |-> [torn |-> files'[g].torn, contested |-> files'[g].contested,
                                         rows |-> files'[g].rows]]
<1>1. DOMAIN files = Files
  BY DEF SessionsType
<1>2. files'[f] = [torn |-> torn, contested |-> contested, rows |-> rows]
  BY <1>1
<1>3. \A g \in Files \ {f} : files'[g] = files[g]
  BY <1>1
<1>4. \A g \in Files : files[g] = [torn |-> files[g].torn, contested |-> files[g].contested,
                                  rows |-> files[g].rows]
  BY DEF SessionsType
<1>5. \A g \in Files : files'[g] = [torn |-> files'[g].torn, contested |-> files'[g].contested,
                                   rows |-> files'[g].rows]
  BY <1>2, <1>3, <1>4
<1>6. files' = [g \in Files |-> files'[g]]
  BY <1>1
<1> QED
  BY <1>2, <1>3, <1>5, <1>6

LEMMA FileWritten ==
    ASSUME SessionsType, NEW p \in Callers, WriteFile(p)
    PROVE  LET file == caller[p].file IN
           /\ file \in Files
           /\ \E torn \in {FALSE, files[file].contested} :
                files'[file].torn = torn /\ files'[file].rows = IF torn THEN {} ELSE caller[p].rows
           /\ files'[file].contested = files[file].contested
           /\ \A g \in Files \ {file} : files'[g] = files[g]
           /\ files' = [g \in Files |-> [torn |-> files'[g].torn, contested |-> files'[g].contested,
                                         rows |-> files'[g].rows]]
<1>1. PICK file : file = caller[p].file /\ file \in Files
  BY DEF SessionsType, WriteFile, At
<1>t. PICK torn \in {FALSE, files[file].contested} :
        files' = [files EXCEPT ![file].torn = torn, ![file].rows = IF torn THEN {} ELSE caller[p].rows]
  BY <1>1 DEF WriteFile
<1>2. PICK rows :
        /\ rows = IF torn THEN {} ELSE caller[p].rows
        /\ files' = [files EXCEPT ![file].torn = torn, ![file].rows = rows]
  BY <1>t
<1>3. files' = [files EXCEPT ![file] = [torn |-> torn, contested |-> files[file].contested, rows |-> rows]]
  <2>1. PICK row : row = files[file]
    OBVIOUS
  <2>2. row = [torn |-> row.torn, contested |-> row.contested, rows |-> row.rows]
    BY <1>1, <2>1 DEF SessionsType
  <2>3. [[row EXCEPT !.torn = torn] EXCEPT !.rows = rows]
            = [torn |-> torn, contested |-> row.contested, rows |-> rows]
    <3>1. PICK a, b, c : row = [torn |-> a, contested |-> b, rows |-> c]
      BY <2>2
    <3>2. PICK x : x = [row EXCEPT !.torn = torn]
      OBVIOUS
    <3>3. x = [torn |-> torn, contested |-> b, rows |-> c]
      BY <3>1, <3>2
    <3>4. [x EXCEPT !.rows = rows] = [torn |-> torn, contested |-> b, rows |-> rows]
      BY <3>3
    <3>5. row.contested = b
      BY <3>1
    <3> QED
      BY <3>2, <3>4, <3>5
  <2>4. files' = [files EXCEPT ![file] = [[row EXCEPT !.torn = torn] EXCEPT !.rows = rows]]
    BY <1>1, <1>2, <2>1 DEF SessionsType
  <2> QED
    BY <2>1, <2>3, <2>4
<1>4. /\ files'[file].torn = torn
      /\ files'[file].contested = files[file].contested
      /\ files'[file].rows = rows
      /\ \A g \in Files \ {file} : files'[g] = files[g]
      /\ files' = [g \in Files |-> [torn |-> files'[g].torn, contested |-> files'[g].contested,
                                    rows |-> files'[g].rows]]
  BY <1>1, <1>3, FilesShape
<1>5. \E t \in {FALSE, files[file].contested} :
        files'[file].torn = t /\ files'[file].rows = IF t THEN {} ELSE caller[p].rows
  BY <1>2, <1>4
<1> QED
  BY <1>1, <1>4, <1>5

LEMMA TypeMoves ==
    ASSUME SessionsType, NEW p \in Callers, NEW x, Moved(p, x), UNCHANGED <<cast, transcript>>,
           issued' \in Nat, archive' \in Seq(ToSet(archive')),
           files' = [f \in Files |-> [torn |-> files'[f].torn, contested |-> files'[f].contested,
                                      rows |-> files'[f].rows]],
           x.pc # "idle" => x.session \in Sessions,
           x.pc \in {"read_file", "truncate", "write"} => x.file \in Files
    PROVE  SessionsType'
<1>1. /\ caller' = [q \in Callers |-> caller'[q]]
      /\ caller'[p] = x
      /\ \A q \in Callers \ {p} : caller'[q] = caller[q]
  BY MovedShape DEF SessionsType
<1>2. \A q \in Callers :
        /\ caller'[q].pc # "idle" => caller'[q].session \in Sessions
        /\ caller'[q].pc \in {"read_file", "truncate", "write"} => caller'[q].file \in Files
  BY <1>1 DEF SessionsType
<1> QED
  BY <1>1, <1>2 DEF SessionsType

LEMMA TypeKept ==
    ASSUME SessionsType, UNCHANGED <<issued, archive, files>>
    PROVE  /\ issued' \in Nat /\ archive' \in Seq(ToSet(archive'))
           /\ files' = [f \in Files |-> [torn |-> files'[f].torn, contested |-> files'[f].contested,
                                         rows |-> files'[f].rows]]
BY DEF SessionsType, ToSet

(* A process that goes on keeps its session. *)
LEMMA TypeGoes ==
    ASSUME SessionsType, NEW p \in Callers, caller[p].pc # "idle", NEW pc, NEW fields, Goes(p, pc, fields),
           "session" \notin DOMAIN fields, "pc" \notin DOMAIN fields,
           pc \in {"read_file", "truncate", "write"} => "file" \in DOMAIN fields /\ fields["file"] \in Files,
           UNCHANGED <<cast, transcript>>, issued' \in Nat, archive' \in Seq(ToSet(archive')),
           files' = [f \in Files |-> [torn |-> files'[f].torn, contested |-> files'[f].contested,
                                      rows |-> files'[f].rows]]
    PROVE  SessionsType'
<1>1. PICK x : /\ Moved(p, x)
               /\ x.pc = pc
               /\ \A f \in DOMAIN fields \ {"pc"} : x[f] = fields[f]
               /\ \A f \in {"kind", "session", "last", "conv", "appended"} \ DOMAIN fields :
                     x[f] = caller[p][f]
  BY GoesShape
<1>2. x.session = caller[p].session
  BY <1>1
<1>3. caller[p].session \in Sessions
  BY DEF SessionsType
<1>4. pc \in {"read_file", "truncate", "write"} => x.file = fields["file"]
  BY <1>1
<1> QED
  BY <1>1, <1>2, <1>3, <1>4, TypeMoves

LEMMA TypeEnds ==
    ASSUME SessionsType, NEW p \in Callers, Ends(p), UNCHANGED <<cast, transcript>>, issued' \in Nat,
           archive' \in Seq(ToSet(archive')),
           files' = [f \in Files |-> [torn |-> files'[f].torn, contested |-> files'[f].contested,
                                      rows |-> files'[f].rows]]
    PROVE  SessionsType'
<1>1. PICK x : x = Idle
  OBVIOUS
<1>2. Moved(p, x)
  BY <1>1 DEF Ends, Moved
<1>3. x.pc = "idle"
  BY <1>1 DEF Idle
<1> QED
  BY <1>2, <1>3, TypeMoves

LEMMA TypeInit == SessionsInit => SessionsType
<1> SUFFICES ASSUME SessionsInit PROVE SessionsType
  OBVIOUS
<1>1. PICK bound : /\ conversations = IF bound = {} THEN {} ELSE {1}
                   /\ issued = Cardinality(conversations)
                   /\ files = [f \in Files |-> [torn |-> FALSE, contested |-> FALSE,
                        rows |-> IF f = "bindings"
                                 THEN {[session |-> s, conv |-> 1, parent |-> 0] : s \in bound} ELSE {}]]
  BY DEF SessionsInit
<1>2. issued \in Nat
  <2>1. CASE bound = {}
    BY <1>1, <2>1, FS_EmptySet
  <2>2. CASE bound # {}
    <3>1. conversations = {1}
      BY <1>1, <2>2
    <3>2. Cardinality({1}) = 1
      BY FS_Singleton
    <3> QED
      BY <1>1, <3>1, <3>2
  <2> QED
    BY <2>1, <2>2
<1>3. files = [f \in Files |-> [torn |-> files[f].torn, contested |-> files[f].contested,
                               rows |-> files[f].rows]]
  BY <1>1
<1>4. archive \in Seq(ToSet(archive))
  BY DEF SessionsInit, ToSet
<1>5. /\ caller = [p \in Callers |-> caller[p]]
      /\ \A p \in Callers : caller[p].pc = "idle"
  BY DEF SessionsInit, Idle
<1>6. transcript \in [Sessions -> Seq({"step", "other", "torn"})] /\ cast \in Casts
  BY DEF SessionsInit
<1> QED
  BY <1>2, <1>3, <1>4, <1>5, <1>6 DEF SessionsType

LEMMA LineWritten ==
    ASSUME SessionsType, NEW s \in cast.sessions, NEW line \in {"step", "other", "torn"}, WriteLine(s, line)
    PROVE  /\ transcript' \in [Sessions -> Seq({"step", "other", "torn"})]
           /\ \A x \in Sessions :
                /\ Len(transcript[x]) \in Nat /\ Len(transcript'[x]) \in Nat
                /\ Len(transcript[x]) <= Len(transcript'[x])
                /\ \A i \in 1 .. Len(transcript[x]) :
                     transcript'[x][i] = transcript[x][i] \/ transcript[x][i] = "torn"
<1>0. s \in Sessions
  BY SessionsAssumption DEF SessionsType
<1>1. PICK lines : lines = transcript[s]
  OBVIOUS
<1>2. lines \in Seq({"step", "other", "torn"}) /\ Len(lines) \in Nat
  BY <1>0, <1>1 DEF SessionsType
<1>3. CASE Len(lines) > 0 /\ lines[Len(lines)] = "torn"
  <2>1. transcript' = [transcript EXCEPT ![s][Len(lines)] = line]
    BY <1>1, <1>3 DEF WriteLine
  <2>2. PICK new : new = [lines EXCEPT ![Len(lines)] = line]
    OBVIOUS
  <2>3. transcript' = [transcript EXCEPT ![s] = new]
    BY <2>1, <2>2, <1>1
  <2>4. /\ new \in Seq({"step", "other", "torn"}) /\ Len(new) = Len(lines)
        /\ \A i \in 1 .. Len(lines) : new[i] = lines[i] \/ lines[i] = "torn"
    BY <1>2, <1>3, <2>2
  <2> QED
    BY <1>0, <1>1, <1>2, <2>3, <2>4 DEF SessionsType
<1>4. CASE ~ (Len(lines) > 0 /\ lines[Len(lines)] = "torn")
  <2>1. PICK new : new = Append(lines, line)
    OBVIOUS
  <2>2. transcript' = [transcript EXCEPT ![s] = new]
    BY <1>1, <1>4, <2>1 DEF WriteLine
  <2>3. /\ new \in Seq({"step", "other", "torn"}) /\ Len(new) = Len(lines) + 1
        /\ \A i \in 1 .. Len(lines) : new[i] = lines[i]
    BY <1>2, <2>1
  <2> QED
    BY <1>0, <1>1, <1>2, <2>2, <2>3 DEF SessionsType
<1> QED
  BY <1>3, <1>4

LEMMA TypeNext == SessionsType /\ [SessionsNext]_sessionVars => SessionsType'
<1> SUFFICES ASSUME SessionsType, [SessionsNext]_sessionVars PROVE SessionsType'
  OBVIOUS
<1>k. UNCHANGED <<issued, archive, files>> =>
        /\ issued' \in Nat /\ archive' \in Seq(ToSet(archive'))
        /\ files' = [f \in Files |-> [torn |-> files'[f].torn, contested |-> files'[f].contested,
                                      rows |-> files'[f].rows]]
  BY TypeKept
<1>1. CASE UNCHANGED sessionVars
  BY <1>1 DEF sessionVars, SessionsType, ToSet
<1>2. ASSUME NEW s \in cast.sessions, NEW line \in {"step", "other", "torn"}, WriteLine(s, line)
      PROVE  SessionsType'
  BY <1>2, LineWritten, <1>k DEF WriteLine, SessionsType
<1>3. ASSUME NEW p \in Callers, NEW kind \in cast.kinds, NEW s \in cast.sessions, NEW last,
             Begin(p, kind, s, last)
      PROVE  SessionsType'
  <2>1. PICK x : x = [pc |-> "find", kind |-> kind, session |-> s, last |-> last, conv |-> 0,
                      appended |-> FALSE]
    OBVIOUS
  <2>2. Moved(p, x) /\ UNCHANGED <<cast, transcript, issued, archive, files>>
    BY <1>3, <2>1 DEF Begin, Moved
  <2>3. x.pc = "find" /\ x.session \in Sessions
    BY <2>1, SessionsAssumption DEF SessionsType
  <2> QED
    BY <1>k, <2>2, <2>3, TypeMoves
<1>4. ASSUME NEW p \in Callers, Crash(p) PROVE SessionsType'
  BY <1>4, <1>k, TypeEnds DEF Crash
<1>5. ASSUME NEW p \in Callers, Find(p) PROVE SessionsType'
  <2>1. UNCHANGED <<cast, transcript, issued, archive, files>> /\ caller[p].pc # "idle"
    BY <1>5 DEF Find, At
  <2>2. CASE Ends(p)
    BY <1>k, <2>1, <2>2, TypeEnds
  <2>3. ASSUME NEW pc, NEW conv, NEW lineage, pc \notin {"read_file", "truncate", "write"},
               Goes(p, pc, [conv |-> conv, parent |-> 0, lineage |-> lineage])
        PROVE  SessionsType'
    BY <1>k, <2>1, <2>3, TypeGoes
  <2>4. CASE ~ Ends(p)
    <3>1. PICK pc, conv, lineage :
            /\ \/ pc = "parent" \/ pc = "create" \/ pc = Purpose(caller[p].kind)
            /\ Goes(p, pc, [conv |-> conv, parent |-> 0, lineage |-> lineage])
      BY <1>5, <2>4 DEF Find
    <3>2. pc \notin {"read_file", "truncate", "write"}
      BY <3>1 DEF Purpose
    <3> QED
      BY <2>3, <3>1, <3>2
  <2> QED
    BY <2>2, <2>4
<1>6. ASSUME NEW p \in Callers, FindParent(p) PROVE SessionsType'
  <2>1. UNCHANGED <<cast, transcript, issued, archive, files>> /\ caller[p].pc # "idle"
    BY <1>6 DEF FindParent, At
  <2>2. CASE Ends(p)
    BY <1>k, <2>1, <2>2, TypeEnds
  <2>3. ASSUME NEW pc, NEW parent, pc \notin {"read_file", "truncate", "write"},
               Goes(p, pc, [parent |-> parent])
        PROVE  SessionsType'
    BY <1>k, <2>1, <2>3, TypeGoes
  <2> QED
    BY <1>6, <2>2, <2>3 DEF FindParent, Purpose
<1>7. ASSUME NEW p \in Callers, CreateBinding(p) PROVE SessionsType'
  <2>1. UNCHANGED <<cast, transcript, archive, files>> /\ caller[p].pc # "idle"
    BY <1>7 DEF CreateBinding, At
  <2>2. issued' = issued \/ issued' = issued + 1
    BY <1>7 DEF CreateBinding
  <2>3. /\ issued' \in Nat /\ archive' \in Seq(ToSet(archive'))
        /\ files' = [f \in Files |-> [torn |-> files'[f].torn, contested |-> files'[f].contested,
                                      rows |-> files'[f].rows]]
    BY <2>1, <2>2 DEF SessionsType, ToSet
  <2>4. CASE Ends(p)
    BY <2>1, <2>3, <2>4, TypeEnds
  <2>5. ASSUME NEW row, NEW conv, Goes(p, "read_file", [file |-> "bindings", row |-> row, conv |-> conv])
        PROVE  SessionsType'
    BY <2>1, <2>3, <2>5, TypeGoes DEF Files
  <2> QED
    BY <1>7, <2>4, <2>5 DEF CreateBinding
<1>8. ASSUME NEW p \in Callers, ReadFile(p) PROVE SessionsType'
  <2>1. UNCHANGED <<cast, transcript, issued, archive, files>> /\ caller[p].pc = "read_file"
    BY <1>8 DEF ReadFile, At
  <2>2. caller[p].file \in Files
    BY <2>1 DEF SessionsType
  <2>3. CASE Ends(p)
    BY <1>k, <2>1, <2>3, TypeEnds
  <2>4. ASSUME NEW rows, Goes(p, "truncate", [file |-> caller[p].file, rows |-> rows])
        PROVE  SessionsType'
    BY <1>k, <2>1, <2>2, <2>4, TypeGoes
  <2> QED
    BY <1>8, <2>3, <2>4 DEF ReadFile
<1>9. ASSUME NEW p \in Callers, TruncateFile(p) PROVE SessionsType'
  <2>1. UNCHANGED <<cast, transcript, issued, archive>> /\ caller[p].pc = "truncate"
    BY <1>9 DEF TruncateFile, At
  <2>2. PICK file : file = caller[p].file /\ file \in Files
    BY <2>1 DEF SessionsType
  <2>3. PICK contested : files' = [files EXCEPT ![file] = [torn |-> TRUE, contested |-> contested, rows |-> {}]]
    BY <1>9, <2>2 DEF TruncateFile
  <2>4. issued' \in Nat /\ archive' \in Seq(ToSet(archive'))
    BY <2>1 DEF SessionsType, ToSet
  <2>5. files' = [f \in Files |-> [torn |-> files'[f].torn, contested |-> files'[f].contested,
                                  rows |-> files'[f].rows]]
    BY <2>2, <2>3, FilesShape
  <2>6. Goes(p, "write", [file |-> file, rows |-> caller[p].rows])
    BY <1>9, <2>2 DEF TruncateFile
  <2> QED
    BY <2>1, <2>2, <2>4, <2>5, <2>6, TypeGoes
<1>10. ASSUME NEW p \in Callers, WriteFile(p) PROVE SessionsType'
  <2>1. UNCHANGED <<cast, transcript, issued, archive>> /\ caller[p].pc = "write"
    BY <1>10 DEF WriteFile, At
  <2>2. PICK file : file = caller[p].file /\ file \in Files
    BY <2>1 DEF SessionsType
  <2>4. issued' \in Nat /\ archive' \in Seq(ToSet(archive'))
    BY <2>1 DEF SessionsType, ToSet
  <2>6. files' = [f \in Files |-> [torn |-> files'[f].torn, contested |-> files'[f].contested,
                                  rows |-> files'[f].rows]]
    BY <1>10, FileWritten
  <2>7. PICK next : next \notin {"read_file", "truncate", "write"} /\ Goes(p, next, [appended |-> FALSE])
    BY <1>10 DEF WriteFile, Purpose
  <2> QED
    BY <2>1, <2>4, <2>6, <2>7, TypeGoes
<1>11. ASSUME NEW p \in Callers, GetCheckpoint(p) PROVE SessionsType'
  <2>1. UNCHANGED <<cast, transcript, issued, archive, files>> /\ caller[p].pc # "idle"
    BY <1>11 DEF GetCheckpoint, At
  <2>2. CASE Ends(p)
    BY <1>k, <2>1, <2>2, TypeEnds
  <2>3. ASSUME NEW start, Goes(p, "parse", [start |-> start]) PROVE SessionsType'
    BY <1>k, <2>1, <2>3, TypeGoes
  <2> QED
    BY <1>11, <2>2, <2>3 DEF GetCheckpoint
<1>12. ASSUME NEW p \in Callers, ParseTranscript(p) PROVE SessionsType'
  <2>1. UNCHANGED <<cast, transcript, issued, archive, files>> /\ caller[p].pc # "idle"
    BY <1>12 DEF ParseTranscript, At
  <2>2. PICK pc, key, events, row :
          Goes(p, pc, [file |-> "checkpoints", key |-> key, events |-> events, row |-> row])
    BY <1>12 DEF ParseTranscript
  <2> QED
    BY <1>k, <2>1, <2>2, TypeGoes DEF Files
<1>13. ASSUME NEW p \in Callers, AppendTranscript(p) PROVE SessionsType'
  <2>1. UNCHANGED <<cast, transcript, issued, files>> /\ caller[p].pc # "idle"
    BY <1>13 DEF AppendTranscript, At
  <2>2. CASE UNCHANGED archive /\ Ends(p)
    BY <1>k, <2>1, <2>2, TypeEnds
  <2>3. CASE /\ Appends(caller[p].conv, caller[p].key, caller[p].events)
             /\ Goes(p, "read_file", [appended |-> TRUE, file |-> "checkpoints", row |-> caller[p].row])
    <3>1. archive' \in Seq(ToSet(archive'))
      BY <2>3, AppendsShape DEF SessionsType
    <3>2. /\ issued' \in Nat
          /\ files' = [f \in Files |-> [torn |-> files'[f].torn, contested |-> files'[f].contested,
                                        rows |-> files'[f].rows]]
      BY <2>1 DEF SessionsType
    <3> QED
      BY <2>1, <2>3, <3>1, <3>2, TypeGoes DEF Files
  <2> QED
    BY <1>13, <2>2, <2>3 DEF AppendTranscript
<1>14. ASSUME NEW p \in Callers, ExtractHandoff(p) PROVE SessionsType'
  <2>1. UNCHANGED <<cast, transcript, issued, archive, files>> /\ caller[p].pc # "idle"
    BY <1>14 DEF ExtractHandoff, At
  <2>2. PICK steps : Goes(p, "handoff", [steps |-> steps])
    BY <1>14 DEF ExtractHandoff
  <2> QED
    BY <1>k, <2>1, <2>2, TypeGoes
<1>15. ASSUME NEW p \in Callers, caller[p].pc # "idle", NEW c, NEW key, NEW events, Appends(c, key, events),
              UNCHANGED <<cast, transcript, issued, files>>,
              NEW pc, NEW fields, pc \notin {"read_file", "truncate", "write"}, Goes(p, pc, fields),
              "session" \notin DOMAIN fields, "pc" \notin DOMAIN fields
       PROVE  SessionsType'
  <2>1. archive' \in Seq(ToSet(archive'))
    BY <1>15, AppendsShape DEF SessionsType
  <2>2. /\ issued' \in Nat
        /\ files' = [f \in Files |-> [torn |-> files'[f].torn, contested |-> files'[f].contested,
                                      rows |-> files'[f].rows]]
    BY <1>15 DEF SessionsType
  <2> QED
    BY <1>15, <2>1, <2>2, TypeGoes
<1>16. ASSUME NEW p \in Callers, NEW i, AfterStep(p, i), caller[p].pc # "idle", NEW c, NEW key, NEW events,
              Appends(c, key, events), UNCHANGED <<cast, transcript, issued, files>>
       PROVE  SessionsType'
  BY <1>15, <1>16 DEF AfterStep
<1>17. ASSUME NEW p \in Callers, RecordHandoff(p) PROVE SessionsType'
  <2>1. UNCHANGED <<cast, transcript, issued, files>> /\ caller[p].pc # "idle"
    BY <1>17 DEF RecordHandoff, RecordStep, At
  <2>2. CASE UNCHANGED archive /\ Ends(p)
    BY <1>k, <2>1, <2>2, TypeEnds
  <2> QED
    BY <1>16, <1>17, <2>1, <2>2 DEF RecordHandoff, RecordStep
<1>18. ASSUME NEW p \in Callers, RecordNextStep(p) PROVE SessionsType'
  <2>1. UNCHANGED <<cast, transcript, issued, files>> /\ caller[p].pc # "idle"
    BY <1>18 DEF RecordNextStep, RecordStep, At
  <2>2. CASE UNCHANGED archive /\ Ends(p)
    BY <1>k, <2>1, <2>2, TypeEnds
  <2> QED
    BY <1>16, <1>18, <2>1, <2>2 DEF RecordNextStep, RecordStep
<1>19. ASSUME NEW p \in Callers, WriteRecord(p) PROVE SessionsType'
  <2>1. UNCHANGED <<cast, transcript, issued, files>> /\ caller[p].pc # "idle"
    BY <1>19 DEF WriteRecord, Writes, At
  <2>2. CASE UNCHANGED archive /\ Ends(p)
    BY <1>k, <2>1, <2>2, TypeEnds
  <2>3. CASE \E key, events : Appends(caller[p].conv, key, events) /\ Goes(p, "done", <<>>)
    BY <1>15, <2>1, <2>3
  <2> QED
    BY <1>19, <2>2, <2>3 DEF WriteRecord, Writes
<1> QED
  BY <1>1, <1>2, <1>3, <1>4, <1>5, <1>6, <1>7, <1>8, <1>9, <1>10, <1>11, <1>12, <1>13, <1>14, <1>17,
     <1>18, <1>19 DEF SessionsNext, CallerStep

-----------------------------------------------------------------------------
(* The protocol of one file: what each of its steps makes of the rows.     *)

(* Somebody moves, and is not on the way to writing f afterwards. *)
LEMMA FileMoves ==
    ASSUME SessionsType, NEW f, NEW E, FileHolds(f, E), NEW p \in Callers, NEW x, Moved(p, x),
           files'[f] = files[f], ~ Writing(f, x)
    PROVE  FileHolds(f, E)'
<1>1. /\ caller'[p] = x
      /\ \A q \in Callers \ {p} : caller'[q] = caller[q]
  BY MovedShape DEF SessionsType
<1>2. files'[f].rows = IF files'[f].torn THEN {} ELSE E
  BY DEF FileHolds
<1>3. ASSUME NEW q \in Callers PROVE
        /\ caller'[q].pc = "truncate" /\ caller'[q].file = f => ~ files'[f].torn
        /\ caller'[q].pc = "write" /\ caller'[q].file = f =>
            files'[f].torn /\ ~ files'[f].contested /\ caller'[q].rows = E
  BY <1>1 DEF FileHolds, Writing
<1>4. ASSUME NEW q \in Callers, NEW r \in Callers, Writing(f, caller'[q]), Writing(f, caller'[r])
      PROVE  q = r
  BY <1>1, <1>4 DEF FileHolds
<1> QED
  BY <1>2, <1>3, <1>4 DEF FileHolds, Writing

(* Somebody alone has read f, and will write. *)
LEMMA FileIsRead ==
    ASSUME SessionsType, NEW f, NEW E, FileHolds(f, E), NEW p \in Callers, NEW x, Moved(p, x),
           files' = files, x.pc = "truncate", ~ files[f].torn,
           \A q \in Callers \ {p} : ~ Writing(f, caller[q])
    PROVE  FileHolds(f, E)'
<1>1. /\ caller'[p] = x
      /\ \A q \in Callers \ {p} : caller'[q] = caller[q]
  BY MovedShape DEF SessionsType
<1>2. files'[f].rows = IF files'[f].torn THEN {} ELSE E
  BY DEF FileHolds
<1>3. ASSUME NEW q \in Callers PROVE
        /\ caller'[q].pc = "truncate" /\ caller'[q].file = f => ~ files'[f].torn
        /\ caller'[q].pc = "write" /\ caller'[q].file = f =>
            files'[f].torn /\ ~ files'[f].contested /\ caller'[q].rows = E
  BY <1>1 DEF FileHolds, Writing
<1>4. ASSUME NEW q \in Callers, NEW r \in Callers, Writing(f, caller'[q]), Writing(f, caller'[r])
      PROVE  q = r
  BY <1>1, <1>4
<1> QED
  BY <1>2, <1>3, <1>4 DEF FileHolds, Writing

(* The one that read it truncates it: from now on its rows are the file's. *)
LEMMA FileIsTruncated ==
    ASSUME SessionsType, NEW f \in Files, NEW E, FileHolds(f, E), NEW p \in Callers, TruncateFile(p),
           caller[p].file = f, NEW rows, rows = caller[p].rows
    PROVE  FileHolds(f, rows)'
<1>0. caller[p].pc = "truncate" /\ Writing(f, caller[p])
  BY DEF TruncateFile, At, Writing
<1>1. PICK x : /\ Moved(p, x)
               /\ x.pc = "write" /\ x.file = f /\ x.rows = rows
  <2>1. Goes(p, "write", [file |-> f, rows |-> rows])
    BY DEF TruncateFile
  <2> QED
    BY <2>1, GoesShape
<1>2. \A q \in Callers \ {p} : ~ Writing(f, caller[q])
  BY <1>0 DEF FileHolds
<1>3. files' = [files EXCEPT ![f] = [torn |-> TRUE, contested |-> FALSE, rows |-> {}]]
  <2>1. {q \in Callers \ {p} : At(q, "write") /\ caller[q].file = f} = {}
    BY <1>2 DEF Writing, At
  <2> QED
    BY <2>1 DEF TruncateFile
<1>4. files'[f].torn = TRUE /\ files'[f].contested = FALSE /\ files'[f].rows = {}
  BY <1>3, FilesShape
<1>5. /\ caller'[p] = x
      /\ \A q \in Callers \ {p} : caller'[q] = caller[q]
  BY <1>1, MovedShape DEF SessionsType
<1>6. ASSUME NEW q \in Callers PROVE
        /\ caller'[q].pc = "truncate" /\ caller'[q].file = f => ~ files'[f].torn
        /\ caller'[q].pc = "write" /\ caller'[q].file = f =>
            files'[f].torn /\ ~ files'[f].contested /\ caller'[q].rows = rows
  BY <1>1, <1>2, <1>4, <1>5 DEF Writing
<1>7. ASSUME NEW q \in Callers, NEW r \in Callers, Writing(f, caller'[q]), Writing(f, caller'[r])
      PROVE  q = r
  BY <1>2, <1>5, <1>7
<1> QED
  BY <1>4, <1>6, <1>7 DEF FileHolds, Writing

(* And writes them. *)
LEMMA FileIsWritten ==
    ASSUME SessionsType, NEW f, NEW E, FileHolds(f, E), NEW p \in Callers, WriteFile(p), caller[p].file = f
    PROVE  FileHolds(f, E)' /\ ~ files'[f].torn
<1>0. caller[p].pc = "write" /\ Writing(f, caller[p])
  BY DEF WriteFile, At, Writing
<1>1. PICK x : Moved(p, x) /\ x.pc \notin {"truncate", "write"}
  <2>1. PICK next : next \notin {"truncate", "write"} /\ Goes(p, next, [appended |-> FALSE])
    BY DEF WriteFile, Purpose
  <2> QED
    BY <2>1, GoesShape
<1>2. files[f].torn /\ ~ files[f].contested /\ caller[p].rows = E
  BY <1>0 DEF FileHolds
<1>3. \E torn \in {FALSE, files[f].contested} :
        files'[f].torn = torn /\ files'[f].rows = IF torn THEN {} ELSE caller[p].rows
  BY FileWritten
<1>4. ~ files'[f].torn /\ files'[f].rows = E
  BY <1>2, <1>3
<1>5. /\ caller'[p] = x
      /\ \A q \in Callers \ {p} : caller'[q] = caller[q]
  BY <1>1, MovedShape DEF SessionsType
<1>6. \A q \in Callers : ~ Writing(f, caller'[q])
  BY <1>0, <1>1, <1>5 DEF FileHolds, Writing
<1> QED
  BY <1>4, <1>6 DEF FileHolds, Writing

-----------------------------------------------------------------------------
(* Bindings. *)
LEMMA BindingMoves ==
    ASSUME SessionsType, NEW B, BindingInv(B), NEW p \in Callers, NEW x, Moved(p, x),
           files'["bindings"] = files["bindings"], issued' \in Nat, issued <= issued',
           \A j \in DOMAIN archive' : \A e \in archive'[j].events :
               e.type = "record" \/ Has(B, e.session, archive'[j].conv),
           PathOK(B, x)', ~ Writing("bindings", x),
           \A q \in Callers \ {p} : Apart(x, caller[q])
    PROVE  BindingInv(B)'
<1>1. /\ caller'[p] = x
      /\ \A q \in Callers \ {p} : caller'[q] = caller[q]
  BY MovedShape DEF SessionsType
<1>2. 1 .. issued \subseteq 1 .. issued'
  BY DEF SessionsType
<1>3. BindingsOK(B)'
  BY <1>2 DEF BindingInv, BindingsOK, Has
<1>4. FileHolds("bindings", B)'
  BY FileMoves DEF BindingInv
<1>5. PathsApart'
  <2>1. \A q \in Callers \ {p} : Apart(caller[q], x)
    BY DEF Apart
  <2>2. \A q, r \in Callers : q # r => Apart(caller'[q], caller'[r])
    BY <1>1, <2>1 DEF BindingInv, PathsApart
  <2> QED
    BY <2>2 DEF PathsApart, Apart, Unsaved
<1>6. ASSUME NEW q \in Callers PROVE PathOK(B, caller[q])'
  <2>1. CASE q = p
    BY <1>1, <2>1 DEF PathOK, Unsaved, Resolved, NewRow, Has
  <2>2. CASE q # p
    <3>1. PICK r : r = caller[q]
      OBVIOUS
    <3>2. caller'[q] = r
      BY <1>1, <2>2, <3>1
    <3>3. PathOK(B, r)
      BY <3>1 DEF BindingInv
    <3>4. PathOK(B, r)'
      BY <1>2, <3>3 DEF PathOK, Unsaved, Resolved, NewRow, Has
    <3> QED
      BY <3>2, <3>4 DEF PathOK, Unsaved, Resolved, NewRow, Has
  <2> QED
    BY <2>1, <2>2
<1> QED
  BY <1>3, <1>4, <1>5, <1>6 DEF BindingInv

(* What a resolved process appends is for its session and in the           *)
(* conversation of that session; any other append does not matter here.    *)
LEMMA BindingAppends ==
    ASSUME SessionsType, NEW B, BindingInv(B), NEW c, NEW key, NEW events, Appends(c, key, events),
           \A e \in events : e.type = "record" \/ Has(B, e.session, c)
    PROVE  \A j \in DOMAIN archive' : \A e \in archive'[j].events :
               e.type = "record" \/ Has(B, e.session, archive'[j].conv)
<1>1. /\ \A j \in DOMAIN archive : archive'[j] = archive[j]
      /\ \A j \in DOMAIN archive' \ DOMAIN archive : archive'[j].conv = c /\ archive'[j].events = events
  BY AppendsShape DEF SessionsType
<1>2. \A j \in DOMAIN archive : \A e \in archive[j].events :
        e.type = "record" \/ Has(B, e.session, archive[j].conv)
  BY DEF BindingInv, BindingsOK
<1> QED
  BY <1>1, <1>2

LEMMA BindingStands ==
    ASSUME NEW B, BindingInv(B), UNCHANGED archive
    PROVE  \A j \in DOMAIN archive' : \A e \in archive'[j].events :
               e.type = "record" \/ Has(B, e.session, archive'[j].conv)
BY DEF BindingInv, BindingsOK

(* A process that has its conversation goes on with it. *)
LEMMA BindingGoes ==
    ASSUME SessionsType, NEW B, BindingInv(B), NEW p \in Callers, Resolved(caller[p]),
           NEW pc, NEW fields, Goes(p, pc, fields), {"pc", "session", "conv"} \cap DOMAIN fields = {},
           pc \notin {"idle", "find", "create", "parent", "truncate", "write"},
           pc = "read_file" => "file" \in DOMAIN fields /\ fields["file"] = "checkpoints",
           pc = "append" => /\ "events" \in DOMAIN fields
                            /\ \A e \in fields["events"] :
                                 e.type = "record" \/ e.session = caller[p].session,
           UNCHANGED issued, files'["bindings"] = files["bindings"],
           \A j \in DOMAIN archive' : \A e \in archive'[j].events :
               e.type = "record" \/ Has(B, e.session, archive'[j].conv)
    PROVE  BindingInv(B)'
<1>1. PICK x : /\ Moved(p, x)
               /\ x.pc = pc
               /\ \A f \in DOMAIN fields \ {"pc"} : x[f] = fields[f]
               /\ \A f \in {"kind", "session", "last", "conv", "appended"} \ DOMAIN fields :
                     x[f] = caller[p][f]
  BY GoesShape
<1>2. x.session = caller[p].session /\ x.conv = caller[p].conv
  BY <1>1
<1>3. pc = "read_file" => x.file = "checkpoints"
  BY <1>1
<1>4. pc = "append" => \A e \in x.events : e.type = "record" \/ e.session = x.session
  BY <1>1, <1>2
<1>5. Has(B, x.session, x.conv)
  BY <1>2 DEF BindingInv, PathOK
<1>6. ~ Unsaved(x) /\ ~ Writing("bindings", x)
  BY <1>1, <1>3 DEF Unsaved, Writing
<1>7. PathOK(B, x)'
  BY <1>1, <1>3, <1>4, <1>5, <1>6 DEF PathOK, Unsaved, Has
<1>8. \A q \in Callers \ {p} : Apart(x, caller[q])
  BY <1>6 DEF Apart
<1>9. issued' \in Nat /\ issued <= issued'
  BY DEF SessionsType
<1> QED
  BY <1>1, <1>6, <1>7, <1>8, <1>9, BindingMoves

LEMMA BindingEnds ==
    ASSUME SessionsType, NEW B, BindingInv(B), NEW p \in Callers, Ends(p), UNCHANGED <<files, issued, archive>>
    PROVE  BindingInv(B)'
<1>1. PICK x : x = Idle
  OBVIOUS
<1>2. Moved(p, x) /\ x.pc = "idle"
  BY <1>1 DEF Ends, Moved, Idle
<1>3. PathOK(B, x)' /\ ~ Unsaved(x) /\ ~ Writing("bindings", x)
  BY <1>2 DEF PathOK, Unsaved, Resolved, Writing
<1>4. \A q \in Callers \ {p} : Apart(x, caller[q])
  BY <1>3 DEF Apart
<1>5. issued' \in Nat /\ issued <= issued'
  BY DEF SessionsType
<1> QED
  BY <1>2, <1>3, <1>4, <1>5, BindingMoves, BindingStands

LEMMA BindingFind ==
    ASSUME SessionsType, NEW B, BindingInv(B), NEW p \in Callers, Find(p), <<"rebound">> \notin mishaps'
    PROVE  BindingInv(B)'
<1>0. UNCHANGED <<files, issued, archive>> /\ caller[p].pc = "find"
  BY DEF Find, At
<1>1. CASE files["bindings"].torn
  BY <1>0, <1>1, BindingEnds DEF Find
<1>2. CASE ~ files["bindings"].torn
  <2>1. PICK s, mine, conv, pc, lineage :
          /\ s = caller[p].session /\ mine = Row("bindings", s)
          /\ conv = IF mine = {} THEN 0 ELSE (CHOOSE r \in mine : TRUE).conv
          /\ pc = IF ParentOf[s] # NoSession THEN "parent"
                  ELSE IF mine = {} THEN "create" ELSE Purpose(caller[p].kind)
          /\ Goes(p, pc, [conv |-> conv, parent |-> 0, lineage |-> lineage])
          /\ mishaps' = mishaps \cup {m \in {<<"rebound">>} : mine = {} /\ Overlaps(p, Unbound, FALSE)}
    BY <1>2 DEF Find
  <2>2. PICK x : /\ Moved(p, x) /\ x.pc = pc /\ x.conv = conv /\ x.session = s
    <3>1. PICK fields : fields = [conv |-> conv, parent |-> 0, lineage |-> lineage]
      OBVIOUS
    <3>2. DOMAIN fields = {"conv", "parent", "lineage"}
      BY <3>1
    <3>3. Goes(p, pc, fields)
      BY <2>1, <3>1
    <3>4. PICK x : /\ Moved(p, x)
                   /\ x.pc = pc
                   /\ \A f \in DOMAIN fields \ {"pc"} : x[f] = fields[f]
                   /\ \A f \in {"kind", "session", "last", "conv", "appended"} \ DOMAIN fields :
                         x[f] = caller[p][f]
      BY <3>3, GoesShape
    <3> QED
      BY <2>1, <3>1, <3>2, <3>4
  <2>3. files["bindings"].rows = B
    BY <1>2 DEF BindingInv, FileHolds
  <2>4. mine = {r \in B : r.session = s}
    BY <2>1, <2>3 DEF Row
  <2>5. x.pc \in {"parent", "create", "checkpoint", "record"}
    BY <2>1, <2>2 DEF Purpose
  <2>6. ~ Writing("bindings", x)
    BY <2>5 DEF Writing
  <2>7. CASE mine = {}
    <3>1. ~ Overlaps(p, Unbound, FALSE)
      BY <2>1, <2>7
    <3>2. x.conv = 0 /\ x.pc \in {"parent", "create"} /\ (x.pc = "create" => ParentOf[s] = NoSession)
      BY <2>1, <2>2, <2>7
    <3>3. PathOK(B, x)'
      BY <2>2, <2>4, <2>7, <3>2 DEF PathOK, Unsaved, Resolved
    <3>4. ASSUME NEW q \in Callers \ {p} PROVE Apart(x, caller[q])
      <4>1. caller[q].pc \in Unbound => caller[q].session # s
        BY <2>1, <3>1, <3>4 DEF Overlaps
      <4> QED
        BY <2>2, <3>2, <4>1 DEF Apart, Unsaved, Unbound
    <3>5. issued' \in Nat /\ issued <= issued'
      BY <1>0 DEF SessionsType
    <3> QED
      BY <1>0, <2>2, <2>6, <3>3, <3>4, <3>5, BindingMoves, BindingStands
  <2>8. CASE mine # {}
    <3>1. PICK r \in B : r.session = s /\ r.conv = conv
      BY <2>1, <2>4, <2>8
    <3>2. Has(B, x.session, x.conv) /\ x.conv # 0
      BY <2>2, <3>1 DEF Has, BindingInv, BindingsOK, SessionsType
    <3>3. ~ Unsaved(x)
      BY <2>1, <2>2, <2>8, <3>2 DEF Unsaved, Purpose
    <3>4. PathOK(B, x)'
      BY <2>1, <2>2, <2>5, <2>8, <3>2, <3>3 DEF PathOK, Unsaved, Purpose, Has
    <3>5. \A q \in Callers \ {p} : Apart(x, caller[q])
      BY <3>3 DEF Apart
    <3>6. issued' \in Nat /\ issued <= issued'
      BY <1>0 DEF SessionsType
    <3> QED
      BY <1>0, <2>2, <2>6, <3>4, <3>5, <3>6, BindingMoves, BindingStands
  <2> QED
    BY <2>7, <2>8
<1> QED
  BY <1>1, <1>2

LEMMA BindingFindParent ==
    ASSUME SessionsType, NEW B, BindingInv(B), NEW p \in Callers, FindParent(p)
    PROVE  BindingInv(B)'
<1>0. UNCHANGED <<files, issued, archive>> /\ caller[p].pc = "parent"
  BY DEF FindParent, At
<1>1. CASE Ends(p)
  BY <1>0, <1>1, BindingEnds
<1>2. CASE ~ Ends(p)
  <2>1. PICK s, above, parent, pc :
          /\ s = caller[p].session /\ above = Row("bindings", ParentOf[s])
          /\ parent = (CHOOSE r \in above : TRUE).conv
          /\ ~ files["bindings"].torn /\ above # {}
          /\ pc = IF caller[p].conv = 0 THEN "create" ELSE Purpose(caller[p].kind)
          /\ Goes(p, pc, [parent |-> parent])
    BY <1>2 DEF FindParent
  <2>2. PICK x : /\ Moved(p, x) /\ x.pc = pc /\ x.conv = caller[p].conv /\ x.session = s /\ x.parent = parent
    <3>1. PICK fields : fields = [parent |-> parent]
      OBVIOUS
    <3>2. DOMAIN fields = {"parent"}
      BY <3>1
    <3>3. Goes(p, pc, fields)
      BY <2>1, <3>1
    <3>4. PICK x : /\ Moved(p, x)
                   /\ x.pc = pc
                   /\ \A f \in DOMAIN fields \ {"pc"} : x[f] = fields[f]
                   /\ \A f \in {"kind", "session", "last", "conv", "appended"} \ DOMAIN fields :
                         x[f] = caller[p][f]
      BY <3>3, GoesShape
    <3> QED
      BY <2>1, <3>1, <3>2, <3>4, ZenonT(60)
  <2>3. above = {r \in B : r.session = ParentOf[s]}
    BY <2>1 DEF Row, BindingInv, FileHolds
  <2>4. Has(B, ParentOf[s], parent)
    BY <2>1, <2>3 DEF Has
  <2>5. ~ Writing("bindings", x)
    BY <2>1, <2>2 DEF Writing, Purpose
  <2>6. issued' \in Nat /\ issued <= issued'
    BY <1>0 DEF SessionsType
  <2>7. CASE caller[p].conv = 0
    <3>1. x.pc = "create" /\ Unsaved(caller[p]) /\ Unsaved(x)
      BY <1>0, <2>1, <2>2, <2>7 DEF Unsaved
    <3>2. \A y \in B : y.session # s
      BY <2>1, <3>1 DEF BindingInv, PathOK
    <3>3. PathOK(B, x)'
      BY <2>2, <2>4, <3>1, <3>2 DEF PathOK, Resolved, Has
    <3>4. \A q \in Callers \ {p} : Apart(x, caller[q])
      BY <2>1, <2>2, <3>1 DEF BindingInv, PathsApart, Apart
    <3> QED
      BY <1>0, <2>2, <2>5, <2>6, <3>3, <3>4, BindingMoves, BindingStands
  <2>8. CASE caller[p].conv # 0
    <3>1. x.pc \in {"checkpoint", "record"} /\ Resolved(caller[p])
      BY <1>0, <2>1, <2>2, <2>8 DEF Resolved, Purpose
    <3>2. Has(B, x.session, x.conv)
      BY <2>1, <2>2, <3>1 DEF BindingInv, PathOK
    <3>3. PathOK(B, x)' /\ ~ Unsaved(x)
      BY <3>1, <3>2 DEF PathOK, Unsaved, Has
    <3>4. \A q \in Callers \ {p} : Apart(x, caller[q])
      BY <3>3 DEF Apart
    <3> QED
      BY <1>0, <2>2, <2>5, <2>6, <3>3, <3>4, BindingMoves, BindingStands
  <2> QED
    BY <2>7, <2>8
<1> QED
  BY <1>1, <1>2

LEMMA BindingCreate ==
    ASSUME SessionsType, NEW B, BindingInv(B), NEW p \in Callers, CreateBinding(p)
    PROVE  BindingInv(B)'
<1>0. UNCHANGED <<files, archive>> /\ caller[p].pc = "create"
  BY DEF CreateBinding, At
<1>1. CASE UNCHANGED issued /\ Ends(p)
  BY <1>0, <1>1, BindingEnds
<1>2. CASE ~ (UNCHANGED issued /\ Ends(p))
  <2>1. PICK s, conv, row :
          /\ s = caller[p].session /\ conv = issued + 1
          /\ row = [session |-> s, conv |-> conv, parent |-> caller[p].parent]
          /\ issued' = conv
          /\ Goes(p, "read_file", [file |-> "bindings", row |-> row, conv |-> conv])
    BY <1>2 DEF CreateBinding
  <2>2. PICK x : /\ Moved(p, x) /\ x.pc = "read_file" /\ x.conv = conv /\ x.session = s
                 /\ x.file = "bindings" /\ x.row = row
    <3>1. PICK fields : fields = [file |-> "bindings", row |-> row, conv |-> conv]
      OBVIOUS
    <3>2. DOMAIN fields = {"file", "row", "conv"}
      BY <3>1
    <3>3. Goes(p, "read_file", fields)
      BY <2>1, <3>1
    <3>4. PICK x : /\ Moved(p, x)
                   /\ x.pc = "read_file"
                   /\ \A f \in DOMAIN fields \ {"pc"} : x[f] = fields[f]
                   /\ \A f \in {"kind", "session", "last", "conv", "appended"} \ DOMAIN fields :
                         x[f] = caller[p][f]
      BY <3>3, GoesShape
    <3> QED
      BY <2>1, <3>1, <3>2, <3>4
  <2>3. issued \in Nat /\ issued' \in Nat /\ issued <= issued'
    BY <2>1 DEF SessionsType
  <2>4. /\ \A y \in B : y.conv # conv
        /\ \A y \in B : y.session # s
        /\ ParentOf[s] # NoSession => Has(B, ParentOf[s], caller[p].parent)
    BY <1>0, <2>1, <2>3 DEF BindingInv, BindingsOK, PathOK, Unsaved
  <2>5. row.session = s /\ row.conv = conv /\ row.parent = caller[p].parent
    BY <2>1
  <2>6. NewRow(B, x, row)'
    BY <2>1, <2>2, <2>3, <2>4, <2>5 DEF NewRow, Has
  <2>7. PathOK(B, x)' /\ ~ Writing("bindings", x) /\ Unsaved(x)
    BY <2>2, <2>4, <2>6 DEF PathOK, Resolved, Writing, Unsaved
  <2>8. ASSUME NEW q \in Callers \ {p} PROVE Apart(x, caller[q])
    <3>1. Unsaved(caller[q]) => caller[q].session # s
      BY <1>0, <2>1 DEF BindingInv, PathsApart, Apart, Unsaved
    <3>2. Unsaved(caller[q]) /\ caller[q].pc \notin {"parent", "create"} => caller[q].conv \in 1 .. issued
      BY DEF BindingInv, PathOK, Unsaved, NewRow
    <3>3. ASSUME Unsaved(caller[q]), {x.pc, caller[q].pc} \cap {"parent", "create"} = {}
          PROVE  x.conv # caller[q].conv
      <4>1. caller[q].conv \in 1 .. issued
        BY <3>2, <3>3
      <4> QED
        BY <2>1, <2>2, <2>3, <4>1
    <3> QED
      BY <2>2, <3>1, <3>3 DEF Apart
  <2> QED
    BY <1>0, <2>2, <2>3, <2>7, <2>8, BindingMoves, BindingStands
<1> QED
  BY <1>1, <1>2

LEMMA BindingRead ==
    ASSUME SessionsType, NEW B, BindingInv(B), NEW p \in Callers, ReadFile(p), <<"rebound">> \notin mishaps'
    PROVE  BindingInv(B)'
<1>0. UNCHANGED <<files, issued, archive>> /\ caller[p].pc = "read_file" /\ caller[p].file \in Files
  BY DEF ReadFile, At, SessionsType
<1>1. CASE Ends(p)
  BY <1>0, <1>1, BindingEnds
<1>2. CASE ~ Ends(p)
  <2>1. PICK r, rows :
          /\ r = caller[p] /\ ~ files[r.file].torn
          /\ rows = WithRow(files[r.file].rows, r.row)
          /\ Goes(p, "truncate", [file |-> r.file, rows |-> rows])
          /\ LET others == {q \in Callers \ {p} :
                              caller[q].pc \in {"truncate", "write"} /\ caller[q].file = r.file}
             IN mishaps' = IF others = {} THEN mishaps
                           ELSE mishaps \cup {IF r.file = "bindings" THEN <<"rebound">> ELSE <<"rearchived">>}
    BY <1>2 DEF ReadFile
  <2>2. PICK x : /\ Moved(p, x) /\ x.pc = "truncate" /\ x.conv = r.conv /\ x.session = r.session
                 /\ x.file = r.file /\ x.rows = rows
    <3>1. PICK fields : fields = [file |-> r.file, rows |-> rows]
      OBVIOUS
    <3>2. DOMAIN fields = {"file", "rows"}
      BY <3>1
    <3>3. Goes(p, "truncate", fields)
      BY <2>1, <3>1
    <3>4. PICK x : /\ Moved(p, x)
                   /\ x.pc = "truncate"
                   /\ \A f \in DOMAIN fields \ {"pc"} : x[f] = fields[f]
                   /\ \A f \in {"kind", "session", "last", "conv", "appended"} \ DOMAIN fields :
                         x[f] = caller[p][f]
      BY <3>3, GoesShape
    <3> QED
      BY <2>1, <3>1, <3>2, <3>4
  <2>3. /\ caller'[p] = x
        /\ \A q \in Callers \ {p} : caller'[q] = caller[q]
    BY <2>2, MovedShape DEF SessionsType
  <2>4. issued' \in Nat /\ issued <= issued'
    BY <1>0 DEF SessionsType
  <2>5. CASE r.file = "bindings"
    <3>1. \A q \in Callers \ {p} : ~ Writing("bindings", caller[q])
      BY <2>1, <2>5 DEF Writing
    <3>2. FileHolds("bindings", B)'
      BY <1>0, <2>1, <2>2, <2>5, <3>1, FileIsRead DEF BindingInv
    <3>3. rows = WithRow(B, r.row) /\ NewRow(B, r, r.row) /\ \A y \in B : y.session # r.session
      BY <1>0, <2>1, <2>5 DEF BindingInv, FileHolds, PathOK, Unsaved
    <3>4. r.row \in rows
      BY <3>3 DEF WithRow
    <3>5. NewRow(B, x, r.row)'
      BY <1>0, <2>2, <3>3 DEF NewRow, Has
    <3>6. PathOK(B, x)'
      BY <2>2, <2>5, <3>3, <3>4, <3>5 DEF PathOK, Resolved
    <3>7. BindingsOK(B)'
      BY <1>0 DEF BindingInv, BindingsOK, Has
    <3>8. \A q \in Callers \ {p} : Apart(x, caller[q]) /\ Apart(caller[q], x)
      BY <1>0, <2>1, <2>2, <2>5 DEF BindingInv, PathsApart, Apart, Unsaved
    <3>9. PathsApart'
      <4>1. \A q, s \in Callers : q # s => Apart(caller'[q], caller'[s])
        BY <2>3, <3>8 DEF BindingInv, PathsApart
      <4> QED
        BY <4>1 DEF PathsApart, Apart, Unsaved
    <3>10. ASSUME NEW q \in Callers PROVE PathOK(B, caller[q])'
      <4>1. CASE q = p
        BY <2>3, <3>6, <4>1 DEF PathOK, Unsaved, Resolved, NewRow, Has
      <4>2. CASE q # p
        BY <1>0, <2>3, <4>2 DEF BindingInv, PathOK, Unsaved, Resolved, NewRow, Has
      <4> QED
        BY <4>1, <4>2
    <3> QED
      BY <3>2, <3>7, <3>9, <3>10 DEF BindingInv
  <2>6. CASE r.file # "bindings"
    <3>1. Has(B, x.session, x.conv)
      BY <1>0, <2>1, <2>2, <2>6 DEF BindingInv, PathOK, Resolved
    <3>2. PathOK(B, x)' /\ ~ Unsaved(x) /\ ~ Writing("bindings", x)
      BY <2>2, <2>6, <3>1 DEF PathOK, Unsaved, Writing, Has
    <3>3. \A q \in Callers \ {p} : Apart(x, caller[q])
      BY <3>2 DEF Apart
    <3> QED
      BY <1>0, <2>2, <2>4, <3>2, <3>3, BindingMoves, BindingStands
  <2> QED
    BY <2>5, <2>6
<1> QED
  BY <1>1, <1>2

(* Row r of s joins the bindings. *)
LEMMA HasMore ==
    ASSUME NEW B, NEW row, NEW s, NEW c, Has(B, s, c)
    PROVE  Has(B \cup {row}, s, c)
BY DEF Has

LEMMA BindingTruncate ==
    ASSUME SessionsType, NEW B, BindingInv(B), NEW p \in Callers, TruncateFile(p)
    PROVE  \E C : BindingInv(C)'
<1>0. /\ UNCHANGED <<issued, archive>> /\ caller[p].pc = "truncate" /\ caller[p].file \in Files
      /\ issued \in Nat
  BY DEF TruncateFile, At, SessionsType
<1>1. PICK r : r = caller[p]
  OBVIOUS
<1>2. PICK x : /\ Moved(p, x) /\ x.pc = "write" /\ x.conv = r.conv /\ x.session = r.session
               /\ x.file = r.file /\ x.rows = r.rows
  <2>1. PICK fields : fields = [file |-> r.file, rows |-> r.rows]
    OBVIOUS
  <2>2. DOMAIN fields = {"file", "rows"}
    BY <2>1
  <2>3. Goes(p, "write", fields)
    BY <1>1, <2>1 DEF TruncateFile
  <2>4. PICK x : /\ Moved(p, x)
                 /\ x.pc = "write"
                 /\ \A f \in DOMAIN fields \ {"pc"} : x[f] = fields[f]
                 /\ \A f \in {"kind", "session", "last", "conv", "appended"} \ DOMAIN fields :
                       x[f] = caller[p][f]
    BY <2>3, GoesShape
  <2> QED
    BY <1>1, <2>1, <2>2, <2>4
<1>3. /\ caller'[p] = x
      /\ \A q \in Callers \ {p} : caller'[q] = caller[q]
  BY <1>2, MovedShape DEF SessionsType
<1>4. CASE r.file = "bindings"
  <2>1. PICK row \in r.rows : NewRow(B, r, row) /\ r.rows = WithRow(B, row)
    BY <1>0, <1>1, <1>4 DEF BindingInv, PathOK
  <2>2. PICK C : C = B \cup {row}
    OBVIOUS
  <2>3. \A y \in B : y.session # r.session
    BY <1>0, <1>1, <1>4 DEF BindingInv, PathOK, Unsaved
  <2>4. r.rows = C
    BY <2>1, <2>2, <2>3 DEF WithRow, NewRow
  <2>5. \A s, c : Has(B, s, c) => Has(C, s, c)
    BY <2>2, HasMore
  <2>6. FileHolds("bindings", C)'
    BY <1>0, <1>1, <1>4, <2>4, FileIsTruncated DEF BindingInv
  <2>7. BindingsOK(C)'
    <3>1. /\ row.session = r.session /\ row.conv = r.conv /\ r.conv \in 1 .. issued
          /\ \A y \in B : y.conv # r.conv
          /\ ParentOf[r.session] # NoSession => Has(B, ParentOf[r.session], row.parent)
      BY <2>1 DEF NewRow
    <3>2. \A y, z \in C : y.session = z.session => y = z
      BY <2>2, <2>3, <3>1 DEF BindingInv, BindingsOK
    <3>3. \A y \in C : y.conv \in 1 .. issued
      BY <2>2, <3>1 DEF BindingInv, BindingsOK
    <3>4. \A y, z \in C : y.conv = z.conv => y = z \/ y.conv = 1
      BY <2>2, <3>1 DEF BindingInv, BindingsOK
    <3>5. \A y \in C : ParentOf[y.session] # NoSession => Has(C, ParentOf[y.session], y.parent)
      BY <2>2, <2>5, <3>1 DEF BindingInv, BindingsOK
    <3>6. \A j \in DOMAIN archive : \A e \in archive[j].events :
            e.type = "record" \/ Has(C, e.session, archive[j].conv)
      BY <2>5 DEF BindingInv, BindingsOK
    <3> QED
      BY <1>0, <3>2, <3>3, <3>4, <3>5, <3>6 DEF BindingsOK, Has
  <2>8. Unsaved(r) /\ ~ Unsaved(x) /\ Writing("bindings", r)
    BY <1>0, <1>1, <1>2, <1>4 DEF Unsaved, Writing
  <2>9. PathsApart'
    <3>1. \A q, s \in Callers : q # s => Apart(caller'[q], caller'[s])
      BY <1>3, <2>8 DEF BindingInv, PathsApart, Apart
    <3> QED
      BY <3>1 DEF PathsApart, Apart, Unsaved
  <2>10. ASSUME NEW q \in Callers PROVE PathOK(C, caller[q])'
    <3>1. CASE q = p
      <4>1. Has(C, x.session, x.conv)
        BY <1>2, <2>1, <2>2 DEF Has, NewRow
      <4>2. PathOK(C, x)'
        BY <1>2, <2>8, <4>1 DEF PathOK, Unsaved, Has
      <4> QED
        BY <1>3, <3>1, <4>2 DEF PathOK, Unsaved, Resolved, NewRow, Has
    <3>2. CASE q # p
      <4>1. PICK z : z = caller[q]
        OBVIOUS
      <4>2. PathOK(B, z)
        BY <4>1 DEF BindingInv
      <4>3. ~ (z.pc = "truncate" /\ z.file = "bindings")
        BY <1>1, <2>8, <3>2, <4>1 DEF BindingInv, FileHolds, Writing
      <4>4. Apart(r, z)
        BY <1>1, <3>2, <4>1 DEF BindingInv, PathsApart
      <4>5. Unsaved(z) => \A y \in C : y.session # z.session
        BY <2>1, <2>2, <2>8, <4>2, <4>4 DEF PathOK, Apart, NewRow
      <4>6. z.pc = "read_file" /\ z.file = "bindings" => NewRow(C, z, z.row)
        <5>1. SUFFICES ASSUME z.pc = "read_file", z.file = "bindings" PROVE NewRow(C, z, z.row)
          OBVIOUS
        <5>2. NewRow(B, z, z.row) /\ Unsaved(z)
          BY <4>2, <5>1 DEF PathOK, Unsaved
        <5>3. r.conv # z.conv
          BY <1>0, <1>1, <2>8, <4>4, <5>1, <5>2 DEF Apart
        <5>4. row.conv = r.conv
          BY <2>1 DEF NewRow
        <5> QED
          BY <2>2, <2>5, <5>2, <5>3, <5>4 DEF NewRow
      <4>7. PathOK(C, z)
        BY <2>5, <4>2, <4>3, <4>5, <4>6 DEF PathOK
      <4>8. PathOK(C, z)'
        BY <1>0, <4>7 DEF PathOK, Unsaved, Resolved, NewRow, Has
      <4> QED
        BY <1>3, <3>2, <4>1, <4>8 DEF PathOK, Unsaved, Resolved, NewRow, Has
    <3> QED
      BY <3>1, <3>2
  <2> QED
    BY <2>6, <2>7, <2>9, <2>10 DEF BindingInv
<1>5. CASE r.file # "bindings"
  <2>1. files'["bindings"] = files["bindings"]
    <3>1. PICK contested : files' = [files EXCEPT ![r.file] = [torn |-> TRUE, contested |-> contested, rows |-> {}]]
      BY <1>1 DEF TruncateFile
    <3> QED
      BY <1>5, <3>1
  <2>2. Has(B, x.session, x.conv)
    BY <1>0, <1>1, <1>2, <1>5 DEF BindingInv, PathOK, Resolved
  <2>3. PathOK(B, x)' /\ ~ Unsaved(x) /\ ~ Writing("bindings", x)
    BY <1>2, <1>5, <2>2 DEF PathOK, Unsaved, Writing, Has
  <2>4. \A q \in Callers \ {p} : Apart(x, caller[q])
    BY <2>3 DEF Apart
  <2>5. issued' \in Nat /\ issued <= issued'
    BY <1>0
  <2> QED
    BY <1>0, <1>2, <2>1, <2>3, <2>4, <2>5, BindingMoves, BindingStands
<1> QED
  BY <1>4, <1>5

LEMMA BindingWrite ==
    ASSUME SessionsType, NEW B, BindingInv(B), NEW p \in Callers, WriteFile(p)
    PROVE  BindingInv(B)'
<1>0. /\ UNCHANGED <<issued, archive>> /\ caller[p].pc = "write" /\ caller[p].file \in Files
      /\ issued \in Nat
  BY DEF WriteFile, At, SessionsType
<1>1. PICK r : r = caller[p]
  OBVIOUS
<1>2. PICK x : /\ Moved(p, x) /\ x.pc \in {"checkpoint", "record", "extract", "done"}
               /\ x.conv = r.conv /\ x.session = r.session
  <2>1. PICK fields, next : /\ fields = [appended |-> FALSE]
                            /\ next = IF r.file = "bindings" THEN Purpose(r.kind)
                                      ELSE IF r.kind = "Stop" THEN "extract" ELSE "done"
    OBVIOUS
  <2>2. DOMAIN fields = {"appended"} /\ next \in {"checkpoint", "record", "extract", "done"}
    BY <2>1 DEF Purpose
  <2>3. Goes(p, next, fields)
    BY <1>1, <2>1 DEF WriteFile
  <2>4. PICK x : /\ Moved(p, x)
                 /\ x.pc = next
                 /\ \A f \in DOMAIN fields \ {"pc"} : x[f] = fields[f]
                 /\ \A f \in {"kind", "session", "last", "conv", "appended"} \ DOMAIN fields :
                       x[f] = caller[p][f]
    BY <2>3, GoesShape
  <2> QED
    BY <1>1, <2>1, <2>2, <2>4
<1>3. /\ caller'[p] = x
      /\ \A q \in Callers \ {p} : caller'[q] = caller[q]
  BY <1>2, MovedShape DEF SessionsType
<1>4. Has(B, x.session, x.conv)
  BY <1>0, <1>1, <1>2 DEF BindingInv, PathOK, Resolved
<1>5. PathOK(B, x)' /\ ~ Unsaved(x) /\ ~ Writing("bindings", x)
  BY <1>2, <1>4 DEF PathOK, Unsaved, Writing, Has
<1>6. \A q \in Callers \ {p} : Apart(x, caller[q])
  BY <1>5 DEF Apart
<1>7. CASE r.file # "bindings"
  <2>1. files'["bindings"] = files["bindings"]
    BY <1>1, <1>7, FileWritten DEF Files
  <2> QED
    BY <1>0, <1>2, <1>5, <1>6, <2>1, BindingMoves, BindingStands
<1>8. CASE r.file = "bindings"
  <2>1. FileHolds("bindings", B)'
    BY <1>1, <1>8, FileIsWritten DEF BindingInv
  <2>2. BindingsOK(B)'
    BY <1>0 DEF BindingInv, BindingsOK, Has
  <2>3. PathsApart'
    <3>1. \A q, s \in Callers : q # s => Apart(caller'[q], caller'[s])
      BY <1>3, <1>5 DEF BindingInv, PathsApart, Apart
    <3> QED
      BY <3>1 DEF PathsApart, Apart, Unsaved
  <2>4. ASSUME NEW q \in Callers PROVE PathOK(B, caller[q])'
    <3>1. CASE q = p
      BY <1>3, <1>5, <3>1 DEF PathOK, Unsaved, Resolved, NewRow, Has
    <3>2. CASE q # p
      BY <1>0, <1>3, <3>2 DEF BindingInv, PathOK, Unsaved, Resolved, NewRow, Has
    <3> QED
      BY <3>1, <3>2
  <2> QED
    BY <2>1, <2>2, <2>3, <2>4 DEF BindingInv
<1> QED
  BY <1>7, <1>8

(* A record is no archived line, whatever conversation it goes to. *)
LEMMA BindingRecords ==
    ASSUME SessionsType, NEW B, BindingInv(B), NEW p \in Callers, Resolved(caller[p]),
           NEW c, NEW key, NEW record, record.type = "record",
           NEW pc, NEW fields, {"pc", "session", "conv"} \cap DOMAIN fields = {}, pc \in {"next_step", "done"},
           UNCHANGED <<issued, files>>,
           \/ Appends(c, key, {record}) /\ Goes(p, pc, fields)
           \/ Ends(p) /\ UNCHANGED archive
    PROVE  BindingInv(B)'
<1>1. CASE Ends(p) /\ UNCHANGED archive
  BY <1>1, BindingEnds
<1>2. CASE Appends(c, key, {record}) /\ Goes(p, pc, fields)
  <2>1. PICK events : events = {record}
    OBVIOUS
  <2>2. Appends(c, key, events) /\ \A e \in events : e.type = "record" \/ Has(B, e.session, c)
    BY <1>2, <2>1
  <2>3. \A j \in DOMAIN archive' : \A e \in archive'[j].events :
            e.type = "record" \/ Has(B, e.session, archive'[j].conv)
    BY <2>2, BindingAppends
  <2>4. Goes(p, pc, fields)
    BY <1>2
  <2> QED
    BY <2>3, <2>4, BindingGoes
<1> QED
  BY <1>1, <1>2

LEMMA RecordTypes ==
    ASSUME NEW a, NEW b, NEW c, NEW d, NEW S, NEW T
    PROVE  ContinuityRecord(a, b, c, d, S, T).type = "record" /\ Marker(a, b, c).type = "record"
BY DEF ContinuityRecord, Marker

LEMMA BindingArchives ==
    ASSUME SessionsType, NEW B, BindingInv(B), NEW p \in Callers, AppendTranscript(p)
    PROVE  BindingInv(B)'
<1>0. UNCHANGED <<issued, files>> /\ caller[p].pc = "append"
  BY DEF AppendTranscript, At
<1>1. CASE Ends(p) /\ UNCHANGED archive
  BY <1>0, <1>1, BindingEnds
<1>2. CASE ~ (Ends(p) /\ UNCHANGED archive)
  <2>1. PICK r, fields :
          /\ r = caller[p]
          /\ fields = [appended |-> TRUE, file |-> "checkpoints", row |-> r.row]
          /\ Appends(r.conv, r.key, r.events) /\ Goes(p, "read_file", fields)
    BY <1>2 DEF AppendTranscript
  <2>2. Resolved(r) /\ Has(B, r.session, r.conv)
    BY <1>0, <2>1 DEF BindingInv, PathOK, Resolved
  <2>3. \A e \in r.events : e.type = "record" \/ Has(B, e.session, r.conv)
    BY <1>0, <2>1, <2>2 DEF BindingInv, PathOK
  <2>4. \A j \in DOMAIN archive' : \A e \in archive'[j].events :
            e.type = "record" \/ Has(B, e.session, archive'[j].conv)
    BY <2>1, <2>3, BindingAppends
  <2>5. DOMAIN fields = {"appended", "file", "row"} /\ fields["file"] = "checkpoints"
    BY <2>1
  <2> QED
    BY <1>0, <2>1, <2>2, <2>4, <2>5, BindingGoes
<1> QED
  BY <1>1, <1>2

LEMMA BindingParses ==
    ASSUME SessionsType, NEW B, BindingInv(B), NEW p \in Callers, ParseTranscript(p)
    PROVE  BindingInv(B)'
<1>0. UNCHANGED <<issued, files, archive>> /\ caller[p].pc = "parse" /\ Resolved(caller[p])
  BY DEF ParseTranscript, At, Resolved
<1> DEFINE s == caller[p].session
           lines == MessagesFrom(s, IF caller[p].start <= Len(transcript[s]) THEN caller[p].start ELSE 0)
           stop == caller[p].kind = "Stop"
           key == IF stop THEN StopKey(p) ELSE <<"PreCompact", s, Digest(lines)>>
           events == lines \cup {e \in {[type |-> "closed", session |-> s, last |-> caller[p].last]} : stop}
           row == [session |-> s, lines |-> Len(transcript[s])]
           pc == IF events = {} THEN "read_file" ELSE "append"
<1>1. Goes(p, pc, [file |-> "checkpoints", key |-> key, events |-> events, row |-> row])
  BY DEF ParseTranscript
<1>2. \A e \in events : e.session = caller[p].session
  BY DEF MessagesFrom, Message
<1>p. pc \in {"read_file", "append"}
  OBVIOUS
<1> HIDE DEF s, lines, stop, key, events, row, pc
<1>3. PICK fields : fields = [file |-> "checkpoints", key |-> key, events |-> events, row |-> row]
  OBVIOUS
<1>4. /\ DOMAIN fields = {"file", "key", "events", "row"}
      /\ fields["file"] = "checkpoints" /\ fields["events"] = events
  BY <1>3
<1>5. Goes(p, pc, fields)
  BY <1>1, <1>3
<1> QED
  BY <1>0, <1>2, <1>p, <1>4, <1>5, BindingGoes, BindingStands

LEMMA BindingInit == SessionsInit => BindingInv(files["bindings"].rows)
<1> SUFFICES ASSUME SessionsInit PROVE BindingInv(files["bindings"].rows)
  OBVIOUS
<1>1. PICK bound \in {{}, {s \in Sessions : ParentOf[s] = NoSession}} :
        /\ conversations = IF bound = {} THEN {} ELSE {1}
        /\ issued = Cardinality(conversations)
        /\ files = [f \in Files |-> [torn |-> FALSE, contested |-> FALSE,
               rows |-> IF f = "bindings" THEN {[session |-> s, conv |-> 1, parent |-> 0] : s \in bound} ELSE {}]]
  BY DEF SessionsInit
<1> DEFINE B == {[session |-> s, conv |-> 1, parent |-> 0] : s \in bound}
<1>2. files["bindings"].rows = B /\ ~ files["bindings"].torn
  BY <1>1 DEF Files
<1>b. \A r \in B : r.session \in bound /\ r.conv = 1 /\ r = [session |-> r.session, conv |-> 1, parent |-> 0]
  OBVIOUS
<1>e. B # {} => bound # {}
  OBVIOUS
<1> HIDE DEF B
<1>3. B # {} => issued = 1
  <2>1. B # {} => conversations = {1}
    BY <1>1, <1>e
  <2>2. Cardinality({1}) = 1
    BY FS_Singleton
  <2> QED
    BY <1>1, <2>1, <2>2
<1>4. \A p \in Callers : caller[p].pc = "idle"
  BY DEF SessionsInit, Idle
<1>5. \A r \in B : r.session \in bound /\ r.conv = 1 /\ r = [session |-> r.session, conv |-> 1, parent |-> 0]
  BY <1>b
<1>6. \A r \in B : ParentOf[r.session] = NoSession
  BY <1>1, <1>5
<1>7. \A r, x \in B : r.session = x.session => r = x
  BY <1>5
<1>8. \A r \in B : r.conv \in 1 .. issued
  BY <1>3, <1>5
<1>9. DOMAIN archive = {}
  BY DEF SessionsInit
<1>10. BindingsOK(B)
  BY <1>5, <1>6, <1>7, <1>8, <1>9 DEF BindingsOK
<1>11. FileHolds("bindings", B)
  BY <1>2, <1>4 DEF FileHolds, Writing
<1>12. PathsApart
  BY <1>4 DEF PathsApart, Apart, Unsaved
<1>13. \A p \in Callers : PathOK(B, caller[p])
  BY <1>4 DEF PathOK, Unsaved, Resolved
<1> QED
  BY <1>2, <1>10, <1>11, <1>12, <1>13 DEF BindingInv

(* What went wrong stays on record. *)
LEMMA MishapsGrow == [SessionsNext]_sessionVars => mishaps \subseteq mishaps'
<1> SUFFICES ASSUME [SessionsNext]_sessionVars PROVE mishaps \subseteq mishaps'
  OBVIOUS
<1>1. CASE UNCHANGED sessionVars
  BY <1>1 DEF sessionVars
<1>2. ASSUME NEW s, NEW line, WriteLine(s, line) PROVE mishaps \subseteq mishaps'
  BY <1>2 DEF WriteLine
<1>3. ASSUME NEW p, NEW kind, NEW s, NEW last, Begin(p, kind, s, last) PROVE mishaps \subseteq mishaps'
  BY <1>3 DEF Begin
<1>4. ASSUME NEW p, Crash(p) PROVE mishaps \subseteq mishaps'
  BY <1>4 DEF Crash, Ends
<1>5. ASSUME NEW p, Find(p) \/ FindParent(p) \/ CreateBinding(p) \/ ReadFile(p) PROVE mishaps \subseteq mishaps'
  BY <1>5 DEF Find, FindParent, CreateBinding, ReadFile, Ends
<1>6. ASSUME NEW p, TruncateFile(p) \/ WriteFile(p) \/ GetCheckpoint(p) \/ ParseTranscript(p)
      PROVE mishaps \subseteq mishaps'
  BY <1>6 DEF TruncateFile, WriteFile, GetCheckpoint, ParseTranscript, Ends
<1>7. ASSUME NEW p, \/ AppendTranscript(p) \/ ExtractHandoff(p) \/ RecordHandoff(p) \/ RecordNextStep(p)
                    \/ WriteRecord(p)
      PROVE mishaps \subseteq mishaps'
  BY <1>7 DEF AppendTranscript, ExtractHandoff, RecordHandoff, RecordNextStep, RecordStep, WriteRecord, Writes, Ends
<1> QED
  BY <1>1, <1>2, <1>3, <1>4, <1>5, <1>6, <1>7 DEF SessionsNext, CallerStep

LEMMA BindingNext ==
    ASSUME SessionsType, NEW B, BindingInv(B), [SessionsNext]_sessionVars, <<"rebound">> \notin mishaps'
    PROVE  \E C : BindingInv(C)'
<1>1. CASE UNCHANGED sessionVars
  <2>1. BindingInv(B)'
    BY <1>1 DEF sessionVars, BindingInv, BindingsOK, FileHolds, PathsApart, Apart, PathOK, Has, Unsaved, Resolved,
                NewRow, Writing
  <2> QED
    BY <2>1
<1>2. ASSUME NEW s, NEW line, WriteLine(s, line) PROVE BindingInv(B)'
  BY <1>2 DEF WriteLine, BindingInv, BindingsOK, FileHolds, PathsApart, Apart, PathOK, Has, Unsaved, Resolved,
              NewRow, Writing
<1>3. ASSUME NEW p \in Callers, NEW kind, NEW s, NEW last, Begin(p, kind, s, last) PROVE BindingInv(B)'
  <2>1. PICK x : x = [pc |-> "find", kind |-> kind, session |-> s, last |-> last, conv |-> 0,
                      appended |-> FALSE]
    OBVIOUS
  <2>2. Moved(p, x) /\ UNCHANGED <<issued, archive, files>> /\ x.pc = "find"
    BY <1>3, <2>1 DEF Begin, Moved
  <2>3. PathOK(B, x)' /\ ~ Unsaved(x) /\ ~ Writing("bindings", x)
    BY <2>2 DEF PathOK, Unsaved, Resolved, Writing
  <2>4. \A q \in Callers \ {p} : Apart(x, caller[q])
    BY <2>3 DEF Apart
  <2>5. issued' \in Nat /\ issued <= issued'
    BY <2>2 DEF SessionsType
  <2> QED
    BY <2>2, <2>3, <2>4, <2>5, BindingMoves, BindingStands
<1>4. ASSUME NEW p \in Callers, Crash(p) PROVE BindingInv(B)'
  BY <1>4, BindingEnds DEF Crash
<1>5. ASSUME NEW p \in Callers, Find(p) PROVE BindingInv(B)'
  BY <1>5, BindingFind
<1>6. ASSUME NEW p \in Callers, FindParent(p) PROVE BindingInv(B)'
  BY <1>6, BindingFindParent
<1>7. ASSUME NEW p \in Callers, CreateBinding(p) PROVE BindingInv(B)'
  BY <1>7, BindingCreate
<1>8. ASSUME NEW p \in Callers, ReadFile(p) PROVE BindingInv(B)'
  BY <1>8, BindingRead
<1>9. ASSUME NEW p \in Callers, TruncateFile(p) PROVE \E C : BindingInv(C)'
  BY <1>9, BindingTruncate
<1>10. ASSUME NEW p \in Callers, WriteFile(p) PROVE BindingInv(B)'
  BY <1>10, BindingWrite
<1>11. ASSUME NEW p \in Callers, GetCheckpoint(p) PROVE BindingInv(B)'
  <2>1. UNCHANGED <<issued, files, archive>> /\ Resolved(caller[p])
    BY <1>11 DEF GetCheckpoint, At, Resolved
  <2>2. CASE Ends(p)
    BY <2>1, <2>2, BindingEnds
  <2>3. ASSUME NEW start, Goes(p, "parse", [start |-> start]) PROVE BindingInv(B)'
    BY <2>1, <2>3, BindingGoes, BindingStands
  <2> QED
    BY <1>11, <2>2, <2>3 DEF GetCheckpoint
<1>12. ASSUME NEW p \in Callers, ParseTranscript(p) PROVE BindingInv(B)'
  BY <1>12, BindingParses
<1>13. ASSUME NEW p \in Callers, AppendTranscript(p) PROVE BindingInv(B)'
  BY <1>13, BindingArchives
<1>14. ASSUME NEW p \in Callers, ExtractHandoff(p) PROVE BindingInv(B)'
  <2>1. UNCHANGED <<issued, files, archive>> /\ Resolved(caller[p])
    BY <1>14 DEF ExtractHandoff, At, Resolved
  <2>2. PICK steps : Goes(p, "handoff", [steps |-> steps])
    BY <1>14 DEF ExtractHandoff
  <2> QED
    BY <2>1, <2>2, BindingGoes, BindingStands
<1>15. ASSUME NEW p \in Callers, Resolved(caller[p]), UNCHANGED <<issued, files>>, NEW i,
              NEW kind, NEW title, NEW key, RecordStep(p, kind, title, key, AfterStep(p, i))
       PROVE  BindingInv(B)'
  <2>1. PICK record : record = ContinuityRecord(kind, title, key, "active", {}, {})
    OBVIOUS
  <2>2. record.type = "record"
    BY <2>1, RecordTypes
  <2>3. PICK pc, fields :
          /\ pc \in {"next_step", "done"}
          /\ {"pc", "session", "conv"} \cap DOMAIN fields = {}
          /\ AfterStep(p, i) => Goes(p, pc, fields)
    <3>1. PICK steps, fields : steps = caller[p].steps /\ fields = [steps |-> steps, at |-> i + 1]
      OBVIOUS
    <3>2. PICK last : last = [steps |-> steps]
      OBVIOUS
    <3>3. DOMAIN fields = {"steps", "at"} /\ DOMAIN last = {"steps"}
      BY <3>1, <3>2
    <3>4. AfterStep(p, i) => Goes(p, "done", last) \/ Goes(p, "next_step", fields)
      BY <3>1, <3>2 DEF AfterStep
    <3> QED
      BY <3>3, <3>4
  <2>4. \/ Appends(caller[p].conv, key, {record}) /\ Goes(p, pc, fields)
        \/ Ends(p) /\ UNCHANGED archive
    BY <1>15, <2>1, <2>3 DEF RecordStep
  <2> QED
    BY <1>15, <2>2, <2>3, <2>4, BindingRecords
<1>16. ASSUME NEW p \in Callers, RecordHandoff(p) PROVE BindingInv(B)'
  <2>1. UNCHANGED <<issued, files>> /\ Resolved(caller[p])
    BY <1>16 DEF RecordHandoff, RecordStep, At, Resolved
  <2> QED
    BY <1>15, <1>16, <2>1 DEF RecordHandoff
<1>17. ASSUME NEW p \in Callers, RecordNextStep(p) PROVE BindingInv(B)'
  <2>1. UNCHANGED <<issued, files>> /\ Resolved(caller[p])
    BY <1>17 DEF RecordNextStep, RecordStep, At, Resolved
  <2> QED
    BY <1>15, <1>17, <2>1 DEF RecordNextStep
<1>18. ASSUME NEW p \in Callers, WriteRecord(p) PROVE BindingInv(B)'
  <2>1. UNCHANGED <<issued, files>> /\ Resolved(caller[p])
    BY <1>18 DEF WriteRecord, Writes, At, Resolved
  <2>2. PICK record, key :
          /\ record.type = "record"
          /\ \/ Appends(caller[p].conv, key, {record}) /\ Goes(p, "done", <<>>)
             \/ Ends(p) /\ UNCHANGED archive
    <3>1. ASSUME NEW record, NEW key, record.type = "record", Writes(p, record, key)
          PROVE  \E r, k :
                    /\ r.type = "record"
                    /\ \/ Appends(caller[p].conv, k, {r}) /\ Goes(p, "done", <<>>)
                       \/ Ends(p) /\ UNCHANGED archive
      BY <3>1 DEF Writes
    <3>2. PICK r, k : r.type = "record" /\ Writes(p, r, k)
      <4>1. ASSUME NEW S, NEW k, Writes(p, ContinuityRecord("failure", "tool", k, "active", {}, {}), k)
                           \/ Writes(p, ContinuityRecord("decision", "d", k, "active", S, {}), k)
                           \/ Writes(p, Marker(S, "stale", k), k)
            PROVE \E r, l : r.type = "record" /\ Writes(p, r, l)
        BY <4>1, RecordTypes
      <4> QED
        BY <1>18, <4>1 DEF WriteRecord
    <3> QED
      BY <3>1, <3>2
  <2>3. DOMAIN <<>> = {}
    OBVIOUS
  <2> QED
    BY <2>1, <2>2, <2>3, BindingRecords
<1> QED
  BY <1>1, <1>2, <1>3, <1>4, <1>5, <1>6, <1>7, <1>8, <1>9, <1>10, <1>11, <1>12, <1>13, <1>14, <1>16,
     <1>17, <1>18 DEF SessionsNext, CallerStep

LEMMA AtMostOne ==
    ASSUME NEW S, \A a, b \in S : a = b
    PROVE  Cardinality(S) <= 1
<1>1. CASE S = {}
  BY <1>1, FS_EmptySet
<1>2. CASE S # {}
  <2>1. PICK a \in S : S = {a}
    BY <1>2
  <2>2. Cardinality({a}) = 1
    BY FS_Singleton
  <2> QED
    BY <2>1, <2>2
<1> QED
  BY <1>1, <1>2

LEMMA BindingsAreStable ==
    ASSUME SessionsType, NEW B, BindingInv(B)
    PROVE  BindingStable
<1>1. SUFFICES ASSUME NEW s \in Sessions PROVE
        LET used == {caller[p].conv : p \in {q \in Callers :
                         caller[q].pc \notin {"idle", "find"} \cup Unbound /\ caller[q].session = s}}
            archived == {archive[j].conv : j \in {k \in DOMAIN archive :
                             \E e \in archive[k].events : e.type # "record" /\ e.session = s}}
            bound == Row("bindings", s)
        IN /\ Cardinality(used \cup archived \cup {r.conv : r \in bound}) <= 1
           /\ \A r \in bound : ParentOf[s] # NoSession =>
                  {r.parent} = {x.conv : x \in Row("bindings", ParentOf[s])}
           /\ \A x \in Sessions : \A r \in bound, y \in Row("bindings", x) : r.conv = y.conv => s = x \/ r.conv = 1
  BY DEF BindingStable
<1> DEFINE used == {caller[p].conv : p \in {q \in Callers :
                        caller[q].pc \notin {"idle", "find"} \cup Unbound /\ caller[q].session = s}}
           archived == {archive[j].conv : j \in {k \in DOMAIN archive :
                            \E e \in archive[k].events : e.type # "record" /\ e.session = s}}
           bound == Row("bindings", s)
           all == used \cup archived \cup {r.conv : r \in bound}
<1>2. \A r, x \in B : r.session = x.session => r = x
  BY DEF BindingInv, BindingsOK
<1>3. files["bindings"].rows = IF files["bindings"].torn THEN {} ELSE B
  BY DEF BindingInv, FileHolds
<1>4. ASSUME NEW c \in used PROVE Has(B, s, c)
  <2>1. PICK q \in Callers : /\ caller[q].pc \notin {"idle", "find"} \cup Unbound
                             /\ caller[q].session = s /\ caller[q].conv = c
    BY <1>4
  <2>2. Resolved(caller[q])
    BY <2>1 DEF Resolved, Unbound
  <2> QED
    BY <2>1, <2>2 DEF BindingInv, PathOK
<1>5. \A c \in archived : Has(B, s, c)
  BY DEF BindingInv, BindingsOK
<1>6. \A c \in {r.conv : r \in bound} : Has(B, s, c)
  BY <1>3 DEF Row, Has
<1>7. Cardinality(all) <= 1
  <2>1. \A c \in all : Has(B, s, c)
    BY <1>4, <1>5, <1>6
  <2> HIDE DEF all
  <2>2. \A c, d \in all : c = d
    BY <1>2, <2>1 DEF Has
  <2> QED
    BY <2>2, AtMostOne
<1>8. ASSUME NEW r \in bound, ParentOf[s] # NoSession
      PROVE  {r.parent} = {x.conv : x \in Row("bindings", ParentOf[s])}
  <2>1. files["bindings"].rows = B /\ r \in B /\ r.session = s
    BY <1>3, <1>8 DEF Row
  <2>2. Has(B, ParentOf[s], r.parent)
    BY <1>8, <2>1 DEF BindingInv, BindingsOK
  <2>3. PICK y \in B : y.session = ParentOf[s] /\ y.conv = r.parent
    BY <2>2 DEF Has
  <2>4. Row("bindings", ParentOf[s]) = {y}
    BY <1>2, <2>1, <2>3 DEF Row
  <2> QED
    BY <2>3, <2>4
<1>9. ASSUME NEW x \in Sessions, NEW r \in bound, NEW y \in Row("bindings", x), r.conv = y.conv
      PROVE  s = x \/ r.conv = 1
  <2>1. r \in B /\ r.session = s /\ y \in B /\ y.session = x
    BY <1>3, <1>9 DEF Row
  <2> QED
    BY <1>9, <2>1 DEF BindingInv, BindingsOK
<1> QED
  BY <1>7, <1>8, <1>9

(* A session has one conversation (see BindingStable): however many        *)
(* processes resolve it, archive for it and rewrite the file of bindings,  *)
(* killed or not between any two steps, as long as no two of them are      *)
(* between not finding a binding and saving one.                           *)
THEOREM BindingStableHolds == SessionsSpec => []BindingStable
<1> DEFINE Inv == SessionsType /\ (<<"rebound">> \notin mishaps => \E B : BindingInv(B))
<1>1. SessionsInit => Inv
  BY TypeInit, BindingInit
<1>2. Inv /\ [SessionsNext]_sessionVars => Inv'
  <2>1. SUFFICES ASSUME SessionsType, <<"rebound">> \notin mishaps => \E B : BindingInv(B),
                        [SessionsNext]_sessionVars, <<"rebound">> \notin mishaps'
                 PROVE  \E C : BindingInv(C)'
    BY TypeNext
  <2>2. <<"rebound">> \notin mishaps
    BY <2>1, MishapsGrow
  <2>3. PICK B : BindingInv(B)
    BY <2>1, <2>2
  <2> QED
    BY <2>1, <2>3, BindingNext
<1>3. Inv => BindingStable
  BY BindingsAreStable DEF BindingStable
<1> QED
  BY <1>1, <1>2, <1>3, PTL DEF SessionsSpec

-----------------------------------------------------------------------------
(* Checkpoints, first half: what they say is archived is in the ledger.    *)

(* Lines, mishaps and archived messages are there to stay; only a torn line *)
(* is written again.                                                       *)
Growth ==
    /\ \A s \in Sessions :
        /\ Len(transcript[s]) \in Nat /\ Len(transcript'[s]) \in Nat
        /\ Len(transcript[s]) <= Len(transcript'[s])
        /\ \A i \in 1 .. Len(transcript[s]) :
             transcript'[s][i] = transcript[s][i] \/ transcript[s][i] = "torn"
    /\ mishaps \subseteq mishaps'
    /\ cast' = cast
    /\ DOMAIN archive \subseteq DOMAIN archive'
    /\ \A j \in DOMAIN archive : archive'[j] = archive[j]

LEMMA ArchiveStays == SessionsType /\ [SessionsNext]_sessionVars =>
    DOMAIN archive \subseteq DOMAIN archive' /\ \A j \in DOMAIN archive : archive'[j] = archive[j]
<1> DEFINE Stays == DOMAIN archive \subseteq DOMAIN archive' /\ \A j \in DOMAIN archive : archive'[j] = archive[j]
<1> SUFFICES ASSUME SessionsType, [SessionsNext]_sessionVars PROVE Stays
  OBVIOUS
<1>1. UNCHANGED archive => Stays
  OBVIOUS
<1>2. ASSUME NEW c, NEW key, NEW events, Appends(c, key, events) PROVE Stays
  BY <1>2, AppendsShape DEF SessionsType
<1> HIDE DEF Stays
<1>3. CASE UNCHANGED sessionVars
  BY <1>1, <1>3 DEF sessionVars
<1>4. ASSUME NEW s, NEW line, WriteLine(s, line) PROVE Stays
  BY <1>1, <1>4 DEF WriteLine
<1>5. ASSUME NEW p, NEW kind, NEW s, NEW last, Begin(p, kind, s, last) PROVE Stays
  BY <1>1, <1>5 DEF Begin
<1>6. ASSUME NEW p, \/ Crash(p) \/ Find(p) \/ FindParent(p) \/ CreateBinding(p) \/ ReadFile(p) \/ TruncateFile(p)
                    \/ WriteFile(p) \/ GetCheckpoint(p) \/ ParseTranscript(p) \/ ExtractHandoff(p)
      PROVE  Stays
  BY <1>1, <1>6 DEF Crash, Find, FindParent, CreateBinding, ReadFile, TruncateFile, WriteFile, GetCheckpoint,
                    ParseTranscript, ExtractHandoff
<1>7. ASSUME NEW p, AppendTranscript(p) \/ RecordHandoff(p) \/ RecordNextStep(p) PROVE Stays
  BY <1>1, <1>2, <1>7 DEF AppendTranscript, RecordHandoff, RecordNextStep, RecordStep
<1>8. ASSUME NEW p, WriteRecord(p) PROVE Stays
  <2>1. ASSUME NEW record, NEW key, Writes(p, record, key) PROVE Stays
    BY <1>1, <1>2, <2>1 DEF Writes
  <2> QED
    BY <1>8, <2>1 DEF WriteRecord
<1> QED
  BY <1>3, <1>4, <1>5, <1>6, <1>7, <1>8 DEF SessionsNext, CallerStep

LEMMA TranscriptGrows == SessionsType /\ [SessionsNext]_sessionVars =>
    \A s \in Sessions :
        /\ Len(transcript[s]) \in Nat /\ Len(transcript'[s]) \in Nat
        /\ Len(transcript[s]) <= Len(transcript'[s])
        /\ \A i \in 1 .. Len(transcript[s]) :
             transcript'[s][i] = transcript[s][i] \/ transcript[s][i] = "torn"
<1> SUFFICES ASSUME SessionsType, [SessionsNext]_sessionVars PROVE
    \A s \in Sessions :
        /\ Len(transcript[s]) \in Nat /\ Len(transcript'[s]) \in Nat
        /\ Len(transcript[s]) <= Len(transcript'[s])
        /\ \A i \in 1 .. Len(transcript[s]) :
             transcript'[s][i] = transcript[s][i] \/ transcript[s][i] = "torn"
  OBVIOUS
<1>1. CASE UNCHANGED transcript
  <2>1. \A s \in Sessions : Len(transcript[s]) \in Nat
    BY DEF SessionsType
  <2> QED
    BY <1>1, <2>1
<1>2. ASSUME NEW s \in cast.sessions, NEW line \in {"step", "other", "torn"}, WriteLine(s, line)
      PROVE  \A x \in Sessions :
        /\ Len(transcript[x]) \in Nat /\ Len(transcript'[x]) \in Nat
        /\ Len(transcript[x]) <= Len(transcript'[x])
        /\ \A i \in 1 .. Len(transcript[x]) :
             transcript'[x][i] = transcript[x][i] \/ transcript[x][i] = "torn"
  BY <1>2, LineWritten
<1>3. \/ UNCHANGED transcript
      \/ \E s \in cast.sessions, line \in {"step", "other", "torn"} : WriteLine(s, line)
  <2>1. ASSUME NEW p, NEW kind, NEW s, NEW last, Begin(p, kind, s, last) PROVE UNCHANGED transcript
    BY <2>1 DEF Begin
  <2>2. ASSUME NEW p, Crash(p) PROVE UNCHANGED transcript
    BY <2>2 DEF Crash
  <2>3. ASSUME NEW p, CallerStep(p) PROVE UNCHANGED transcript
    BY <2>3 DEF CallerStep, Find, FindParent, CreateBinding, ReadFile, TruncateFile, WriteFile, GetCheckpoint,
         ParseTranscript, AppendTranscript, ExtractHandoff, RecordHandoff, RecordNextStep, RecordStep, WriteRecord
  <2> QED
    BY <2>1, <2>2, <2>3 DEF SessionsNext, sessionVars
<1> QED
  BY <1>1, <1>2, <1>3

LEMMA CastStays == [SessionsNext]_sessionVars => cast' = cast
<1>1. ASSUME NEW p, CallerStep(p) PROVE cast' = cast
  BY <1>1 DEF CallerStep, Find, FindParent, CreateBinding, ReadFile, TruncateFile, WriteFile, GetCheckpoint,
       ParseTranscript, AppendTranscript, ExtractHandoff, RecordHandoff, RecordNextStep, RecordStep, WriteRecord
<1>2. ASSUME NEW p, NEW kind, NEW s, NEW last, Begin(p, kind, s, last) PROVE cast' = cast
  BY <1>2 DEF Begin
<1>3. ASSUME NEW p, Crash(p) PROVE cast' = cast
  BY <1>3 DEF Crash
<1>4. ASSUME NEW s, NEW line, WriteLine(s, line) PROVE cast' = cast
  BY <1>4 DEF WriteLine
<1> QED
  BY <1>1, <1>2, <1>3, <1>4 DEF SessionsNext, sessionVars

LEMMA Grows == SessionsType /\ [SessionsNext]_sessionVars => Growth
BY ArchiveStays, TranscriptGrows, MishapsGrow, CastStays DEF Growth

LEMMA SaidStays ==
    ASSUME Growth, NEW s, NEW i, Said(s, i)
    PROVE  Said(s, i)'
BY DEF Growth, Said, Text

(* A batch with the digest of another says what that one says.             *)
LEMMA SaidBy ==
    ASSUME NEW events, NEW s, NEW i, Message(s, i) \in events,
           NEW j \in DOMAIN archive', Digest(archive'[j].events) = Digest(events), cast' = cast
    PROVE  Said(s, i)'
<1> DEFINE Standing(x, E) == Cardinality({y \in E : y.type = "line" /\ y.line < x.line})
           Hashed(x, E) == [type |-> "line", session |-> x.session, text |-> Text(x.line), place |-> Standing(x, E)]
           m == Message(s, i)
           b == archive'[j].events
<1>1. m \in events /\ m.type = "line" /\ m.session = s /\ m.line = i
  BY DEF Message
<1> HIDE DEF m, b, Standing
<1>2. Hashed(m, events) \in Digest(events)
  BY <1>1 DEF Digest, Standing
<1>3. Hashed(m, events).type = "line" /\ Hashed(m, events).session = s /\ Hashed(m, events).text = Text(i)
  BY <1>1
<1>4. Hashed(m, events) \in Digest(b)
  BY <1>2 DEF b
<1>5. PICK e \in b : e.type = "line" /\ Hashed(m, events) = Hashed(e, b)
  BY <1>3, <1>4 DEF Digest, Standing
<1>6. e.session = s /\ Text(e.line) = Text(i)
  BY <1>3, <1>5
<1> QED
  BY <1>5, <1>6 DEF Said, Text, b

LEMMA CoveredStays ==
    ASSUME SessionsType, Growth, NEW s, NEW n, Covered(s, n)
    PROVE  Covered(s, n)'
<1>1. /\ s \in Sessions /\ n \in Nat
      /\ Len(transcript[s]) \in Nat /\ Len(transcript'[s]) \in Nat
      /\ Len(transcript[s]) <= Len(transcript'[s]) /\ n <= Len(transcript[s])
  BY DEF Covered, Growth
<1>2. \A i : Said(s, i) => Said(s, i)'
  BY SaidStays
<1>3. ASSUME NEW i \in 1 .. n
      PROVE  transcript'[s][i] = "other" \/ <<"torn", s, i>> \in mishaps' \/ Said(s, i)'
  <2>1. i \in 1 .. Len(transcript[s])
    BY <1>1
  <2>2. transcript[s][i] = "other" => transcript'[s][i] = "other"
    BY <1>1, <2>1 DEF Growth
  <2>3. transcript[s][i] = "other" \/ <<"torn", s, i>> \in mishaps \/ Said(s, i)
    BY <1>3 DEF Covered
  <2> QED
    BY <1>2, <2>2, <2>3 DEF Growth
<1>4. n \in 0 .. Len(transcript'[s])
  BY <1>1
<1> QED
  BY <1>1, <1>3, <1>4 DEF Covered

LEMMA CoverStays ==
    ASSUME SessionsType, Growth, NEW r, CoverOK(r), r.pc = "append" => r.session \in Sessions
    PROVE  CoverOK(r)'
<1>1. r.pc = "parse" => Covered(r.session, r.start)'
  BY CoveredStays DEF CoverOK
<1>2. r.pc = "read_file" /\ r.file = "checkpoints" => Covered(r.row.session, r.row.lines)'
  BY CoveredStays DEF CoverOK
<1>3. Writing("checkpoints", r) => \A x \in r.rows : Covered(x.session, x.lines)'
  BY CoveredStays DEF CoverOK
<1>4. ASSUME r.pc = "append"
      PROVE  /\ r.row.session = r.session /\ r.row.lines \in 0 .. Len(transcript'[r.session])
             /\ \A i \in 1 .. r.row.lines :
                 \/ transcript'[r.session][i] = "other"
                 \/ <<"torn", r.session, i>> \in mishaps'
                 \/ Said(r.session, i)'
                 \/ Message(r.session, i) \in r.events
  <2>1. PICK s, n : s = r.session /\ n = r.row.lines
    OBVIOUS
  <2>2. /\ s \in Sessions /\ r.row.session = s /\ n \in Nat
        /\ Len(transcript[s]) \in Nat /\ Len(transcript'[s]) \in Nat
        /\ Len(transcript[s]) <= Len(transcript'[s]) /\ n <= Len(transcript[s])
    BY <1>4, <2>1 DEF CoverOK, Growth
  <2>3. \A i : Said(s, i) => Said(s, i)'
    BY SaidStays
  <2>4. ASSUME NEW i \in 1 .. n
        PROVE  \/ transcript'[s][i] = "other"
               \/ <<"torn", s, i>> \in mishaps'
               \/ Said(s, i)'
               \/ Message(s, i) \in r.events
    <3>1. i \in 1 .. Len(transcript[s])
      BY <2>2
    <3>2. transcript[s][i] = "other" => transcript'[s][i] = "other"
      BY <2>2, <3>1 DEF Growth
    <3>3. \/ transcript[s][i] = "other"
          \/ <<"torn", s, i>> \in mishaps
          \/ Said(s, i)
          \/ Message(s, i) \in r.events
      BY <1>4, <2>1, <2>4 DEF CoverOK
    <3> QED
      BY <2>3, <3>2, <3>3 DEF Growth
  <2>5. n \in 0 .. Len(transcript'[s])
    BY <2>2
  <2> QED
    BY <2>1, <2>2, <2>4, <2>5
<1> QED
  BY <1>1, <1>2, <1>3, <1>4 DEF CoverOK, Message, Writing

LEMMA CoverMoves ==
    ASSUME SessionsType, CoverInv, Growth, NEW p \in Callers, NEW x, Moved(p, x), CoverOK(x)',
           \A row \in files'["checkpoints"].rows : Covered(row.session, row.lines)'
    PROVE  CoverInv'
<1>1. /\ caller'[p] = x
      /\ \A q \in Callers \ {p} : caller'[q] = caller[q]
  BY MovedShape DEF SessionsType
<1>2. ASSUME NEW q \in Callers PROVE CoverOK(caller[q])'
  <2>1. CASE q = p
    <3>1. caller'[q] = x
      BY <1>1, <2>1
    <3>2. CoverOK(x)'
      OBVIOUS
    <3> QED
      BY ONLY <3>1, <3>2 DEF CoverOK, Covered, Said, Text, Message, Writing
  <2>2. CASE q # p
    <3>1. PICK r : r = caller[q]
      OBVIOUS
    <3>2. CoverOK(r) /\ (r.pc = "append" => r.session \in Sessions)
      BY <3>1 DEF CoverInv, SessionsType
    <3>3. CoverOK(r)'
      BY <3>2, CoverStays
    <3>4. caller'[q] = r
      BY <1>1, <2>2, <3>1
    <3> QED
      BY ONLY <3>3, <3>4 DEF CoverOK, Covered, Said, Text, Message, Writing
  <2> QED
    BY <2>1, <2>2
<1> QED
  BY <1>2 DEF CoverInv

LEMMA RowsStayCovered ==
    ASSUME SessionsType, CoverInv, Growth, files'["checkpoints"] = files["checkpoints"]
    PROVE  \A row \in files'["checkpoints"].rows : Covered(row.session, row.lines)'
BY CoveredStays DEF CoverInv

LEMMA CoverEnds ==
    ASSUME SessionsType, CoverInv, Growth, NEW p \in Callers, Ends(p), UNCHANGED files
    PROVE  CoverInv'
<1>1. PICK x : x = Idle
  OBVIOUS
<1>2. Moved(p, x) /\ x.pc = "idle"
  BY <1>1 DEF Ends, Moved, Idle
<1>3. CoverOK(x)'
  BY <1>2 DEF CoverOK, Writing
<1> QED
  BY <1>2, <1>3, CoverMoves, RowsStayCovered

(* A step that has nothing to do with the checkpoints. *)
LEMMA CoverGoes ==
    ASSUME SessionsType, CoverInv, Growth, NEW p \in Callers, NEW pc, NEW fields, Goes(p, pc, fields),
           "pc" \notin DOMAIN fields, pc \notin {"parse", "append"},
           pc \in {"read_file", "truncate", "write"} => "file" \in DOMAIN fields /\ fields["file"] = "bindings",
           \A row \in files'["checkpoints"].rows : Covered(row.session, row.lines)'
    PROVE  CoverInv'
<1>1. PICK x : /\ Moved(p, x)
               /\ x.pc = pc
               /\ \A f \in DOMAIN fields \ {"pc"} : x[f] = fields[f]
               /\ \A f \in {"kind", "session", "last", "conv", "appended"} \ DOMAIN fields :
                     x[f] = caller[p][f]
  BY GoesShape
<1>2. pc \in {"read_file", "truncate", "write"} => x.file = "bindings"
  BY <1>1
<1>3. CoverOK(x)'
  BY <1>1, <1>2 DEF CoverOK, Writing
<1> QED
  BY <1>1, <1>3, CoverMoves

LEMMA CoverFinds ==
    ASSUME SessionsType, CoverInv, Growth, NEW p \in Callers, Find(p) \/ FindParent(p) \/ CreateBinding(p)
    PROVE  CoverInv'
<1>0. UNCHANGED files
  BY DEF Find, FindParent, CreateBinding
<1>1. CASE Ends(p)
  BY <1>0, <1>1, CoverEnds
<1>2. ASSUME NEW pc, NEW fields, Goes(p, pc, fields), "pc" \notin DOMAIN fields,
             pc \in {"parent", "create", "checkpoint", "record"}
      PROVE  CoverInv'
  BY <1>0, <1>2, CoverGoes, RowsStayCovered
<1>3. CASE Find(p) /\ ~ Ends(p)
  <2>1. PICK pc, conv, lineage :
          /\ \/ pc = "parent" \/ pc = "create" \/ pc = Purpose(caller[p].kind)
          /\ Goes(p, pc, [conv |-> conv, parent |-> 0, lineage |-> lineage])
    BY <1>3 DEF Find
  <2>2. pc \in {"parent", "create", "checkpoint", "record"}
    BY <2>1 DEF Purpose
  <2> QED
    BY <1>2, <2>1, <2>2
<1>4. CASE FindParent(p) /\ ~ Ends(p)
  <2>1. PICK pc, parent :
          /\ \/ pc = "create" \/ pc = Purpose(caller[p].kind)
          /\ Goes(p, pc, [parent |-> parent])
    BY <1>4 DEF FindParent
  <2>2. pc \in {"parent", "create", "checkpoint", "record"}
    BY <2>1 DEF Purpose
  <2> QED
    BY <1>2, <2>1, <2>2
<1>5. CASE CreateBinding(p) /\ ~ Ends(p)
  <2>1. PICK row, conv : Goes(p, "read_file", [file |-> "bindings", row |-> row, conv |-> conv])
    BY <1>5 DEF CreateBinding
  <2> QED
    BY <1>0, <2>1, CoverGoes, RowsStayCovered
<1> QED
  BY <1>1, <1>3, <1>4, <1>5

LEMMA CoverReads ==
    ASSUME SessionsType, CoverInv, Growth, NEW p \in Callers, ReadFile(p)
    PROVE  CoverInv'
<1>0. UNCHANGED files /\ caller[p].pc = "read_file" /\ caller[p].file \in Files
  BY DEF ReadFile, At, SessionsType
<1>1. CASE Ends(p)
  BY <1>0, <1>1, CoverEnds
<1>2. CASE ~ Ends(p)
  <2>1. PICK r, rows, fields :
          /\ r = caller[p]
          /\ rows = WithRow(files[r.file].rows, r.row)
          /\ fields = [file |-> r.file, rows |-> rows]
          /\ Goes(p, "truncate", fields)
    BY <1>2 DEF ReadFile
  <2>2. DOMAIN fields = {"file", "rows"} /\ fields["file"] = r.file /\ fields["rows"] = rows
    BY <2>1
  <2>3. PICK x : /\ Moved(p, x)
                 /\ x.pc = "truncate"
                 /\ \A f \in DOMAIN fields \ {"pc"} : x[f] = fields[f]
                 /\ \A f \in {"kind", "session", "last", "conv", "appended"} \ DOMAIN fields :
                       x[f] = caller[p][f]
    BY <2>1, GoesShape
  <2>4. x.file = r.file /\ x.rows = rows
    BY <2>2, <2>3
  <2>5. ASSUME r.file = "checkpoints", NEW row \in rows PROVE Covered(row.session, row.lines)'
    <3>1. row \in files["checkpoints"].rows \/ row = r.row
      BY <2>1, <2>5 DEF WithRow
    <3>2. CoverOK(r)
      BY <2>1 DEF CoverInv
    <3>3. Covered(row.session, row.lines)
      BY <1>0, <2>1, <2>5, <3>1, <3>2 DEF CoverInv, CoverOK
    <3> QED
      BY <3>3, CoveredStays
  <2>6. CoverOK(x)'
    BY <2>3, <2>4, <2>5 DEF CoverOK, Writing
  <2> QED
    BY <1>0, <2>3, <2>6, CoverMoves, RowsStayCovered
<1> QED
  BY <1>1, <1>2

LEMMA CoverTruncates ==
    ASSUME SessionsType, CoverInv, Growth, NEW p \in Callers, TruncateFile(p)
    PROVE  CoverInv'
<1>0. caller[p].pc = "truncate" /\ caller[p].file \in Files
  BY DEF TruncateFile, At, SessionsType
<1>1. PICK r, fields, contested :
        /\ r = caller[p]
        /\ fields = [file |-> r.file, rows |-> r.rows]
        /\ Goes(p, "write", fields)
        /\ files' = [files EXCEPT ![r.file] = [torn |-> TRUE, contested |-> contested, rows |-> {}]]
  BY DEF TruncateFile
<1>2. DOMAIN fields = {"file", "rows"} /\ fields["file"] = r.file /\ fields["rows"] = r.rows
  BY <1>1
<1>3. PICK x : /\ Moved(p, x)
               /\ x.pc = "write"
               /\ \A f \in DOMAIN fields \ {"pc"} : x[f] = fields[f]
               /\ \A f \in {"kind", "session", "last", "conv", "appended"} \ DOMAIN fields :
                     x[f] = caller[p][f]
  BY <1>1, GoesShape
<1>4. x.file = r.file /\ x.rows = r.rows
  BY <1>2, <1>3
<1>5. r.file = "checkpoints" => \A row \in r.rows : Covered(row.session, row.lines)'
  <2>1. CoverOK(r)
    BY <1>1 DEF CoverInv
  <2>2. r.file = "checkpoints" => \A row \in r.rows : Covered(row.session, row.lines)
    BY <1>0, <1>1, <2>1 DEF CoverOK, Writing
  <2> QED
    BY <2>2, CoveredStays
<1>6. CoverOK(x)'
  BY <1>3, <1>4, <1>5 DEF CoverOK, Writing
<1>7. files'["checkpoints"].rows = {} \/ files'["checkpoints"] = files["checkpoints"]
  BY <1>1, <1>0 DEF SessionsType, Files
<1> QED
  BY <1>3, <1>6, <1>7, CoverMoves, RowsStayCovered

LEMMA CoverWrites ==
    ASSUME SessionsType, CoverInv, Growth, NEW p \in Callers, WriteFile(p)
    PROVE  CoverInv'
<1>0. caller[p].pc = "write" /\ caller[p].file \in Files
  BY DEF WriteFile, At, SessionsType
<1>1. PICK next, fields : /\ fields = [appended |-> FALSE]
                          /\ next \in {"checkpoint", "record", "extract", "done"}
                          /\ Goes(p, next, fields)
  BY DEF WriteFile, Purpose
<1>2. DOMAIN fields = {"appended"}
  BY <1>1
<1>3. CASE caller[p].file = "checkpoints"
  <2>1. files'["checkpoints"].rows \subseteq caller[p].rows
    BY <1>3, FileWritten
  <2>2. \A row \in caller[p].rows : Covered(row.session, row.lines)
    BY <1>0, <1>3 DEF CoverInv, CoverOK, Writing
  <2>3. \A row \in files'["checkpoints"].rows : Covered(row.session, row.lines)'
    BY <2>1, <2>2, CoveredStays
  <2> QED
    BY <1>1, <1>2, <2>3, CoverGoes
<1>4. CASE caller[p].file # "checkpoints"
  <2>1. files'["checkpoints"] = files["checkpoints"]
    BY <1>4, FileWritten DEF Files
  <2> QED
    BY <1>1, <1>2, <2>1, CoverGoes, RowsStayCovered
<1> QED
  BY <1>3, <1>4

LEMMA CoverBegins ==
    ASSUME SessionsType, CoverInv, Growth, NEW p \in Callers, GetCheckpoint(p)
    PROVE  CoverInv'
<1>0. UNCHANGED files /\ caller[p].pc = "checkpoint" /\ caller[p].session \in Sessions
  BY DEF GetCheckpoint, At, SessionsType
<1>1. CASE Ends(p)
  BY <1>0, <1>1, CoverEnds
<1>2. CASE ~ Ends(p)
  <2>1. PICK r, held, start, fields :
          /\ r = caller[p]
          /\ held = Row("checkpoints", r.session)
          /\ start = IF held = {} THEN 0 ELSE (CHOOSE row \in held : TRUE).lines
          /\ fields = [start |-> start]
          /\ Goes(p, "parse", fields)
    BY <1>2 DEF GetCheckpoint
  <2>2. DOMAIN fields = {"start"} /\ fields["start"] = start
    BY <2>1
  <2>g. Goes(p, "parse", fields)
    BY <2>1
  <2>3. PICK x : /\ Moved(p, x)
                 /\ x.pc = "parse"
                 /\ \A f \in DOMAIN fields \ {"pc"} : x[f] = fields[f]
                 /\ \A f \in {"kind", "session", "last", "conv", "appended"} \ DOMAIN fields :
                       x[f] = caller[p][f]
    BY <2>g, GoesShape
  <2>4. x.session = r.session /\ x.start = start
    BY <2>1, <2>2, <2>3
  <2>5. Covered(r.session, start)
    <3>1. CASE held = {}
      <4>1. Len(transcript[r.session]) \in Nat
        BY <1>0, <2>1 DEF SessionsType
      <4> QED
        BY <1>0, <2>1, <3>1, <4>1 DEF Covered
    <3>2. CASE held # {}
      <4>1. PICK row : row = (CHOOSE y \in held : TRUE)
        OBVIOUS
      <4>2. row \in files["checkpoints"].rows /\ row.session = r.session /\ start = row.lines
        BY <2>1, <3>2, <4>1 DEF Row
      <4> QED
        BY <4>2 DEF CoverInv
    <3> QED
      BY <3>1, <3>2
  <2>6. CoverOK(x)'
    BY <2>3, <2>4, <2>5, CoveredStays DEF CoverOK, Writing
  <2> QED
    BY <1>0, <2>3, <2>6, CoverMoves, RowsStayCovered
<1> QED
  BY <1>1, <1>2

(* What a hook reads of the transcript: all the messages beyond its        *)
(* checkpoint, and the checkpoint is never beyond the transcript.          *)
LEMMA Parsed ==
    ASSUME SessionsType, CoverInv, NEW p \in Callers, ParseTranscript(p)
    PROVE  \E s, n, x, closed :
              /\ s = caller[p].session /\ n = Len(transcript[s])
              /\ Moved(p, x)
              /\ s \in Sessions /\ n \in Nat /\ caller[p].start \in 0 .. n
              /\ x.session = s /\ x.file = "checkpoints" /\ x.row.session = s /\ x.row.lines = n
              /\ x.events = MessagesFrom(s, caller[p].start) \cup closed
              /\ \A e \in closed : e.type = "closed"
              /\ x.pc = IF x.events = {} THEN "read_file" ELSE "append"
              /\ \A i \in 1 .. n : transcript[s][i] = "torn" => <<"torn", s, i>> \in mishaps'
              /\ UNCHANGED <<transcript, files, archive>>
<1>1. PICK s, n : s = caller[p].session /\ n = Len(transcript[s])
  OBVIOUS
<1>2. Covered(s, caller[p].start)
  BY <1>1 DEF CoverInv, CoverOK, ParseTranscript, At
<1>4. s \in Sessions /\ n \in Nat /\ caller[p].start \in 0 .. n
  BY <1>1, <1>2 DEF Covered, SessionsType
<1>5. caller[p].start <= Len(transcript[s])
  BY <1>1, <1>4
<1> DEFINE stop == caller[p].kind = "Stop"
           lines == MessagesFrom(s, caller[p].start)
           key == IF stop THEN StopKey(p) ELSE <<"PreCompact", s, Digest(lines)>>
           closed == {e \in {[type |-> "closed", session |-> s, last |-> caller[p].last]} : stop}
           events == lines \cup closed
           row == [session |-> s, lines |-> n]
           pc == IF events = {} THEN "read_file" ELSE "append"
           fields == [file |-> "checkpoints", key |-> key, events |-> events, row |-> row]
<1>6. Goes(p, pc, fields)
  BY <1>1, <1>5 DEF ParseTranscript
<1>7. \A i \in 1 .. n : transcript[s][i] = "torn" => <<"torn", s, i>> \in mishaps'
  <2>1. DOMAIN transcript[s] = 1 .. n
    BY <1>1, <1>4 DEF SessionsType
  <2>2. mishaps' = mishaps \cup {<<"torn", s, i>> : i \in {j \in DOMAIN transcript[s] : transcript[s][j] = "torn"}}
    BY <1>1 DEF ParseTranscript
  <2> QED
    BY <2>1, <2>2
<1>8. UNCHANGED <<transcript, files, archive>>
  BY DEF ParseTranscript
<1>9. \A e \in closed : e.type = "closed"
  OBVIOUS
<1>10. pc = IF events = {} THEN "read_file" ELSE "append"
  OBVIOUS
<1>11. /\ DOMAIN fields = {"file", "key", "events", "row"} /\ fields["file"] = "checkpoints"
       /\ fields["events"] = events /\ fields["row"] = row
  OBVIOUS
<1>12. events = MessagesFrom(s, caller[p].start) \cup closed
  OBVIOUS
<1>13. row.session = s /\ row.lines = n
  OBVIOUS
<1> HIDE DEF stop, lines, key, closed, events, row, pc, fields
<1>14. PICK x : /\ Moved(p, x)
                /\ x.pc = pc
                /\ \A f \in DOMAIN fields \ {"pc"} : x[f] = fields[f]
                /\ \A f \in {"kind", "session", "last", "conv", "appended"} \ DOMAIN fields :
                      x[f] = caller[p][f]
  BY <1>6, GoesShape
<1>15. x.session = s /\ x.file = "checkpoints" /\ x.row = row /\ x.events = events
  BY <1>1, <1>11, <1>14
<1>16. x.row.session = s /\ x.row.lines = n
  BY <1>13, <1>15
<1>17. x.events = MessagesFrom(s, caller[p].start) \cup closed
  BY <1>12, <1>15
<1>18. x.pc = IF x.events = {} THEN "read_file" ELSE "append"
  BY <1>10, <1>14, <1>15
<1> HIDE DEF stop
<1> QED
  BY <1>1, <1>4, <1>7, <1>8, <1>9, <1>14, <1>15, <1>16, <1>17, <1>18

LEMMA CoverParses ==
    ASSUME SessionsType, CoverInv, Growth, NEW p \in Callers, ParseTranscript(p)
    PROVE  CoverInv'
<1>2. PICK s, n, x, closed :
              /\ s = caller[p].session /\ n = Len(transcript[s])
              /\ Moved(p, x)
              /\ s \in Sessions /\ n \in Nat /\ caller[p].start \in 0 .. n
              /\ x.session = s /\ x.file = "checkpoints" /\ x.row.session = s /\ x.row.lines = n
              /\ x.events = MessagesFrom(s, caller[p].start) \cup closed
              /\ \A e \in closed : e.type = "closed"
              /\ x.pc = IF x.events = {} THEN "read_file" ELSE "append"
              /\ \A i \in 1 .. n : transcript[s][i] = "torn" => <<"torn", s, i>> \in mishaps'
              /\ UNCHANGED <<transcript, files, archive>>
  BY Parsed
<1>3. Covered(s, caller[p].start)
  BY <1>2 DEF CoverInv, CoverOK, ParseTranscript, At
<1>7. ASSUME NEW i \in 1 .. n
      PROVE  \/ transcript'[s][i] = "other"
             \/ <<"torn", s, i>> \in mishaps'
             \/ Said(s, i)'
             \/ Message(s, i) \in x.events
  <2>0. transcript'[s][i] = transcript[s][i] /\ (Said(s, i) => Said(s, i)')
    BY <1>2, SaidStays
  <2>a. transcript[s] \in Seq({"step", "other", "torn"})
    BY <1>2 DEF SessionsType
  <2>1. transcript[s] \in Seq({"step", "other", "torn"}) /\ i \in DOMAIN transcript[s]
    BY ONLY <1>2, <1>7, <2>a
  <2>2. transcript[s][i] \in {"step", "other", "torn"}
    BY <2>1
  <2>3. CASE i \in 1 .. caller[p].start
    BY <1>2, <1>3, <2>0, <2>3 DEF Covered, Growth
  <2>4. CASE transcript[s][i] = "step" /\ i > caller[p].start
    BY <1>2, <2>1, <2>4 DEF MessagesFrom
  <2>5. CASE transcript[s][i] = "torn"
    BY <1>2, <2>1, <2>5
  <2>6. i \in 1 .. caller[p].start \/ i > caller[p].start
    BY <1>2
  <2> QED
    BY <2>0, <2>2, <2>3, <2>4, <2>5, <2>6
<1>8. CoverOK(x)'
  <2>1. CASE x.events # {}
    <3>1. x.pc = "append"
      BY <1>2, <2>1
    <3>2. x.row.session = x.session /\ x.row.lines \in 0 .. Len(transcript'[x.session])
      BY <1>2
    <3> QED
      BY <1>2, <1>7, <3>1, <3>2 DEF CoverOK, Writing, Message
  <2>2. CASE x.events = {}
    <3>1. x.pc = "read_file"
      BY <1>2, <2>2
    <3>2. n \in 0 .. Len(transcript'[s])
      BY <1>2
    <3>4. Covered(s, n)'
      BY <1>2, <1>7, <2>2, <3>2 DEF Covered
    <3> QED
      BY <1>2, <3>1, <3>4 DEF CoverOK, Writing
  <2> QED
    BY <2>1, <2>2
<1> QED
  BY <1>2, <1>8, CoverMoves, RowsStayCovered

LEMMA CoverArchives ==
    ASSUME SessionsType, CoverInv, Growth, NEW p \in Callers, AppendTranscript(p)
    PROVE  CoverInv'
<1>0. UNCHANGED <<files, transcript>> /\ caller[p].pc = "append" /\ caller[p].session \in Sessions
  BY DEF AppendTranscript, At, SessionsType
<1>1. CASE Ends(p)
  BY <1>0, <1>1, CoverEnds
<1>2. CASE ~ Ends(p)
  <2>1. PICK r, fields :
          /\ r = caller[p]
          /\ fields = [appended |-> TRUE, file |-> "checkpoints", row |-> r.row]
          /\ Appends(r.conv, r.key, r.events) /\ Goes(p, "read_file", fields)
    BY <1>2 DEF AppendTranscript
  <2>2. DOMAIN fields = {"appended", "file", "row"} /\ fields["file"] = "checkpoints" /\ fields["row"] = r.row
    BY <2>1
  <2>3. PICK x : /\ Moved(p, x)
                 /\ x.pc = "read_file"
                 /\ \A f \in DOMAIN fields \ {"pc"} : x[f] = fields[f]
                 /\ \A f \in {"kind", "session", "last", "conv", "appended"} \ DOMAIN fields :
                       x[f] = caller[p][f]
    BY <2>1, GoesShape
  <2>4. x.file = "checkpoints" /\ x.row = r.row
    BY <2>2, <2>3
  <2>5. \E j \in DOMAIN archive' : Digest(archive'[j].events) = Digest(r.events)
    BY <2>1, AppendsShape DEF SessionsType
  <2>6. PICK s, n : s = r.row.session /\ n = r.row.lines
    OBVIOUS
  <2>7. /\ s = r.session /\ s \in Sessions /\ n \in 0 .. Len(transcript[s])
        /\ \A i \in 1 .. n :
             \/ transcript[s][i] = "other"
             \/ <<"torn", s, i>> \in mishaps
             \/ Said(s, i)
             \/ Message(s, i) \in r.events
    BY <1>0, <2>1, <2>6 DEF CoverInv, CoverOK
  <2>8. \A i : Said(s, i) \/ Message(s, i) \in r.events => Said(s, i)'
    BY <2>5, SaidBy, SaidStays DEF Growth
  <2>9. Covered(s, n)'
    BY <1>0, <2>7, <2>8 DEF Growth, Covered
  <2>10. CoverOK(x)'
    BY <2>3, <2>4, <2>6, <2>9 DEF CoverOK, Writing
  <2> QED
    BY <1>0, <2>3, <2>10, CoverMoves, RowsStayCovered
<1> QED
  BY <1>1, <1>2

LEMMA CoverInit == SessionsInit => CoverInv
<1> SUFFICES ASSUME SessionsInit PROVE CoverInv
  OBVIOUS
<1>1. files["checkpoints"].rows = {}
  BY DEF SessionsInit, Files
<1>2. \A p \in Callers : caller[p].pc = "idle"
  BY DEF SessionsInit, Idle
<1> QED
  BY <1>1, <1>2 DEF CoverInv, CoverOK, Writing

LEMMA CoverNext ==
    ASSUME SessionsType, CoverInv, [SessionsNext]_sessionVars
    PROVE  CoverInv'
<1>0. Growth
  BY Grows
<1>1. CASE UNCHANGED <<caller, files>>
  <2>1. \A row \in files'["checkpoints"].rows : Covered(row.session, row.lines)'
    BY <1>0, <1>1, RowsStayCovered
  <2>2. ASSUME NEW q \in Callers PROVE CoverOK(caller[q])'
    <3>1. PICK r : r = caller[q]
      OBVIOUS
    <3>2. CoverOK(r) /\ (r.pc = "append" => r.session \in Sessions)
      BY <3>1 DEF CoverInv, SessionsType
    <3>3. CoverOK(r)'
      BY <1>0, <3>2, CoverStays
    <3>4. caller'[q] = r
      BY <1>1, <3>1
    <3> QED
      BY ONLY <3>3, <3>4 DEF CoverOK, Covered, Said, Text, Message, Writing
  <2> QED
    BY <2>1, <2>2 DEF CoverInv
<1>2. ASSUME NEW s, NEW line, WriteLine(s, line) PROVE CoverInv'
  BY <1>1, <1>2 DEF WriteLine
<1>3. ASSUME NEW p \in Callers, NEW kind, NEW s, NEW last, Begin(p, kind, s, last) PROVE CoverInv'
  <2>1. PICK x : x = [pc |-> "find", kind |-> kind, session |-> s, last |-> last, conv |-> 0,
                      appended |-> FALSE]
    OBVIOUS
  <2>2. Moved(p, x) /\ UNCHANGED files /\ x.pc = "find"
    BY <1>3, <2>1 DEF Begin, Moved
  <2>3. CoverOK(x)'
    BY <2>2 DEF CoverOK, Writing
  <2> QED
    BY <1>0, <2>2, <2>3, CoverMoves, RowsStayCovered
<1>4. ASSUME NEW p \in Callers, Ends(p), UNCHANGED files PROVE CoverInv'
  BY <1>0, <1>4, CoverEnds
<1>5. ASSUME NEW p \in Callers, NEW pc, NEW fields, Goes(p, pc, fields), "pc" \notin DOMAIN fields,
             pc \in {"handoff", "next_step", "done"}, UNCHANGED files
      PROVE  CoverInv'
  BY <1>0, <1>5, CoverGoes, RowsStayCovered
<1>6. ASSUME NEW p \in Callers, Crash(p) PROVE CoverInv'
  BY <1>4, <1>6 DEF Crash
<1>7. ASSUME NEW p \in Callers, Find(p) \/ FindParent(p) \/ CreateBinding(p) PROVE CoverInv'
  BY <1>0, <1>7, CoverFinds
<1>8. ASSUME NEW p \in Callers, ReadFile(p) PROVE CoverInv'
  BY <1>0, <1>8, CoverReads
<1>9. ASSUME NEW p \in Callers, TruncateFile(p) PROVE CoverInv'
  BY <1>0, <1>9, CoverTruncates
<1>10. ASSUME NEW p \in Callers, WriteFile(p) PROVE CoverInv'
  BY <1>0, <1>10, CoverWrites
<1>11. ASSUME NEW p \in Callers, GetCheckpoint(p) PROVE CoverInv'
  BY <1>0, <1>11, CoverBegins
<1>12. ASSUME NEW p \in Callers, ParseTranscript(p) PROVE CoverInv'
  BY <1>0, <1>12, CoverParses
<1>13. ASSUME NEW p \in Callers, AppendTranscript(p) PROVE CoverInv'
  BY <1>0, <1>13, CoverArchives
<1>14. ASSUME NEW p \in Callers, ExtractHandoff(p) PROVE CoverInv'
  <2>1. PICK steps : Goes(p, "handoff", [steps |-> steps])
    BY <1>14 DEF ExtractHandoff
  <2> QED
    BY <1>5, <1>14, <2>1 DEF ExtractHandoff
<1>15. ASSUME NEW p \in Callers, NEW i, AfterStep(p, i), UNCHANGED files PROVE CoverInv'
  BY <1>5, <1>15 DEF AfterStep
<1>16. ASSUME NEW p \in Callers, RecordHandoff(p) \/ RecordNextStep(p) PROVE CoverInv'
  BY <1>4, <1>15, <1>16 DEF RecordHandoff, RecordNextStep, RecordStep
<1>17. ASSUME NEW p \in Callers, WriteRecord(p) PROVE CoverInv'
  <2>1. UNCHANGED files
    BY <1>17 DEF WriteRecord
  <2>2. ASSUME NEW record, NEW key, Writes(p, record, key) PROVE CoverInv'
    <3>1. CASE Ends(p)
      BY <1>4, <2>1, <3>1
    <3>2. CASE Goes(p, "done", <<>>)
      BY <1>5, <2>1, <3>2
    <3> QED
      BY <2>2, <3>1, <3>2 DEF Writes
  <2> QED
    BY <1>17, <2>2 DEF WriteRecord
<1> QED
  BY <1>1, <1>2, <1>3, <1>6, <1>7, <1>8, <1>9, <1>10, <1>11, <1>12, <1>13, <1>14, <1>16, <1>17
     DEF SessionsNext, CallerStep, sessionVars

-----------------------------------------------------------------------------
(* Checkpoints, second half: nothing is archived twice.                    *)
Unique(E) == \A r, x \in E : r.session = x.session => r = x

LEMMA MarkIs ==
    ASSUME NEW E, Unique(E), NEW row \in E
    PROVE  Mark(E, row.session) = row.lines
<1>1. PICK s : s = row.session
  OBVIOUS
<1>2. PICK y : y = (CHOOSE x \in E : x.session = s)
  OBVIOUS
<1>3. y \in E /\ y.session = s
  BY <1>1, <1>2
<1>4. y = row
  BY <1>1, <1>3 DEF Unique
<1> QED
  BY <1>1, <1>2, <1>4 DEF Mark

LEMMA MarkIsNone ==
    ASSUME NEW E, NEW s, \A x \in E : x.session # s
    PROVE  Mark(E, s) = 0
BY DEF Mark

(* Writing a session's own row moves its mark and no other. *)
LEMMA MarkMoves ==
    ASSUME NEW E, Unique(E), NEW row
    PROVE  /\ Unique(WithRow(E, row))
           /\ Mark(WithRow(E, row), row.session) = row.lines
           /\ \A s : s # row.session => Mark(WithRow(E, row), s) = Mark(E, s)
<1>1. PICK F : F = WithRow(E, row)
  OBVIOUS
<1>2. /\ row \in F
      /\ \A r \in F : r = row \/ (r \in E /\ r.session # row.session)
      /\ \A r \in E : r.session # row.session => r \in F
  BY <1>1 DEF WithRow
<1>3. Unique(F)
  BY <1>2 DEF Unique
<1>4. Mark(F, row.session) = row.lines
  BY <1>2, <1>3, MarkIs
<1>5. ASSUME NEW s, s # row.session PROVE Mark(F, s) = Mark(E, s)
  <2>1. CASE \E x \in E : x.session = s
    <3>1. PICK x \in E : x.session = s
      BY <2>1
    <3>2. x \in F
      BY <1>2, <1>5, <3>1
    <3>3. Mark(F, s) = x.lines /\ Mark(E, s) = x.lines
      BY <1>3, <3>1, <3>2, MarkIs
    <3> QED
      BY <3>3
  <2>2. CASE \A x \in E : x.session # s
    <3>1. \A x \in F : x.session # s
      BY <1>2, <1>5, <2>2
    <3> QED
      BY <2>2, <3>1, MarkIsNone
  <2> QED
    BY <2>1, <2>2
<1> QED
  BY <1>1, <1>3, <1>4, <1>5

LEMMA MarkIsNat ==
    ASSUME NEW E, NEW s, \A r \in E : r.lines \in Nat
    PROVE  Mark(E, s) \in Nat
<1>1. CASE \E x \in E : x.session = s
  <2>1. PICK y : y = (CHOOSE x \in E : x.session = s)
    OBVIOUS
  <2>2. y \in E
    BY <1>1, <2>1
  <2> QED
    BY <1>1, <2>1, <2>2 DEF Mark
<1>2. CASE ~ \E x \in E : x.session = s
  BY <1>2 DEF Mark
<1> QED
  BY <1>1, <1>2

(* Each archived line is below its mark or about to be, and there once, if *)
(* x is what p is at then.                                                 *)
LinesKept(E, p, x) ==
    \A s \in Sessions, i \in Nat, j \in DOMAIN archive' :
        Message(s, i) \in archive'[j].events =>
            /\ i <= Mark(E, s) \/ Keeps(x, s, i) \/ \E q \in Callers \ {p} : Keeps(caller[q], s, i)
            /\ \A k \in DOMAIN archive' : Message(s, i) \in archive'[k].events => j = k

LEMMA CheckpointMoves ==
    ASSUME SessionsType, NEW E, CheckpointInv(E), NEW p \in Callers, NEW x, Moved(p, x),
           FileHolds("checkpoints", E)', ArchiverOK(E, x), LinesKept(E, p, x),
           Archiver(x) => \A q \in Callers \ {p} : Archiver(caller[q]) => x.session # caller[q].session
    PROVE  CheckpointInv(E)'
<1>1. /\ caller'[p] = x
      /\ \A q \in Callers \ {p} : caller'[q] = caller[q]
  BY MovedShape DEF SessionsType
<1>2. ArchiversApart'
  <2>1. \A q, r \in Callers : q # r /\ Archiver(caller'[q]) /\ Archiver(caller'[r])
                                => caller'[q].session # caller'[r].session
    BY <1>1 DEF CheckpointInv, ArchiversApart
  <2> QED
    BY <2>1 DEF ArchiversApart, Archiver
<1>3. ASSUME NEW q \in Callers PROVE ArchiverOK(E, caller[q])'
  <2>1. ArchiverOK(E, caller'[q])
    BY <1>1 DEF CheckpointInv
  <2> QED
    BY <2>1 DEF ArchiverOK, Message, Mark, WithRow
<1>4. CheckpointsOK(E)'
  <2>1. (\A r, y \in E : r.session = y.session => r = y) /\ \A r \in E : r.lines \in Nat
    BY DEF CheckpointInv, CheckpointsOK
  <2>2. ASSUME NEW s \in Sessions, NEW i \in Nat, NEW j \in DOMAIN archive', Message(s, i) \in archive'[j].events
        PROVE  /\ i <= Mark(E, s) \/ \E q \in Callers : Keeps(caller'[q], s, i)
               /\ \A k \in DOMAIN archive' : Message(s, i) \in archive'[k].events => j = k
    BY <1>1, <2>2 DEF LinesKept
  <2> QED
    BY <2>1, <2>2 DEF CheckpointsOK, Message, Mark, Keeps
<1> QED
  BY <1>2, <1>3, <1>4 DEF CheckpointInv

(* Nothing of a transcript is appended, and x keeps what p did. *)
LEMMA LinesStand ==
    ASSUME NEW E, CheckpointInv(E), NEW p \in Callers, NEW x,
           \A s, i : Keeps(caller[p], s, i) => Keeps(x, s, i) \/ i <= Mark(E, s),
           \A s, i : \A j \in DOMAIN archive' :
               Message(s, i) \in archive'[j].events => j \in DOMAIN archive /\ Message(s, i) \in archive[j].events
    PROVE  LinesKept(E, p, x)
<1>1. ASSUME NEW s \in Sessions, NEW i \in Nat, NEW j \in DOMAIN archive', Message(s, i) \in archive'[j].events
      PROVE  /\ i <= Mark(E, s) \/ Keeps(x, s, i) \/ \E q \in Callers \ {p} : Keeps(caller[q], s, i)
             /\ \A k \in DOMAIN archive' : Message(s, i) \in archive'[k].events => j = k
  <2>1. j \in DOMAIN archive /\ Message(s, i) \in archive[j].events
    BY <1>1
  <2>2. /\ i <= Mark(E, s) \/ \E q \in Callers : Keeps(caller[q], s, i)
        /\ \A k \in DOMAIN archive : Message(s, i) \in archive[k].events => j = k
    BY <2>1 DEF CheckpointInv, CheckpointsOK
  <2> QED
    BY <2>2
<1> QED
  BY <1>1 DEF LinesKept

Keeping(r) == r.pc \in {"read_file", "truncate"} /\ r.file = "checkpoints" /\ r.appended

LEMMA KeepingKeeps ==
    ASSUME NEW r, ~ Keeping(r)
    PROVE  \A s, i : ~ Keeps(r, s, i)
BY DEF Keeping, Keeps

(* An archive that grows by records, or not at all. *)
NoLines ==
    \A s, i : \A j \in DOMAIN archive' :
        Message(s, i) \in archive'[j].events => j \in DOMAIN archive /\ Message(s, i) \in archive[j].events

LEMMA RecordsAreNoLines ==
    ASSUME SessionsType, NEW c, NEW key, NEW record, record.type = "record", Appends(c, key, {record})
    PROVE  NoLines
<1>1. PICK events : events = {record}
  OBVIOUS
<1>2. /\ \A j \in DOMAIN archive : archive'[j] = archive[j]
      /\ \A j \in DOMAIN archive' \ DOMAIN archive : archive'[j].events = events
  BY <1>1, AppendsShape DEF SessionsType
<1>3. \A s, i : Message(s, i) \notin events
  BY <1>1 DEF Message
<1> QED
  BY <1>2, <1>3 DEF NoLines

LEMMA NothingIsNoLines == UNCHANGED archive => NoLines
BY DEF NoLines, Message

(* A process that is not archiving a transcript. *)
LEMMA CheckpointStands ==
    ASSUME SessionsType, NEW E, CheckpointInv(E), NEW p \in Callers, NEW x, Moved(p, x), ~ Keeping(caller[p]),
           ~ Archiver(x), NoLines, FileHolds("checkpoints", E)'
    PROVE  CheckpointInv(E)'
<1>1. LinesKept(E, p, x)
  BY KeepingKeeps, LinesStand DEF NoLines
<1>2. ArchiverOK(E, x)
  BY DEF ArchiverOK, Archiver
<1> QED
  BY <1>1, <1>2, CheckpointMoves

LEMMA CheckpointGoes ==
    ASSUME SessionsType, NEW E, CheckpointInv(E), NEW p \in Callers, ~ Keeping(caller[p]), NoLines,
           NEW pc, NEW fields, Goes(p, pc, fields), "pc" \notin DOMAIN fields, pc \notin {"parse", "append"},
           pc \in {"read_file", "truncate", "write"} => "file" \in DOMAIN fields /\ fields["file"] = "bindings",
           files'["checkpoints"] = files["checkpoints"] \/ FileHolds("checkpoints", E)'
    PROVE  CheckpointInv(E)'
<1>1. PICK x : /\ Moved(p, x)
               /\ x.pc = pc
               /\ \A f \in DOMAIN fields \ {"pc"} : x[f] = fields[f]
               /\ \A f \in {"kind", "session", "last", "conv", "appended"} \ DOMAIN fields :
                     x[f] = caller[p][f]
  BY GoesShape
<1>2. pc \in {"read_file", "truncate", "write"} => x.file = "bindings"
  BY <1>1
<1>3. ~ Archiver(x) /\ ~ Writing("checkpoints", x)
  BY <1>1, <1>2 DEF Archiver, Writing
<1>4. FileHolds("checkpoints", E)'
  BY <1>1, <1>3, FileMoves DEF CheckpointInv
<1> QED
  BY <1>1, <1>3, <1>4, CheckpointStands

LEMMA CheckpointEnds ==
    ASSUME SessionsType, NEW E, CheckpointInv(E), NEW p \in Callers, Ends(p), UNCHANGED <<files, archive>>,
           <<"rearchived">> \notin mishaps'
    PROVE  CheckpointInv(E)'
<1>1. PICK x : x = Idle
  OBVIOUS
<1>2. Moved(p, x) /\ x.pc = "idle" /\ ~ caller[p].appended
  BY <1>1 DEF Ends, Moved, Idle
<1>3. ~ Archiver(x) /\ ~ Writing("checkpoints", x) /\ ~ Keeping(caller[p])
  BY <1>2 DEF Archiver, Writing, Keeping
<1>4. FileHolds("checkpoints", E)'
  BY <1>2, <1>3, FileMoves DEF CheckpointInv
<1> QED
  BY <1>2, <1>3, <1>4, NothingIsNoLines, CheckpointStands

LEMMA CheckpointFinds ==
    ASSUME SessionsType, NEW E, CheckpointInv(E), NEW p \in Callers, Find(p) \/ FindParent(p) \/ CreateBinding(p),
           <<"rearchived">> \notin mishaps'
    PROVE  CheckpointInv(E)'
<1>0. UNCHANGED <<files, archive>> /\ NoLines /\ ~ Keeping(caller[p])
  BY NothingIsNoLines DEF Find, FindParent, CreateBinding, At, Keeping
<1>1. CASE Ends(p)
  BY <1>0, <1>1, CheckpointEnds
<1>2. ASSUME NEW pc, NEW fields, Goes(p, pc, fields), "pc" \notin DOMAIN fields,
             pc \in {"parent", "create", "checkpoint", "record"}
      PROVE  CheckpointInv(E)'
  BY <1>0, <1>2, CheckpointGoes
<1>3. CASE Find(p) /\ ~ Ends(p)
  <2>1. PICK pc, conv, lineage :
          /\ \/ pc = "parent" \/ pc = "create" \/ pc = Purpose(caller[p].kind)
          /\ Goes(p, pc, [conv |-> conv, parent |-> 0, lineage |-> lineage])
    BY <1>3 DEF Find
  <2>2. pc \in {"parent", "create", "checkpoint", "record"}
    BY <2>1 DEF Purpose
  <2> QED
    BY <1>2, <2>1, <2>2
<1>4. CASE FindParent(p) /\ ~ Ends(p)
  <2>1. PICK pc, parent :
          /\ \/ pc = "create" \/ pc = Purpose(caller[p].kind)
          /\ Goes(p, pc, [parent |-> parent])
    BY <1>4 DEF FindParent
  <2>2. pc \in {"parent", "create", "checkpoint", "record"}
    BY <2>1 DEF Purpose
  <2> QED
    BY <1>2, <2>1, <2>2
<1>5. CASE CreateBinding(p) /\ ~ Ends(p)
  <2>1. PICK row, conv : Goes(p, "read_file", [file |-> "bindings", row |-> row, conv |-> conv])
    BY <1>5 DEF CreateBinding
  <2> QED
    BY <1>0, <2>1, CheckpointGoes
<1> QED
  BY <1>1, <1>3, <1>4, <1>5

LEMMA CheckpointReads ==
    ASSUME SessionsType, NEW E, CheckpointInv(E), NEW p \in Callers, ReadFile(p), <<"rearchived">> \notin mishaps'
    PROVE  CheckpointInv(E)'
<1>0. UNCHANGED <<files, archive>> /\ NoLines /\ caller[p].pc = "read_file" /\ caller[p].file \in Files
  BY NothingIsNoLines DEF ReadFile, At, SessionsType
<1>1. CASE Ends(p)
  BY <1>0, <1>1, CheckpointEnds
<1>2. CASE ~ Ends(p)
  <2>1. PICK r, rows, fields, others :
          /\ r = caller[p] /\ ~ files[r.file].torn
          /\ rows = WithRow(files[r.file].rows, r.row)
          /\ fields = [file |-> r.file, rows |-> rows]
          /\ Goes(p, "truncate", fields)
          /\ others = {q \in Callers \ {p} : caller[q].pc \in {"truncate", "write"} /\ caller[q].file = r.file}
          /\ mishaps' = IF others = {} THEN mishaps
                        ELSE mishaps \cup {IF r.file = "bindings" THEN <<"rebound">> ELSE <<"rearchived">>}
    BY <1>2 DEF ReadFile
  <2>2. DOMAIN fields = {"file", "rows"} /\ fields["file"] = r.file /\ fields["rows"] = rows
    BY <2>1
  <2>g. Goes(p, "truncate", fields)
    BY <2>1
  <2>3. PICK x : /\ Moved(p, x)
                 /\ x.pc = "truncate"
                 /\ \A f \in DOMAIN fields \ {"pc"} : x[f] = fields[f]
                 /\ \A f \in {"kind", "session", "last", "conv", "appended"} \ DOMAIN fields :
                       x[f] = caller[p][f]
    BY <2>g, GoesShape
  <2>4. x.file = r.file /\ x.rows = rows /\ x.session = r.session /\ x.appended = r.appended
    BY <2>1, <2>2, <2>3
  <2>5. CASE r.file # "checkpoints"
    <3>1. ~ Archiver(x) /\ ~ Writing("checkpoints", x) /\ ~ Keeping(r)
      BY <2>3, <2>4, <2>5 DEF Archiver, Writing, Keeping
    <3>2. FileHolds("checkpoints", E)'
      BY <1>0, <2>3, <3>1, FileMoves DEF CheckpointInv
    <3> QED
      BY <1>0, <2>1, <2>3, <3>1, <3>2, CheckpointStands
  <2>6. CASE r.file = "checkpoints"
    <3>1. \A q \in Callers \ {p} : ~ Writing("checkpoints", caller[q])
      BY <2>1, <2>6 DEF Writing
    <3>2. FileHolds("checkpoints", E)'
      BY <1>0, <2>1, <2>3, <2>6, <3>1, FileIsRead DEF CheckpointInv
    <3>3. rows = WithRow(E, r.row) /\ r.row \in rows
      BY <2>1, <2>6 DEF CheckpointInv, FileHolds, WithRow
    <3>4. r.row.session = r.session /\ r.row.lines \in Nat /\ Mark(E, r.session) <= r.row.lines
      BY <1>0, <2>1, <2>6 DEF CheckpointInv, ArchiverOK
    <3>5. ArchiverOK(E, x)
      BY <2>3, <2>4, <3>3, <3>4 DEF ArchiverOK
    <3>6. Mark(rows, r.session) = r.row.lines
      BY <3>3, <3>4, MarkMoves DEF CheckpointInv, CheckpointsOK, Unique
    <3>7. \A s, i : Keeps(caller[p], s, i) => Keeps(x, s, i)
      BY <1>0, <2>1, <2>3, <2>4, <2>6, <3>6 DEF Keeps
    <3>8. LinesKept(E, p, x)
      BY <1>0, <3>7, LinesStand DEF NoLines
    <3>9. \A q \in Callers \ {p} : Archiver(caller[q]) => x.session # caller[q].session
      BY <1>0, <2>1, <2>4, <2>6 DEF CheckpointInv, ArchiversApart, Archiver
    <3> QED
      BY <2>3, <3>2, <3>5, <3>8, <3>9, CheckpointMoves
  <2> QED
    BY <2>5, <2>6
<1> QED
  BY <1>1, <1>2

(* The rows that will be written become the checkpoints E: the mark of the *)
(* session moves up to what was appended.                                  *)
LEMMA CheckpointTruncates ==
    ASSUME SessionsType, NEW E, CheckpointInv(E), NEW p \in Callers, TruncateFile(p)
    PROVE  \E F : CheckpointInv(F)'
<1>0. UNCHANGED archive /\ NoLines /\ caller[p].pc = "truncate" /\ caller[p].file \in Files
  BY NothingIsNoLines DEF TruncateFile, At, SessionsType
<1>1. PICK r, fields, contested :
        /\ r = caller[p]
        /\ fields = [file |-> r.file, rows |-> r.rows]
        /\ Goes(p, "write", fields)
        /\ files' = [files EXCEPT ![r.file] = [torn |-> TRUE, contested |-> contested, rows |-> {}]]
  BY DEF TruncateFile
<1>2. DOMAIN fields = {"file", "rows"} /\ fields["file"] = r.file /\ fields["rows"] = r.rows
  BY <1>1
<1>3. CASE r.file # "checkpoints"
  <2>1. files'["checkpoints"] = files["checkpoints"] /\ r.file = "bindings" /\ ~ Keeping(r)
    BY <1>0, <1>1, <1>3 DEF SessionsType, Files, Keeping
  <2> QED
    BY <1>0, <1>1, <1>2, <2>1, CheckpointGoes
<1>4. CASE r.file = "checkpoints"
  <2>1. PICK x : /\ Moved(p, x)
                 /\ x.pc = "write"
                 /\ \A f \in DOMAIN fields \ {"pc"} : x[f] = fields[f]
                 /\ \A f \in {"kind", "session", "last", "conv", "appended"} \ DOMAIN fields :
                       x[f] = caller[p][f]
    BY <1>1, GoesShape
  <2>2. x.file = "checkpoints" /\ x.rows = r.rows
    BY <1>2, <1>4, <2>1
  <2>3. /\ caller'[p] = x
        /\ \A q \in Callers \ {p} : caller'[q] = caller[q]
    BY <2>1, MovedShape DEF SessionsType
  <2>a. PICK row \in r.rows :
          /\ row.session = r.session /\ row.lines \in Nat /\ Mark(E, r.session) <= row.lines
          /\ r.rows = WithRow(E, row)
    <3>1. ArchiverOK(E, r) /\ r.pc = "truncate" /\ r.file = "checkpoints"
      BY <1>0, <1>1, <1>4 DEF CheckpointInv
    <3> QED
      BY <3>1 DEF ArchiverOK
  <2>4. PICK F :
          /\ row.session = r.session /\ row.lines \in Nat /\ Mark(E, r.session) <= row.lines
          /\ F = WithRow(E, row) /\ F = r.rows
    BY <2>a
  <2>5. Unique(E) /\ \A y \in E : y.lines \in Nat
    BY DEF CheckpointInv, CheckpointsOK, Unique
  <2>6. /\ Unique(F)
        /\ Mark(F, r.session) = row.lines
        /\ \A s : s # r.session => Mark(F, s) = Mark(E, s)
    <3>1. /\ Unique(WithRow(E, row))
          /\ Mark(WithRow(E, row), row.session) = row.lines
          /\ \A s : s # row.session => Mark(WithRow(E, row), s) = Mark(E, s)
      BY <2>5, MarkMoves
    <3> QED
      BY ONLY <2>4, <3>1
  <2>7. \A y \in F : y.lines \in Nat
    BY <2>4, <2>5 DEF WithRow
  <2>8. FileHolds("checkpoints", F)'
    <3>1. PICK f : f = "checkpoints" /\ f \in Files
      BY DEF Files
    <3>2. FileHolds(f, E) /\ caller[p].file = f /\ F = caller[p].rows
      BY <1>1, <1>4, <2>4, <3>1 DEF CheckpointInv
    <3>3. FileHolds(f, F)'
      BY <3>1, <3>2, FileIsTruncated
    <3> QED
      BY <3>1, <3>3
  <2>9. ~ Archiver(x) /\ ~ Keeping(x) /\ Archiver(r) /\ Writing("checkpoints", r)
    BY <1>0, <1>1, <1>4, <2>1 DEF Archiver, Keeping, Writing
  <2>10. ArchiversApart'
    <3>1. \A q, z \in Callers : q # z /\ Archiver(caller'[q]) /\ Archiver(caller'[z])
                                 => caller'[q].session # caller'[z].session
      BY <2>3, <2>9 DEF CheckpointInv, ArchiversApart
    <3> QED
      BY <3>1 DEF ArchiversApart, Archiver
  <2>11. ASSUME NEW q \in Callers PROVE ArchiverOK(F, caller[q])'
    <3>1. CASE q = p
      <4>1. ArchiverOK(F, x)
        BY <2>1 DEF ArchiverOK
      <4> QED
        BY <2>3, <3>1, <4>1 DEF ArchiverOK, Message, Mark, WithRow
    <3>2. CASE q # p
      <4>1. PICK z : z = caller[q]
        OBVIOUS
      <4>2. ArchiverOK(E, z)
        BY <4>1 DEF CheckpointInv
      <4>3. Archiver(z) => z.session # r.session
        BY <1>1, <2>9, <3>2, <4>1 DEF CheckpointInv, ArchiversApart
      <4>4. ~ (z.pc = "truncate" /\ z.file = "checkpoints")
        BY <1>1, <2>9, <3>2, <4>1 DEF CheckpointInv, FileHolds, Writing
      <4>5. Archiver(z) => Mark(F, z.session) = Mark(E, z.session)
        BY <2>6, <4>3
      <4>6. ArchiverOK(F, z)
        BY <4>2, <4>4, <4>5 DEF ArchiverOK, Archiver
      <4>7. caller'[q] = z
        BY <2>3, <3>2, <4>1
      <4> QED
        BY <4>6, <4>7 DEF ArchiverOK, Message, Mark, WithRow
    <3> QED
      BY <3>1, <3>2
  <2>12. ASSUME NEW s \in Sessions, NEW i \in Nat, NEW j \in DOMAIN archive', Message(s, i) \in archive'[j].events
         PROVE  /\ i <= Mark(F, s) \/ \E q \in Callers : Keeps(caller'[q], s, i)
                /\ \A k \in DOMAIN archive' : Message(s, i) \in archive'[k].events => j = k
    <3>1. j \in DOMAIN archive /\ Message(s, i) \in archive[j].events
      BY <1>0, <2>12 DEF NoLines
    <3>2. /\ i <= Mark(E, s) \/ \E q \in Callers : Keeps(caller[q], s, i)
          /\ \A k \in DOMAIN archive : Message(s, i) \in archive[k].events => j = k
      BY <3>1 DEF CheckpointInv, CheckpointsOK
    <3>3. \A k \in DOMAIN archive' : Message(s, i) \in archive'[k].events => j = k
      BY <1>0, <3>2 DEF Message
    <3>4. CASE i <= Mark(E, s)
      <4>1. Mark(E, s) \in Nat /\ Mark(F, s) \in Nat
        BY <2>5, <2>7, MarkIsNat
      <4>2. Mark(E, s) <= Mark(F, s)
        BY <2>4, <2>6, <4>1
      <4> QED
        BY <3>3, <3>4, <4>1, <4>2
    <3>5. ASSUME NEW q \in Callers, Keeps(caller[q], s, i) PROVE i <= Mark(F, s) \/ \E z \in Callers : Keeps(caller'[z], s, i)
      <4>1. CASE q = p
        BY <1>0, <1>1, <2>4, <3>5, <4>1 DEF Keeps
      <4>2. CASE q # p
        BY <2>3, <3>5, <4>2
      <4> QED
        BY <4>1, <4>2
    <3> QED
      BY <3>2, <3>3, <3>4, <3>5
  <2>13. CheckpointsOK(F)'
    BY <2>6, <2>7, <2>12 DEF CheckpointsOK, Unique, Message, Mark, Keeps
  <2> QED
    BY <2>8, <2>10, <2>11, <2>13 DEF CheckpointInv
<1> QED
  BY <1>3, <1>4

LEMMA CheckpointWrites ==
    ASSUME SessionsType, NEW E, CheckpointInv(E), NEW p \in Callers, WriteFile(p)
    PROVE  CheckpointInv(E)'
<1>0. UNCHANGED archive /\ NoLines /\ ~ Keeping(caller[p]) /\ caller[p].file \in Files
  BY NothingIsNoLines DEF WriteFile, At, SessionsType, Keeping
<1>1. PICK next, fields : /\ fields = [appended |-> FALSE]
                          /\ next \in {"checkpoint", "record", "extract", "done"}
                          /\ Goes(p, next, fields)
  BY DEF WriteFile, Purpose
<1>2. DOMAIN fields = {"appended"}
  BY <1>1
<1>3. files'["checkpoints"] = files["checkpoints"] \/ FileHolds("checkpoints", E)'
  <2>1. CASE caller[p].file = "checkpoints"
    BY <2>1, FileIsWritten DEF CheckpointInv
  <2>2. CASE caller[p].file # "checkpoints"
    BY <2>2, FileWritten DEF Files
  <2> QED
    BY <2>1, <2>2
<1> QED
  BY <1>0, <1>1, <1>2, <1>3, CheckpointGoes

LEMMA CheckpointBegins ==
    ASSUME SessionsType, NEW E, CheckpointInv(E), NEW p \in Callers, GetCheckpoint(p),
           <<"rearchived">> \notin mishaps'
    PROVE  CheckpointInv(E)'
<1>0. UNCHANGED <<files, archive>> /\ NoLines /\ caller[p].pc = "checkpoint"
  BY NothingIsNoLines DEF GetCheckpoint, At
<1>1. CASE Ends(p)
  BY <1>0, <1>1, CheckpointEnds
<1>2. CASE ~ Ends(p)
  <2>1. PICK r, held, start, fields :
          /\ r = caller[p] /\ ~ files["checkpoints"].torn
          /\ held = Row("checkpoints", r.session)
          /\ start = IF held = {} THEN 0 ELSE (CHOOSE row \in held : TRUE).lines
          /\ fields = [start |-> start]
          /\ Goes(p, "parse", fields)
    BY <1>2 DEF GetCheckpoint
  <2>2. DOMAIN fields = {"start"} /\ fields["start"] = start
    BY <2>1
  <2>g. Goes(p, "parse", fields)
    BY <2>1
  <2>3. PICK x : /\ Moved(p, x)
                 /\ x.pc = "parse"
                 /\ \A f \in DOMAIN fields \ {"pc"} : x[f] = fields[f]
                 /\ \A f \in {"kind", "session", "last", "conv", "appended"} \ DOMAIN fields :
                       x[f] = caller[p][f]
    BY <2>g, GoesShape
  <2>4. x.session = r.session /\ x.start = start
    BY <2>1, <2>2, <2>3
  <2>5. held = {row \in E : row.session = r.session}
    BY <2>1 DEF Row, CheckpointInv, FileHolds
  <2>6. start = Mark(E, r.session)
    <3>1. CASE held = {}
      BY <2>1, <2>5, <3>1 DEF Mark
    <3>2. CASE held # {}
      <4>1. PICK row : row = (CHOOSE y \in held : TRUE)
        OBVIOUS
      <4>2. row \in E /\ row.session = r.session /\ start = row.lines
        BY <2>1, <2>5, <3>2, <4>1
      <4> QED
        BY <4>2, MarkIs DEF CheckpointInv, CheckpointsOK, Unique
    <3> QED
      BY <3>1, <3>2
  <2>7. ~ Overlaps(p, Archiving, FALSE)
    BY <1>2 DEF GetCheckpoint
  <2>8. \A q \in Callers \ {p} : Archiver(caller[q]) => x.session # caller[q].session
    BY <2>1, <2>4, <2>7 DEF Overlaps, Archiver, Archiving
  <2>9. ArchiverOK(E, x)
    BY <2>3, <2>4, <2>6 DEF ArchiverOK
  <2>10. ~ Keeping(caller[p]) /\ ~ Writing("checkpoints", x)
    BY <1>0, <2>3 DEF Keeping, Writing
  <2>11. LinesKept(E, p, x)
    BY <1>0, <2>10, KeepingKeeps, LinesStand DEF NoLines
  <2>12. FileHolds("checkpoints", E)'
    BY <1>0, <2>3, <2>10, FileMoves DEF CheckpointInv
  <2> QED
    BY <2>3, <2>8, <2>9, <2>11, <2>12, CheckpointMoves
<1> QED
  BY <1>1, <1>2

LEMMA CheckpointParses ==
    ASSUME SessionsType, CoverInv, NEW E, CheckpointInv(E), NEW p \in Callers, ParseTranscript(p)
    PROVE  CheckpointInv(E)'
<1>1. PICK s, n, x, closed :
              /\ s = caller[p].session /\ n = Len(transcript[s])
              /\ Moved(p, x)
              /\ s \in Sessions /\ n \in Nat /\ caller[p].start \in 0 .. n
              /\ x.session = s /\ x.file = "checkpoints" /\ x.row.session = s /\ x.row.lines = n
              /\ x.events = MessagesFrom(s, caller[p].start) \cup closed
              /\ \A e \in closed : e.type = "closed"
              /\ x.pc = IF x.events = {} THEN "read_file" ELSE "append"
              /\ \A i \in 1 .. n : transcript[s][i] = "torn" => <<"torn", s, i>> \in mishaps'
              /\ UNCHANGED <<transcript, files, archive>>
  BY Parsed
<1>2. NoLines /\ ~ Keeping(caller[p]) /\ caller[p].pc = "parse" /\ Archiver(caller[p])
  BY <1>1, NothingIsNoLines DEF ParseTranscript, At, Keeping, Archiver
<1>3. caller[p].start = Mark(E, s)
  BY <1>1, <1>2 DEF CheckpointInv, ArchiverOK
<1>4. x.pc \in {"read_file", "append"} /\ ~ Writing("checkpoints", x)
  BY <1>1 DEF Writing
<1>5. ASSUME NEW t \in Sessions, NEW i \in Nat, Message(t, i) \in x.events
      PROVE  t = s /\ Mark(E, s) < i /\ i <= n
  <2>1. Message(t, i) \in MessagesFrom(s, caller[p].start)
    BY <1>1, <1>5 DEF Message
  <2>2. PICK k \in DOMAIN transcript[s] : k > caller[p].start /\ Message(t, i) = Message(s, k)
    BY <2>1 DEF MessagesFrom
  <2>3. t = s /\ i = k
    BY <2>2 DEF Message
  <2>4. DOMAIN transcript[s] = 1 .. n
    BY <1>1 DEF SessionsType
  <2> QED
    BY <1>1, <1>3, <2>2, <2>3, <2>4
<1>6. Mark(E, s) <= n
  BY <1>1, <1>3
<1>7. ArchiverOK(E, x)
  BY <1>1, <1>4, <1>5, <1>6 DEF ArchiverOK
<1>8. \A q \in Callers \ {p} : Archiver(caller[q]) => x.session # caller[q].session
  BY <1>1, <1>2 DEF CheckpointInv, ArchiversApart
<1>9. LinesKept(E, p, x)
  BY <1>2, KeepingKeeps, LinesStand DEF NoLines
<1>10. FileHolds("checkpoints", E)'
  BY <1>1, <1>4, FileMoves DEF CheckpointInv
<1> QED
  BY <1>1, <1>7, <1>8, <1>9, <1>10, CheckpointMoves

(* The batch is new, or the ledger had it under its key: either way its    *)
(* lines are beyond the mark, where nobody else appends.                   *)
LEMMA CheckpointArchives ==
    ASSUME SessionsType, NEW E, CheckpointInv(E), NEW p \in Callers, AppendTranscript(p),
           <<"rearchived">> \notin mishaps'
    PROVE  CheckpointInv(E)'
<1>0. UNCHANGED files /\ caller[p].pc = "append" /\ ~ Keeping(caller[p]) /\ Archiver(caller[p])
  BY DEF AppendTranscript, At, Keeping, Archiver
<1>1. CASE Ends(p) /\ UNCHANGED archive
  BY <1>0, <1>1, CheckpointEnds
<1>2. CASE ~ (Ends(p) /\ UNCHANGED archive)
  <2>1. PICK r, fields :
          /\ r = caller[p]
          /\ fields = [appended |-> TRUE, file |-> "checkpoints", row |-> r.row]
          /\ Appends(r.conv, r.key, r.events) /\ Goes(p, "read_file", fields)
    BY <1>2 DEF AppendTranscript
  <2>2. /\ DOMAIN fields = {"appended", "file", "row"}
        /\ fields["file"] = "checkpoints" /\ fields["row"] = r.row /\ fields["appended"] = TRUE
    BY <2>1
  <2>3. PICK x : /\ Moved(p, x)
                 /\ x.pc = "read_file"
                 /\ \A f \in DOMAIN fields \ {"pc"} : x[f] = fields[f]
                 /\ \A f \in {"kind", "session", "last", "conv", "appended"} \ DOMAIN fields :
                       x[f] = caller[p][f]
    BY <2>1, GoesShape
  <2>4. x.file = "checkpoints" /\ x.row = r.row /\ x.appended = TRUE /\ x.session = r.session
    BY <2>1, <2>2, <2>3
  <2>5. /\ r.row.session = r.session /\ r.row.lines \in Nat /\ Mark(E, r.session) <= r.row.lines
        /\ \A s \in Sessions, i \in Nat : Message(s, i) \in r.events =>
             s = r.session /\ Mark(E, s) < i /\ i <= r.row.lines
    BY <1>0, <2>1 DEF CheckpointInv, ArchiverOK
  <2>6. ArchiverOK(E, x)
    BY <2>3, <2>4, <2>5 DEF ArchiverOK
  <2>7. \A q \in Callers \ {p} : Archiver(caller[q]) => x.session # caller[q].session
    BY <1>0, <2>1, <2>4 DEF CheckpointInv, ArchiversApart
  <2>8. FileHolds("checkpoints", E)'
    <3>1. ~ Writing("checkpoints", x)
      BY <2>3 DEF Writing
    <3> QED
      BY <1>0, <2>3, <3>1, FileMoves DEF CheckpointInv
  <2>9. /\ DOMAIN archive \subseteq DOMAIN archive'
        /\ \A j \in DOMAIN archive : archive'[j] = archive[j]
        /\ \A j \in DOMAIN archive' \ DOMAIN archive : archive'[j].events = r.events
        /\ \A j, k \in DOMAIN archive' \ DOMAIN archive : j = k
    BY <2>1, AppendsShape DEF SessionsType
  <2>10. ASSUME NEW s \in Sessions, NEW i \in Nat, NEW j \in DOMAIN archive, Message(s, i) \in archive[j].events
         PROVE  /\ i <= Mark(E, s) \/ \E q \in Callers \ {p} : Keeps(caller[q], s, i)
                /\ Message(s, i) \notin r.events
    <3>1. i <= Mark(E, s) \/ \E q \in Callers : Keeps(caller[q], s, i)
      BY <2>10 DEF CheckpointInv, CheckpointsOK
    <3>2. i <= Mark(E, s) \/ \E q \in Callers \ {p} : Keeps(caller[q], s, i)
      BY <1>0, <3>1, KeepingKeeps
    <3>3. ASSUME Message(s, i) \in r.events PROVE FALSE
      <4>1. s = r.session /\ Mark(E, s) < i
        BY <2>5, <3>3
      <4>2. Mark(E, s) \in Nat
        BY MarkIsNat DEF CheckpointInv, CheckpointsOK
      <4>3. PICK q \in Callers \ {p} : Keeps(caller[q], s, i)
        BY <3>2, <4>1, <4>2
      <4>4. Archiver(caller[q]) /\ caller[q].session = s
        BY <4>3 DEF Keeps, Archiver
      <4> QED
        BY <1>0, <2>1, <4>1, <4>4 DEF CheckpointInv, ArchiversApart
    <3> QED
      BY <3>2, <3>3
  <2>11. ASSUME NEW s \in Sessions, NEW i \in Nat, NEW j \in DOMAIN archive', Message(s, i) \in archive'[j].events
         PROVE  /\ i <= Mark(E, s) \/ Keeps(x, s, i) \/ \E q \in Callers \ {p} : Keeps(caller[q], s, i)
                /\ \A k \in DOMAIN archive' : Message(s, i) \in archive'[k].events => j = k
    <3>1. CASE j \in DOMAIN archive
      <4>1. Message(s, i) \in archive[j].events
        BY <2>9, <2>11, <3>1
      <4>2. /\ i <= Mark(E, s) \/ \E q \in Callers \ {p} : Keeps(caller[q], s, i)
            /\ Message(s, i) \notin r.events
        BY <2>10, <3>1, <4>1
      <4>3. \A k \in DOMAIN archive : Message(s, i) \in archive[k].events => j = k
        BY <3>1, <4>1 DEF CheckpointInv, CheckpointsOK
      <4> QED
        BY <2>9, <4>2, <4>3
    <3>2. CASE j \notin DOMAIN archive
      <4>1. Message(s, i) \in r.events
        BY <2>9, <2>11, <3>2
      <4>2. Keeps(x, s, i)
        BY <2>3, <2>4, <2>5, <4>1 DEF Keeps
      <4>3. ASSUME NEW k \in DOMAIN archive', Message(s, i) \in archive'[k].events PROVE j = k
        <5>1. k \notin DOMAIN archive
          BY <2>9, <2>10, <4>1, <4>3
        <5> QED
          BY <2>9, <3>2, <5>1
      <4> QED
        BY <4>2, <4>3
    <3> QED
      BY <3>1, <3>2
  <2>12. LinesKept(E, p, x)
    BY <2>11 DEF LinesKept
  <2> QED
    BY <2>3, <2>6, <2>7, <2>8, <2>12, CheckpointMoves
<1> QED
  BY <1>1, <1>2

LEMMA CheckpointInit == SessionsInit => CheckpointInv({})
<1> SUFFICES ASSUME SessionsInit PROVE CheckpointInv({})
  OBVIOUS
<1>1. files["checkpoints"].rows = {} /\ ~ files["checkpoints"].torn
  BY DEF SessionsInit, Files
<1>2. \A p \in Callers : caller[p].pc = "idle"
  BY DEF SessionsInit, Idle
<1>3. DOMAIN archive = {}
  BY DEF SessionsInit
<1>4. CheckpointsOK({})
  BY <1>3 DEF CheckpointsOK
<1>5. FileHolds("checkpoints", {})
  BY <1>1, <1>2 DEF FileHolds, Writing
<1>6. ArchiversApart
  BY <1>2 DEF ArchiversApart, Archiver
<1>7. \A p \in Callers : ArchiverOK({}, caller[p])
  BY <1>2 DEF ArchiverOK
<1> QED
  BY <1>4, <1>5, <1>6, <1>7 DEF CheckpointInv

LEMMA CheckpointNext ==
    ASSUME SessionsType, CoverInv, NEW E, CheckpointInv(E), [SessionsNext]_sessionVars,
           <<"rearchived">> \notin mishaps'
    PROVE  \E F : CheckpointInv(F)'
<1>1. CASE UNCHANGED <<caller, files, archive>>
  <2>1. CheckpointInv(E)'
    BY <1>1 DEF CheckpointInv, CheckpointsOK, FileHolds, ArchiversApart, ArchiverOK, Archiver, Keeps, Writing,
                Message, Mark, WithRow
  <2> QED
    BY <2>1
<1>2. ASSUME NEW s, NEW line, WriteLine(s, line) PROVE UNCHANGED <<caller, files, archive>>
  BY <1>2 DEF WriteLine
<1>3. ASSUME NEW p \in Callers, NEW kind, NEW s, NEW last, Begin(p, kind, s, last) PROVE CheckpointInv(E)'
  <2>1. PICK x : x = [pc |-> "find", kind |-> kind, session |-> s, last |-> last, conv |-> 0,
                      appended |-> FALSE]
    OBVIOUS
  <2>2. Moved(p, x) /\ UNCHANGED <<files, archive>> /\ x.pc = "find" /\ caller[p].pc \in {"idle", "done"}
    BY <1>3, <2>1 DEF Begin, Moved
  <2>3. ~ Archiver(x) /\ ~ Writing("checkpoints", x) /\ ~ Keeping(caller[p]) /\ NoLines
    BY <2>2, NothingIsNoLines DEF Archiver, Writing, Keeping
  <2>4. FileHolds("checkpoints", E)'
    BY <2>2, <2>3, FileMoves DEF CheckpointInv
  <2> QED
    BY <2>2, <2>3, <2>4, CheckpointStands
<1>4. ASSUME NEW p \in Callers, Ends(p), UNCHANGED <<files, archive>> PROVE CheckpointInv(E)'
  BY <1>4, CheckpointEnds
<1>5. ASSUME NEW p \in Callers, NEW pc, NEW fields, Goes(p, pc, fields), "pc" \notin DOMAIN fields,
             pc \in {"handoff", "next_step", "done"}, UNCHANGED files, NoLines, ~ Keeping(caller[p])
      PROVE  CheckpointInv(E)'
  BY <1>5, CheckpointGoes
<1>6. ASSUME NEW p \in Callers, Crash(p) PROVE CheckpointInv(E)'
  BY <1>4, <1>6 DEF Crash
<1>7. ASSUME NEW p \in Callers, Find(p) \/ FindParent(p) \/ CreateBinding(p) PROVE CheckpointInv(E)'
  BY <1>7, CheckpointFinds
<1>8. ASSUME NEW p \in Callers, ReadFile(p) PROVE CheckpointInv(E)'
  BY <1>8, CheckpointReads
<1>9. ASSUME NEW p \in Callers, TruncateFile(p) PROVE \E F : CheckpointInv(F)'
  BY <1>9, CheckpointTruncates
<1>10. ASSUME NEW p \in Callers, WriteFile(p) PROVE CheckpointInv(E)'
  BY <1>10, CheckpointWrites
<1>11. ASSUME NEW p \in Callers, GetCheckpoint(p) PROVE CheckpointInv(E)'
  BY <1>11, CheckpointBegins
<1>12. ASSUME NEW p \in Callers, ParseTranscript(p) PROVE CheckpointInv(E)'
  BY <1>12, CheckpointParses
<1>13. ASSUME NEW p \in Callers, AppendTranscript(p) PROVE CheckpointInv(E)'
  BY <1>13, CheckpointArchives
<1>14. ASSUME NEW p \in Callers, ExtractHandoff(p) PROVE CheckpointInv(E)'
  <2>1. PICK steps : Goes(p, "handoff", [steps |-> steps])
    BY <1>14 DEF ExtractHandoff
  <2>2. UNCHANGED files /\ NoLines /\ ~ Keeping(caller[p])
    BY <1>14, NothingIsNoLines DEF ExtractHandoff, At, Keeping
  <2> QED
    BY <1>5, <2>1, <2>2
<1>15. ASSUME NEW p \in Callers, NEW i, AfterStep(p, i), UNCHANGED files, NoLines, ~ Keeping(caller[p])
       PROVE  CheckpointInv(E)'
  BY <1>5, <1>15 DEF AfterStep
<1>16. ASSUME NEW p \in Callers, NEW i, ~ Keeping(caller[p]), NEW kind, NEW title, NEW key,
              RecordStep(p, kind, title, key, AfterStep(p, i))
       PROVE  CheckpointInv(E)'
  <2>1. PICK record : record = ContinuityRecord(kind, title, key, "active", {}, {}) /\ record.type = "record"
    BY RecordTypes
  <2>2. UNCHANGED files
    BY <1>16 DEF RecordStep
  <2>3. CASE Ends(p) /\ UNCHANGED archive
    BY <1>4, <2>2, <2>3
  <2>4. CASE Appends(caller[p].conv, key, {record}) /\ AfterStep(p, i)
    <3>1. NoLines
      BY <2>1, <2>4, RecordsAreNoLines
    <3> QED
      BY <1>15, <1>16, <2>2, <2>4, <3>1
  <2> QED
    BY <1>16, <2>1, <2>3, <2>4 DEF RecordStep
<1>17. ASSUME NEW p \in Callers, RecordHandoff(p) PROVE CheckpointInv(E)'
  <2>1. ~ Keeping(caller[p])
    BY <1>17 DEF RecordHandoff, At, Keeping
  <2> QED
    BY <1>16, <1>17, <2>1 DEF RecordHandoff
<1>18. ASSUME NEW p \in Callers, RecordNextStep(p) PROVE CheckpointInv(E)'
  <2>1. ~ Keeping(caller[p])
    BY <1>18 DEF RecordNextStep, At, Keeping
  <2> QED
    BY <1>16, <1>18, <2>1 DEF RecordNextStep
<1>19. ASSUME NEW p \in Callers, WriteRecord(p) PROVE CheckpointInv(E)'
  <2>1. UNCHANGED files /\ ~ Keeping(caller[p])
    BY <1>19 DEF WriteRecord, At, Keeping
  <2>2. ASSUME NEW record, NEW key, record.type = "record", Writes(p, record, key) PROVE CheckpointInv(E)'
    <3>1. CASE Ends(p) /\ UNCHANGED archive
      BY <1>4, <2>1, <3>1
    <3>2. CASE Appends(caller[p].conv, key, {record}) /\ Goes(p, "done", <<>>)
      <4>1. NoLines
        BY <2>2, <3>2, RecordsAreNoLines
      <4> QED
        BY <1>5, <2>1, <3>2, <4>1
    <3> QED
      BY <2>2, <3>1, <3>2 DEF Writes
  <2>3. ASSUME NEW S, NEW k, Writes(p, ContinuityRecord("failure", "tool", k, "active", {}, {}), k)
                       \/ Writes(p, ContinuityRecord("decision", "d", k, "active", S, {}), k)
                       \/ Writes(p, Marker(S, "stale", k), k)
        PROVE CheckpointInv(E)'
    BY <2>2, <2>3, RecordTypes
  <2> QED
    BY <1>19, <2>3 DEF WriteRecord
<1> QED
  BY <1>1, <1>2, <1>3, <1>6, <1>7, <1>8, <1>9, <1>10, <1>11, <1>12, <1>13, <1>14, <1>17, <1>18, <1>19
     DEF SessionsNext, CallerStep, sessionVars

(* A checkpoint counts a line only once the ledger has what it says (see   *)
(* ArchivedExactlyOnce): however many hooks of a session run at once, and  *)
(* wherever one of them is killed, except a line that was half written.    *)
(* (Of lines that say the same a later one may be dropped; no line is that *)
(* says what no other line does.)  And no message is there twice as long as no hook stops between its      *)
(* append and its checkpoint and no two are between reading and writing it. *)
THEOREM ArchivedExactlyOnceHolds == SessionsSpec => []ArchivedExactlyOnce
<1> DEFINE Inv == /\ SessionsType
                  /\ CoverInv
                  /\ <<"rearchived">> \notin mishaps => \E E : CheckpointInv(E)
<1>1. SessionsInit => Inv
  BY TypeInit, CoverInit, CheckpointInit
<1>2. Inv /\ [SessionsNext]_sessionVars => Inv'
  <2>1. SUFFICES ASSUME SessionsType, CoverInv, <<"rearchived">> \notin mishaps => \E E : CheckpointInv(E),
                        [SessionsNext]_sessionVars, <<"rearchived">> \notin mishaps'
                 PROVE  \E F : CheckpointInv(F)'
    BY TypeNext, CoverNext
  <2>2. <<"rearchived">> \notin mishaps
    BY <2>1, MishapsGrow
  <2>3. PICK E : CheckpointInv(E)
    BY <2>1, <2>2
  <2> QED
    BY <2>1, <2>3, CheckpointNext
<1>3. Inv => ArchivedExactlyOnce
  <2> SUFFICES ASSUME Inv PROVE ArchivedExactlyOnce
    OBVIOUS
  <2>1. ASSUME NEW r \in files["checkpoints"].rows, NEW i \in 1 .. r.lines, transcript[r.session][i] = "step"
        PROVE  Said(r.session, i) \/ <<"torn", r.session, i>> \in mishaps
    BY <2>1 DEF CoverInv, Covered
  <2>2. ASSUME <<"rearchived">> \notin mishaps, NEW s \in Sessions, NEW i \in DOMAIN transcript[s]
        PROVE  Times(s, i) <= 1
    <3>1. PICK E : CheckpointInv(E)
      BY <2>2
    <3>2. i \in Nat
      <4>1. DOMAIN transcript[s] = 1 .. Len(transcript[s]) /\ Len(transcript[s]) \in Nat
        BY DEF SessionsType
      <4> QED
        BY <2>2, <4>1
    <3>3. PICK S : S = {j \in DOMAIN archive : Message(s, i) \in archive[j].events}
      OBVIOUS
    <3>4. \A j, k \in S : j = k
      BY <2>2, <3>1, <3>2, <3>3 DEF CheckpointInv, CheckpointsOK
    <3> QED
      BY <3>3, <3>4, AtMostOne DEF Times
  <2> QED
    BY <2>1, <2>2 DEF ArchivedExactlyOnce
<1> QED
  BY <1>1, <1>2, <1>3, PTL DEF SessionsSpec

-----------------------------------------------------------------------------
(* Records of one conversation, at most one at each place of its ledger.   *)
RecordsAt(records, n) ==
    /\ \A r \in records : r.seq \in 1 .. n /\ r.kind \in ContinuityKinds
    /\ \A r, x \in records : r.seq = x.seq => r = x

LEMMA RecordsFinite ==
    ASSUME NEW n \in Nat, NEW records, RecordsAt(records, n)
    PROVE  IsFiniteSet(records)
<1> DEFINE f == [r \in records |-> r.seq]
           T == 1 .. n
<1>1. f \in [records -> T] /\ \A r, x \in records : f[r] = f[x] => r = x
  BY DEF RecordsAt
<1>2. IsFiniteSet(T)
  BY 1 \in Int, n \in Int, FS_Interval
<1>3. f \in Injection(records, T)
  <2> HIDE DEF f, T
  <2> QED
    BY <1>1 DEF Injection, IsInjective
<1> HIDE DEF f, T
<1> QED
  BY <1>2, <1>3, FS_Injection

-----------------------------------------------------------------------------
(* One batch of the ledger, applied to what is active before it.           *)
Hides(r, id) == id \in r.supersedes \cup (IF r.status = "active" THEN {} ELSE r.related)

Applied(records, active, i) ==
    LET here == {r \in records : r.seq = i}
    IN {a \in active : \A r \in here : ~ Hides(r, a.id)} \cup {r \in here : r.status = "active"}

(* What a replay of the first k batches leaves.                            *)
ActiveUpto(records, k) ==
    {r \in records : /\ r.seq <= k /\ r.status = "active"
                     /\ \A m \in records : m.seq <= k /\ r.seq < m.seq => ~ Hides(m, r.id)}

LEMMA ReplayStep ==
    ASSUME NEW n \in Nat, NEW records, RecordsAt(records, n), NEW k \in 1 .. n
    PROVE  Applied(records, ActiveUpto(records, k - 1), k) = ActiveUpto(records, k)
<1>0. \A r \in records : r.seq \in Int
  BY DEF RecordsAt
<1>1. ASSUME NEW r \in Applied(records, ActiveUpto(records, k - 1), k) PROVE r \in ActiveUpto(records, k)
  <2>1. CASE r \in ActiveUpto(records, k - 1) /\ \A m \in records : m.seq = k => ~ Hides(m, r.id)
    <3>1. /\ r \in records /\ r.seq <= k - 1 /\ r.status = "active"
          /\ \A m \in records : m.seq <= k - 1 /\ r.seq < m.seq => ~ Hides(m, r.id)
      BY <2>1 DEF ActiveUpto
    <3>2. ASSUME NEW m \in records, m.seq <= k, r.seq < m.seq PROVE ~ Hides(m, r.id)
      <4>1. m.seq = k \/ m.seq <= k - 1
        BY <1>0, <3>2
      <4> QED
        BY <2>1, <3>1, <3>2, <4>1
    <3>3. r.seq <= k
      BY <1>0, <3>1
    <3> QED
      BY <3>1, <3>2, <3>3 DEF ActiveUpto
  <2>2. CASE r \in records /\ r.seq = k /\ r.status = "active"
    <3>1. \A m \in records : ~ (m.seq <= k /\ r.seq < m.seq)
      BY <1>0, <2>2
    <3>2. r.seq <= k
      BY <1>0, <2>2
    <3> QED
      BY <2>2, <3>1, <3>2 DEF ActiveUpto
  <2> QED
    BY <1>1, <2>1, <2>2 DEF Applied
<1>2. ASSUME NEW r \in ActiveUpto(records, k) PROVE r \in Applied(records, ActiveUpto(records, k - 1), k)
  <2>1. /\ r \in records /\ r.seq <= k /\ r.status = "active"
        /\ \A m \in records : m.seq <= k /\ r.seq < m.seq => ~ Hides(m, r.id)
    BY <1>2 DEF ActiveUpto
  <2>2. CASE r.seq = k
    BY <2>1, <2>2 DEF Applied
  <2>3. CASE r.seq # k
    <3>1. r.seq <= k - 1 /\ r.seq < k
      BY <1>0, <2>1, <2>3
    <3>2. ASSUME NEW m \in records, m.seq <= k - 1, r.seq < m.seq PROVE ~ Hides(m, r.id)
      <4>1. m.seq <= k
        BY <1>0, <3>2
      <4> QED
        BY <2>1, <3>2, <4>1
    <3>3. r \in ActiveUpto(records, k - 1)
      BY <2>1, <3>1, <3>2 DEF ActiveUpto
    <3>4. ASSUME NEW m \in records, m.seq = k PROVE ~ Hides(m, r.id)
      <4>1. m.seq <= k /\ r.seq < m.seq
        BY <1>0, <3>1, <3>4
      <4> QED
        BY <2>1, <4>1
    <3> QED
      BY <3>3, <3>4 DEF Applied
  <2> QED
    BY <2>2, <2>3
<1> QED
  BY <1>1, <1>2

LEMMA ReplayEnds ==
    ASSUME NEW n \in Nat, NEW records, RecordsAt(records, n)
    PROVE  ActiveUpto(records, 0) = {} /\ ActiveUpto(records, n) = ActiveRecords(records)
<1>0. \A r \in records : r.seq \in 1 .. n
  BY DEF RecordsAt
<1>1. ActiveUpto(records, 0) = {}
  BY <1>0 DEF ActiveUpto
<1>2. ASSUME NEW r \in records
      PROVE  (\A m \in records : m.seq <= n /\ r.seq < m.seq => ~ Hides(m, r.id)) <=> ~ Suppressed(records, r)
  <2>1. \A m \in records : m.seq <= n
    BY <1>0
  <2> QED
    BY <2>1 DEF Suppressed, Hides
<1>3. \A r \in records : r.seq <= n
  BY <1>0
<1> QED
  BY <1>1, <1>2, <1>3 DEF ActiveUpto, ActiveRecords

(* The fold over the ledger is the replay of its batches, in their order.  *)
IsReplay(records, k, active) == active = ActiveUpto(records, k)

Ledger == INSTANCE FoldTheorems WITH Op <- Applied, Inv <- IsReplay

LEMMA Replay ==
    ASSUME NEW n \in Nat, NEW records, RecordsAt(records, n), NEW s, DOMAIN s = 1 .. n, \A i \in 1 .. n : s[i] = i
    PROVE  Ledger!Fold(records, {}, s) = ActiveRecords(records)
<1>1. IsReplay(records, 0, {})
  BY ReplayEnds DEF IsReplay
<1>2. \A k \in 1 .. n : \A a : IsReplay(records, k - 1, a) => IsReplay(records, k, Applied(records, a, s[k]))
  BY ReplayStep DEF IsReplay
<1>3. IsReplay(records, n, Ledger!Fold(records, {}, s))
  BY <1>1, <1>2, LeastNatural, Ledger!FoldKeeps
<1> QED
  BY <1>3, ReplayEnds DEF IsReplay

-----------------------------------------------------------------------------
(* A bucket has the records of its kind, each once, in its order.          *)
LEMMA BucketHolds ==
    ASSUME NEW n \in Nat, NEW records, RecordsAt(records, n), NEW kind
    PROVE  /\ Bucket(records, kind) \in Seq({r \in records : r.kind = kind})
           /\ Len(Bucket(records, kind)) = Cardinality({r \in records : r.kind = kind})
           /\ \A r : r \in ToSet(Bucket(records, kind)) <=> r \in records /\ r.kind = kind
           /\ \A i, j \in DOMAIN Bucket(records, kind) : i < j =>
                  IF kind = "next_step" THEN Bucket(records, kind)[i].seq < Bucket(records, kind)[j].seq
                                        ELSE Bucket(records, kind)[i].seq > Bucket(records, kind)[j].seq
<1> DEFINE S == {r \in records : r.kind = kind}
           w == [r \in S |-> IF kind = "next_step" THEN r.seq ELSE - r.seq]
           c == Cardinality(S)
           Rank(r) == Cardinality({x \in S : IF kind = "next_step" THEN x.seq < r.seq ELSE x.seq > r.seq})
           g == [i \in 1 .. c |-> CHOOSE r \in S : Rank(r) = i - 1]
           b == Bucket(records, kind)
<1>0. \A r \in S : r.seq \in 1 .. n
  BY DEF RecordsAt
<1>1. IsFiniteSet(S)
  <2>1. S \in SUBSET records
    OBVIOUS
  <2> HIDE DEF S
  <2> QED
    BY <2>1, RecordsFinite, FS_Subset
<1>2. w \in [S -> Int] /\ \A x, y \in S : w[x] = w[y] => x = y
  <2>1. \A r \in S : w[r] \in Int
    BY <1>0
  <2>2. \A x, y \in S : w[x] = w[y] => x.seq = y.seq
    BY <1>0
  <2> QED
    BY <2>1, <2>2 DEF RecordsAt
<1>3. \A r, x \in S : (w[x] < w[r]) = IF kind = "next_step" THEN x.seq < r.seq ELSE x.seq > r.seq
  BY <1>0
<1>4. \A r \in S : Rank(r) = Place(S, w, r)
  <2>1. SUFFICES ASSUME NEW r \in S PROVE Rank(r) = Place(S, w, r)
    OBVIOUS
  <2>2. {x \in S : w[x] < w[r]} = {x \in S : IF kind = "next_step" THEN x.seq < r.seq ELSE x.seq > r.seq}
    BY <1>3
  <2> QED
    BY <2>2 DEF Place
<1>5. b = SubSeq(g, 1, c)
  BY DEF Bucket
<1> HIDE DEF S, w, Rank
<1>6. /\ c \in Nat
      /\ \A r \in S : Place(S, w, r) \in 0 .. c - 1
      /\ \A r, x \in S : w[r] < w[x] => Place(S, w, r) < Place(S, w, x)
      /\ \A r, x \in S : Place(S, w, r) = Place(S, w, x) => r = x
      /\ \A i \in 1 .. c : \E r \in S : Place(S, w, r) = i - 1
  BY <1>1, <1>2, Places
<1> HIDE DEF c
<1>7. \A i \in 1 .. c : g[i] \in S /\ Place(S, w, g[i]) = i - 1
  <2>1. SUFFICES ASSUME NEW i \in 1 .. c PROVE g[i] \in S /\ Place(S, w, g[i]) = i - 1
    OBVIOUS
  <2>2. \E r \in S : Rank(r) = i - 1
    BY <1>4, <1>6
  <2>3. g[i] \in S /\ Rank(g[i]) = i - 1
    BY <2>2
  <2> QED
    BY <1>4, <2>3
<1>8. g \in Seq(S) /\ Len(g) = c /\ DOMAIN g = 1 .. c
  <2>1. g \in [1 .. c -> S]
    BY <1>7
  <2>2. g \in Seq(S)
    BY <1>6, <2>1
  <2> HIDE DEF g
  <2> QED
    BY <1>6, <2>1, <2>2
<1> HIDE DEF g, b
<1>9. b = g
  BY <1>5, <1>8, SubSeqFull
<1>10. ToSet(b) = S
  <2>1. \A i \in DOMAIN b : b[i] \in S
    BY <1>7, <1>8, <1>9
  <2>2. ASSUME NEW r \in S PROVE \E i \in DOMAIN b : b[i] = r
    <3>1. PICK i \in 1 .. c : Place(S, w, r) = i - 1
      <4>1. Place(S, w, r) \in 0 .. c - 1
        BY <1>6
      <4>2. Place(S, w, r) + 1 \in 1 .. c /\ Place(S, w, r) = (Place(S, w, r) + 1) - 1
        BY <1>6, <4>1
      <4> QED
        BY <4>2
    <3>2. g[i] \in S /\ Place(S, w, g[i]) = Place(S, w, r)
      BY <1>7, <3>1
    <3>3. g[i] = r
      BY <1>6, <3>2
    <3> QED
      BY <1>8, <1>9, <3>3
  <2> QED
    BY <2>1, <2>2 DEF ToSet
<1>11. ASSUME NEW i \in DOMAIN b, NEW j \in DOMAIN b, i < j
       PROVE  IF kind = "next_step" THEN b[i].seq < b[j].seq ELSE b[i].seq > b[j].seq
  <2>1. /\ b[i] \in S /\ b[j] \in S
        /\ Place(S, w, b[i]) = i - 1 /\ Place(S, w, b[j]) = j - 1
        /\ i \in Nat /\ j \in Nat
    BY <1>6, <1>7, <1>8, <1>9
  <2>2. ~ (w[b[j]] < w[b[i]])
    <3>1. ~ (j - 1 < i - 1)
      BY <1>11, <2>1
    <3> QED
      BY <1>6, <2>1, <3>1
  <2>3. b[i] # b[j]
    <3>1. i - 1 # j - 1
      BY <1>11, <2>1
    <3> QED
      BY <2>1, <3>1
  <2>4. w[b[i]] < w[b[j]]
    <3>1. w[b[i]] \in Int /\ w[b[j]] \in Int /\ w[b[i]] # w[b[j]]
      BY <1>2, <2>1, <2>3
    <3> QED
      BY <2>2, <3>1
  <2> QED
    BY <1>3, <2>1, <2>4
<1> QED
  <2>1. \A r : r \in ToSet(b) <=> r \in records /\ r.kind = kind
    BY <1>10 DEF S
  <2> QED
    BY <1>8, <1>9, <1>11, <2>1 DEF S, c, b

(* Without a limit the current state is the buckets of the active records. *)
LEMMA StateHolds ==
    ASSUME NEW n \in Nat, NEW records, RecordsAt(records, n)
    PROVE  /\ RecordsAt(ActiveRecords(records), n)
           /\ \A kind \in ContinuityKinds :
                  CurrentState(records, FALSE, 0)[kind] = Bucket(ActiveRecords(records), kind)
           /\ UNION {ToSet(b) : b \in {CurrentState(records, FALSE, 0)[k] : k \in ContinuityKinds}}
                  = ActiveRecords(records)
<1> DEFINE active == ActiveRecords(records)
           state == CurrentState(records, FALSE, 0)
<1>1. active \subseteq records /\ RecordsAt(active, n)
  BY DEF ActiveRecords, RecordsAt
<1>2. ASSUME NEW kind \in ContinuityKinds PROVE state[kind] = Bucket(active, kind)
  <2> DEFINE b == Bucket(active, kind)
             T == {r \in active : r.kind = kind}
  <2>1. b \in Seq(T)
    <3> HIDE DEF active
    <3> QED
      BY <1>1, BucketHolds
  <2>2. state[kind] = SubSeq(b, 1, Len(b))
    BY DEF CurrentState, Limited
  <2> HIDE DEF b, T, state
  <2>3. SubSeq(b, 1, Len(b)) = b
    BY <2>1, SubSeqFull
  <2> QED
    BY <2>2, <2>3 DEF b
<1> HIDE DEF active, state
<1>3. \A kind \in ContinuityKinds : ToSet(state[kind]) = {r \in active : r.kind = kind}
  <2>1. ASSUME NEW kind \in ContinuityKinds
        PROVE  ToSet(state[kind]) = {r \in active : r.kind = kind}
    <3>1. \A r : r \in ToSet(Bucket(active, kind)) <=> r \in active /\ r.kind = kind
      BY <1>1, BucketHolds
    <3> QED
      BY <1>2, <3>1
  <2> QED
    BY <2>1
<1>4. UNION {ToSet(b) : b \in {state[k] : k \in ContinuityKinds}} = active
  <2>1. \A r \in active : r.kind \in ContinuityKinds
    BY <1>1 DEF RecordsAt
  <2>2. {ToSet(b) : b \in {state[k] : k \in ContinuityKinds}} = {ToSet(state[k]) : k \in ContinuityKinds}
    OBVIOUS
  <2>3. UNION {ToSet(state[k]) : k \in ContinuityKinds} = active
    BY <1>3, <2>1
  <2> QED
    BY <2>2, <2>3
<1> QED
  BY <1>1, <1>2, <1>4 DEF active, state

-----------------------------------------------------------------------------
(* A batch of the ledger has no record, or is one record.                  *)
IsRecord(e) == e.type = "record" /\ "kind" \in DOMAIN e /\ e.kind \in ContinuityKinds

NoRecords(events) == \A e \in events : e.type # "record"

RecordBatch(events) == NoRecords(events) \/ \E e : events = {e} /\ IsRecord(e)

RecordsInv ==
    /\ \A j \in DOMAIN archive : RecordBatch(archive[j].events)
    /\ \A p \in Callers : caller[p].pc = "append" => NoRecords(caller[p].events)

LEMMA RecordsAre ==
    ASSUME NEW kind \in ContinuityKinds, NEW title, NEW key, NEW status, NEW S, NEW T
    PROVE  /\ IsRecord(ContinuityRecord(kind, title, key, status, S, T))
           /\ IsRecord(Marker(title, status, key))
<1>1. \A k, t, y, u, A, B : k \in ContinuityKinds => IsRecord(ContinuityRecord(k, t, y, u, A, B))
  BY DEF IsRecord, ContinuityRecord
<1>2. "session_summary" \in ContinuityKinds
  BY DEF ContinuityKinds
<1> QED
  BY <1>1, <1>2 DEF Marker

LEMMA RecordsMove ==
    ASSUME SessionsType, RecordsInv, NEW p \in Callers, NEW x, Moved(p, x),
           x.pc = "append" => NoRecords(x.events),
           \A j \in DOMAIN archive' : RecordBatch(archive'[j].events)
    PROVE  RecordsInv'
<1>1. caller'[p] = x /\ \A q \in Callers \ {p} : caller'[q] = caller[q]
  BY MovedShape DEF SessionsType
<1> QED
  BY <1>1 DEF RecordsInv

LEMMA RecordsGo ==
    ASSUME SessionsType, RecordsInv, NEW p \in Callers, NEW pc, NEW fields, Goes(p, pc, fields),
           pc # "append" \/ ("events" \in DOMAIN fields /\ NoRecords(fields["events"])),
           \A j \in DOMAIN archive' : RecordBatch(archive'[j].events)
    PROVE  RecordsInv'
<1>1. PICK x : Moved(p, x) /\ x.pc = pc /\ \A f \in DOMAIN fields \ {"pc"} : x[f] = fields[f]
  BY GoesShape
<1>2. x.pc = "append" => NoRecords(x.events)
  BY <1>1
<1> QED
  BY <1>1, <1>2, RecordsMove

LEMMA RecordsEnd ==
    ASSUME SessionsType, RecordsInv, NEW p \in Callers, Ends(p),
           \A j \in DOMAIN archive' : RecordBatch(archive'[j].events)
    PROVE  RecordsInv'
<1>1. PICK x : x = Idle
  OBVIOUS
<1>2. Moved(p, x) /\ x.pc = "idle"
  BY <1>1 DEF Ends, Moved, Idle
<1> QED
  BY <1>2, RecordsMove

LEMMA BatchAppended ==
    ASSUME SessionsType, RecordsInv, NEW c, NEW key, NEW events, RecordBatch(events), Appends(c, key, events)
    PROVE  \A j \in DOMAIN archive' : RecordBatch(archive'[j].events)
<1>1. /\ \A j \in DOMAIN archive : archive'[j] = archive[j]
      /\ \A j \in DOMAIN archive' \ DOMAIN archive : archive'[j].events = events
  BY AppendsShape DEF SessionsType
<1> QED
  BY <1>1 DEF RecordsInv

LEMMA RecordsParse ==
    ASSUME SessionsType, RecordsInv, NEW p \in Callers, ParseTranscript(p)
    PROVE  RecordsInv'
<1> DEFINE s == caller[p].session
           lines == MessagesFrom(s, IF caller[p].start <= Len(transcript[s]) THEN caller[p].start ELSE 0)
           stop == caller[p].kind = "Stop"
           key == IF stop THEN StopKey(p) ELSE <<"PreCompact", s, Digest(lines)>>
           events == lines \cup {e \in {[type |-> "closed", session |-> s, last |-> caller[p].last]} : stop}
           row == [session |-> s, lines |-> Len(transcript[s])]
           pc == IF events = {} THEN "read_file" ELSE "append"
<1>1. Goes(p, pc, [file |-> "checkpoints", key |-> key, events |-> events, row |-> row]) /\ UNCHANGED archive
  BY DEF ParseTranscript
<1>2. NoRecords(events)
  BY DEF MessagesFrom, Message, NoRecords
<1> HIDE DEF s, lines, stop, key, events, row, pc
<1>3. PICK fields : fields = [file |-> "checkpoints", key |-> key, events |-> events, row |-> row]
  OBVIOUS
<1>4. "events" \in DOMAIN fields /\ fields["events"] = events
  BY <1>3
<1>5. Goes(p, pc, fields)
  BY <1>1, <1>3
<1>6. \A j \in DOMAIN archive' : RecordBatch(archive'[j].events)
  BY <1>1 DEF RecordsInv
<1> QED
  BY <1>2, <1>4, <1>5, <1>6, RecordsGo

LEMMA RecordsInit == SessionsInit => RecordsInv
<1> SUFFICES ASSUME SessionsInit PROVE RecordsInv
  OBVIOUS
<1>1. archive = <<>> /\ \A p \in Callers : caller[p].pc = "idle"
  BY DEF SessionsInit, Idle
<1>2. DOMAIN archive = {}
  BY <1>1
<1> QED
  BY <1>1, <1>2 DEF RecordsInv

LEMMA RecordsNext ==
    ASSUME SessionsType, RecordsInv, [SessionsNext]_sessionVars
    PROVE  RecordsInv'
<1>0. UNCHANGED archive => \A j \in DOMAIN archive' : RecordBatch(archive'[j].events)
  BY DEF RecordsInv
<1>1. CASE UNCHANGED <<caller, archive>>
  BY <1>1 DEF RecordsInv
<1>2. ASSUME NEW s, NEW line, WriteLine(s, line) PROVE RecordsInv'
  BY <1>1, <1>2 DEF WriteLine
<1>3. ASSUME NEW p \in Callers, NEW kind, NEW s, NEW last, Begin(p, kind, s, last) PROVE RecordsInv'
  <2>1. PICK x : x = [pc |-> "find", kind |-> kind, session |-> s, last |-> last, conv |-> 0,
                      appended |-> FALSE]
    OBVIOUS
  <2>2. Moved(p, x) /\ UNCHANGED archive /\ x.pc = "find"
    BY <1>3, <2>1 DEF Begin, Moved
  <2> QED
    BY <1>0, <2>2, RecordsMove
<1>4. ASSUME NEW p \in Callers, Ends(p), UNCHANGED archive PROVE RecordsInv'
  BY <1>0, <1>4, RecordsEnd
<1>5. ASSUME NEW p \in Callers, NEW pc, NEW fields, Goes(p, pc, fields), pc # "append", UNCHANGED archive
      PROVE  RecordsInv'
  BY <1>0, <1>5, RecordsGo
<1>6. ASSUME NEW p \in Callers, Crash(p) PROVE RecordsInv'
  BY <1>4, <1>6 DEF Crash
<1>7. ASSUME NEW kind PROVE Purpose(kind) # "append"
  BY DEF Purpose
<1>8. ASSUME NEW p \in Callers, Find(p) PROVE RecordsInv'
  <2>1. CASE Ends(p)
    BY <1>4, <1>8, <2>1 DEF Find
  <2>2. CASE \E pc, fields : Goes(p, pc, fields) /\ pc # "append"
    BY <1>5, <1>8, <2>2 DEF Find
  <2>3. CASE ~ files["bindings"].torn
    <3>1. PICK pc, conv, lineage :
              /\ pc = "parent" \/ pc = "create" \/ pc = Purpose(caller[p].kind)
              /\ Goes(p, pc, [conv |-> conv, parent |-> 0, lineage |-> lineage])
      BY <1>8, <2>3 DEF Find
    <3>2. pc # "append"
      BY <1>7, <3>1
    <3> QED
      BY <2>2, <3>1, <3>2
  <2> QED
    BY <1>8, <2>1, <2>3 DEF Find
<1>9. ASSUME NEW p \in Callers, FindParent(p) PROVE RecordsInv'
  <2>1. CASE Ends(p)
    BY <1>4, <1>9, <2>1 DEF FindParent
  <2>2. CASE \E pc, fields : Goes(p, pc, fields) /\ pc # "append"
    BY <1>5, <1>9, <2>2 DEF FindParent
  <2> QED
    BY <1>7, <1>9, <2>1, <2>2 DEF FindParent
<1>10. ASSUME NEW p \in Callers, CreateBinding(p) \/ ReadFile(p) \/ TruncateFile(p) \/ GetCheckpoint(p)
       PROVE  RecordsInv'
  BY <1>4, <1>5, <1>10 DEF CreateBinding, ReadFile, TruncateFile, GetCheckpoint
<1>11. ASSUME NEW p \in Callers, WriteFile(p) PROVE RecordsInv'
  <2>1. \E pc, fields : Goes(p, pc, fields) /\ pc # "append"
    BY <1>7, <1>11 DEF WriteFile
  <2> QED
    BY <1>5, <1>11, <2>1 DEF WriteFile
<1>12. ASSUME NEW p \in Callers, ParseTranscript(p) PROVE RecordsInv'
  BY <1>12, RecordsParse
<1>13. ASSUME NEW p \in Callers, AppendTranscript(p) PROVE RecordsInv'
  <2>1. CASE Ends(p) /\ UNCHANGED archive
    BY <1>4, <2>1
  <2>2. CASE ~ (Ends(p) /\ UNCHANGED archive)
    <3>1. PICK c, key, events, fields :
              Appends(c, key, events) /\ events = caller[p].events /\ Goes(p, "read_file", fields)
      BY <1>13, <2>2 DEF AppendTranscript
    <3>2. RecordBatch(events)
      BY <1>13, <3>1 DEF AppendTranscript, At, RecordsInv, RecordBatch
    <3>3. \A j \in DOMAIN archive' : RecordBatch(archive'[j].events)
      BY <3>1, <3>2, BatchAppended
    <3> QED
      BY <3>1, <3>3, RecordsGo
  <2> QED
    BY <2>1, <2>2
<1>14. ASSUME NEW p \in Callers, ExtractHandoff(p) PROVE RecordsInv'
  <2>1. PICK steps : Goes(p, "handoff", [steps |-> steps])
    BY <1>14 DEF ExtractHandoff
  <2> QED
    BY <1>5, <1>14, <2>1 DEF ExtractHandoff
<1>15. ASSUME NEW p \in Callers, NEW c, NEW key, NEW record, IsRecord(record),
              \/ /\ Appends(c, key, {record})
                 /\ \E pc, fields : Goes(p, pc, fields) /\ pc # "append"
              \/ Ends(p) /\ UNCHANGED archive
       PROVE  RecordsInv'
  <2>1. CASE Ends(p) /\ UNCHANGED archive
    BY <1>4, <2>1
  <2>2. CASE Appends(c, key, {record}) /\ \E pc, fields : Goes(p, pc, fields) /\ pc # "append"
    <3>1. PICK events : events = {record}
      OBVIOUS
    <3>2. RecordBatch(events) /\ Appends(c, key, events)
      BY <1>15, <2>2, <3>1 DEF RecordBatch
    <3>3. \A j \in DOMAIN archive' : RecordBatch(archive'[j].events)
      BY <3>2, BatchAppended
    <3> QED
      BY <2>2, <3>3, RecordsGo
  <2> QED
    BY <1>15, <2>1, <2>2
<1>16. ASSUME NEW p \in Callers, NEW kind \in ContinuityKinds, NEW title, NEW key, NEW i,
              RecordStep(p, kind, title, key, AfterStep(p, i))
       PROVE  RecordsInv'
  <2>1. PICK record : record = ContinuityRecord(kind, title, key, "active", {}, {})
    OBVIOUS
  <2>2. IsRecord(record)
    BY <2>1, RecordsAre
  <2>3. AfterStep(p, i) => \E pc, fields : Goes(p, pc, fields) /\ pc # "append"
    BY DEF AfterStep
  <2>4. \/ Appends(caller[p].conv, key, {record}) /\ AfterStep(p, i)
        \/ Ends(p) /\ UNCHANGED archive
    BY <1>16, <2>1 DEF RecordStep
  <2> QED
    BY <1>15, <2>2, <2>3, <2>4
<1>17. "handoff" \in ContinuityKinds /\ "next_step" \in ContinuityKinds
       /\ "failure" \in ContinuityKinds /\ "decision" \in ContinuityKinds
  BY DEF ContinuityKinds
<1>18. ASSUME NEW p \in Callers, RecordHandoff(p) \/ RecordNextStep(p) PROVE RecordsInv'
  BY <1>16, <1>17, <1>18 DEF RecordHandoff, RecordNextStep
<1>19. ASSUME NEW p \in Callers, WriteRecord(p) PROVE RecordsInv'
  <2>1. ASSUME NEW record, IsRecord(record), NEW key, Writes(p, record, key) PROVE RecordsInv'
    <3>1. Goes(p, "done", <<>>) => \E pc, fields : Goes(p, pc, fields) /\ pc # "append"
      OBVIOUS
    <3>2. \/ Appends(caller[p].conv, key, {record}) /\ Goes(p, "done", <<>>)
          \/ Ends(p) /\ UNCHANGED archive
      BY <2>1 DEF Writes
    <3> QED
      BY <1>15, <2>1, <3>1, <3>2
  <2> QED
    BY <1>17, <1>19, <2>1, RecordsAre DEF WriteRecord
<1> QED
  BY <1>1, <1>2, <1>3, <1>6, <1>8, <1>9, <1>10, <1>11, <1>12, <1>13, <1>14, <1>18, <1>19
     DEF SessionsNext, CallerStep, sessionVars

-----------------------------------------------------------------------------
(* The records of a conversation stand at places of the ledger of their own. *)
LEMMA RecordsStand ==
    ASSUME SessionsType, RecordsInv, NEW c
    PROVE  RecordsAt(RecordsOf(c), Len(archive))
<1> DEFINE At0(e, i) == [f \in DOMAIN e \cup {"seq"} |-> IF f = "seq" THEN i ELSE e[f]]
<1>1. DOMAIN archive = 1 .. Len(archive)
  BY DEF SessionsType
<1>2. ASSUME NEW r \in RecordsOf(c)
      PROVE  \E i \in DOMAIN archive : \E e \in archive[i].events : e.type = "record" /\ r = At0(e, i)
  BY <1>2 DEF RecordsOf
<1>3. ASSUME NEW i, NEW e PROVE At0(e, i).seq = i /\ (IsRecord(e) => At0(e, i).kind = e.kind)
  BY DEF IsRecord
<1> HIDE DEF At0
<1>4. ASSUME NEW i \in DOMAIN archive, NEW e \in archive[i].events, e.type = "record"
      PROVE  IsRecord(e) /\ archive[i].events = {e}
  <2>1. RecordBatch(archive[i].events) /\ ~ NoRecords(archive[i].events)
    BY <1>4 DEF RecordsInv, NoRecords
  <2>2. PICK d : archive[i].events = {d} /\ IsRecord(d)
    BY <2>1 DEF RecordBatch
  <2> QED
    BY <2>2
<1>5. ASSUME NEW r \in RecordsOf(c) PROVE r.seq \in 1 .. Len(archive) /\ r.kind \in ContinuityKinds
  <2>1. PICK i \in DOMAIN archive : \E e \in archive[i].events : e.type = "record" /\ r = At0(e, i)
    BY <1>2
  <2>2. PICK e \in archive[i].events : e.type = "record" /\ r = At0(e, i)
    BY <2>1
  <2>3. IsRecord(e)
    BY <1>4, <2>2
  <2> QED
    BY <1>1, <1>3, <2>2, <2>3 DEF IsRecord
<1>6. ASSUME NEW r \in RecordsOf(c), NEW x \in RecordsOf(c), r.seq = x.seq PROVE r = x
  <2>1. PICK i \in DOMAIN archive : \E e \in archive[i].events : e.type = "record" /\ r = At0(e, i)
    BY <1>2
  <2>2. PICK e \in archive[i].events : e.type = "record" /\ r = At0(e, i)
    BY <2>1
  <2>3. PICK j \in DOMAIN archive : \E d \in archive[j].events : d.type = "record" /\ x = At0(d, j)
    BY <1>2
  <2>4. PICK d \in archive[j].events : d.type = "record" /\ x = At0(d, j)
    BY <2>3
  <2>5. i = j
    BY <1>3, <1>6, <2>2, <2>4
  <2>6. d = e
    BY <1>4, <2>2, <2>4, <2>5
  <2> QED
    BY <2>2, <2>4, <2>5, <2>6
<1> QED
  BY <1>5, <1>6 DEF RecordsAt

(* CurrentStateIsReplay, for every number of sessions, processes, records   *)
(* and batches: GetCurrentStateUseCase answers what a replay of the ledger *)
(* leaves, each record removing what it supersedes and, once it is not     *)
(* active, what it is related to.                                          *)
THEOREM CurrentStateIsReplayHolds == SessionsSpec => []CurrentStateIsReplay
<1> DEFINE Inv == SessionsType /\ RecordsInv
<1>1. SessionsInit => Inv
  BY TypeInit, RecordsInit
<1>2. Inv /\ [SessionsNext]_sessionVars => Inv'
  BY TypeNext, RecordsNext
<1>3. Inv => CurrentStateIsReplay
  <2> SUFFICES ASSUME SessionsType, RecordsInv, NEW c \in conversations
      PROVE  LET records == RecordsOf(c)
                 Apply(active, i) ==
                     LET here == {r \in records : r.seq = i}
                     IN {a \in active : \A r \in here : a.id \notin r.supersedes \cup (IF r.status = "active" THEN {} ELSE r.related)}
                            \cup {r \in here : r.status = "active"}
             IN UNION {ToSet(b) : b \in {CurrentState(records, FALSE, 0)[k] : k \in ContinuityKinds}}
                    = FoldLeft(Apply, {}, [i \in DOMAIN archive |-> i])
    BY DEF CurrentStateIsReplay
  <2>1. PICK n, records : n = Len(archive) /\ records = RecordsOf(c)
    OBVIOUS
  <2>2. n \in Nat /\ DOMAIN archive = 1 .. n /\ RecordsAt(records, n)
    BY <2>1, RecordsStand DEF SessionsType
  <2>3. UNION {ToSet(b) : b \in {CurrentState(records, FALSE, 0)[k] : k \in ContinuityKinds}}
            = Ledger!Fold(records, {}, [i \in DOMAIN archive |-> i])
    <3>1. Ledger!Fold(records, {}, [i \in DOMAIN archive |-> i]) = ActiveRecords(records)
      <4> DEFINE s == [i \in DOMAIN archive |-> i]
      <4>1. DOMAIN s = 1 .. n /\ \A i \in 1 .. n : s[i] = i
        BY <2>2
      <4> HIDE DEF s
      <4> QED
        BY <2>2, <4>1, Replay
    <3>2. UNION {ToSet(b) : b \in {CurrentState(records, FALSE, 0)[k] : k \in ContinuityKinds}}
              = ActiveRecords(records)
      BY <2>2, StateHolds
    <3> QED
      BY <3>1, <3>2
  <2>4. FoldLeft(LAMBDA active, i : Applied(RecordsOf(c), active, i), {}, [i \in DOMAIN archive |-> i])
            = Ledger!Fold(RecordsOf(c), {}, [i \in DOMAIN archive |-> i])
    BY DEF FoldLeft, MapThenFoldSet, Max, Ledger!Fold, Ledger!Greatest
  <2> QED
    BY <2>1, <2>3, <2>4 DEF Applied, Hides
<1> QED
  BY <1>1, <1>2, <1>3, PTL DEF SessionsSpec
=============================================================================
