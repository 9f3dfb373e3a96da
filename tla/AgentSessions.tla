--------------------------- MODULE AgentSessions ---------------------------
(* The processes that connect an agent's host to the memory: hook commands  *)
(* of Claude Code, requests of the MCP server, the cockpit CLI. Each one    *)
(* resolves its session to a conversation through a file of bindings that   *)
(* all of them rewrite; PreCompact and Stop archive the transcript and note *)
(* in a second file how far they got; Stop leaves a handoff. Any of them    *)
(* can be killed between two steps. Appending is one transaction, which     *)
(* ConversationMemory describes.                                            *)
EXTENDS ContinuityRecords

CONSTANTS Sessions,      \* runtime sessions, each of one runtime
          NoSession,
          ParentOf,      \* the session that a sub-agent's session names, or NoSession
          Cockpit,       \* sessions of the CLI, which creates conversations
          Callers,       \* processes
          Casts          \* bounds of the model: sessions and kinds of calls that
                         \* take part, last messages that a Stop reports, what
                         \* each line of a transcript says if it is a message
                         \* (so many lines there are), how many calls and crashes

ASSUME SessionsAssumption ==
    /\ ParentOf \in [Sessions -> Sessions \cup {NoSession}]
    /\ \A c \in Casts : c.sessions \subseteq Sessions

VARIABLES
    transcript,     \* of each session, lines: "step", "other" or "torn"
    conversations,  \* the ids that the database has
    issued,         \* ids that were made up
    files,          \* "bindings", "checkpoints": torn, contested by two writers, rows
    archive,        \* the ledger, as the batches that were appended
    caller,         \* what each process is at
    cast, calls, crashes,
    mishaps         \* history: <<"rebound">>, <<"rearchived">>, and lines that were read torn

sessionVars == <<transcript, conversations, issued, files, archive, caller, cast, calls, crashes, mishaps>>

Files == {"bindings", "checkpoints"}

Idle == [pc |-> "idle"]

(* A host may have bound a session itself to a conversation that exists;   *)
(* no file is an empty one.                                                *)
SessionsInit ==
    /\ cast \in Casts
    /\ transcript = [s \in Sessions |-> <<>>]
    /\ \E bound \in {{}, {s \in Sessions : ParentOf[s] = NoSession}} :
        /\ conversations = IF bound = {} THEN {} ELSE {1}
        /\ issued = Cardinality(conversations)
        /\ files = [f \in Files |-> [torn |-> FALSE, contested |-> FALSE,
               rows |-> IF f = "bindings" THEN {[session |-> s, conv |-> 1, parent |-> 0] : s \in bound} ELSE {}]]
    /\ archive = <<>>
    /\ caller = [p \in Callers |-> Idle]
    /\ calls = 0 /\ crashes = 0 /\ mishaps = {}

Row(file, s) == {r \in files[file].rows : r.session = s}

-----------------------------------------------------------------------------
(* Claude Code writes the transcript, the last line maybe not in one go.   *)

WriteLine(s, line) ==
    LET lines == transcript[s]
        last == Len(lines)
    IN /\ s \notin Cockpit
       /\ IF last > 0 /\ lines[last] = "torn"
          THEN line # "torn" /\ transcript' = [transcript EXCEPT ![s][last] = line]
          ELSE last < Len(cast.texts) /\ transcript' = [transcript EXCEPT ![s] = Append(@, line)]
       /\ UNCHANGED <<conversations, issued, files, archive, caller, cast, calls, crashes, mishaps>>

-----------------------------------------------------------------------------
(* One process from its start to its end *)

At(p, pc) == caller[p].pc = pc

(* The process goes on at pc, and keeps of what it read only the fields.   *)
Goes(p, pc, fields) ==
    caller' = [caller EXCEPT ![p] =
        [f \in {"pc", "kind", "session", "last", "conv", "appended"} \cup DOMAIN fields |->
            IF f = "pc" THEN pc ELSE IF f \in DOMAIN fields THEN fields[f] ELSE @[f]]]

(* An error ends the command; a hook that had appended and had not noted   *)
(* it yet leaves lines to be appended again.                               *)
Ends(p) ==
    /\ caller' = [caller EXCEPT ![p] = Idle]
    /\ mishaps' = mishaps \cup {m \in {<<"rearchived">>} : caller[p].appended}

Begin(p, kind, s, last) ==
    /\ caller[p].pc \in {"idle", "done"} /\ calls < cast.calls
    /\ kind \in {"PreCompact", "Stop"} => s \notin Cockpit
    /\ calls' = calls + 1
    /\ caller' = [caller EXCEPT ![p] =
           [pc |-> "find", kind |-> kind, session |-> s, last |-> last, conv |-> 0, appended |-> FALSE]]
    /\ UNCHANGED <<transcript, conversations, issued, files, archive, cast, crashes, mishaps>>

Crash(p) ==
    /\ caller[p].pc \notin {"idle", "done"} /\ crashes < cast.crashes
    /\ crashes' = crashes + 1
    /\ Ends(p)
    /\ UNCHANGED <<transcript, conversations, issued, files, archive, cast, calls>>

(* Two processes are between the read of a file and its rewriting, for one *)
(* session or, once they have read the file as a whole, for any.           *)
Overlaps(p, pcs, anySession) ==
    \E q \in Callers \ {p} :
        caller[q].pc \in pcs /\ (anySession \/ caller[q].session = caller[p].session)

Unbound == {"parent", "create", "read_file", "truncate", "write"}

(* What a process does with the conversation, once it has it.              *)
Purpose(kind) == IF kind \in {"PreCompact", "Stop"} THEN "checkpoint" ELSE "record"

(* resolveSessionBinding: find; a file that is not JSON fails every call.  *)
Find(p) ==
    LET s == caller[p].session
        mine == Row("bindings", s)
        conv == IF mine = {} THEN 0 ELSE (CHOOSE r \in mine : TRUE).conv
    IN /\ At(p, "find")
       /\ IF files["bindings"].torn THEN Ends(p)
          ELSE /\ Goes(p, IF ParentOf[s] # NoSession THEN "parent"
                          ELSE IF mine = {} THEN "create" ELSE Purpose(caller[p].kind),
                       [conv |-> conv, parent |-> 0, lineage |-> {r.parent : r \in mine}])
               /\ mishaps' = mishaps \cup {m \in {<<"rebound">>} : mine = {} /\ Overlaps(p, Unbound, FALSE)}
       /\ UNCHANGED <<transcript, conversations, issued, files, archive, cast, calls, crashes>>

(* A parent that is not bound fails, and so does one that an existing      *)
(* binding contradicts; an existing binding without a parent stays so.     *)
FindParent(p) ==
    LET above == Row("bindings", ParentOf[caller[p].session])
        parent == (CHOOSE r \in above : TRUE).conv
        Refused == \/ files["bindings"].torn \/ above = {}
                   \/ caller[p].conv # 0 /\ ~ (caller[p].lineage \subseteq {0, parent})
    IN /\ At(p, "parent")
       /\ IF Refused THEN Ends(p)
          ELSE /\ Goes(p, IF caller[p].conv = 0 THEN "create" ELSE Purpose(caller[p].kind), [parent |-> parent])
               /\ UNCHANGED mishaps
       /\ UNCHANGED <<transcript, conversations, issued, files, archive, cast, calls, crashes>>

(* Only the CLI creates the conversation; the hooks and the MCP server     *)
(* bind an id that nobody stores.                                          *)
CreateBinding(p) ==
    LET conv == issued + 1
        row == [session |-> caller[p].session, conv |-> conv, parent |-> caller[p].parent]
        stores == caller[p].session \in Cockpit
    IN /\ At(p, "create")
       /\ IF stores /\ caller[p].parent \notin conversations \cup {0}
          THEN Ends(p) /\ UNCHANGED <<conversations, issued>>
          ELSE /\ issued' = conv
               /\ conversations' = conversations \cup {c \in {conv} : stores}
               /\ Goes(p, "read_file", [file |-> "bindings", row |-> row, conv |-> conv])
               /\ UNCHANGED mishaps
       /\ UNCHANGED <<transcript, files, archive, cast, calls, crashes>>

(* Mutant: only the session's own row is written back. *)
WithRowMutant(rows, row) == {row}

(* All the rows but that of the session, and then its own.                 *)
WithRow(rows, row) == {r \in rows : r.session # row.session} \cup {row}

(* save: the file is read, truncated and written, in three steps. What two *)
(* write at the same time is the text of either, or of neither.            *)
ReadFile(p) ==
    LET file == caller[p].file
        others == {q \in Callers \ {p} : caller[q].pc \in {"truncate", "write"} /\ caller[q].file = file}
    IN /\ At(p, "read_file")
       /\ IF files[file].torn THEN Ends(p)
          ELSE /\ Goes(p, "truncate",
                       [file |-> file, rows |-> WithRow(files[file].rows, caller[p].row)])
               /\ mishaps' = IF others = {} THEN mishaps
                             ELSE mishaps \cup {IF file = "bindings" THEN <<"rebound">> ELSE <<"rearchived">>}
       /\ UNCHANGED <<transcript, conversations, issued, files, archive, cast, calls, crashes>>

TruncateFile(p) ==
    LET file == caller[p].file
        others == {q \in Callers \ {p} : At(q, "write") /\ caller[q].file = file}
    IN /\ At(p, "truncate")
       /\ files' = [files EXCEPT ![file] = [torn |-> TRUE, contested |-> others # {}, rows |-> {}]]
       /\ Goes(p, "write", [file |-> file, rows |-> caller[p].rows])
       /\ UNCHANGED <<transcript, conversations, issued, archive, cast, calls, crashes, mishaps>>

WriteFile(p) ==
    LET file == caller[p].file
        next == IF file = "bindings" THEN Purpose(caller[p].kind)
                ELSE IF caller[p].kind = "Stop" THEN "extract" ELSE "done"
    IN /\ At(p, "write")
       /\ \E torn \in {FALSE, files[file].contested} :
              files' = [files EXCEPT ![file].torn = torn, ![file].rows = IF torn THEN {} ELSE caller[p].rows]
       /\ Goes(p, next, [appended |-> FALSE])
       /\ UNCHANGED <<transcript, conversations, issued, archive, cast, calls, crashes, mishaps>>

-----------------------------------------------------------------------------
(* AppendLedgerEventsUseCase, as one step: a batch under a key is appended *)
(* once, and refused if the key was used for another.  Its events are a    *)
(* set: lines stand in a batch as they do in the transcript.               *)

Text(i) == cast.texts[i]

(* What is hashed of a batch: of its lines the texts in their order, not   *)
(* where they stand in the transcript; their session is in the key.        *)
Digest(events) ==
    {e \in events : e.type # "line"} \cup
    {[type |-> "line", session |-> e.session, text |-> Text(e.line),
      place |-> Cardinality({x \in events : x.type = "line" /\ x.line < e.line})] :
        e \in {x \in events : x.type = "line"}}

BatchesOf(c, key) == {b \in ToSet(archive) : key # Unkeyed /\ b.conv = c /\ b.key = key}

Appends(c, key, events) ==
    LET held == BatchesOf(c, key)
    IN /\ c \in conversations
       /\ \A b \in held : Digest(b.events) = Digest(events)
       /\ archive' = IF held = {} THEN Append(archive, [conv |-> c, key |-> key, events |-> events]) ELSE archive

(* ConversationNotFoundError, IdempotencyConflictError                      *)
AppendRefused(c, key, events) ==
    c \notin conversations \/ \E b \in BatchesOf(c, key) : Digest(b.events) # Digest(events)

-----------------------------------------------------------------------------
(* PreCompact and Stop: archive the transcript *)

Message(s, i) == [type |-> "line", session |-> s, line |-> i]

(* Mutant: the last line that the checkpoint counts is read again. *)
MessagesFromMutant(s, start) ==
    {Message(s, i) : i \in {j \in DOMAIN transcript[s] : j >= start /\ transcript[s][j] = "step"}}

(* The lines that hold a message: those of other tools, and one that is    *)
(* not JSON, are skipped but counted.                                      *)
MessagesFrom(s, start) ==
    {Message(s, i) : i \in {j \in DOMAIN transcript[s] : j > start /\ transcript[s][j] = "step"}}

Archiving == {"parse", "append", "read_file", "truncate", "write"}

GetCheckpoint(p) ==
    LET held == Row("checkpoints", caller[p].session)
    IN /\ At(p, "checkpoint")
       /\ IF files["checkpoints"].torn THEN Ends(p)
          ELSE /\ Goes(p, "parse", [start |-> IF held = {} THEN 0 ELSE (CHOOSE r \in held : TRUE).lines])
               /\ mishaps' = mishaps \cup {m \in {<<"rearchived">>} : Overlaps(p, Archiving, FALSE)}
       /\ UNCHANGED <<transcript, conversations, issued, files, archive, cast, calls, crashes>>

StopKey(p) == <<"Stop", caller[p].session, caller[p].last>>

(* parseTranscriptFile, and the key: that of PreCompact has the digest of  *)
(* the lines, that of Stop the last message of the assistant.  Lines that  *)
(* say what earlier ones said have their digest, and are taken for them.   *)
ParseTranscript(p) ==
    LET s == caller[p].session
        lines == MessagesFrom(s, IF caller[p].start <= Len(transcript[s]) THEN caller[p].start ELSE 0)
        stop == caller[p].kind = "Stop"
        key == IF stop THEN StopKey(p) ELSE <<"PreCompact", s, Digest(lines)>>
        events == lines \cup {e \in {[type |-> "closed", session |-> s, last |-> caller[p].last]} : stop}
    IN /\ At(p, "parse")
       /\ Goes(p, IF events = {} THEN "read_file" ELSE "append",
               [file |-> "checkpoints", key |-> key, events |-> events,
                row |-> [session |-> s, lines |-> Len(transcript[s])]])
       /\ mishaps' = mishaps \cup {<<"torn", s, i>> : i \in {j \in DOMAIN transcript[s] : transcript[s][j] = "torn"}}
       /\ UNCHANGED <<transcript, conversations, issued, files, archive, cast, calls, crashes>>

AppendTranscript(p) ==
    LET c == caller[p].conv
    IN /\ At(p, "append")
       /\ \/ /\ Appends(c, caller[p].key, caller[p].events)
             /\ Goes(p, "read_file", [appended |-> TRUE, file |-> "checkpoints", row |-> caller[p].row])
             /\ UNCHANGED mishaps
          \/ /\ AppendRefused(c, caller[p].key, caller[p].events)
             /\ Ends(p) /\ UNCHANGED archive
       /\ UNCHANGED <<transcript, conversations, issued, files, cast, calls, crashes>>

-----------------------------------------------------------------------------
(* Stop goes on to CreateHandoffUseCase: the handoff, then one record for  *)
(* each next step, each in a transaction of its own.                       *)

(* extractContinuityHandoffFromTranscript reads the file once more, whole; *)
(* a step that is repeated counts once (addUnique).                        *)
ExtractHandoff(p) ==
    LET lines == transcript[caller[p].session]
        Repeats(i) == \E j \in 1 .. i - 1 : lines[j] = "step" /\ Text(j) = Text(i)
        first == SelectSeq([i \in DOMAIN lines |-> i], LAMBDA i : lines[i] = "step" /\ ~ Repeats(i))
    IN /\ At(p, "extract")
       /\ Goes(p, "handoff", [steps |-> [k \in DOMAIN first |-> Text(first[k])]])
       /\ UNCHANGED <<transcript, conversations, issued, files, archive, cast, calls, crashes, mishaps>>

HandoffKey(p) == Append(StopKey(p), "handoff")

StepKey(p, i) == HandoffKey(p) \o <<"next-step", i - 1>>

RecordStep(p, kind, title, key, next) ==
    LET c == caller[p].conv
        events == {ContinuityRecord(kind, title, key, "active", {}, {})}
    IN /\ \/ Appends(c, key, events) /\ next /\ UNCHANGED mishaps
          \/ AppendRefused(c, key, events) /\ Ends(p) /\ UNCHANGED archive
       /\ UNCHANGED <<transcript, conversations, issued, files, cast, calls, crashes>>

(* Mutant: the last next step is not recorded. *)
AfterStepMutant(p, i) ==
    IF i + 1 >= Len(caller[p].steps) THEN Goes(p, "done", [steps |-> caller[p].steps])
    ELSE Goes(p, "next_step", [steps |-> caller[p].steps, at |-> i + 1])

(* Compaction follows, which changes nothing here.                         *)
AfterStep(p, i) ==
    IF i = Len(caller[p].steps) THEN Goes(p, "done", [steps |-> caller[p].steps])
    ELSE Goes(p, "next_step", [steps |-> caller[p].steps, at |-> i + 1])

RecordHandoff(p) ==
    /\ At(p, "handoff")
    /\ RecordStep(p, "handoff", caller[p].steps, HandoffKey(p), AfterStep(p, 0))

RecordNextStep(p) ==
    /\ At(p, "next_step")
    /\ LET i == caller[p].at
       IN RecordStep(p, "next_step", caller[p].steps[i], StepKey(p, i), AfterStep(p, i))

-----------------------------------------------------------------------------
(* Writes of the MCP tools, the CLI and PostToolUse: a record, which may   *)
(* take the place of another, or the mark that one is stale.               *)

RecordsOf(c) ==
    UNION {{[f \in DOMAIN e \cup {"seq"} |-> IF f = "seq" THEN i ELSE e[f]] :
                e \in {x \in archive[i].events : x.type = "record"}} :
        i \in {j \in DOMAIN archive : archive[j].conv = c}}

RecordIds(c) == {r.id : r \in RecordsOf(c)}

Writes(p, record, key) ==
    \/ Appends(caller[p].conv, key, {record}) /\ Goes(p, "done", <<>>) /\ UNCHANGED mishaps
    \/ AppendRefused(caller[p].conv, key, {record}) /\ Ends(p) /\ UNCHANGED archive

WriteRecord(p) ==
    LET ids == RecordIds(caller[p].conv)
        tool == <<"tool", caller[p].session>>
    IN /\ At(p, "record")
       /\ \/ /\ caller[p].kind = "PostToolUse"
             /\ Writes(p, ContinuityRecord("failure", "tool", tool, "active", {}, {}), tool)
          \/ /\ caller[p].kind = "Record"
             /\ \E S \in {{}} \cup {{id} : id \in ids} :
                    Writes(p, ContinuityRecord("decision", "d", Unkeyed, "active", S, {}), Unkeyed)
          \/ /\ caller[p].kind = "MarkStale"
             /\ \E id \in ids : Writes(p, Marker(id, "stale", Unkeyed), Unkeyed)
       /\ UNCHANGED <<transcript, conversations, issued, files, cast, calls, crashes>>

-----------------------------------------------------------------------------
CallerStep(p) ==
    \/ Find(p) \/ FindParent(p) \/ CreateBinding(p) \/ ReadFile(p) \/ TruncateFile(p) \/ WriteFile(p)
    \/ GetCheckpoint(p) \/ ParseTranscript(p) \/ AppendTranscript(p)
    \/ ExtractHandoff(p) \/ RecordHandoff(p) \/ RecordNextStep(p) \/ WriteRecord(p)

SessionsNext ==
    \/ \E s \in cast.sessions, line \in {"step", "other", "torn"} : WriteLine(s, line)
    \/ \E p \in Callers, kind \in cast.kinds, s \in cast.sessions :
           \E last \in IF kind = "Stop" THEN cast.messages ELSE {"none"} : Begin(p, kind, s, last)
    \/ \E p \in Callers : CallerStep(p) \/ Crash(p)

SessionsSpec == SessionsInit /\ [][SessionsNext]_sessionVars

-----------------------------------------------------------------------------
Times(s, i) == Cardinality({j \in DOMAIN archive : Message(s, i) \in archive[j].events})

(* A line of the session that says what line i says is in the ledger.      *)
Said(s, i) ==
    \E j \in DOMAIN archive : \E e \in archive[j].events :
        e.type = "line" /\ e.session = s /\ Text(e.line) = Text(i)

(* What a checkpoint says is archived is in the ledger, over every order   *)
(* of crashes, retries and concurrent hooks: every message it counts is    *)
(* there, and if its text is not repeated, that very line is.  More the    *)
(* code does not keep, although PreCompact tells the model that the full   *)
(* transcript is archived (pre-compact.ts:86): a line that was half        *)
(* written when it was read is counted and never read again, and lines     *)
(* that say just what an earlier batch said are taken for a retry of it    *)
(* and dropped (README, "Disagreements").  And nothing is archived twice,  *)
(* unless a hook stopped between appending and its checkpoint or two hooks *)
(* were between reading and writing theirs.                                *)
ArchivedExactlyOnce ==
    /\ \A r \in files["checkpoints"].rows : \A i \in 1..r.lines :
           transcript[r.session][i] = "step" => Said(r.session, i) \/ <<"torn", r.session, i>> \in mishaps
    /\ <<"rearchived">> \notin mishaps =>
           \A s \in Sessions : \A i \in DOMAIN transcript[s] : Times(s, i) <= 1

(* A session has one conversation, the one that every process resolved it  *)
(* to and that holds all that was archived for it, and a child's lineage   *)
(* is its parent's conversation, unless two processes were both between    *)
(* not finding a binding and saving one.                                   *)
BindingStable ==
    <<"rebound">> \notin mishaps =>
        \A s \in Sessions :
            LET used == {caller[p].conv : p \in {q \in Callers :
                             caller[q].pc \notin {"idle", "find"} \cup Unbound /\ caller[q].session = s}}
                archived == {archive[j].conv : j \in {k \in DOMAIN archive :
                                 \E e \in archive[k].events : e.type # "record" /\ e.session = s}}
                bound == Row("bindings", s)
            IN /\ Cardinality(used \cup archived \cup {r.conv : r \in bound}) <= 1
               /\ \A r \in bound : ParentOf[s] # NoSession =>
                      {r.parent} = {x.conv : x \in Row("bindings", ParentOf[s])}
               /\ \A x \in Sessions : \A r \in bound, y \in Row("bindings", x) : r.conv = y.conv => s = x \/ r.conv = 1

Budgets == {0, 6 * TitleTokens, 10 * TitleTokens, 14 * TitleTokens}

(* After a Stop that ended well, however often it was cut off and retried, *)
(* the current state has its handoff and its next steps, each once and in  *)
(* order, except what was marked or superseded; and a recall fits its      *)
(* budget and names all of that as long as what is never trimmed fits.     *)
HandoffRecalled ==
    \A p \in Callers : At(p, "done") /\ caller[p].kind = "Stop" =>
        LET records == RecordsOf(caller[p].conv)
            Hidden(id) == \E r \in records : id \in r.supersedes
            wanted == SelectSeq([i \in DOMAIN caller[p].steps |-> StepKey(p, i)], LAMBDA id : ~ Hidden(id))
            next == NextSteps(records, 10)
            lines == RecallLines(records, 0)
            lasting == SelectSeq(lines, LAMBDA l : l.round = 0 \/ l.compact # 0)
            least == BlockTokens([i \in DOMAIN lasting |->
                         IF lasting[i].compact = 0 THEN lasting[i] ELSE [lasting[i] EXCEPT !.tokens = @ - (DetailTokens - TitleTokens)]])
        IN /\ ~ Hidden(HandoffKey(p)) =>
                  Cardinality({r \in ToSet(CurrentState(records, FALSE, 0)["handoff"]) : r.id = HandoffKey(p)}) = 1
           /\ SelectSeq([i \in DOMAIN next |-> next[i].id], LAMBDA id : Contains(wanted, id)) = wanted
           /\ \A budget \in Budgets :
                  LET block == RecallBlock(records, 0, budget)
                  IN /\ block.text => BlockTokens(block.lines) <= budget
                     /\ least <= budget => {l.of : l \in ToSet(lasting)} \subseteq {l.of : l \in ToSet(block.lines)}

(* The current state is what a replay of the ledger leaves: a record       *)
(* removes what it supersedes, one that is not active also what it is      *)
(* related to, and then counts itself.                                     *)
CurrentStateIsReplay ==
    \A c \in conversations :
        LET records == RecordsOf(c)
            Apply(active, i) ==
                LET here == {r \in records : r.seq = i}
                IN {a \in active : \A r \in here : a.id \notin r.supersedes \cup (IF r.status = "active" THEN {} ELSE r.related)}
                       \cup {r \in here : r.status = "active"}
        IN UNION {ToSet(b) : b \in {CurrentState(records, FALSE, 0)[k] : k \in ContinuityKinds}}
               = FoldLeft(Apply, {}, [i \in DOMAIN archive |-> i])
=============================================================================
