------------------------- MODULE ContinuityRecords -------------------------
(* Continuity records: events of the ledger that say what an agent decided, *)
(* did and has to do next, the state that is read off them, and the block   *)
(* of text in which a task recalls it. A record is one event; seq is its    *)
(* place in the conversation. Titles and contents are opaque.               *)
EXTENDS Integers, FiniteSets, SequencesExt

CONSTANTS Unkeyed,        \* no idempotency key
          DetailTokens,   \* tokens of a record's line with its content
          TitleTokens     \* tokens of its title alone, and of any other line

ContinuityKinds ==
    {"goal", "decision", "constraint", "progress", "next_step", "handoff", "verification", "failure",
     "open_question", "artifact_change", "session_summary"}

(* RecordContinuityUseCase: a record goes by its idempotency key, and one  *)
(* without a key by its kind and title.                                    *)
ContinuityRecord(kind, title, key, status, supersedes, related) ==
    [type |-> "record", id |-> IF key = Unkeyed THEN <<kind, title>> ELSE key, kind |-> kind, title |-> title,
     status |-> status, supersedes |-> supersedes, related |-> related]

(* MarkContinuityRecordUseCase *)
Marker(target, status, key) ==
    ContinuityRecord("session_summary", <<target, status>>, key, status, {target}, {target})

-----------------------------------------------------------------------------
(* GetCurrentStateUseCase, over the records of a conversation *)

(* Mutant: a record takes its own id away too. *)
SuppressedMutant(records, r) ==
    \E m \in records :
        /\ r.seq <= m.seq
        /\ r.id \in m.supersedes \/ (m.status # "active" /\ r.id \in m.related)

Suppressed(records, r) ==
    \E m \in records :
        /\ r.seq < m.seq
        /\ r.id \in m.supersedes \/ (m.status # "active" /\ r.id \in m.related)

ActiveRecords(records) == {r \in records : r.status = "active" /\ ~ Suppressed(records, r)}

(* The next steps come oldest first, everything else newest first.         *)
Bucket(records, kind) ==
    LET ofKind == {r \in records : r.kind = kind}
        Rank(r) == Cardinality({x \in ofKind : IF kind = "next_step" THEN x.seq < r.seq ELSE x.seq > r.seq})
    IN SubSeq([i \in 1..Cardinality(ofKind) |-> CHOOSE r \in ofKind : Rank(r) = i - 1], 1, Cardinality(ofKind))

Limited(bucket, limit) == SubSeq(bucket, 1, IF limit < 1 \/ limit > Len(bucket) THEN Len(bucket) ELSE limit)

CurrentState(records, includeStale, limitPerKind) ==
    LET visible == IF includeStale THEN records ELSE ActiveRecords(records)
    IN [kind \in ContinuityKinds |-> Limited(Bucket(visible, kind), limitPerKind)]

(* GetNextStepsUseCase *)
NextSteps(records, limit) ==
    IF limit < 1 THEN <<>> ELSE Limited(CurrentState(records, FALSE, 0)["next_step"], limit)

-----------------------------------------------------------------------------
(* RecallForTaskUseCase. A line has the section it stands in, its tokens,   *)
(* the tokens of its compact form (0 for none) and the round of trimming in *)
(* which it gives way (0 for never).                                        *)

RecallLine(section, of, tokens, compact, round) ==
    [section |-> section, of |-> of, tokens |-> tokens, compact |-> compact, round |-> round]

Lines(bucket, section, compact, round) ==
    [i \in DOMAIN bucket |-> RecallLine(section, bucket[i].id, DetailTokens, compact, round)]

(* found: how many ids materializeContext brought up for the task. Other   *)
(* ids are those of the events that hold the records.                      *)
RecallLines(records, found) ==
    LET state == CurrentState(records, FALSE, 0)
        progress == Lines(state["progress"], "Progress", 0, 1)
        handoffs == Lines(state["handoff"], "Progress", 0, 3)
        First(lines, f, value) == IF lines = <<>> THEN lines ELSE [lines EXCEPT ![1] = [@ EXCEPT ![f] = value]]
    IN Lines(state["goal"], "Goal", 0, 0) \o Lines(state["next_step"], "Next steps", 0, 0)
       \o Lines(state["decision"], "Decisions", 0, 0) \o Lines(state["constraint"], "Constraints", 0, 0)
       \o First(progress, "round", 0) \o Lines(state["session_summary"], "Progress", 0, 2)
       \o First(handoffs, "compact", TitleTokens)
       \o Lines(state["verification"], "Verification", TitleTokens, 4)
       \o Lines(state["failure"], "Failures and risks", 0, 0)
       \o Lines(state["open_question"], "Open questions", TitleTokens, 5)
       \o [i \in 1..(Cardinality(ActiveRecords(records)) + found) |-> RecallLine("Evidence", <<>>, TitleTokens, 0, 6)]
       \o [i \in 1..3 |-> RecallLine("Why recalled", <<>>, TitleTokens, 0, 0)]

(* render: a first line, and a line that names each section.               *)
BlockTokens(lines) ==
    TitleTokens * (1 + Cardinality({l.section : l \in ToSet(lines)}))
        + FoldLeft(LAMBDA sum, l : sum + l.tokens, 0, lines)

(* One round of trimToBudget: lines take their compact form, and if that   *)
(* is not enough those that have none go.                                  *)
TrimRound(lines, budget, round) ==
    LET compacted == [i \in DOMAIN lines |->
            IF lines[i].round = round /\ lines[i].compact # 0 THEN [lines[i] EXCEPT !.tokens = lines[i].compact]
            ELSE lines[i]]
    IN IF BlockTokens(lines) <= budget THEN lines
       ELSE IF BlockTokens(compacted) <= budget THEN compacted
       ELSE SelectSeq(compacted, LAMBDA l : l.round # round \/ l.compact # 0)

(* What six rounds leave, else the first line that says why (the apology   *)
(* that is tried next is as long as that), else the heading, if it fits.   *)
RecallBlock(records, found, budget) ==
    LET trimmed == FoldLeft(LAMBDA lines, round : TrimRound(lines, budget, round), RecallLines(records, found),
                            <<1, 2, 3, 4, 5, 6>>)
        why == SubSeq(SelectSeq(trimmed, LAMBDA l : l.section = "Why recalled"), 1, 1)
    IN IF BlockTokens(trimmed) <= budget THEN [text |-> TRUE, lines |-> trimmed]
       ELSE IF BlockTokens(why) <= budget THEN [text |-> TRUE, lines |-> why]
       ELSE [text |-> BlockTokens(<<>>) <= budget, lines |-> <<>>]
=============================================================================
