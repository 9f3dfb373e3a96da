--------------------------- MODULE MCAgentMemory ---------------------------
(* What an agent's host asks of the memory: the three stores side by side,  *)
(* a read of the context while others write, the processes of several       *)
(* sessions, and the submission of operator runs.  The four share no state, *)
(* so that the behaviours checked are those of each of them alone.          *)
EXTENDS RetrievalUseCases, ContextMaterialization, AgentSessions, OperatorSubmission, TLC

CONSTANTS n1, n2, s1, s2, s3, c1, c2, p1, p2

VARIABLE scenario

memoryVars == <<storeVars, readVars, sessionVars, submissionVars, scenario>>

(* Texts are sets of words; "the" is a stop word, "z" a short one, and "Y"  *)
(* a cue.                                                                   *)
MCBatches ==
    {[texts |-> <<{"x", "the"}>>, key |-> "k"], [texts |-> <<{"x"}, {"x", "y"}>>, key |-> NoKey]}

MCQueries == {{"x", "y"}, {"the"}, {"x", "the"}}

Hint(query, scope, limit) == [query |-> query, scope |-> scope, limit |-> limit]

(* In the last a leaf over the first five messages can be compressed for    *)
(* one run of messages after it was compressed for another; in the one      *)
(* before, the artifact belongs to another conversation. One hint has an    *)
(* empty query.                                                             *)
MCReads ==
    LET plain == {"x"}
        cued == {"x", "Y"}
        short == {"z"}
        both == {"x", "z", "Y"}
        Read(texts, owner, budget, pins, hints) ==
            [texts |-> texts, owner |-> owner, request |-> [budget |-> budget, pins |-> pins, hints |-> hints]]
        five == <<plain, cued, short, short, plain>>
    IN {Read(five, 0, 8, {}, <<Hint({"x"}, NoScope, 2)>>),
        Read(five, 0, 5, {4}, <<Hint({"x", "Y"}, NoScope, 2)>>),
        Read(five, 0, 3, {0}, <<>>),
        Read(five, 0, 6, {}, <<Hint({"x"}, NoScope, 1), Hint({"Y", "z"}, n1, 1)>>),
        Read(five, 0, 8, {}, <<Hint({"z"}, n1, 1)>>),
        Read(five, 0, 8, {}, <<Hint({}, n1, 1), Hint({"x"}, NoScope, 1)>>),
        Read(<<cued, plain>>, 2, 8, {}, <<Hint({"x"}, NoScope, 2)>>),
        Read(<<cued, cued, short, short, cued, both>>, 0, 10, {}, <<Hint({"x", "Y"}, NoScope, 2)>>)}

MCFactTokens == <<2, 1>>

MCNewTexts == {{"x"}}

MCForms == {[tokens |-> 6, shown |-> FALSE], [tokens |-> 5, shown |-> TRUE]}

(* s2 is a sub-agent's session of s1's, s3 one of the CLI.                  *)
MCParentOf == [s \in Sessions |-> IF s = s2 THEN s1 ELSE NoSession]

CastOf(sessions, kinds, texts, messages, bound, kills) ==
    [sessions |-> sessions, kinds |-> kinds, texts |-> texts, messages |-> messages, calls |-> bound, crashes |-> kills]

(* In the second one says "go" twice. *)
MCCasts ==
    {CastOf({s1}, {"PreCompact"}, <<"go", "on">>, {"m"}, 2, 1),
     CastOf({s1}, {"PreCompact", "Stop"}, <<"go", "go">>, {"m"}, 2, 0),
     CastOf({s1}, {"PreCompact", "Stop"}, <<"go">>, {"m"}, 2, 1),
     CastOf({s1}, {"Stop", "MarkStale", "Record"}, <<"go">>, {"m"}, 3, 0),
     CastOf({s1}, {"Stop", "PostToolUse"}, <<"go", "on">>, {"m"}, 2, 0),
     CastOf({s1}, {"Stop"}, <<"go">>, {"m", "n"}, 2, 0),
     CastOf({s1, s2, s3}, {"Record"}, <<>>, {}, 3, 1)}

Asks(conv, kind, items, inline, key) ==
    [conv |-> conv, kind |-> kind, items |-> items, inline |-> inline, key |-> key]

(* One key for two inputs, one input with and without a key, from an        *)
(* artifact of either conversation, an empty one, an unknown conversation.  *)
MCSubmits ==
    {Asks(1, "llmMap", 2, TRUE, "k"), Asks(1, "llmMap", 2, FALSE, "k"), Asks(1, "llmMap", 2, TRUE, Anonymous),
     Asks(1, "agenticMap", 1, TRUE, "k"), Asks(1, "llmMap", 0, TRUE, "e"), Asks(2, "llmMap", 2, FALSE, "k"),
     Asks(3, "llmMap", 2, TRUE, "k")}

Interchangeable == Permutations({c1, c2}) \cup Permutations({p1, p2})

MemoryInit ==
    /\ scenario \in {"stores", "read", "sessions", "submission"}
    /\ StoresInit
    /\ IF scenario = "read" THEN MaterializeInit
       ELSE tables = EmptyTables /\ reader = [pc |-> "idle"] /\ changes = 0
    /\ SessionsInit
    /\ scenario # "sessions" => conversations = {} /\ cast = CHOOSE c \in MCCasts : TRUE
    /\ SubmissionInit
    /\ scenario # "submission" => engine = "memory" /\ stored = Nothing

MemoryNext ==
    \/ scenario = "stores" /\ StoresNext /\ UNCHANGED <<readVars, sessionVars, submissionVars, scenario>>
    \/ scenario = "read" /\ MaterializeNext /\ UNCHANGED <<storeVars, sessionVars, submissionVars, scenario>>
    \/ scenario = "sessions" /\ SessionsNext /\ UNCHANGED <<storeVars, readVars, submissionVars, scenario>>
    \/ scenario = "submission" /\ SubmissionNext /\ UNCHANGED <<storeVars, readVars, sessionVars, scenario>>

MemorySpec == MemoryInit /\ [][MemoryNext]_memoryVars

(* While the stores take the same calls, they agree on every read.          *)
StoresAlike == scenario = "stores" => StoresAgree
=============================================================================
