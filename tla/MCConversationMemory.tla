------------------------ MODULE MCConversationMemory ------------------------
(* Constants for model-checking ConversationMemory, and statements of the  *)
(* code and of its documents that the interleavings break.                 *)
EXTENDS ConversationMemory, TLC

CONSTANTS c1, c2, k1, k2

MCSymmetry == Permutations(Clients) \cup Permutations(Compactors)

User(n) == [tokens |-> n, system |-> FALSE]
System(n) == [tokens |-> n, system |-> TRUE]

(* A batch of two under an idempotency key, a call that uses the same key  *)
(* for something else, and a system message.                               *)
MCRequests ==
    {[key |-> 1, payload |-> 1, events |-> <<User(2), User(1)>>],
     [key |-> 1, payload |-> 2, events |-> <<User(2)>>],
     [key |-> 2, payload |-> 1, events |-> <<System(2)>>]}

(* Four messages at once.                                                  *)
MCLongRequests ==
    {[key |-> NoKey, payload |-> 1, events |-> <<User(2), User(1), User(1), User(1)>>]}

(* "Context references unknown message" is an InvariantViolationError: a   *)
(* compaction resolves every message of the context it read.               *)
SnapshotResolves == \A c \in Compactors : compactor[c].outcome # "unknown_message"

(* Of two compactions that replace the same version, one succeeds and the  *)
(* other throws StaleContextVersionError (and retries).                    *)
StaleIsRetried == \A c \in Compactors : compactor[c].outcome # "out_of_range"

(* "schedule async compaction if over soft": a context over the threshold  *)
(* has had a job enqueued since it last was within.                        *)
OverSoftIsScheduled ==
    getContextTokenCount(ledger, nodes, context) > Soft => scheduled
=============================================================================
