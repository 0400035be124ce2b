----------------------------- MODULE StreamBridge -----------------------------
(***************************************************************************)
(* The Redis stream between ingestion and the event_outbox table: one      *)
(* consumer group, and in each worker process the loop that moves entries  *)
(* into the table (bridge_redis_stream_once of services/event_worker.py).  *)
(*                                                                         *)
(* An entry is known by its position in the stream.  A consumer reads its  *)
(* own pending entries first and new ones only when it has none pending.   *)
(* The rows of a batch are committed one by one, then the batch is         *)
(* acknowledged with one XACK, and only then is the next one read.         *)
(***************************************************************************)
EXTENDS Integers, Sequences, FiniteSets

CONSTANTS
    Ids,                \* events, by event_id; an entry carries one
    Consumers,          \* worker processes
    StreamBatchSize,    \* REDIS_STREAM_BATCH_SIZE
    StableConsumers,    \* those with EVENT_REDIS_STREAM_CONSUMER_ID set: the default holds the pid
    Deletable,          \* events of a client that the admin may delete
    MaxBridgeFailures,  \* bound: database and Redis calls of the bridge that fail
    MaxWorkerCrashes,   \* bound: worker restarts
    MaxEntries          \* bound: entries, when the bridge runs on its own

ASSUME StreamAssumption ==
    /\ StreamBatchSize \in Nat \ {0}
    /\ StableConsumers \subseteq Consumers
    /\ Deletable \subseteq Ids
    /\ MaxBridgeFailures \in Nat
    /\ MaxWorkerCrashes \in Nat
    /\ MaxEntries \in Nat

VARIABLES
    stream,       \* the events of the entries, in order
    group,        \* the consumer group: what was read, acknowledged, is pending
    bridge,       \* bridge[c]: the batch worker c has in memory
    rows,         \* event_outbox rows inserted for each event
    deleted,      \* events whose client is gone
    bridgeSpent   \* how much of each bound a behaviour has used

streamVars == <<stream, group, bridge, rows, deleted, bridgeSpent>>

NoBatch == [active |-> FALSE, todo |-> {}, ack |-> {}]

\* Positions are those the group has read, and it reads what is in the stream.
StreamTypeOK ==
    /\ stream \in Seq(Ids)
    /\ group.read \in 0 .. Len(stream)
    /\ group \in [read: Nat, acked: SUBSET (1 .. group.read), orphaned: SUBSET (1 .. group.read),
                  pending: [Consumers -> SUBSET (1 .. group.read)]]
    /\ bridge \in [Consumers -> [active: BOOLEAN, todo: SUBSET (1 .. group.read),
                                 ack: SUBSET (1 .. group.read)]]
    /\ rows \in [Ids -> Nat]
    /\ deleted \in SUBSET Ids
    /\ bridgeSpent \in [failures: Nat, crashes: Nat]

StreamInit ==
    /\ stream = <<>>
    /\ group = [read |-> 0, acked |-> {}, orphaned |-> {},
                pending |-> [c \in Consumers |-> {}]]
    /\ bridge = [c \in Consumers |-> NoBatch]
    /\ rows = [e \in Ids |-> 0]
    /\ deleted = {}
    /\ bridgeSpent = [failures |-> 0, crashes |-> 0]

-----------------------------------------------------------------------------

\* The first n of a set of positions.
FirstOf(S, n) == {i \in S : Cardinality({j \in S : j < i}) < n}

StartBatch(c, batch) ==
    bridge' = [bridge EXCEPT ![c] = [active |-> TRUE, todo |-> batch, ack |-> {}]]

\* Fault: new entries only are asked for.
PendingIgnored(c) == {}

\* The answer to XREADGROUP 0: what this consumer has read and not acknowledged.
Pending(c) == FirstOf(group.pending[c], StreamBatchSize)

ReadPending(c) ==
    /\ ~bridge[c].active
    /\ Pending(c) # {}
    /\ StartBatch(c, Pending(c))
    /\ UNCHANGED <<stream, group, rows, deleted, bridgeSpent>>

\* Fault: entries are acknowledged when they are read (NOACK).
ReadNewNoAck(c) ==
    LET batch == FirstOf(group.read + 1 .. Len(stream), StreamBatchSize)
    IN /\ ~bridge[c].active
       /\ Pending(c) = {}
       /\ batch # {}
       /\ group' = [group EXCEPT !.read = @ + Cardinality(batch), !.acked = @ \cup batch]
       /\ StartBatch(c, batch)
       /\ UNCHANGED <<stream, rows, deleted, bridgeSpent>>

\* Fault: a plain XREAD, that gives an entry to every worker.
ReadNewShared(c) ==
    LET batch == FirstOf((1 .. Len(stream)) \ group.acked, StreamBatchSize)
    IN /\ ~bridge[c].active
       /\ Pending(c) = {}
       /\ batch # {}
       /\ group' = [group EXCEPT !.read = Len(stream), !.pending[c] = @ \cup batch]
       /\ StartBatch(c, batch)
       /\ UNCHANGED <<stream, rows, deleted, bridgeSpent>>

\* Fault: the group does not move on.
ReadNewAgain(c) ==
    LET batch == FirstOf(group.read + 1 .. Len(stream), StreamBatchSize)
    IN /\ ~bridge[c].active
       /\ Pending(c) = {}
       /\ batch # {}
       /\ group' = [group EXCEPT !.pending[c] = @ \cup batch]
       /\ StartBatch(c, batch)
       /\ UNCHANGED <<stream, rows, deleted, bridgeSpent>>

\* XREADGROUP >, after a read of 0 that returned nothing.
ReadNew(c) ==
    LET batch == FirstOf(group.read + 1 .. Len(stream), StreamBatchSize)
    IN /\ ~bridge[c].active
       /\ Pending(c) = {}
       /\ batch # {}
       /\ group' = [group EXCEPT !.read = @ + Cardinality(batch), !.pending[c] = @ \cup batch]
       /\ StartBatch(c, batch)
       /\ UNCHANGED <<stream, rows, deleted, bridgeSpent>>

\* One entry of the batch, in order: its row is inserted and committed ...
Bridged(c, i, acked) ==
    bridge' = [bridge EXCEPT ![c].todo = @ \ {i},
                             ![c].ack = IF acked THEN @ \cup {i} ELSE @]

IsNext(c, i) == bridge[c].active /\ FirstOf(bridge[c].todo, 1) = {i}

BridgeEntry(c) ==
    \E i \in bridge[c].todo :
        /\ IsNext(c, i)
        /\ stream[i] \notin deleted
        /\ rows' = [rows EXCEPT ![stream[i]] = @ + 1]
        /\ Bridged(c, i, TRUE)
        /\ UNCHANGED <<stream, group, deleted, bridgeSpent>>

\* ... or is refused for good: the foreign key to clients is broken ...
BridgeRefused(c) ==
    \E i \in bridge[c].todo :
        /\ IsNext(c, i)
        /\ stream[i] \in deleted
        /\ Bridged(c, i, FALSE)
        /\ UNCHANGED <<stream, group, rows, deleted, bridgeSpent>>

\* ... or the commit fails, before or after it took effect.
BridgeFails(c) ==
    \E i \in bridge[c].todo :
        /\ IsNext(c, i)
        /\ stream[i] \notin deleted
        /\ bridgeSpent.failures < MaxBridgeFailures
        /\ \/ UNCHANGED rows
           \/ rows' = [rows EXCEPT ![stream[i]] = @ + 1]
        /\ Bridged(c, i, FALSE)
        /\ bridgeSpent' = [bridgeSpent EXCEPT !.failures = @ + 1]
        /\ UNCHANGED <<stream, group, deleted>>

\* Fault: the whole batch is acknowledged.
AckBatch(c) ==
    /\ bridge[c].active
    /\ bridge[c].todo = {}
    /\ group' = [group EXCEPT !.pending[c] = {}, !.acked = @ \cup group.pending[c]]
    /\ bridge' = [bridge EXCEPT ![c] = NoBatch]
    /\ UNCHANGED <<stream, rows, deleted, bridgeSpent>>

\* XACK of the entries that were bridged; the others stay pending.
Ack(c) ==
    /\ bridge[c].active
    /\ bridge[c].todo = {}
    /\ group' = [group EXCEPT !.pending[c] = @ \ bridge[c].ack,
                              !.acked = @ \cup bridge[c].ack]
    /\ bridge' = [bridge EXCEPT ![c] = NoBatch]
    /\ UNCHANGED <<stream, rows, deleted, bridgeSpent>>

\* XACK fails before or after it took effect: the loop logs it and reads again.
AckFails(c) ==
    /\ bridge[c].active
    /\ bridge[c].todo = {}
    /\ bridge[c].ack # {}
    /\ bridgeSpent.failures < MaxBridgeFailures
    /\ bridgeSpent' = [bridgeSpent EXCEPT !.failures = @ + 1]
    /\ \/ UNCHANGED group
       \/ group' = [group EXCEPT !.pending[c] = @ \ bridge[c].ack,
                                 !.acked = @ \cup bridge[c].ack]
    /\ bridge' = [bridge EXCEPT ![c] = NoBatch]
    /\ UNCHANGED <<stream, rows, deleted>>

\* The process is restarted.  Under a new consumer id it never asks for the
\* entries of the old one, and nothing claims them.
WorkerCrash(c) ==
    /\ bridgeSpent.crashes < MaxWorkerCrashes
    /\ bridgeSpent' = [bridgeSpent EXCEPT !.crashes = @ + 1]
    /\ bridge' = [bridge EXCEPT ![c] = NoBatch]
    /\ group' = IF c \in StableConsumers THEN group
                ELSE [group EXCEPT !.pending[c] = {},
                                   !.orphaned = @ \cup group.pending[c]]
    /\ UNCHANGED <<stream, rows, deleted>>

\* The admin deletes a client, with its rows; its stream entries stay.
DeleteClient ==
    /\ deleted # Deletable
    /\ deleted' = Deletable
    /\ rows' = [e \in Ids |-> IF e \in Deletable THEN 0 ELSE rows[e]]
    /\ UNCHANGED <<stream, group, bridge, bridgeSpent>>

\* XADD of an entry for e.
Xadd(e) == stream' = Append(stream, e)

\* Whoever ingests events, when the bridge is looked at on its own.
Produce ==
    /\ Len(stream) < MaxEntries
    /\ \E e \in Ids \ deleted : Xadd(e)
    /\ UNCHANGED <<group, bridge, rows, deleted, bridgeSpent>>

BridgeStep(c) ==
    \/ ReadPending(c) \/ ReadNew(c) \/ BridgeEntry(c) \/ BridgeRefused(c)
    \/ BridgeFails(c) \/ Ack(c) \/ AckFails(c)

BridgeNext == Produce \/ DeleteClient \/ \E c \in Consumers : BridgeStep(c) \/ WorkerCrash(c)

BridgeSpec == StreamInit /\ [][BridgeNext]_streamVars

\* The loop of bridge_redis_stream_forever goes on for ever.
BridgeFairness == \A c \in Consumers : WF_streamVars(BridgeStep(c))

FairBridgeSpec == BridgeSpec /\ BridgeFairness

-----------------------------------------------------------------------------
(* What must hold.                                                          *)

\* An entry leaves the pending list only when its row is committed: whatever
\* was read is acknowledged and in the table, or pending, or of a dead consumer.
AckedHasRow ==
    \A i \in 1 .. group.read :
        \/ i \in group.acked /\ (rows[stream[i]] > 0 \/ stream[i] \in deleted)
        \/ i \in group.orphaned
        \/ \E c \in Consumers : i \in group.pending[c]

\* An entry is inserted once, and once more only for a commit or an XACK that
\* failed or a worker that was restarted in the middle of its batch.
RowPerEntry ==
    \A e \in Ids :
        rows[e] <= Cardinality({i \in 1 .. Len(stream) : stream[i] = e})
                       * (1 + bridgeSpent.failures + bridgeSpent.crashes)

\* Every entry is bridged and acknowledged in the end, also after failures,
\* unless its consumer died under an id that does not return, or a deleted
\* client's entries block the workers.
EventuallyBridged ==
    \A i \in 1 .. MaxEntries :
        i <= Len(stream) ~> i \in group.acked \/ i \in group.orphaned \/ deleted # {}

\* What event_worker.py:2-5 and models/event_outbox.py:8 promise: every accepted
\* event comes to the table.
AllBridged ==
    \A i \in 1 .. MaxEntries :
        i <= Len(stream) ~> i \in 1 .. Len(stream) /\ rows[stream[i]] > 0

=============================================================================
