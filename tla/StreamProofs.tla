---------------------------- MODULE StreamProofs ----------------------------
(***************************************************************************)
(* Theorems about StreamBridge, for every set of workers and events, every *)
(* batch size and every bound: its types, that no entry leaves a pending   *)
(* list before its row is committed, and that an entry is inserted once    *)
(* for each failure or restart and once more.  The types need a fact about *)
(* reading: the batch of new entries is the next piece of the stream, so   *)
(* that the group's position moves over it and not beyond the stream.      *)
(***************************************************************************)
EXTENDS StreamBridge, FiniteSetTheorems, SequenceTheorems, TLAPS

-----------------------------------------------------------------------------
(* Types.                                                                   *)

\* A group and a worker's batch speak of the first n entries.
GroupType(n) ==
    [read: Nat, acked: SUBSET (1 .. n), orphaned: SUBSET (1 .. n),
     pending: [Consumers -> SUBSET (1 .. n)]]
BatchType(n) == [active: BOOLEAN, todo: SUBSET (1 .. n), ack: SUBSET (1 .. n)]

\* What was read stays so when more is read.
LEMMA GroupGrows ==
    ASSUME NEW m \in Nat, NEW n \in Nat, m <= n, NEW g \in GroupType(m), NEW k \in Nat
    PROVE  /\ g \in GroupType(n)
           /\ [g EXCEPT !.read = k] \in GroupType(n)
<1>1. 1 .. m \subseteq 1 .. n
  OBVIOUS
<1>2. g \in GroupType(n)
  BY <1>1 DEF GroupType
<1> QED BY <1>2 DEF GroupType

LEMMA BatchGrows ==
    ASSUME NEW m \in Nat, NEW n \in Nat, m <= n
    PROVE  BatchType(m) \subseteq BatchType(n)
<1>1. 1 .. m \subseteq 1 .. n
  OBVIOUS
<1> QED BY <1>1 DEF BatchType

\* The batch of new entries: the first k of the positions after a, up to b
NextOf(a, b, k) == FirstOf(a + 1 .. b, k)

\* They are the next k positions, or all there are.
LEMMA NextOfInterval ==
    ASSUME NEW a \in Nat, NEW b \in Nat, a <= b, NEW k \in Nat
    PROVE  /\ Cardinality(NextOf(a, b, k)) \in Nat
           /\ a + Cardinality(NextOf(a, b, k)) <= b
           /\ NextOf(a, b, k) = a + 1 .. a + Cardinality(NextOf(a, b, k))
<1> DEFINE F == NextOf(a, b, k)
           h == IF a + k <= b THEN a + k ELSE b
<1>1. ASSUME NEW i \in a + 1 .. b
      PROVE  Cardinality({j \in a + 1 .. b : j < i}) = i - a - 1
  <2>1. {j \in a + 1 .. b : j < i} = a + 1 .. i - 1
    OBVIOUS
  <2>2. i \in Int /\ a + 1 \in Int /\ i - 1 \in Int /\ a + 1 <= i
    OBVIOUS
  <2>3. Cardinality(a + 1 .. i - 1) = IF a + 1 > i - 1 THEN 0 ELSE (i - 1) - (a + 1) + 1
    BY <2>2, FS_Interval
  <2>4. Cardinality(a + 1 .. i - 1) = i - a - 1
    BY <2>2, <2>3
  <2> QED BY <2>1, <2>4
<1>2. F = {i \in a + 1 .. b : i - a - 1 < k}
  BY <1>1 DEF FirstOf, NextOf
<1>3. h \in Nat /\ a <= h /\ h <= b
  OBVIOUS
<1>4. F = a + 1 .. h
  <2>1. \A i \in Int : i \in a + 1 .. h <=> i \in a + 1 .. b /\ i - a - 1 < k
    OBVIOUS
  <2> HIDE DEF F, h
  <2> QED BY <1>2, <1>3, <2>1
<1>5. Cardinality(a + 1 .. h) = IF a + 1 > h THEN 0 ELSE h - (a + 1) + 1
  BY <1>3, FS_Interval
<1>6. Cardinality(F) = h - a
  BY <1>3, <1>4, <1>5
<1> HIDE DEF h
<1> QED BY <1>3, <1>4, <1>6

\* The first of a set are in the set.
LEMMA FirstOfSubset == \A S, n : FirstOf(S, n) \subseteq S
BY DEF FirstOf

\* The parts of StreamTypeOK that a step may touch
EntriesTyped == stream \in Seq(Ids) /\ group.read \in 0 .. Len(stream)
GroupTyped == group \in GroupType(group.read)
BridgeTyped == bridge \in [Consumers -> BatchType(group.read)]
RowsTyped ==
    /\ rows \in [Ids -> Nat] /\ deleted \in SUBSET Ids
    /\ bridgeSpent \in [failures: Nat, crashes: Nat]

LEMMA TypeParts == StreamTypeOK <=> EntriesTyped /\ GroupTyped /\ BridgeTyped /\ RowsTyped
BY DEF StreamTypeOK, EntriesTyped, GroupTyped, BridgeTyped, RowsTyped, GroupType, BatchType

LEMMA TypePartsNext == EntriesTyped' /\ GroupTyped' /\ BridgeTyped' /\ RowsTyped' => StreamTypeOK'
BY DEF StreamTypeOK, EntriesTyped, GroupTyped, BridgeTyped, RowsTyped, GroupType, BatchType

LEMMA TypeInit == StreamInit => StreamTypeOK
<1> SUFFICES ASSUME StreamInit PROVE StreamTypeOK
  OBVIOUS
<1>1. EntriesTyped
  BY DEF StreamInit, EntriesTyped
<1>2. GroupTyped
  BY DEF StreamInit, GroupTyped, GroupType
<1>3. BridgeTyped
  BY DEF StreamInit, BridgeTyped, BatchType, NoBatch
<1>4. RowsTyped
  BY DEF StreamInit, RowsTyped
<1> QED BY <1>1, <1>2, <1>3, <1>4, TypeParts

\* A batch of what was read, and its entries one by one
LEMMA BatchTypes ==
    ASSUME StreamTypeOK, NEW c \in Consumers
    PROVE  /\ NoBatch \in BatchType(group.read)
           /\ \A batch \in SUBSET (1 .. group.read) :
                 StartBatch(c, batch) => bridge' \in [Consumers -> BatchType(group.read)]
           /\ \A i \in bridge[c].todo, acked \in BOOLEAN :
                 Bridged(c, i, acked) => bridge' \in [Consumers -> BatchType(group.read)]
<1>1. bridge \in [Consumers -> BatchType(group.read)]
  BY TypeParts DEF BridgeTyped
<1>2. NoBatch \in BatchType(group.read)
  BY DEF NoBatch, BatchType
<1>3. ASSUME NEW batch \in SUBSET (1 .. group.read), StartBatch(c, batch)
      PROVE  bridge' \in [Consumers -> BatchType(group.read)]
  <2>1. [active |-> TRUE, todo |-> batch, ack |-> {}] \in BatchType(group.read)
    BY DEF BatchType
  <2> QED BY <1>1, <1>3, <2>1 DEF StartBatch
<1>4. ASSUME NEW i \in bridge[c].todo, NEW acked \in BOOLEAN, Bridged(c, i, acked)
      PROVE  bridge' \in [Consumers -> BatchType(group.read)]
  <2> DEFINE old == bridge[c]
             new == [old EXCEPT !.todo = @ \ {i}, !.ack = IF acked THEN @ \cup {i} ELSE @]
  <2>1. old \in BatchType(group.read)
    BY <1>1
  <2>2. new \in BatchType(group.read)
    BY <2>1 DEF BatchType
  <2>3. bridge' = [bridge EXCEPT ![c] = new]
    BY <1>4 DEF Bridged
  <2> QED BY <1>1, <2>2, <2>3
<1> QED BY <1>2, <1>3, <1>4

\* One XACK moves entries from the pending list of c to the acknowledged ones.
Acked(c) == [group EXCEPT !.pending[c] = @ \ bridge[c].ack, !.acked = @ \cup bridge[c].ack]

LEMMA AckTypes ==
    ASSUME StreamTypeOK, NEW c \in Consumers
    PROVE  Acked(c) \in GroupType(group.read) /\ Acked(c).read = group.read
<1>1. group \in GroupType(group.read) /\ bridge[c].ack \in SUBSET (1 .. group.read)
  BY TypeParts DEF GroupTyped, BridgeTyped, BatchType
<1>2. DOMAIN group = {"read", "acked", "orphaned", "pending"}
  BY <1>1 DEF GroupType
<1> QED BY <1>1, <1>2 DEF Acked, GroupType

\* Every step keeps the types.
LEMMA TypeNext == StreamTypeOK /\ [BridgeNext]_streamVars => StreamTypeOK'
<1> SUFFICES ASSUME StreamTypeOK, [BridgeNext]_streamVars PROVE StreamTypeOK'
  OBVIOUS
<1> USE StreamAssumption
<1>0. /\ EntriesTyped /\ GroupTyped /\ BridgeTyped /\ RowsTyped
      /\ group.read \in Nat /\ Len(stream) \in Nat /\ group.read <= Len(stream)
  BY TypeParts DEF EntriesTyped
<1>1. ASSUME UNCHANGED <<stream, group>>, BridgeTyped', RowsTyped' PROVE StreamTypeOK'
  <2>1. EntriesTyped' /\ GroupTyped'
    BY <1>0, <1>1 DEF EntriesTyped, GroupTyped, GroupType
  <2> QED BY <1>1, <2>1, TypePartsNext
<1>2. ASSUME Produce PROVE StreamTypeOK'
  <2>1. EntriesTyped'
    BY <1>0, <1>2, AppendProperties DEF Produce, Xadd, EntriesTyped
  <2>2. GroupTyped' /\ BridgeTyped' /\ RowsTyped'
    BY <1>0, <1>2 DEF Produce, GroupTyped, BridgeTyped, RowsTyped, GroupType, BatchType
  <2> QED BY <2>1, <2>2, TypePartsNext
<1>3. ASSUME DeleteClient PROVE StreamTypeOK'
  <2>1. BridgeTyped'
    BY <1>0, <1>3 DEF DeleteClient, BridgeTyped, BatchType
  <2>2. deleted' \in SUBSET Ids
    BY <1>3 DEF DeleteClient, StreamAssumption
  <2>3. rows' \in [Ids -> Nat]
    <3>1. rows' = [e \in Ids |-> IF e \in Deletable THEN 0 ELSE rows[e]]
      BY <1>3 DEF DeleteClient
    <3>2. \A e \in Ids : rows[e] \in Nat
      BY <1>0 DEF RowsTyped
    <3> QED BY <3>1, <3>2
  <2>4. RowsTyped'
    BY <1>0, <1>3, <2>2, <2>3 DEF DeleteClient, RowsTyped
  <2>5. UNCHANGED <<stream, group>>
    BY <1>3 DEF DeleteClient
  <2> QED BY <1>1, <2>1, <2>4, <2>5
<1>4. ASSUME NEW c \in Consumers, ReadPending(c) PROVE StreamTypeOK'
  <2>1. Pending(c) \in SUBSET (1 .. group.read)
    BY <1>0, FirstOfSubset DEF Pending, GroupTyped, GroupType
  <2>2. BridgeTyped' /\ RowsTyped'
    BY <1>0, <1>4, <2>1, BatchTypes DEF ReadPending, BridgeTyped, RowsTyped
  <2> QED BY <1>1, <1>4, <2>2 DEF ReadPending
<1>5. ASSUME NEW c \in Consumers, ReadNew(c) PROVE StreamTypeOK'
  <2> DEFINE batch == NextOf(group.read, Len(stream), StreamBatchSize)
             n == group.read + Cardinality(batch)
             g == [group EXCEPT !.read = n]
  <2>1. /\ Cardinality(batch) \in Nat /\ n <= Len(stream)
        /\ batch = group.read + 1 .. n
    <3>1. StreamBatchSize \in Nat
      OBVIOUS
    <3> QED BY <1>0, <3>1, NextOfInterval
  <2>2. group' = [group EXCEPT !.read = n, !.pending[c] = @ \cup batch]
    BY <1>5 DEF ReadNew, NextOf
  <2>3. UNCHANGED <<stream, rows, deleted, bridgeSpent>> /\ StartBatch(c, batch)
    BY <1>5 DEF ReadNew, NextOf
  <2> HIDE DEF batch
  <2>4. n \in Nat /\ group.read <= n /\ batch \in SUBSET (1 .. n)
    BY <1>0, <2>1
  <2>5. group' = [g EXCEPT !.pending[c] = @ \cup batch]
    BY <1>0, <2>2 DEF GroupTyped, GroupType
  <2> HIDE DEF n
  <2>6. g \in GroupType(n) /\ g.read = n
    <3>1. group \in GroupType(group.read)
      BY <1>0 DEF GroupTyped
    <3>2. g \in GroupType(n)
      BY <1>0, <2>4, <3>1, GroupGrows
    <3>3. g.read = n
      BY <3>1 DEF GroupType
    <3> QED BY <3>2, <3>3
  <2>7. group' \in GroupType(n) /\ group'.read = n
    BY <2>4, <2>5, <2>6 DEF GroupType
  <2>8. EntriesTyped' /\ GroupTyped' /\ RowsTyped'
    BY <1>0, <2>1, <2>3, <2>4, <2>7 DEF EntriesTyped, GroupTyped, RowsTyped
  <2>9. [active |-> TRUE, todo |-> batch, ack |-> {}] \in BatchType(n)
    BY <2>4 DEF BatchType
  <2>10. bridge \in [Consumers -> BatchType(n)]
    BY <1>0, <2>4, BatchGrows DEF BridgeTyped
  <2>11. BridgeTyped'
    BY <2>3, <2>7, <2>9, <2>10 DEF BridgeTyped, StartBatch
  <2> QED BY <2>8, <2>11, TypePartsNext
<1>6. ASSUME NEW c \in Consumers, BridgeEntry(c) \/ BridgeRefused(c) \/ BridgeFails(c)
      PROVE  StreamTypeOK'
  <2>1. PICK i \in bridge[c].todo, acked \in BOOLEAN :
          /\ Bridged(c, i, acked)
          /\ rows' = rows \/ rows' = [rows EXCEPT ![stream[i]] = @ + 1]
    BY <1>6 DEF BridgeEntry, BridgeRefused, BridgeFails
  <2>2. UNCHANGED <<stream, group, deleted>>
    BY <1>6 DEF BridgeEntry, BridgeRefused, BridgeFails
  <2>3. stream[i] \in Ids
    BY <1>0, <2>1 DEF BridgeTyped, BatchType, EntriesTyped
  <2>4. rows' \in [Ids -> Nat]
    BY <1>0, <2>1, <2>3 DEF RowsTyped
  <2>5. bridgeSpent' \in [failures: Nat, crashes: Nat]
    <3>1. \/ bridgeSpent' = bridgeSpent
          \/ bridgeSpent' = [bridgeSpent EXCEPT !.failures = @ + 1]
      BY <1>6 DEF BridgeEntry, BridgeRefused, BridgeFails
    <3> QED BY <1>0, <3>1 DEF RowsTyped
  <2>6. bridge' \in [Consumers -> BatchType(group.read)]
    BY <2>1, BatchTypes
  <2>7. BridgeTyped' /\ RowsTyped'
    BY <1>0, <2>2, <2>4, <2>5, <2>6 DEF BridgeTyped, RowsTyped
  <2> QED BY <1>1, <2>2, <2>7
<1>7. ASSUME NEW c \in Consumers, Ack(c) \/ AckFails(c) PROVE StreamTypeOK'
  <2>1. group' \in GroupType(group.read) /\ group'.read = group.read
    BY <1>0, <1>7, AckTypes DEF Ack, AckFails, Acked, GroupTyped
  <2>2. bridge' = [bridge EXCEPT ![c] = NoBatch]
    BY <1>7 DEF Ack, AckFails
  <2>3. UNCHANGED <<stream, rows, deleted>> /\ bridgeSpent' \in [failures: Nat, crashes: Nat]
    BY <1>0, <1>7 DEF Ack, AckFails, RowsTyped
  <2>4. EntriesTyped' /\ GroupTyped' /\ RowsTyped'
    BY <1>0, <2>1, <2>3 DEF EntriesTyped, GroupTyped, RowsTyped
  <2>5. BridgeTyped'
    BY <1>0, <2>1, <2>2, BatchTypes DEF BridgeTyped
  <2> QED BY <2>4, <2>5, TypePartsNext
<1>8. ASSUME NEW c \in Consumers, WorkerCrash(c) PROVE StreamTypeOK'
  <2>1. group' \in GroupType(group.read) /\ group'.read = group.read
    <3>1. group \in GroupType(group.read)
      BY <1>0 DEF GroupTyped
    <3>2. [group EXCEPT !.pending[c] = {}, !.orphaned = @ \cup group.pending[c]] \in GroupType(group.read)
      BY <3>1 DEF GroupType
    <3>3. [group EXCEPT !.pending[c] = {}, !.orphaned = @ \cup group.pending[c]].read = group.read
      BY <3>1 DEF GroupType
    <3> QED BY <1>8, <3>1, <3>2, <3>3 DEF WorkerCrash
  <2>2. bridge' = [bridge EXCEPT ![c] = NoBatch]
    BY <1>8 DEF WorkerCrash
  <2>3. UNCHANGED <<stream, rows, deleted>> /\ bridgeSpent' \in [failures: Nat, crashes: Nat]
    BY <1>0, <1>8 DEF WorkerCrash, RowsTyped
  <2>4. EntriesTyped' /\ GroupTyped' /\ RowsTyped'
    BY <1>0, <2>1, <2>3 DEF EntriesTyped, GroupTyped, RowsTyped
  <2>5. BridgeTyped'
    BY <1>0, <2>1, <2>2, BatchTypes DEF BridgeTyped
  <2> QED BY <2>4, <2>5, TypePartsNext
<1>9. ASSUME UNCHANGED streamVars PROVE StreamTypeOK'
  BY <1>0, <1>1, <1>9 DEF streamVars, BridgeTyped, RowsTyped, BatchType
<1> QED BY <1>2, <1>3, <1>4, <1>5, <1>6, <1>7, <1>8, <1>9 DEF BridgeNext, BridgeStep

\* The types of StreamBridge.
THEOREM StreamTypes == BridgeSpec => []StreamTypeOK
<1>1. StreamInit => StreamTypeOK
  BY TypeInit
<1>2. StreamTypeOK /\ [BridgeNext]_streamVars => StreamTypeOK'
  BY TypeNext
<1> QED BY <1>1, <1>2, PTL DEF BridgeSpec

-----------------------------------------------------------------------------
(* No entry is acknowledged before its row.                                 *)

\* The row of entry i is in the table, or went with its client.
HasRow(i) == rows[stream[i]] > 0 \/ stream[i] \in deleted

\* Every entry that was read is acknowledged or in a pending list.
EntriesKept ==
    \A i \in 1 .. group.read :
        \/ i \in group.acked
        \/ i \in group.orphaned
        \/ \E c \in Consumers : i \in group.pending[c]

\* AckedHasRow needs to know what a worker is about to acknowledge: its list
\* holds entries whose rows it has seen committed.
AckInv ==
    /\ StreamTypeOK
    /\ deleted \subseteq Deletable
    /\ \A i \in group.acked : HasRow(i)
    /\ \A c \in Consumers : \A i \in bridge[c].ack : HasRow(i)
    /\ EntriesKept

LEMMA AckInvInit == StreamInit => AckInv
<1> SUFFICES ASSUME StreamInit PROVE AckInv
  OBVIOUS
<1>1. StreamTypeOK
  BY TypeInit
<1>2. group.acked = {} /\ group.read = 0 /\ deleted = {}
  BY DEF StreamInit
<1>3. \A c \in Consumers : bridge[c].ack = {}
  BY DEF StreamInit, NoBatch
<1>4. EntriesKept
  BY <1>2 DEF EntriesKept
<1> QED BY <1>1, <1>2, <1>3, <1>4 DEF AckInv

\* Rows go only with their client.
LEMMA RowsStay ==
    ASSUME AckInv, BridgeNext, NEW i \in 1 .. group.read, HasRow(i)
    PROVE  HasRow(i)'
<1> USE StreamAssumption
<1>1. /\ rows \in [Ids -> Nat] /\ stream \in Seq(Ids) /\ deleted \subseteq Deletable
      /\ group.read \in Nat /\ group.read <= Len(stream)
  BY TypeParts DEF AckInv, RowsTyped, EntriesTyped
<1>2. i \in 1 .. Len(stream) /\ stream[i] \in Ids
  BY <1>1
<1>3. CASE Produce
  <2>1. PICK e \in Ids : stream' = Append(stream, e)
    BY <1>3 DEF Produce, Xadd
  <2>2. stream'[i] = stream[i]
    BY <1>1, <1>2, <2>1, AppendProperties
  <2> QED BY <1>3, <2>2 DEF Produce, HasRow
<1>4. CASE DeleteClient
  BY <1>1, <1>2, <1>4 DEF DeleteClient, HasRow
<1>5. CASE \E c \in Consumers : BridgeStep(c) \/ WorkerCrash(c)
  <2>1. UNCHANGED <<stream, deleted>>
    BY <1>5 DEF BridgeStep, WorkerCrash, ReadPending, ReadNew, BridgeEntry, BridgeRefused,
                BridgeFails, Ack, AckFails
  <2>2. rows' = rows \/ \E e : rows' = [rows EXCEPT ![e] = @ + 1]
    BY <1>5 DEF BridgeStep, WorkerCrash, ReadPending, ReadNew, BridgeEntry, BridgeRefused,
                BridgeFails, Ack, AckFails
  <2>3. rows'[stream[i]] >= rows[stream[i]]
    BY <1>1, <1>2, <2>2
  <2>4. rows[stream[i]] \in Nat /\ rows'[stream[i]] \in Int
    BY <1>1, <1>2, <2>2
  <2> QED BY <2>1, <2>3, <2>4 DEF HasRow
<1> QED BY <1>3, <1>4, <1>5 DEF BridgeNext

\* What was read stays acknowledged, orphaned or in a pending list.
LEMMA KeptNext == AckInv /\ BridgeNext => EntriesKept'
<1> SUFFICES ASSUME AckInv, BridgeNext PROVE EntriesKept'
  OBVIOUS
<1> USE StreamAssumption
<1>0. /\ group \in GroupType(group.read) /\ group.read \in Nat /\ Len(stream) \in Nat
      /\ group.read <= Len(stream) /\ EntriesKept
  BY TypeParts DEF AckInv, GroupTyped, EntriesTyped
<1>1. ASSUME group' = group PROVE EntriesKept'
  BY <1>0, <1>1 DEF EntriesKept
<1>2. ASSUME NEW c \in Consumers, group' = Acked(c) PROVE EntriesKept'
  <2>1. /\ group'.read = group.read /\ group'.orphaned = group.orphaned
        /\ group'.acked = group.acked \cup bridge[c].ack
        /\ \A d \in Consumers : group'.pending[d] =
              IF d = c THEN group.pending[c] \ bridge[c].ack ELSE group.pending[d]
    BY <1>0, <1>2 DEF Acked, GroupType
  <2> QED BY <1>0, <2>1 DEF EntriesKept
<1>3. ASSUME NEW c \in Consumers, ReadNew(c) PROVE EntriesKept'
  <2> DEFINE batch == NextOf(group.read, Len(stream), StreamBatchSize)
             n == group.read + Cardinality(batch)
  <2>1. /\ Cardinality(batch) \in Nat /\ n <= Len(stream)
        /\ batch = group.read + 1 .. n
    <3>1. StreamBatchSize \in Nat
      OBVIOUS
    <3> QED BY <1>0, <3>1, NextOfInterval
  <2>2. group' = [group EXCEPT !.read = n, !.pending[c] = @ \cup batch]
    BY <1>3 DEF ReadNew, NextOf
  <2> HIDE DEF batch
  <2>3. /\ group'.read = n /\ group'.orphaned = group.orphaned
        /\ group'.acked = group.acked
        /\ \A d \in Consumers : group'.pending[d] =
              IF d = c THEN group.pending[c] \cup batch ELSE group.pending[d]
    BY <1>0, <2>2 DEF GroupType
  <2>4. \A i \in 1 .. n : i \in 1 .. group.read \/ i \in batch
    BY <1>0, <2>1
  <2> QED BY <1>0, <2>3, <2>4 DEF EntriesKept
<1>4. ASSUME NEW c \in Consumers, WorkerCrash(c) PROVE EntriesKept'
  <2>1. CASE group' = [group EXCEPT !.pending[c] = {}, !.orphaned = @ \cup group.pending[c]]
    <3>1. /\ group'.read = group.read /\ group'.acked = group.acked
          /\ group'.orphaned = group.orphaned \cup group.pending[c]
          /\ \A d \in Consumers : group'.pending[d] = IF d = c THEN {} ELSE group.pending[d]
      BY <1>0, <2>1 DEF GroupType
    <3> QED BY <1>0, <3>1 DEF EntriesKept
  <2> QED BY <1>1, <1>4, <2>1 DEF WorkerCrash
<1>5. ASSUME NEW c \in Consumers, BridgeStep(c) PROVE EntriesKept'
  <2>1. CASE Ack(c) \/ AckFails(c)
    BY <1>1, <1>2, <2>1 DEF Ack, AckFails, Acked
  <2>2. CASE ReadPending(c) \/ BridgeEntry(c) \/ BridgeRefused(c) \/ BridgeFails(c)
    BY <1>1, <2>2 DEF ReadPending, BridgeEntry, BridgeRefused, BridgeFails
  <2> QED BY <1>3, <1>5, <2>1, <2>2 DEF BridgeStep
<1>6. CASE Produce \/ DeleteClient
  BY <1>1, <1>6 DEF Produce, DeleteClient
<1> QED BY <1>4, <1>5, <1>6 DEF BridgeNext

\* A worker adds an entry to its list only with the row it has just committed.
LEMMA AckListNext ==
    ASSUME AckInv, BridgeNext, NEW c \in Consumers, NEW i \in bridge'[c].ack
    PROVE  HasRow(i)'
<1>0. /\ bridge \in [Consumers -> BatchType(group.read)]
      /\ rows \in [Ids -> Nat] /\ stream \in Seq(Ids)
      /\ group.read \in Nat /\ group.read <= Len(stream)
  BY TypeParts DEF AckInv, RowsTyped, EntriesTyped, BridgeTyped
<1>1. ASSUME i \in bridge[c].ack PROVE HasRow(i)'
  <2>1. i \in 1 .. group.read /\ HasRow(i)
    BY <1>0, <1>1 DEF BatchType, AckInv
  <2> QED BY <2>1, RowsStay
<1>2. CASE bridge' = bridge
  BY <1>1, <1>2
<1>3. CASE \E d \in Consumers : \/ \E batch : StartBatch(d, batch)
                                \/ bridge' = [bridge EXCEPT ![d] = NoBatch]
  <2>1. PICK d \in Consumers : bridge'[d].ack = {} /\ \A e \in Consumers \ {d} : bridge'[e] = bridge[e]
    BY <1>0, <1>3 DEF StartBatch, NoBatch
  <2> QED BY <1>1, <2>1
<1>4. CASE \E d \in Consumers : BridgeEntry(d)
  <2>0. PICK d \in Consumers : BridgeEntry(d)
    BY <1>4
  <2>1. PICK j \in bridge[d].todo :
          /\ rows' = [rows EXCEPT ![stream[j]] = @ + 1]
          /\ Bridged(d, j, TRUE)
          /\ stream' = stream
    BY <2>0 DEF BridgeEntry
  <2>2. i = j \/ i \in bridge[c].ack
    BY <1>0, <2>1 DEF Bridged, BatchType
  <2>3. j \in 1 .. Len(stream)
    BY <1>0, <2>1 DEF BatchType
  <2>4. rows'[stream[j]] > 0
    BY <1>0, <2>1, <2>3
  <2> QED BY <1>1, <2>1, <2>2, <2>4 DEF HasRow
<1>5. CASE \E d \in Consumers : BridgeRefused(d) \/ BridgeFails(d)
  <2>1. PICK d \in Consumers : \E j \in bridge[d].todo : Bridged(d, j, FALSE)
    BY <1>5 DEF BridgeRefused, BridgeFails
  <2>2. i \in bridge[c].ack
    BY <1>0, <2>1 DEF Bridged, BatchType
  <2> QED BY <1>1, <2>2
<1>6. CASE Produce \/ DeleteClient
  BY <1>2, <1>6 DEF Produce, DeleteClient
<1>7. ASSUME NEW d \in Consumers, ReadPending(d) \/ ReadNew(d) \/ Ack(d) \/ AckFails(d) \/ WorkerCrash(d)
      PROVE  HasRow(i)'
  BY <1>3, <1>7 DEF ReadPending, ReadNew, Ack, AckFails, WorkerCrash
<1> QED BY <1>4, <1>5, <1>6, <1>7 DEF BridgeNext, BridgeStep

\* What is acknowledged was acknowledged before, or is in a worker's list.
LEMMA AckedNext ==
    ASSUME AckInv, BridgeNext, NEW i \in group'.acked
    PROVE  HasRow(i)'
<1>0. /\ group \in GroupType(group.read)
      /\ bridge \in [Consumers -> BatchType(group.read)]
  BY TypeParts DEF AckInv, GroupTyped, BridgeTyped
<1>1. ASSUME i \in group.acked PROVE HasRow(i)'
  BY <1>0, <1>1, RowsStay DEF GroupType, AckInv
<1>2. ASSUME NEW c \in Consumers, i \in bridge[c].ack PROVE HasRow(i)'
  <2>1. i \in 1 .. group.read /\ HasRow(i)
    BY <1>0, <1>2 DEF BatchType, AckInv
  <2> QED BY <2>1, RowsStay
<1>3. i \in group.acked \/ \E c \in Consumers : i \in bridge[c].ack
  <2>1. CASE group' = group
    BY <2>1
  <2>2. ASSUME NEW c \in Consumers, group' = Acked(c)
        PROVE  i \in group.acked \/ i \in bridge[c].ack
    BY <1>0, <2>2 DEF Acked, GroupType
  <2>3. CASE Produce \/ DeleteClient
    BY <2>1, <2>3 DEF Produce, DeleteClient
  <2>4. ASSUME NEW c \in Consumers, Ack(c) \/ AckFails(c)
        PROVE  i \in group.acked \/ i \in bridge[c].ack
    BY <2>1, <2>2, <2>4 DEF Ack, AckFails, Acked
  <2>5. ASSUME NEW c \in Consumers, ReadNew(c) \/ WorkerCrash(c)
        PROVE  i \in group.acked
    <3>1. group'.acked = group.acked
      BY <1>0, <2>5 DEF ReadNew, WorkerCrash, GroupType
    <3> QED BY <3>1
  <2>6. ASSUME NEW c \in Consumers,
               ReadPending(c) \/ BridgeEntry(c) \/ BridgeRefused(c) \/ BridgeFails(c)
        PROVE  i \in group.acked
    BY <2>1, <2>6 DEF ReadPending, BridgeEntry, BridgeRefused, BridgeFails
  <2> QED BY <2>3, <2>4, <2>5, <2>6 DEF BridgeNext, BridgeStep
<1> QED BY <1>1, <1>2, <1>3

LEMMA AckInvNext == AckInv /\ [BridgeNext]_streamVars => AckInv'
<1> SUFFICES ASSUME AckInv, [BridgeNext]_streamVars PROVE AckInv'
  OBVIOUS
<1>1. StreamTypeOK'
  BY TypeNext DEF AckInv
<1>2. CASE BridgeNext
  <2>1. deleted' \subseteq Deletable
    BY <1>2 DEF AckInv, BridgeNext, BridgeStep, Produce, DeleteClient, WorkerCrash, ReadPending,
                ReadNew, BridgeEntry, BridgeRefused, BridgeFails, Ack, AckFails
  <2>2. EntriesKept'
    BY <1>2, KeptNext
  <2>3. \A c \in Consumers : \A i \in bridge'[c].ack : HasRow(i)'
    BY <1>2, AckListNext
  <2>4. \A i \in group'.acked : HasRow(i)'
    BY <1>2, AckedNext
  <2> QED BY <1>1, <2>1, <2>2, <2>3, <2>4 DEF AckInv
<1>3. CASE UNCHANGED streamVars
  BY <1>1, <1>3 DEF AckInv, streamVars, HasRow, EntriesKept
<1> QED BY <1>2, <1>3

\* For every number of workers and every failure: what was read from the stream
\* is acknowledged and in the table, or in a pending list, or of a dead consumer.
THEOREM AckedEntriesHaveRows == BridgeSpec => []AckedHasRow
<1>1. StreamInit => AckInv
  BY AckInvInit
<1>2. AckInv /\ [BridgeNext]_streamVars => AckInv'
  BY AckInvNext
<1>3. AckInv => AckedHasRow
  BY DEF AckInv, AckedHasRow, HasRow, EntriesKept
<1> QED BY <1>1, <1>2, <1>3, PTL DEF BridgeSpec

-----------------------------------------------------------------------------
(* An entry is inserted once.                                               *)

\* The entries of event e; those whose row no worker has seen committed yet
Entries(e) == {i \in 1 .. Len(stream) : stream[i] = e}
Settled == group.acked \cup group.orphaned \cup UNION {bridge[c].ack : c \in Consumers}
ToInsert(e) == Entries(e) \ Settled

BridgeMishaps == bridgeSpent.failures + bridgeSpent.crashes

\* An entry is in one pending list at most, a worker's batch is in its list,
\* and a worker between two batches has none.
BatchHeld(c) ==
    /\ bridge[c].todo \subseteq group.pending[c]
    /\ bridge[c].ack \subseteq group.pending[c]
    /\ bridge[c].todo \cap bridge[c].ack = {}
    /\ ~bridge[c].active => bridge[c] = NoBatch

StillPending(c) ==
    /\ group.pending[c] \cap group.acked = {}
    /\ group.pending[c] \cap group.orphaned = {}

HeldOnce ==
    /\ \A c \in Consumers : BatchHeld(c) /\ StillPending(c)
    /\ \A c, d \in Consumers : c # d => group.pending[c] \cap group.pending[d] = {}

\* The rows that are, and those that may still come if nothing fails any more,
\* are covered by what has failed so far.
Covered(n, entries, mishaps) == n <= entries * (1 + mishaps)
RowsCounted ==
    \A e \in Ids :
        Covered(rows[e] + Cardinality(ToInsert(e)), Cardinality(Entries(e)), BridgeMishaps)

RowInv == StreamTypeOK /\ HeldOnce /\ RowsCounted

\* What the arithmetic of RowsCounted comes to.
LEMMA CoveredFacts ==
    ASSUME NEW n \in Nat, NEW k \in Nat, NEW f \in Nat
    PROVE  /\ Covered(k, k, f)
           /\ Covered(n, k, f) => Covered(n + 1, k + 1, f)
           /\ Covered(n, k, f) => Covered(n, k + 1, f)
           /\ Covered(n, k, f) => Covered(n + k, k, f + 1)
           /\ \A m \in Nat : m <= n /\ Covered(n, k, f) => Covered(m, k, f)
<1> DEFINE total == k * (1 + f)
<1>1. total \in Nat /\ k <= total
  <2>1. total = k + k * f
    OBVIOUS
  <2>2. k * f \in Nat
    OBVIOUS
  <2> QED BY <2>1, <2>2
<1>2. (k + 1) * (1 + f) = total + 1 + f
  OBVIOUS
<1>3. k * (1 + (f + 1)) = total + k
  OBVIOUS
<1> HIDE DEF total
<1>4. /\ Covered(k, k, f) <=> k <= total
      /\ \A m \in Nat : Covered(m, k, f) <=> m <= total
      /\ \A m \in Nat : Covered(m, k + 1, f) <=> m <= total + 1 + f
      /\ \A m \in Nat : Covered(m, k, f + 1) <=> m <= total + k
  BY <1>2, <1>3 DEF Covered, total
<1> QED BY <1>1, <1>4

\* The two sets are finite, and their sizes.
LEMMA EntriesFinite ==
    ASSUME StreamTypeOK, NEW e \in Ids
    PROVE  /\ IsFiniteSet(Entries(e)) /\ Cardinality(Entries(e)) \in Nat
           /\ IsFiniteSet(ToInsert(e)) /\ Cardinality(ToInsert(e)) \in Nat
           /\ Cardinality(ToInsert(e)) <= Cardinality(Entries(e))
           /\ rows[e] \in Nat /\ BridgeMishaps \in Nat
<1>1. Len(stream) \in Nat
  BY TypeParts DEF EntriesTyped
<1>2. IsFiniteSet(1 .. Len(stream))
  BY <1>1, FS_Interval
<1>3. IsFiniteSet(Entries(e))
  BY <1>2, FS_Subset DEF Entries
<1>4. ToInsert(e) \in SUBSET Entries(e)
  BY DEF ToInsert
<1>5. rows[e] \in Nat /\ BridgeMishaps \in Nat
  BY TypeParts DEF RowsTyped, BridgeMishaps
<1> QED BY <1>3, <1>4, <1>5, FS_Subset, FS_CardinalityType

LEMMA RowInvInit == StreamInit => RowInv
<1> SUFFICES ASSUME StreamInit PROVE RowInv
  OBVIOUS
<1>1. StreamTypeOK
  BY TypeInit
<1>2. HeldOnce
  BY DEF StreamInit, HeldOnce, BatchHeld, StillPending, NoBatch
<1>3. ASSUME NEW e \in Ids
      PROVE  Covered(rows[e] + Cardinality(ToInsert(e)), Cardinality(Entries(e)), BridgeMishaps)
  <2>1. Entries(e) = {} /\ ToInsert(e) = {}
    BY DEF StreamInit, Entries, ToInsert
  <2>2. rows[e] = 0 /\ BridgeMishaps = 0
    BY DEF StreamInit, BridgeMishaps
  <2> QED BY <2>1, <2>2, FS_EmptySet DEF Covered
<1> QED BY <1>1, <1>2, <1>3 DEF RowInv, RowsCounted

\* The pending lists stay apart, and the batches in them.
LEMMA HeldNext == RowInv /\ BridgeNext => HeldOnce'
<1> SUFFICES ASSUME RowInv, BridgeNext PROVE HeldOnce'
  OBVIOUS
<1> USE StreamAssumption
<1>0. /\ group \in GroupType(group.read) /\ bridge \in [Consumers -> BatchType(group.read)]
      /\ group.read \in Nat /\ Len(stream) \in Nat /\ group.read <= Len(stream) /\ HeldOnce
  BY TypeParts DEF RowInv, GroupTyped, BridgeTyped, EntriesTyped
<1>1. CASE Produce \/ DeleteClient
  BY <1>0, <1>1 DEF Produce, DeleteClient, HeldOnce, BatchHeld, StillPending
<1>2. ASSUME NEW c \in Consumers, ReadPending(c) PROVE HeldOnce'
  <2>1. /\ Pending(c) \subseteq group.pending[c] /\ group' = group
        /\ bridge' = [bridge EXCEPT ![c] = [active |-> TRUE, todo |-> Pending(c), ack |-> {}]]
    BY <1>2, FirstOfSubset DEF ReadPending, StartBatch, Pending
  <2>2. ASSUME NEW d \in Consumers PROVE BatchHeld(d)' /\ StillPending(d)'
    <3>1. BatchHeld(d) /\ StillPending(d)
      BY <1>0 DEF HeldOnce
    <3>2. bridge'[d] = IF d = c THEN [active |-> TRUE, todo |-> Pending(c), ack |-> {}] ELSE bridge[d]
      BY <1>0, <2>1
    <3>3. BatchHeld(d)'
      BY <2>1, <3>1, <3>2 DEF BatchHeld
    <3> QED BY <2>1, <3>1, <3>3 DEF StillPending
  <2> QED BY <1>0, <2>1, <2>2 DEF HeldOnce
<1>3. ASSUME NEW c \in Consumers, ReadNew(c) PROVE HeldOnce'
  <2> DEFINE batch == NextOf(group.read, Len(stream), StreamBatchSize)
             n == group.read + Cardinality(batch)
  <2>1. Cardinality(batch) \in Nat /\ batch = group.read + 1 .. n
    <3>1. StreamBatchSize \in Nat
      OBVIOUS
    <3> QED BY <1>0, <3>1, NextOfInterval
  <2>2. /\ group' = [group EXCEPT !.read = n, !.pending[c] = @ \cup batch]
        /\ bridge' = [bridge EXCEPT ![c] = [active |-> TRUE, todo |-> batch, ack |-> {}]]
    BY <1>3 DEF ReadNew, NextOf, StartBatch
  <2>3. batch \cap 1 .. group.read = {}
    BY <1>0, <2>1
  <2> HIDE DEF batch
  <2>4. /\ group'.acked = group.acked /\ group'.orphaned = group.orphaned
        /\ \A d \in Consumers : group'.pending[d] =
              IF d = c THEN group.pending[c] \cup batch ELSE group.pending[d]
    BY <1>0, <2>2 DEF GroupType
  <2>5. /\ group.acked \subseteq 1 .. group.read /\ group.orphaned \subseteq 1 .. group.read
        /\ \A d \in Consumers : group.pending[d] \subseteq 1 .. group.read
    BY <1>0 DEF GroupType
  <2>6. \A d \in Consumers : bridge'[d] =
              IF d = c THEN [active |-> TRUE, todo |-> batch, ack |-> {}] ELSE bridge[d]
    BY <1>0, <2>2
  <2>7. ASSUME NEW d \in Consumers PROVE BatchHeld(d)' /\ StillPending(d)'
    <3>1. BatchHeld(d) /\ StillPending(d)
      BY <1>0 DEF HeldOnce
    <3>2. BatchHeld(d)'
      BY <2>4, <2>6, <3>1 DEF BatchHeld
    <3>3. StillPending(d)'
      BY <2>3, <2>4, <2>5, <3>1 DEF StillPending
    <3> QED BY <3>2, <3>3
  <2>8. ASSUME NEW d \in Consumers, NEW e \in Consumers, d # e
        PROVE  group'.pending[d] \cap group'.pending[e] = {}
    <3>1. group.pending[d] \cap group.pending[e] = {}
      BY <1>0, <2>8 DEF HeldOnce
    <3> QED BY <2>3, <2>4, <2>5, <2>8, <3>1
  <2> QED BY <2>7, <2>8 DEF HeldOnce
<1>4. ASSUME NEW c \in Consumers, BridgeEntry(c) \/ BridgeRefused(c) \/ BridgeFails(c)
      PROVE  HeldOnce'
  <2>1. PICK i \in bridge[c].todo, acked \in BOOLEAN : IsNext(c, i) /\ Bridged(c, i, acked)
    BY <1>4 DEF BridgeEntry, BridgeRefused, BridgeFails
  <2>2. group' = group /\ bridge[c].active
    BY <1>4, <2>1 DEF BridgeEntry, BridgeRefused, BridgeFails, IsNext
  <2>3. /\ bridge'[c].active /\ bridge'[c].todo = bridge[c].todo \ {i}
        /\ bridge'[c].ack = IF acked THEN bridge[c].ack \cup {i} ELSE bridge[c].ack
        /\ \A d \in Consumers \ {c} : bridge'[d] = bridge[d]
    BY <1>0, <2>1, <2>2 DEF Bridged, BatchType
  <2>4. ASSUME NEW d \in Consumers PROVE BatchHeld(d)' /\ StillPending(d)'
    <3>1. BatchHeld(d) /\ StillPending(d)
      BY <1>0 DEF HeldOnce
    <3>2. BatchHeld(d)'
      BY <2>1, <2>2, <2>3, <3>1 DEF BatchHeld
    <3>3. StillPending(d)'
      BY <2>2, <3>1 DEF StillPending
    <3> QED BY <3>2, <3>3
  <2> QED BY <1>0, <2>2, <2>4 DEF HeldOnce
<1>5. ASSUME NEW c \in Consumers,
             \A d \in Consumers : bridge'[d] = IF d = c THEN NoBatch ELSE bridge[d],
             \A d \in Consumers \ {c} : group'.pending[d] = group.pending[d],
             group'.pending[c] \subseteq group.pending[c],
             group'.pending[c] \cap group'.acked = {},
             group'.pending[c] \cap group'.orphaned = {},
             group'.acked \subseteq group.acked \cup group.pending[c],
             group'.orphaned \subseteq group.orphaned \cup group.pending[c]
      PROVE  HeldOnce'
  <2>1. ASSUME NEW d \in Consumers PROVE BatchHeld(d)' /\ StillPending(d)'
    <3>1. BatchHeld(d) /\ StillPending(d) /\ (d # c => group.pending[c] \cap group.pending[d] = {})
      BY <1>0 DEF HeldOnce
    <3>2. BatchHeld(d)'
      BY <1>5, <3>1 DEF BatchHeld, NoBatch
    <3>3. StillPending(d)'
      BY <1>5, <3>1 DEF StillPending
    <3> QED BY <3>2, <3>3
  <2>2. ASSUME NEW d \in Consumers, NEW e \in Consumers, d # e
        PROVE  group'.pending[d] \cap group'.pending[e] = {}
    <3>1. group.pending[d] \cap group.pending[e] = {}
      BY <1>0, <2>2 DEF HeldOnce
    <3> QED BY <1>5, <2>2, <3>1
  <2> QED BY <2>1, <2>2 DEF HeldOnce
<1>6. ASSUME NEW c \in Consumers, Ack(c) \/ AckFails(c) PROVE HeldOnce'
  <2>1. \A d \in Consumers : bridge'[d] = IF d = c THEN NoBatch ELSE bridge[d]
    BY <1>0, <1>6 DEF Ack, AckFails
  <2>2. StillPending(c) /\ BatchHeld(c)
    BY <1>0 DEF HeldOnce
  <2>3. CASE group' = group
    BY <1>5, <2>1, <2>2, <2>3 DEF StillPending
  <2>4. CASE group' = Acked(c)
    <3>1. /\ group'.orphaned = group.orphaned
          /\ group'.acked = group.acked \cup bridge[c].ack
          /\ \A d \in Consumers : group'.pending[d] =
                IF d = c THEN group.pending[c] \ bridge[c].ack ELSE group.pending[d]
      BY <1>0, <2>4 DEF Acked, GroupType
    <3> QED BY <1>5, <2>1, <2>2, <3>1 DEF StillPending, BatchHeld
  <2> QED BY <1>6, <2>3, <2>4 DEF Ack, AckFails, Acked
<1>7. ASSUME NEW c \in Consumers, WorkerCrash(c) PROVE HeldOnce'
  <2>1. \A d \in Consumers : bridge'[d] = IF d = c THEN NoBatch ELSE bridge[d]
    BY <1>0, <1>7 DEF WorkerCrash
  <2>2. StillPending(c)
    BY <1>0 DEF HeldOnce
  <2>3. CASE group' = group
    BY <1>5, <2>1, <2>2, <2>3 DEF StillPending
  <2>4. CASE group' = [group EXCEPT !.pending[c] = {}, !.orphaned = @ \cup group.pending[c]]
    <3>1. /\ group'.acked = group.acked
          /\ group'.orphaned = group.orphaned \cup group.pending[c]
          /\ \A d \in Consumers : group'.pending[d] = IF d = c THEN {} ELSE group.pending[d]
      BY <1>0, <2>4 DEF GroupType
    <3> QED BY <1>5, <2>1, <2>2, <3>1 DEF StillPending
  <2> QED BY <1>7, <2>3, <2>4 DEF WorkerCrash
<1> QED BY <1>1, <1>2, <1>3, <1>4, <1>6, <1>7 DEF BridgeNext, BridgeStep

\* What a step does to the rows and entries of e.  Nothing fails and no entry is
\* added: what is inserted no longer waits to be.
LEMMA CountInserted ==
    ASSUME RowInv, NEW e \in Ids, StreamTypeOK',
           stream' = stream, bridgeSpent' = bridgeSpent,
           rows'[e] + Cardinality(ToInsert(e)') <= rows[e] + Cardinality(ToInsert(e))
    PROVE  Covered(rows[e] + Cardinality(ToInsert(e)), Cardinality(Entries(e)), BridgeMishaps)'
<1>1. Entries(e)' = Entries(e) /\ BridgeMishaps' = BridgeMishaps
  BY DEF Entries, BridgeMishaps
<1>2. /\ rows'[e] \in Nat /\ rows[e] \in Nat /\ BridgeMishaps \in Nat
      /\ Cardinality(ToInsert(e)) \in Nat /\ Cardinality(Entries(e)) \in Nat
      /\ IsFiniteSet(Entries(e))
  BY EntriesFinite, TypeParts DEF RowInv, StreamTypeOK
<1>3. Cardinality(ToInsert(e)') \in Nat
  <2>1. ToInsert(e)' \in SUBSET Entries(e)
    BY <1>1 DEF ToInsert
  <2> QED BY <1>2, <2>1, FS_Subset, FS_CardinalityType
<1>4. Covered(rows[e] + Cardinality(ToInsert(e)), Cardinality(Entries(e)), BridgeMishaps)
  BY DEF RowInv, RowsCounted
<1> DEFINE n == rows[e] + Cardinality(ToInsert(e))
           m == rows'[e] + Cardinality(ToInsert(e)')
<1>5. n \in Nat /\ m \in Nat /\ m <= n
  BY <1>2, <1>3
<1> HIDE DEF n, m
<1>6. Covered(m, Cardinality(Entries(e)), BridgeMishaps)
  BY <1>2, <1>4, <1>5, CoveredFacts DEF n
<1> QED BY <1>1, <1>6 DEF m

\* Nothing is inserted either.
LEMMA CountUnchanged ==
    ASSUME RowInv, NEW e \in Ids, StreamTypeOK',
           stream' = stream, bridgeSpent' = bridgeSpent,
           Settled' = Settled, rows'[e] <= rows[e]
    PROVE  Covered(rows[e] + Cardinality(ToInsert(e)), Cardinality(Entries(e)), BridgeMishaps)'
<1>1. ToInsert(e)' = ToInsert(e)
  BY DEF ToInsert, Entries
<1>2. rows'[e] \in Nat /\ rows[e] \in Nat /\ Cardinality(ToInsert(e)) \in Nat
  BY EntriesFinite DEF RowInv, StreamTypeOK
<1>3. rows'[e] + Cardinality(ToInsert(e)) <= rows[e] + Cardinality(ToInsert(e))
  BY <1>2
<1> QED BY <1>1, <1>3, CountInserted

\* A failure: entries that had a row may go back to be inserted again, all of
\* them at most, or a row is inserted that its worker does not know of.
LEMMA CountFailure ==
    ASSUME RowInv, NEW e \in Ids, StreamTypeOK',
           stream' = stream, BridgeMishaps' = BridgeMishaps + 1,
           \/ rows' = rows
           \/ rows'[e] <= rows[e] + 1 /\ Entries(e) # {} /\ Settled' = Settled
           \/ rows'[e] <= rows[e] /\ Settled' = Settled
    PROVE  Covered(rows[e] + Cardinality(ToInsert(e)), Cardinality(Entries(e)), BridgeMishaps)'
<1> DEFINE k == Cardinality(Entries(e))
           t == Cardinality(ToInsert(e))
           n == rows[e] + t
           m == rows'[e] + t'
<1>1. Entries(e)' = Entries(e) /\ k' = k
  BY DEF Entries
<1>2. /\ rows'[e] \in Nat /\ rows[e] \in Nat /\ BridgeMishaps \in Nat
      /\ t \in Nat /\ k \in Nat /\ IsFiniteSet(Entries(e)) /\ IsFiniteSet(ToInsert(e)')
  <2>1. ToInsert(e)' \in SUBSET Entries(e)
    BY <1>1 DEF ToInsert
  <2>2. rows'[e] \in Nat
    BY DEF StreamTypeOK
  <2> QED BY <2>1, <2>2, EntriesFinite, FS_Subset DEF RowInv
<1>3. t' \in Nat /\ t' <= k
  <2>1. ToInsert(e)' \in SUBSET Entries(e)
    BY <1>1 DEF ToInsert
  <2> QED BY <1>2, <2>1, FS_Subset, FS_CardinalityType
<1>4. Settled' = Settled => t' = t
  BY <1>1 DEF ToInsert
<1>5. Entries(e) # {} => k >= 1
  BY <1>2, FS_EmptySet
<1>6. Covered(n, k, BridgeMishaps)
  BY DEF RowInv, RowsCounted
<1> HIDE DEF k, t
<1>7. n \in Nat /\ m \in Nat /\ m <= n + k
  BY <1>2, <1>3, <1>4, <1>5
<1> HIDE DEF n, m
<1>8. Covered(n + k, k, BridgeMishaps + 1)
  BY <1>2, <1>6, <1>7, CoveredFacts
<1>9. Covered(m, k, BridgeMishaps + 1)
  <2>1. n + k \in Nat /\ BridgeMishaps + 1 \in Nat
    BY <1>2, <1>7
  <2> QED BY <1>2, <1>7, <1>8, <2>1, CoveredFacts
<1> QED BY <1>1, <1>9 DEF m, k, t

\* What the steps of the bridge settle.
LEMMA SettledNext ==
    ASSUME RowInv, NEW c \in Consumers
    PROVE  /\ ReadPending(c) \/ ReadNew(c) \/ BridgeRefused(c) \/ BridgeFails(c) \/ Ack(c)
                  => Settled' = Settled
           /\ \A i \in bridge[c].todo : Bridged(c, i, TRUE) /\ group' = group
                  => Settled' = Settled \cup {i}
<1> USE StreamAssumption
<1>0. /\ group \in GroupType(group.read) /\ bridge \in [Consumers -> BatchType(group.read)]
      /\ HeldOnce
  BY TypeParts DEF RowInv, GroupTyped, BridgeTyped
<1>1. ASSUME group'.acked = group.acked, group'.orphaned = group.orphaned,
             \A d \in Consumers : bridge'[d].ack = bridge[d].ack
      PROVE  Settled' = Settled
  BY <1>1 DEF Settled
<1>2. ASSUME ReadPending(c) \/ ReadNew(c) PROVE Settled' = Settled
  <2>1. ~bridge[c].active /\ \E batch : StartBatch(c, batch)
    BY <1>2 DEF ReadPending, ReadNew
  <2>2. bridge[c].ack = {}
    BY <1>0, <2>1 DEF HeldOnce, BatchHeld, NoBatch
  <2>3. \A d \in Consumers : bridge'[d].ack = bridge[d].ack
    BY <1>0, <2>1, <2>2 DEF StartBatch
  <2>4. group'.acked = group.acked /\ group'.orphaned = group.orphaned
    BY <1>0, <1>2 DEF ReadPending, ReadNew, GroupType
  <2> QED BY <1>1, <2>3, <2>4
<1>3. ASSUME BridgeRefused(c) \/ BridgeFails(c) PROVE Settled' = Settled
  <2>1. group' = group /\ \E i \in bridge[c].todo : Bridged(c, i, FALSE)
    BY <1>3 DEF BridgeRefused, BridgeFails
  <2>2. \A d \in Consumers : bridge'[d].ack = bridge[d].ack
    BY <1>0, <2>1 DEF Bridged, BatchType
  <2> QED BY <1>1, <2>1, <2>2
<1>4. ASSUME Ack(c) PROVE Settled' = Settled
  <2>1. /\ group'.orphaned = group.orphaned
        /\ group'.acked = group.acked \cup bridge[c].ack
    BY <1>0, <1>4 DEF Ack, GroupType
  <2>2. \A d \in Consumers : bridge'[d].ack = IF d = c THEN {} ELSE bridge[d].ack
    BY <1>0, <1>4 DEF Ack, NoBatch
  <2>3. \A i : i \in Settled' <=> i \in Settled
    BY <2>1, <2>2 DEF Settled
  <2> QED BY <2>3
<1>5. ASSUME NEW i \in bridge[c].todo, Bridged(c, i, TRUE), group' = group
      PROVE  Settled' = Settled \cup {i}
  <2>1. \A d \in Consumers :
            bridge'[d].ack = IF d = c THEN bridge[c].ack \cup {i} ELSE bridge[d].ack
    BY <1>0, <1>5 DEF Bridged, BatchType
  <2>2. \A j : j \in Settled' <=> j \in Settled \cup {i}
    BY <1>5, <2>1 DEF Settled
  <2> QED BY <2>2
<1> QED BY <1>2, <1>3, <1>4, <1>5

\* An entry in a batch waits to be inserted: it is in no other list.
LEMMA TodoWaits ==
    ASSUME RowInv, NEW c \in Consumers, NEW i \in bridge[c].todo
    PROVE  i \notin Settled
<1>0. HeldOnce
  BY DEF RowInv
<1>1. i \in group.pending[c] /\ i \notin bridge[c].ack
  BY <1>0 DEF HeldOnce, BatchHeld
<1>2. i \notin group.acked /\ i \notin group.orphaned
  BY <1>0, <1>1 DEF HeldOnce, StillPending
<1>3. ASSUME NEW d \in Consumers, d # c PROVE i \notin bridge[d].ack
  <2>1. bridge[d].ack \subseteq group.pending[d] /\ group.pending[c] \cap group.pending[d] = {}
    BY <1>0, <1>3 DEF HeldOnce, BatchHeld
  <2> QED BY <1>1, <2>1
<1> QED BY <1>1, <1>2, <1>3 DEF Settled

\* One entry more, one to insert more.
LEMMA CountProduced ==
    ASSUME RowInv, StreamTypeOK', Produce, NEW e \in Ids
    PROVE  Covered(rows[e] + Cardinality(ToInsert(e)), Cardinality(Entries(e)), BridgeMishaps)'
<1> DEFINE n == Len(stream) + 1
           k == Cardinality(Entries(e))
           t == Cardinality(ToInsert(e))
<1>0. /\ stream \in Seq(Ids) /\ group \in GroupType(group.read)
      /\ bridge \in [Consumers -> BatchType(group.read)]
      /\ group.read \in Nat /\ Len(stream) \in Nat /\ group.read <= Len(stream)
  BY TypeParts DEF RowInv, GroupTyped, EntriesTyped, BridgeTyped
<1>1. PICK x \in Ids : stream' = Append(stream, x)
  BY DEF Produce, Xadd
<1>2. /\ Len(stream') = n /\ stream'[n] = x
      /\ \A i \in 1 .. Len(stream) : stream'[i] = stream[i]
  BY <1>0, <1>1, AppendProperties
<1>3. 1 .. n = (1 .. Len(stream)) \cup {n} /\ n \notin 1 .. Len(stream) /\ n \notin 1 .. group.read
  BY <1>0
<1>4. n \notin Settled
  BY <1>0, <1>3 DEF Settled, GroupType, BatchType
<1>5. Settled' = Settled /\ BridgeMishaps' = BridgeMishaps /\ rows' = rows
  BY DEF Produce, Settled, BridgeMishaps
<1>6. Entries(e)' = IF e = x THEN Entries(e) \cup {n} ELSE Entries(e)
  BY <1>2, <1>3 DEF Entries
<1>7. ToInsert(e)' = IF e = x THEN ToInsert(e) \cup {n} ELSE ToInsert(e)
  BY <1>4, <1>5, <1>6 DEF ToInsert
<1>8. n \notin Entries(e) /\ n \notin ToInsert(e)
  BY <1>3 DEF Entries, ToInsert
<1>9. /\ IsFiniteSet(Entries(e)) /\ IsFiniteSet(ToInsert(e))
      /\ k \in Nat /\ t \in Nat /\ rows[e] \in Nat /\ BridgeMishaps \in Nat
  BY EntriesFinite DEF RowInv
<1>10. /\ Cardinality(Entries(e)') = IF e = x THEN k + 1 ELSE k
       /\ Cardinality(ToInsert(e)') = IF e = x THEN t + 1 ELSE t
  <2>1. Cardinality(Entries(e) \cup {n}) = k + 1
    BY <1>8, <1>9, FS_AddElement
  <2>2. Cardinality(ToInsert(e) \cup {n}) = t + 1
    BY <1>8, <1>9, FS_AddElement
  <2> QED BY <1>6, <1>7, <2>1, <2>2
<1>11. Covered(rows[e] + t, k, BridgeMishaps)
  BY DEF RowInv, RowsCounted
<1> HIDE DEF k, t
<1>12. Covered((rows[e] + t) + 1, k + 1, BridgeMishaps)
  <2>1. rows[e] + t \in Nat
    BY <1>9
  <2> QED BY <1>9, <1>11, <2>1, CoveredFacts
<1>13. (rows[e] + t) + 1 = rows[e] + (t + 1)
  BY <1>9
<1> QED BY <1>5, <1>10, <1>11, <1>12, <1>13 DEF k, t

LEMMA RowsCountedNext == RowInv /\ StreamTypeOK' /\ BridgeNext => RowsCounted'
<1> SUFFICES ASSUME RowInv, StreamTypeOK', BridgeNext, NEW e \in Ids
             PROVE  Covered(rows[e] + Cardinality(ToInsert(e)),
                            Cardinality(Entries(e)), BridgeMishaps)'
  BY DEF RowsCounted
<1> USE StreamAssumption
<1>0. /\ group \in GroupType(group.read) /\ bridge \in [Consumers -> BatchType(group.read)]
      /\ group.read \in Nat /\ Len(stream) \in Nat /\ group.read <= Len(stream)
      /\ rows \in [Ids -> Nat] /\ bridgeSpent \in [failures: Nat, crashes: Nat]
      /\ rows[e] \in Nat
  BY TypeParts DEF RowInv, GroupTyped, BridgeTyped, EntriesTyped, RowsTyped
<1>1. CASE Produce
  BY <1>1, CountProduced
<1>2. CASE DeleteClient
  <2>1. rows'[e] = 0 \/ rows'[e] = rows[e]
    BY <1>2 DEF DeleteClient
  <2>2. rows'[e] <= rows[e]
    BY <1>0, <2>1
  <2>3. UNCHANGED <<stream, group, bridge, bridgeSpent>>
    BY <1>2 DEF DeleteClient
  <2>4. Settled' = Settled
    BY <2>3 DEF Settled
  <2> QED BY <2>2, <2>3, <2>4, CountUnchanged
<1>3. ASSUME NEW c \in Consumers, ReadPending(c) \/ ReadNew(c) \/ BridgeRefused(c) \/ Ack(c)
      PROVE  Covered(rows[e] + Cardinality(ToInsert(e)),
                     Cardinality(Entries(e)), BridgeMishaps)'
  <2>1. UNCHANGED <<stream, rows, bridgeSpent>>
    BY <1>3 DEF ReadPending, ReadNew, BridgeRefused, Ack
  <2>2. Settled' = Settled
    BY <1>3, SettledNext
  <2>3. rows'[e] <= rows[e]
    BY <1>0, <2>1
  <2> QED BY <2>1, <2>2, <2>3, CountUnchanged
<1>4. ASSUME NEW c \in Consumers, BridgeEntry(c)
      PROVE  Covered(rows[e] + Cardinality(ToInsert(e)),
                     Cardinality(Entries(e)), BridgeMishaps)'
  <2>1. PICK i \in bridge[c].todo :
          /\ rows' = [rows EXCEPT ![stream[i]] = @ + 1]
          /\ Bridged(c, i, TRUE)
          /\ UNCHANGED <<stream, group, deleted, bridgeSpent>>
    BY <1>4 DEF BridgeEntry
  <2>2. Settled' = Settled \cup {i} /\ i \notin Settled
    BY <2>1, SettledNext, TodoWaits
  <2>3. i \in 1 .. Len(stream)
    BY <1>0 DEF BatchType
  <2>4. ToInsert(e)' = ToInsert(e) \ {i} /\ (i \in ToInsert(e) <=> stream[i] = e)
    BY <2>1, <2>2, <2>3 DEF ToInsert, Entries
  <2>5. IsFiniteSet(ToInsert(e)) /\ Cardinality(ToInsert(e)) \in Nat
    BY EntriesFinite DEF RowInv
  <2>6. Cardinality(ToInsert(e)') =
            IF stream[i] = e THEN Cardinality(ToInsert(e)) - 1 ELSE Cardinality(ToInsert(e))
    <3>1. CASE stream[i] = e
      <4>1. i \in ToInsert(e)
        BY <2>4, <3>1
      <4>2. Cardinality(ToInsert(e) \ {i}) = Cardinality(ToInsert(e)) - 1
        BY <2>5, <4>1, FS_RemoveElement
      <4> QED BY <2>4, <3>1, <4>2
    <3>2. CASE stream[i] # e
      <4>1. ToInsert(e)' = ToInsert(e)
        BY <2>4, <3>2
      <4> QED BY <3>2, <4>1
    <3> QED BY <3>1, <3>2
  <2>7. rows'[e] = IF stream[i] = e THEN rows[e] + 1 ELSE rows[e]
    BY <1>0, <2>1
  <2>8. rows'[e] + Cardinality(ToInsert(e)') <= rows[e] + Cardinality(ToInsert(e))
    BY <1>0, <2>5, <2>6, <2>7
  <2> QED BY <2>1, <2>8, CountInserted
<1>5. ASSUME NEW c \in Consumers, BridgeFails(c)
      PROVE  Covered(rows[e] + Cardinality(ToInsert(e)),
                     Cardinality(Entries(e)), BridgeMishaps)'
  <2>1. PICK i \in bridge[c].todo :
          /\ rows' = rows \/ rows' = [rows EXCEPT ![stream[i]] = @ + 1]
          /\ bridgeSpent' = [bridgeSpent EXCEPT !.failures = @ + 1]
          /\ stream' = stream
    BY <1>5 DEF BridgeFails
  <2>2. Settled' = Settled
    BY <1>5, SettledNext
  <2>3. i \in 1 .. Len(stream)
    BY <1>0 DEF BatchType
  <2>4. BridgeMishaps' = BridgeMishaps + 1
    BY <1>0, <2>1 DEF BridgeMishaps
  <2>5. CASE stream[i] = e
    <3>1. Entries(e) # {}
      BY <2>3, <2>5 DEF Entries
    <3>2. rows'[e] <= rows[e] + 1
      BY <1>0, <2>1
    <3> QED BY <2>1, <2>2, <2>4, <3>1, <3>2, CountFailure
  <2>6. CASE stream[i] # e
    <3>1. rows'[e] <= rows[e]
      BY <1>0, <2>1, <2>6
    <3> QED BY <2>1, <2>2, <2>4, <3>1, CountFailure
  <2> QED BY <2>5, <2>6
<1>6. ASSUME NEW c \in Consumers, AckFails(c) \/ WorkerCrash(c)
      PROVE  Covered(rows[e] + Cardinality(ToInsert(e)),
                     Cardinality(Entries(e)), BridgeMishaps)'
  <2>1. UNCHANGED <<stream, rows>>
    BY <1>6 DEF AckFails, WorkerCrash
  <2>2. \/ bridgeSpent' = [bridgeSpent EXCEPT !.failures = @ + 1]
        \/ bridgeSpent' = [bridgeSpent EXCEPT !.crashes = @ + 1]
    BY <1>6 DEF AckFails, WorkerCrash
  <2>3. bridgeSpent.failures \in Nat /\ bridgeSpent.crashes \in Nat
    BY <1>0
  <2>4. \/ /\ bridgeSpent'.failures = bridgeSpent.failures + 1
           /\ bridgeSpent'.crashes = bridgeSpent.crashes
        \/ /\ bridgeSpent'.failures = bridgeSpent.failures
           /\ bridgeSpent'.crashes = bridgeSpent.crashes + 1
    BY <1>0, <2>2
  <2>5. BridgeMishaps' = BridgeMishaps + 1
    BY <2>3, <2>4 DEF BridgeMishaps
  <2> QED BY <2>1, <2>5, CountFailure
<1> QED BY <1>1, <1>2, <1>3, <1>4, <1>5, <1>6 DEF BridgeNext, BridgeStep

\* For every number of workers and every failure: an entry is inserted once, and
\* once more only for a commit or an XACK that failed or a worker that was
\* restarted.  Two workers never hold the same entry.
THEOREM EntriesInsertedOnce == BridgeSpec => []RowPerEntry
<1>1. StreamInit => RowInv
  BY RowInvInit
<1>2. RowInv /\ [BridgeNext]_streamVars => RowInv'
  <2> SUFFICES ASSUME RowInv, [BridgeNext]_streamVars PROVE RowInv'
    OBVIOUS
  <2>1. StreamTypeOK'
    BY TypeNext DEF RowInv
  <2>2. CASE BridgeNext
    BY <2>1, <2>2, HeldNext, RowsCountedNext DEF RowInv
  <2>3. CASE UNCHANGED streamVars
    <3>1. HeldOnce'
      BY <2>3 DEF streamVars, RowInv, HeldOnce, BatchHeld, StillPending
    <3>2. RowsCounted'
      BY <2>3 DEF streamVars, RowInv, RowsCounted, Settled, ToInsert, Entries, BridgeMishaps
    <3> QED BY <2>1, <3>1, <3>2 DEF RowInv
  <2> QED BY <2>2, <2>3
<1>3. RowInv => RowPerEntry
  <2> SUFFICES ASSUME RowInv, NEW e \in Ids
               PROVE  rows[e] <= Cardinality(Entries(e))
                                     * (1 + bridgeSpent.failures + bridgeSpent.crashes)
    BY DEF RowPerEntry, Entries
  <2>1. Covered(rows[e] + Cardinality(ToInsert(e)), Cardinality(Entries(e)), BridgeMishaps)
    BY DEF RowInv, RowsCounted
  <2>2. /\ rows[e] \in Nat /\ Cardinality(ToInsert(e)) \in Nat
        /\ Cardinality(Entries(e)) \in Nat /\ BridgeMishaps \in Nat
    BY EntriesFinite DEF RowInv
  <2> DEFINE n == rows[e] + Cardinality(ToInsert(e))
  <2>3. n \in Nat /\ rows[e] <= n
    BY <2>2
  <2> HIDE DEF n
  <2>4. Covered(rows[e], Cardinality(Entries(e)), BridgeMishaps)
    BY <2>1, <2>2, <2>3, CoveredFacts DEF n
  <2>5. 1 + bridgeSpent.failures + bridgeSpent.crashes = 1 + BridgeMishaps
    BY TypeParts DEF RowInv, RowsTyped, BridgeMishaps
  <2> QED BY <2>4, <2>5 DEF Covered
<1> QED BY <1>1, <1>2, <1>3, PTL DEF BridgeSpec

=============================================================================
