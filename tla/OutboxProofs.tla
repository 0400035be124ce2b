---------------------------- MODULE OutboxProofs ----------------------------
(***************************************************************************)
(* Theorems about Outbox, for every set of rows and workers and every      *)
(* bound.  The types, NeverStranded and ShortfallExplained hold as they    *)
(* are; the others need deliveries that end before the stale-lock limit,   *)
(* ~SlowDelivery.  Without it TLC shows counterexamples.                   *)
(***************************************************************************)
EXTENDS Outbox, TLAPS

-----------------------------------------------------------------------------
(* Types.                                                                   *)

\* A row keeps its type through the helpers the actions are written with.
LEMMA RowHelpers ==
    ASSUME NEW entry \in RowType, NEW w \in Workers, NEW n \in Nat
    PROVE  /\ Lock(entry, w) \in RowType
           /\ Unlock(entry) \in RowType
           /\ SentRow(entry) \in RowType
           /\ FailedRow(entry, n) \in RowType
BY DEF Lock, Unlock, SentRow, FailedRow, RowType, Statuses

\* Writing a status keeps the type of a row.
LEMMA RowStatus ==
    ASSUME NEW entry \in RowType, NEW status \in Statuses
    PROVE  [entry EXCEPT !.status = status] \in RowType
BY DEF RowType

\* So does what the portal's retry button writes.
LEMMA RowRequeued ==
    ASSUME NEW entry \in RowType, NEW status \in Statuses, NEW due \in BOOLEAN, NEW n \in Nat
    PROVE  [entry EXCEPT !.status = status, !.due = due, !.max_attempts = n] \in RowType
BY DEF RowType

\* Counting an answer keeps the type of a ledger entry.
LEMMA LedgerUpdate ==
    ASSUME NEW entry \in LedgerType, NEW m \in Nat, NEW n \in Nat
    PROVE  [entry EXCEPT !.accepted = m, !.lost = n] \in LedgerType
BY DEF LedgerType

\* The initial state has the declared types.
LEMMA TypeInit == Init => TypeOK
BY OutboxAssumption DEF Init, TypeOK, RowType, JobType, LedgerType, NoJob, Statuses, Phases

\* No task is a value a task may have.
LEMMA NoJobType == NoJob \in JobType
BY DEF NoJob, JobType, Phases

\* What recording an outcome does to the ledger, field by field.
LEMMA RecordFields ==
    ASSUME TypeOK, NEW r \in Rows, NEW units \in Int, NEW lost \in Nat, Record(r, units, lost)
    PROVE  /\ ledger' \in [Rows -> LedgerType]
           /\ \A s \in Rows \ {r} : ledger'[s] = ledger[s]
           /\ ledger'[r].accepted = ledger[r].accepted
           /\ ledger'[r].lost = ledger[r].lost + lost
           /\ ledger'[r].filtered = ledger[r].filtered
           /\ ledger'[r].usage = ledger[r].usage + units
           /\ ledger'[r].stray = ledger[r].stray
           /\ ledger'[r].redone = IF row[r].status \in {"sent", "dead"}
                                  THEN ledger[r].redone + 1 ELSE ledger[r].redone
<1> DEFINE again == IF row[r].status \in {"sent", "dead"}
                    THEN ledger[r].redone + 1 ELSE ledger[r].redone
           entry == [ledger[r] EXCEPT !.usage = ledger[r].usage + units,
                                      !.lost = ledger[r].lost + lost, !.redone = again]
<1>1. /\ ledger[r] \in LedgerType
      /\ ledger[r].usage \in Int /\ ledger[r].lost \in Nat /\ ledger[r].redone \in Nat
  BY DEF TypeOK, LedgerType
<1>2. ledger' = [ledger EXCEPT ![r] = entry]
  BY DEF Record, TypeOK
<1>3. ledger[r].usage + units \in Int /\ ledger[r].lost + lost \in Nat /\ again \in Nat
  BY <1>1
<1> HIDE DEF again
<1>4. /\ entry \in LedgerType
      /\ entry.accepted = ledger[r].accepted /\ entry.lost = ledger[r].lost + lost
      /\ entry.filtered = ledger[r].filtered /\ entry.usage = ledger[r].usage + units
      /\ entry.stray = ledger[r].stray /\ entry.redone = again
  BY <1>1, <1>3 DEF LedgerType
<1> HIDE DEF entry
<1> QED BY <1>2, <1>4 DEF TypeOK, again

\* What a rollback in a transaction that is not committed may leave behind.
LEMMA AbortedFields ==
    ASSUME TypeOK, NEW r \in Rows, RollbackAborted(r)
    PROVE  /\ ledger' \in [Rows -> LedgerType]
           /\ \A s \in Rows \ {r} : ledger'[s] = ledger[s]
           /\ ledger'[r].accepted = ledger[r].accepted
           /\ ledger'[r].lost = ledger[r].lost
           /\ ledger'[r].filtered = ledger[r].filtered
           /\ ledger'[r].redone = ledger[r].redone
           /\ ledger'[r].usage + ledger'[r].stray = ledger[r].usage + ledger[r].stray
<1>1. ledger[r] \in LedgerType /\ ledger[r].usage \in Int /\ ledger[r].stray \in Nat
  BY DEF TypeOK, LedgerType
<1>2. CASE UNCHANGED ledger
  BY <1>1, <1>2 DEF TypeOK
<1>3. CASE ledger' = [ledger EXCEPT ![r].usage = @ - 1, ![r].stray = @ + 1]
  <2> DEFINE entry == [ledger[r] EXCEPT !.usage = ledger[r].usage - 1, !.stray = ledger[r].stray + 1]
  <2>1. ledger' = [ledger EXCEPT ![r] = entry]
    BY <1>3 DEF TypeOK
  <2>0. ledger[r].usage - 1 \in Int /\ ledger[r].stray + 1 \in Nat
    BY <1>1
  <2>2. /\ entry \in LedgerType
        /\ entry.accepted = ledger[r].accepted /\ entry.lost = ledger[r].lost
        /\ entry.filtered = ledger[r].filtered /\ entry.redone = ledger[r].redone
        /\ entry.usage = ledger[r].usage - 1 /\ entry.stray = ledger[r].stray + 1
    BY <1>1, <2>0 DEF LedgerType
  <2>3. entry.usage + entry.stray = ledger[r].usage + ledger[r].stray
    BY <1>1, <2>2
  <2> HIDE DEF entry
  <2> QED BY <2>1, <2>2, <2>3 DEF TypeOK
<1> QED BY <1>2, <1>3 DEF RollbackAborted

\* A usage rollback records an outcome, with or without its unit ...
LEMMA RollbackRecords ==
    ASSUME NEW r \in Rows, RollbackUsage(r)
    PROVE  \E units \in {-1, 0} : Record(r, units, 0) /\ (units = -1 => r \in Reserved)
BY DEF RollbackUsage

\* ... so it keeps the type of the ledger.
LEMMA RollbackType ==
    ASSUME TypeOK, NEW r \in Rows, RollbackUsage(r)
    PROVE  ledger' \in [Rows -> LedgerType]
<1>1. PICK units \in {-1, 0} : Record(r, units, 0)
  BY RollbackRecords
<1> QED BY <1>1, RecordFields

\* Ending a task keeps the type of job.
LEMMA EndJobType ==
    ASSUME TypeOK, NEW w \in Workers, NEW r \in Rows, EndJob(w, r)
    PROVE  job' \in [Workers -> [Rows -> JobType]]
BY NoJobType DEF TypeOK, EndJob

\* Every step of a task keeps the types.
LEMMA TaskType ==
    ASSUME TypeOK, NEW w \in Workers, NEW r \in Rows, Task(w, r)
    PROVE  TypeOK'
<1> USE OutboxAssumption
<1> row[r] \in RowType /\ job[w][r] \in JobType /\ ledger[r] \in LedgerType
  BY DEF TypeOK
<1>1. CASE BeginSkips(w, r)
  BY <1>1, EndJobType DEF BeginSkips, TypeOK
<1>2. CASE BeginInactive(w, r)
  <2>1. [Unlock(row[r]) EXCEPT !.status = "dead"] \in RowType
    BY RowHelpers DEF Unlock, RowType, Statuses
  <2> QED BY <1>2, <2>1, EndJobType DEF BeginInactive, TypeOK
<1>3. CASE BeginSend(w, r)
  <2>1. job' \in [Workers -> [Rows -> JobType]]
    BY <1>3 DEF BeginSend, TypeOK, RowType, JobType, Phases
  <2> QED BY <1>3, <2>1 DEF BeginSend, TypeOK
<1>4. CASE Send(w, r)
  <2>1. ASSUME NEW phase \in Phases, Answer(w, r, phase)
        PROVE  job' \in [Workers -> [Rows -> JobType]]
    BY <2>1 DEF Answer, TypeOK, JobType, Phases
  <2>2. job' \in [Workers -> [Rows -> JobType]]
    BY <1>4, <2>1 DEF Send, SendAccepted, SendRefused, SendUnanswered, SendFiltered, Phases
  <2>3. ledger' \in [Rows -> LedgerType]
    <3>1. CASE SendAccepted(w, r)
      BY <3>1 DEF SendAccepted, TypeOK, LedgerType
    <3>2. CASE SendRefused(w, r)
      BY <3>2 DEF SendRefused, TypeOK
    <3>3. CASE SendUnanswered(w, r)
      <4>1. [ledger[r] EXCEPT !.accepted = @ + 1, !.lost = @ + 1] \in LedgerType
        <5>1. ledger[r].accepted + 1 \in Nat /\ ledger[r].lost + 1 \in Nat
          BY DEF LedgerType
        <5> QED BY <5>1, LedgerUpdate
      <4> QED BY <3>3, <4>1 DEF SendUnanswered, TypeOK
    <3>4. CASE SendFiltered(w, r)
      BY <3>4 DEF SendFiltered, TypeOK, LedgerType
    <3> QED BY <1>4, <3>1, <3>2, <3>3, <3>4 DEF Send
  <2>4. UNCHANGED <<row, client, doomed, spent>>
    BY <1>4 DEF Send, SendAccepted, SendRefused, SendUnanswered, SendFiltered, Answer
  <2> QED BY <2>2, <2>3, <2>4 DEF TypeOK
<1>5. CASE FinishGone(w, r)
  BY <1>5, EndJobType DEF FinishGone, TypeOK
<1>6. CASE FinishSent(w, r)
  <2>1. row' \in [Rows -> RowType]
    BY <1>6, RowHelpers DEF FinishSent, TypeOK
  <2>2. ledger' \in [Rows -> LedgerType]
    BY <1>6, RecordFields DEF FinishSent, SentUnits
  <2> QED BY <1>6, <2>1, <2>2, EndJobType DEF FinishSent, TypeOK
<1>7. CASE FinishFiltered(w, r)
  <2>1. row' \in [Rows -> RowType]
    BY <1>7, RowHelpers DEF FinishFiltered, TypeOK
  <2> QED BY <1>7, <2>1, RollbackType, EndJobType DEF FinishFiltered, TypeOK
<1>8. CASE FinishRetry(w, r)
  <2>1. FailedRow(row[r], job[w][r].attempts + 1) \in RowType
    BY RowHelpers DEF JobType
  <2>2. row' \in [Rows -> RowType]
    BY <1>8, <2>1 DEF FinishRetry, TypeOK, RowType, Statuses
  <2>3. ledger' \in [Rows -> LedgerType]
    BY <1>8, RecordFields DEF FinishRetry
  <2> QED BY <1>8, <2>2, <2>3, EndJobType DEF FinishRetry, TypeOK
<1>9. CASE FinishDead(w, r)
  <2>1. FailedRow(row[r], job[w][r].attempts + 1) \in RowType
    BY RowHelpers DEF JobType
  <2>2. row' \in [Rows -> RowType]
    BY <1>9, <2>1 DEF FinishDead, TypeOK, RowType, Statuses
  <2> QED BY <1>9, <2>2, RollbackType, EndJobType DEF FinishDead, TypeOK
<1>10. CASE CommitFails(w, r)
  <2>1. job' \in [Workers -> [Rows -> JobType]]
    BY <1>10 DEF CommitFails, TypeOK, JobType, Phases
  <2>2. ledger' \in [Rows -> LedgerType]
    <3>1. CASE ledger' = [ledger EXCEPT ![r].lost = @ + 1]
      BY <3>1 DEF TypeOK, LedgerType
    <3> QED BY <1>10, <3>1, AbortedFields DEF CommitFails
  <2> QED BY <1>10, <2>1, <2>2 DEF CommitFails, TypeOK
<1>11. CASE FailureLost(w, r)
  <2>1. spent' \in [crashes: Nat, retries: Nat, cleanups: Nat, deactivations: Nat]
    BY <1>11 DEF FailureLost, TypeOK
  <2>2. ledger' \in [Rows -> LedgerType]
    BY <1>11, AbortedFields DEF FailureLost, TypeOK
  <2> QED BY <1>11, <2>1, <2>2, EndJobType DEF FailureLost, TypeOK
<1>12. CASE CommitUnanswered(w, r)
  <2>1. job' \in [Workers -> [Rows -> JobType]]
    BY <1>12 DEF CommitUnanswered, TypeOK, JobType, Phases
  <2>2. row' \in [Rows -> RowType]
    BY <1>12, RowHelpers DEF CommitUnanswered, TypeOK
  <2>3. ledger' \in [Rows -> LedgerType]
    BY <1>12, RecordFields, RollbackType DEF CommitUnanswered, SentUnits
  <2>4. spent' \in [crashes: Nat, retries: Nat, cleanups: Nat, deactivations: Nat]
    BY <1>12 DEF CommitUnanswered, TypeOK
  <2> QED BY <1>12, <2>1, <2>2, <2>3, <2>4 DEF CommitUnanswered, TypeOK
<1> QED
  BY <1>1, <1>2, <1>3, <1>4, <1>5, <1>6, <1>7, <1>8, <1>9, <1>10, <1>11, <1>12 DEF Task, Finish

\* Every step keeps the types.
LEMMA TypeNext == TypeOK /\ [Next]_vars => TypeOK'
<1> SUFFICES ASSUME TypeOK, [Next]_vars PROVE TypeOK'
  OBVIOUS
<1> USE OutboxAssumption
<1>1. ASSUME NEW r \in Rows, Enqueue(r) PROVE TypeOK'
  <2>1. row' \in [Rows -> RowType]
    BY <1>1 DEF Enqueue, TypeOK, RowType, Statuses
  <2>2. ledger' \in [Rows -> LedgerType]
    BY <1>1 DEF Enqueue, TypeOK, LedgerType
  <2> QED BY <1>1, <2>1, <2>2 DEF Enqueue, TypeOK
<1>2. ASSUME NEW r \in Rows, PortalRetry(r) PROVE TypeOK'
  <2>1. row[r] \in RowType
    BY DEF TypeOK
  <2>2. row' \in [Rows -> RowType]
    <3>1. row'[r] \in RowType
      <4> DEFINE n == IF row[r].attempts < row[r].max_attempts
                      THEN row[r].max_attempts ELSE row[r].attempts + 1
      <4>1. n \in Nat
        BY <2>1 DEF RowType
      <4>2. row'[r] = [Unlock(row[r]) EXCEPT !.status = "queued", !.due = TRUE, !.max_attempts = n]
        BY <1>2 DEF PortalRetry, TypeOK
      <4>3. Unlock(row[r]) \in RowType
        BY <2>1, RowHelpers DEF Unlock, RowType
      <4>4. "queued" \in Statuses /\ TRUE \in BOOLEAN
        BY DEF Statuses
      <4> HIDE DEF n
      <4>5. [Unlock(row[r]) EXCEPT !.status = "queued", !.due = TRUE, !.max_attempts = n] \in RowType
        BY <4>1, <4>3, <4>4, RowRequeued
      <4> QED BY <4>2, <4>5
    <3>2. \A s \in Rows \ {r} : row'[s] = row[s]
      BY <1>2 DEF PortalRetry, TypeOK
    <3>3. \A s \in Rows : row'[s] \in RowType
      BY <3>1, <3>2 DEF TypeOK
    <3>4. DOMAIN row' = Rows /\ row' = [s \in DOMAIN row' |-> row'[s]]
      BY <1>2 DEF PortalRetry, TypeOK
    <3> QED BY <3>3, <3>4
  <2>3. spent' \in [crashes: Nat, retries: Nat, cleanups: Nat, deactivations: Nat]
    BY <1>2 DEF PortalRetry, TypeOK
  <2>4. ledger' \in [Rows -> LedgerType]
    BY <1>2, RecordFields DEF PortalRetry
  <2> QED BY <1>2, <2>2, <2>3, <2>4 DEF PortalRetry, TypeOK
<1>3. ASSUME NEW r \in Rows, BackoffElapses(r) PROVE TypeOK'
  <2>1. row[r] \in RowType
    BY DEF TypeOK
  <2>2. [row[r] EXCEPT !.due = TRUE] \in RowType
    BY <2>1 DEF RowType
  <2>3. row' = [row EXCEPT ![r] = [row[r] EXCEPT !.due = TRUE]]
    BY <1>3 DEF BackoffElapses
  <2>4. row' \in [Rows -> RowType]
    BY <2>2, <2>3 DEF TypeOK
  <2> QED BY <1>3, <2>4 DEF BackoffElapses, TypeOK
<1>4. ASSUME NEW r \in Rows, LockExpires(r) PROVE TypeOK'
  <2>1. row[r] \in RowType
    BY DEF TypeOK
  <2>2. [row[r] EXCEPT !.stale = TRUE] \in RowType
    BY <2>1 DEF RowType
  <2>3. row' = [row EXCEPT ![r] = [row[r] EXCEPT !.stale = TRUE]]
    BY <1>4 DEF LockExpires
  <2>4. row' \in [Rows -> RowType]
    BY <2>2, <2>3 DEF TypeOK
  <2> QED BY <1>4, <2>4 DEF LockExpires, TypeOK
<1>5. ASSUME NEW w \in Workers, Claim(w) PROVE TypeOK'
  <2>1. PICK batch \in SUBSET Rows :
          /\ row' = [r \in Rows |-> IF r \in batch THEN Lock(row[r], w) ELSE row[r]]
          /\ job' = [job EXCEPT ![w] = [r \in Rows |->
                       IF r \in batch THEN [NoJob EXCEPT !.phase = "claimed"] ELSE NoJob]]
    BY <1>5 DEF Claim
  <2>2. row' \in [Rows -> RowType]
    <3>1. \A r \in Rows : row[r] \in RowType /\ Lock(row[r], w) \in RowType
      BY RowHelpers DEF TypeOK
    <3> QED BY <2>1, <3>1
  <2>3. [NoJob EXCEPT !.phase = "claimed"] \in JobType
    BY DEF NoJob, JobType, Phases
  <2>4. job' \in [Workers -> [Rows -> JobType]]
    BY <2>1, <2>3, NoJobType DEF TypeOK
  <2> QED BY <1>5, <2>2, <2>4 DEF Claim, TypeOK
<1>6. ASSUME NEW w \in Workers, Crash(w) PROVE TypeOK'
  <2>1. job' \in [Workers -> [Rows -> JobType]]
    BY <1>6, NoJobType DEF Crash, TypeOK
  <2>2. ledger' \in [Rows -> LedgerType]
    <3>1. \A r \in Rows : [ledger[r] EXCEPT !.lost = @ + 1] \in LedgerType
      BY DEF TypeOK, LedgerType
    <3> QED BY <1>6, <3>1 DEF Crash, TypeOK
  <2>3. spent' \in [crashes: Nat, retries: Nat, cleanups: Nat, deactivations: Nat]
    BY <1>6 DEF Crash, TypeOK
  <2> QED BY <1>6, <2>1, <2>2, <2>3 DEF Crash, TypeOK
<1>7. CASE CleanupSelect
  BY <1>7 DEF CleanupSelect, TypeOK
<1>8. CASE CleanupDelete \/ DeleteClient
  <2>1. \A r \in Rows : row[r] \in RowType /\ [row[r] EXCEPT !.status = "deleted"] \in RowType
    BY RowStatus DEF TypeOK, Statuses
  <2>2. row' \in [Rows -> RowType]
    BY <1>8, <2>1 DEF CleanupDelete, DeleteClient
  <2> QED BY <1>8, <2>2 DEF CleanupDelete, DeleteClient, TypeOK
<1>9. CASE SwitchOff \/ SwitchOn
  BY <1>9 DEF SwitchOff, SwitchOn, TypeOK
<1>10. CASE UNCHANGED vars
  BY <1>10 DEF vars, TypeOK
<1> QED
  BY <1>1, <1>2, <1>3, <1>4, <1>5, <1>6, <1>7, <1>8, <1>9, <1>10, TaskType DEF Next

\* Every reachable state has the declared types.
THEOREM TypeCorrect == Spec => []TypeOK
BY TypeInit, TypeNext, PTL DEF Spec

-----------------------------------------------------------------------------
(* NeverStranded.  Alone it is not inductive: FinishRetry writes a copy of  *)
(* attempts that may be older than the row's, so what bounds it must be     *)
(* known of the copies, and a row must have no task before it exists.       *)

Copied == {"sending", "accepted", "filtered"} \cup Excepting

NoTaskBeforeRow ==
    \A r \in Rows, w \in Workers : row[r].status = "absent" => job[w][r].phase = "idle"

CopiesBounded ==
    \A r \in Rows, w \in Workers :
        job[w][r].phase \in Copied => job[w][r].max_attempts <= row[r].max_attempts

StrandInv == TypeOK /\ NeverStranded /\ NoTaskBeforeRow /\ CopiesBounded

\* The helpers leave attempts, max_attempts and status as their names say.
LEMMA RowFields ==
    ASSUME NEW entry \in RowType, NEW w \in Workers, NEW n \in Nat
    PROVE  /\ Lock(entry, w).status = "processing"
           /\ Lock(entry, w).locked = w
           /\ Lock(entry, w).stale = FALSE
           /\ Lock(entry, w).attempts = entry.attempts
           /\ Lock(entry, w).max_attempts = entry.max_attempts
           /\ SentRow(entry).status = "sent"
           /\ SentRow(entry).max_attempts = entry.max_attempts
           /\ SentRow(entry).attempts = entry.attempts
           /\ Unlock(entry).max_attempts = entry.max_attempts
           /\ Unlock(entry).attempts = entry.attempts
           /\ FailedRow(entry, n).attempts = n
           /\ FailedRow(entry, n).max_attempts = entry.max_attempts
BY DEF Lock, Unlock, SentRow, FailedRow, RowType

\* Time changes no count, status or lock of a row.
LEMMA TimeKeeps ==
    ASSUME TypeOK, NEW r \in Rows, BackoffElapses(r) \/ LockExpires(r)
    PROVE  /\ \A s \in Rows : /\ row'[s].status = row[s].status
                               /\ row'[s].attempts = row[s].attempts
                               /\ row'[s].max_attempts = row[s].max_attempts
                               /\ row'[s].locked = row[s].locked
           /\ UNCHANGED <<job, client, doomed, ledger, spent>>
<1> \A s \in Rows : row[s] \in RowType
  BY DEF TypeOK
<1>1. CASE BackoffElapses(r)
  BY <1>1 DEF BackoffElapses, TypeOK, RowType
<1>2. CASE LockExpires(r)
  BY <1>2 DEF LockExpires, TypeOK, RowType
<1> QED BY <1>1, <1>2

\* What a task's step may do to its row: end it as sent or dead, or queue it
\* again with fewer attempts than the copied maximum.
Outcome(w, r) ==
    /\ row'[r].max_attempts = row[r].max_attempts
    /\ \/ row'[r] = row[r]
       \/ row[r].status # "absent" /\ row'[r].status \in {"sent", "dead"}
       \/ /\ job[w][r].phase \in Excepting
          /\ row'[r].status = "queued"
          /\ row'[r].attempts = job[w][r].attempts + 1
          /\ job[w][r].attempts + 1 < job[w][r].max_attempts

\* A task's step changes its own row and its own entry of job only.
LEMMA TaskFrame ==
    ASSUME TypeOK, NEW w \in Workers, NEW r \in Rows, Task(w, r)
    PROVE  /\ \A s \in Rows \ {r} : row'[s] = row[s]
           /\ \A v \in Workers, s \in Rows : v # w \/ s # r => job'[v][s] = job[v][s]
           /\ job[w][r].phase # "idle"
           /\ Outcome(w, r)
           /\ \/ job'[w][r].phase = "idle"
              \/ job'[w][r].max_attempts = row[r].max_attempts /\ row'[r] = row[r]
              \/ /\ job[w][r].phase \in Copied
                 /\ job'[w][r].max_attempts = job[w][r].max_attempts
<1> row[r] \in RowType /\ job[w][r] \in JobType
  BY DEF TypeOK
<1>1. CASE BeginSkips(w, r)
  BY <1>1 DEF BeginSkips, EndJob, NoJob, TypeOK, Outcome
<1>2. CASE BeginInactive(w, r)
  <2>1. row'[r] = [Unlock(row[r]) EXCEPT !.status = "dead"]
    BY <1>2 DEF BeginInactive, TypeOK
  <2>2. row'[r].status = "dead" /\ row'[r].max_attempts = row[r].max_attempts
    BY <2>1 DEF Unlock, RowType
  <2> QED BY <1>2, <2>2 DEF BeginInactive, EndJob, NoJob, TypeOK, Outcome
<1>3. CASE BeginSend(w, r)
  BY <1>3 DEF BeginSend, TypeOK, Outcome
<1>4. CASE Send(w, r)
  <2>1. ASSUME NEW phase, Answer(w, r, phase)
        PROVE  /\ job[w][r].phase = "sending" /\ row' = row
               /\ job'[w][r] = [job[w][r] EXCEPT !.phase = phase]
               /\ \A v \in Workers, s \in Rows : v # w \/ s # r => job'[v][s] = job[v][s]
    BY <2>1 DEF Answer, TypeOK
  <2>2. /\ job[w][r].phase = "sending" /\ row' = row
        /\ job'[w][r].max_attempts = job[w][r].max_attempts
        /\ \A v \in Workers, s \in Rows : v # w \/ s # r => job'[v][s] = job[v][s]
    BY <1>4, <2>1 DEF Send, SendAccepted, SendRefused, SendUnanswered, SendFiltered, JobType
  <2>3. "sending" \in Copied /\ "sending" # "idle"
    BY DEF Copied
  <2> QED BY <2>2, <2>3 DEF Outcome
<1>5. CASE FinishGone(w, r)
  BY <1>5 DEF FinishGone, EndJob, NoJob, TypeOK, Outcome, Excepting
<1>6. CASE FinishSent(w, r)
  <2>1. row'[r] = SentRow(row[r]) /\ row[r].status # "absent"
    BY <1>6 DEF FinishSent, TypeOK, Exists
  <2>2. row'[r].status = "sent" /\ row'[r].max_attempts = row[r].max_attempts
    BY <2>1 DEF SentRow, Unlock, RowType
  <2> QED BY <1>6, <2>1, <2>2 DEF FinishSent, EndJob, NoJob, TypeOK, Outcome
<1>7. CASE FinishFiltered(w, r)
  <2>1. row'[r] = SentRow(row[r]) /\ row[r].status # "absent"
    BY <1>7 DEF FinishFiltered, TypeOK, Exists
  <2>2. row'[r].status = "sent" /\ row'[r].max_attempts = row[r].max_attempts
    BY <2>1 DEF SentRow, Unlock, RowType
  <2> QED BY <1>7, <2>1, <2>2 DEF FinishFiltered, EndJob, NoJob, TypeOK, Outcome
<1>8. CASE FinishRetry(w, r)
  <2> DEFINE n == job[w][r].attempts + 1
  <2>1. row'[r] = [FailedRow(row[r], n) EXCEPT !.status = "queued", !.due = FALSE]
    BY <1>8 DEF FinishRetry, TypeOK
  <2>2. /\ row'[r].status = "queued" /\ row'[r].attempts = n
        /\ row'[r].max_attempts = row[r].max_attempts
    BY <2>1 DEF FailedRow, Unlock, RowType
  <2> QED BY <1>8, <2>2 DEF FinishRetry, EndJob, NoJob, TypeOK, Outcome, Excepting
<1>9. CASE FinishDead(w, r)
  <2>1. row'[r] = [FailedRow(row[r], job[w][r].attempts + 1) EXCEPT !.status = "dead"]
    BY <1>9 DEF FinishDead, TypeOK
  <2>2. row'[r].status = "dead" /\ row'[r].max_attempts = row[r].max_attempts
    BY <2>1 DEF FailedRow, Unlock, RowType
  <2> QED BY <1>9, <2>2 DEF FinishDead, EndJob, NoJob, TypeOK, Outcome, Exists, Excepting
<1>10. CASE CommitFails(w, r)
  BY <1>10 DEF CommitFails, TypeOK, JobType, Outcome, Copied, Excepting
<1>11. CASE FailureLost(w, r)
  BY <1>11 DEF FailureLost, EndJob, NoJob, TypeOK, Outcome, Excepting
<1>12. CASE CommitUnanswered(w, r)
  <2>1. row'[r] = SentRow(row[r]) /\ row[r].status # "absent"
    BY <1>12 DEF CommitUnanswered, TypeOK, Exists
  <2>2. row'[r].status = "sent" /\ row'[r].max_attempts = row[r].max_attempts
    BY <2>1 DEF SentRow, Unlock, RowType
  <2> QED BY <1>12, <2>1, <2>2 DEF CommitUnanswered, TypeOK, JobType, Outcome, Copied
<1> QED
  BY <1>1, <1>2, <1>3, <1>4, <1>5, <1>6, <1>7, <1>8, <1>9, <1>10, <1>11, <1>12 DEF Task, Finish

\* The inductive invariant of NeverStranded holds at the start.
LEMMA StrandInit == Init => StrandInv
BY TypeInit DEF Init, StrandInv, NeverStranded, NoTaskBeforeRow, CopiesBounded, NoJob, Open, Copied, Excepting

\* Every step preserves it.
LEMMA StrandNext == StrandInv /\ [Next]_vars => StrandInv'
<1> SUFFICES ASSUME StrandInv, [Next]_vars
             PROVE  NeverStranded' /\ NoTaskBeforeRow' /\ CopiesBounded'
  BY TypeNext DEF StrandInv
<1> USE OutboxAssumption DEF StrandInv
<1>0. /\ \A r \in Rows : row[r] \in RowType
      /\ \A w \in Workers, r \in Rows : job[w][r] \in JobType
  BY DEF TypeOK
<1>00. /\ \A r \in Rows : row[r].attempts \in Nat /\ row[r].max_attempts \in Nat
       /\ \A w \in Workers, r \in Rows : job[w][r].attempts \in Nat /\ job[w][r].max_attempts \in Nat
  BY <1>0 DEF RowType, JobType
<1>1. ASSUME NEW r \in Rows, Enqueue(r)
      PROVE  NeverStranded' /\ NoTaskBeforeRow' /\ CopiesBounded'
  <2>1. /\ row[r].status = "absent" /\ job' = job
        /\ row'[r].attempts < row'[r].max_attempts
        /\ row'[r].status = "queued"
        /\ \A s \in Rows \ {r} : row'[s] = row[s]
    BY <1>1 DEF Enqueue, TypeOK
  <2> QED BY <2>1 DEF NeverStranded, NoTaskBeforeRow, CopiesBounded, Open, Copied, Excepting
<1>2. ASSUME NEW r \in Rows, PortalRetry(r)
      PROVE  NeverStranded' /\ NoTaskBeforeRow' /\ CopiesBounded'
  <2> DEFINE n == IF row[r].attempts < row[r].max_attempts
                  THEN row[r].max_attempts ELSE row[r].attempts + 1
  <2>1. /\ row'[r] = [Unlock(row[r]) EXCEPT !.status = "queued", !.due = TRUE,
                                            !.max_attempts = n]
        /\ job' = job
        /\ row[r].status # "absent"
        /\ \A s \in Rows \ {r} : row'[s] = row[s]
    BY <1>2 DEF PortalRetry, TypeOK, Exists
  <2>2. /\ row'[r].max_attempts = n /\ row'[r].status = "queued"
        /\ row'[r].attempts = row[r].attempts
    BY <2>1, <1>0 DEF Unlock, RowType
  <2>3. row[r].attempts < n /\ row[r].max_attempts <= n /\ n \in Nat
    <3>1. row[r].attempts \in Nat /\ row[r].max_attempts \in Nat
      BY <1>00
    <3> QED BY ONLY <3>1
  <2>30. job' = job /\ \A s \in Rows \ {r} : row'[s] = row[s]
    BY <2>1
  <2> HIDE DEF n
  <2>4. ASSUME NEW w \in Workers, job[w][r].phase \in Copied
        PROVE  job[w][r].max_attempts <= n
    <3>1. job[w][r].max_attempts <= row[r].max_attempts
      BY <2>4 DEF CopiesBounded
    <3>2. job[w][r].max_attempts \in Nat /\ row[r].max_attempts \in Nat
      BY <1>00
    <3> QED BY <2>3, <3>1, <3>2
  <2>5. NeverStranded'
    BY <2>30, <2>2, <2>3 DEF NeverStranded
  <2>6. NoTaskBeforeRow'
    <3> SUFFICES ASSUME NEW s \in Rows, NEW w \in Workers, row'[s].status = "absent"
                 PROVE  job'[w][s].phase = "idle"
      BY DEF NoTaskBeforeRow
    <3>1. s # r
      BY <2>2
    <3> QED BY <2>30, <3>1 DEF NoTaskBeforeRow
  <2>7. CopiesBounded'
    BY <2>30, <2>2, <2>4 DEF CopiesBounded
  <2> QED BY <2>5, <2>6, <2>7
<1>3. ASSUME NEW r \in Rows, BackoffElapses(r) \/ LockExpires(r)
      PROVE  NeverStranded' /\ NoTaskBeforeRow' /\ CopiesBounded'
  <2>1. /\ job' = job
        /\ \A s \in Rows : /\ row'[s].status = row[s].status
                            /\ row'[s].attempts = row[s].attempts
                            /\ row'[s].max_attempts = row[s].max_attempts
    BY <1>3, TimeKeeps
  <2> QED BY <2>1 DEF NeverStranded, NoTaskBeforeRow, CopiesBounded
<1>4. ASSUME NEW w \in Workers, Claim(w)
      PROVE  NeverStranded' /\ NoTaskBeforeRow' /\ CopiesBounded'
  <2>1. PICK batch \in SUBSET Rows :
          /\ IsBatch(batch)
          /\ row' = [r \in Rows |-> IF r \in batch THEN Lock(row[r], w) ELSE row[r]]
          /\ job' = [job EXCEPT ![w] = [r \in Rows |->
                       IF r \in batch THEN [NoJob EXCEPT !.phase = "claimed"] ELSE NoJob]]
    BY <1>4 DEF Claim
  <2>2. \A r \in batch : row[r].status \in Open
    BY <2>1 DEF IsBatch, Claimable
  <2>3. \A r \in Rows : /\ row'[r].attempts = row[r].attempts
                        /\ row'[r].max_attempts = row[r].max_attempts
                        /\ r \in batch => row'[r].status = "processing"
                        /\ r \notin batch => row'[r].status = row[r].status
    <3> TAKE r \in Rows
    <3>1. /\ Lock(row[r], w).status = "processing"
          /\ Lock(row[r], w).attempts = row[r].attempts
          /\ Lock(row[r], w).max_attempts = row[r].max_attempts
      BY <1>0, RowFields DEF Lock, RowType
    <3> QED BY <2>1, <3>1
  <2>4. /\ \A v \in Workers \ {w} : job'[v] = job[v]
        /\ \A r \in Rows : job'[w][r].phase = IF r \in batch THEN "claimed" ELSE "idle"
    BY <2>1 DEF TypeOK, NoJob
  <2>5. NeverStranded'
    BY <2>2, <2>3 DEF NeverStranded
  <2>6. NoTaskBeforeRow'
    BY <2>2, <2>3, <2>4 DEF NoTaskBeforeRow, Open
  <2>7. CopiesBounded'
    BY <2>3, <2>4 DEF CopiesBounded, Copied, Excepting
  <2> QED BY <2>5, <2>6, <2>7
<1>5. ASSUME NEW w \in Workers, Crash(w)
      PROVE  NeverStranded' /\ NoTaskBeforeRow' /\ CopiesBounded'
  <2>1. /\ row' = row
        /\ \A v \in Workers \ {w} : job'[v] = job[v]
        /\ \A r \in Rows : job'[w][r].phase = "idle"
    BY <1>5 DEF Crash, TypeOK, NoJob
  <2> QED BY <2>1 DEF NeverStranded, NoTaskBeforeRow, CopiesBounded, Copied, Excepting
<1>6. ASSUME NEW w \in Workers, NEW r \in Rows, Task(w, r)
      PROVE  NeverStranded' /\ NoTaskBeforeRow' /\ CopiesBounded'
  <2>1. NeverStranded'
    <3> SUFFICES ASSUME NEW s \in Rows, row'[s].status \in Open
                 PROVE  row'[s].attempts < row'[s].max_attempts
      BY DEF NeverStranded
    <3>1. CASE row'[s] = row[s]
      BY <3>1 DEF NeverStranded
    <3>2. CASE s = r /\ row'[r] # row[r]
      <4>1. /\ job[w][r].phase \in Excepting
            /\ row'[r].attempts = job[w][r].attempts + 1
            /\ job[w][r].attempts + 1 < job[w][r].max_attempts
            /\ row'[r].max_attempts = row[r].max_attempts
        BY <1>6, <3>2, TaskFrame DEF Outcome, Open
      <4>2. job[w][r].max_attempts <= row[r].max_attempts
        BY <4>1 DEF CopiesBounded, Copied, Excepting
      <4>3. job[w][r].attempts \in Nat /\ job[w][r].max_attempts \in Nat /\ row[r].max_attempts \in Nat
        BY DEF StrandInv, TypeOK, RowType, JobType
      <4> HIDE DEF StrandInv
      <4> QED BY <3>2, <4>1, <4>2, <4>3
    <3> QED BY <1>6, <3>1, <3>2, TaskFrame
  <2>2. NoTaskBeforeRow'
    BY <1>6, TaskFrame DEF NoTaskBeforeRow, Outcome
  <2>3. CopiesBounded'
    <3> SUFFICES ASSUME NEW s \in Rows, NEW v \in Workers, job'[v][s].phase \in Copied
                 PROVE  job'[v][s].max_attempts <= row'[s].max_attempts
      BY DEF CopiesBounded
    <3>1. row'[s].max_attempts = row[s].max_attempts
      BY <1>6, TaskFrame DEF Outcome
    <3>2. CASE v # w \/ s # r
      <4>1. job'[v][s] = job[v][s]
        BY <1>6, <3>2, TaskFrame
      <4> QED BY <3>1, <4>1 DEF CopiesBounded
    <3>3. CASE v = w /\ s = r
      <4>1. CASE job'[w][r].max_attempts = row[r].max_attempts
        <5>1. row[r].max_attempts \in Nat
          BY DEF StrandInv, TypeOK, RowType
        <5> QED BY <3>1, <3>3, <4>1, <5>1
      <4>2. CASE job[w][r].phase \in Copied /\ job'[w][r].max_attempts = job[w][r].max_attempts
        <5>1. job[w][r].max_attempts <= row[r].max_attempts
          BY <4>2 DEF CopiesBounded
        <5> QED BY <3>1, <3>3, <4>2, <5>1
      <4>3. job'[w][r].phase # "idle"
        BY <3>3 DEF Copied, Excepting
      <4>4. TypeOK
        BY DEF StrandInv
      <4> QED BY <1>6, <4>1, <4>2, <4>3, <4>4, TaskFrame
    <3> QED BY <3>2, <3>3
  <2> QED BY <2>1, <2>2, <2>3
<1>7. CASE CleanupSelect \/ SwitchOff \/ SwitchOn \/ UNCHANGED vars
  BY <1>7 DEF CleanupSelect, SwitchOff, SwitchOn, vars, NeverStranded, NoTaskBeforeRow, CopiesBounded
<1>8. CASE CleanupDelete \/ DeleteClient
  <2>1. /\ job' = job
        /\ \A r \in Rows : row'[r].max_attempts = row[r].max_attempts
        /\ \A r \in Rows : row'[r] = row[r] \/ row'[r].status = "deleted"
    BY <1>8, <1>0 DEF CleanupDelete, DeleteClient, RowType
  <2>2. NeverStranded'
    BY <2>1 DEF NeverStranded, Open
  <2>3. NoTaskBeforeRow'
    BY <2>1 DEF NoTaskBeforeRow
  <2>4. CopiesBounded'
    BY <2>1 DEF CopiesBounded
  <2> QED BY <2>2, <2>3, <2>4
<1> QED
  BY <1>1, <1>2, <1>3, <1>4, <1>5, <1>6, <1>7, <1>8 DEF Next

\* A row that waits, or is locked by a worker that may be gone, can be claimed
\* again as far as attempts < max_attempts goes, whatever late tasks write.
THEOREM RowsNeverStranded == Spec => []NeverStranded
<1>1. StrandInv => NeverStranded
  BY DEF StrandInv
<1> QED BY <1>1, StrandInit, StrandNext, PTL DEF Spec

-----------------------------------------------------------------------------
(* OneTaskPerRow and SentIsFinal, when no task outlives its lock.  The      *)
(* strengthening says what a stale lock and a processing row imply.         *)

StaleMeansIdle ==
    \A r \in Rows, w \in Workers :
        row[r].stale /\ row[r].status # "deleted" => ~Live(w, r)

ProcessingIsLocked ==
    \A r \in Rows : row[r].status = "processing" => row[r].locked \in Workers

LockFacts == OneTaskPerRow /\ NoTaskBeforeRow /\ StaleMeansIdle /\ ProcessingIsLocked

LockInv == TypeOK /\ LockFacts

\* A task's step that writes its row leaves the row unlocked, and ends the task
\* unless it records the row as sent and the task does not hear of it.  A task
\* that did not hear of it is at its end.
LEMMA TaskWrites ==
    ASSUME TypeOK, NEW w \in Workers, NEW r \in Rows, Task(w, r)
    PROVE  /\ \/ row' = row /\ job'[w][r].phase # "unheard"
              \/ /\ row[r].status \in Exists
                 /\ row'[r].stale = FALSE
                 /\ \/ /\ row'[r].status \in {"sent", "dead", "queued"}
                       /\ job'[w][r].phase = "idle"
                    \/ row'[r].status = "sent" /\ job'[w][r].phase = "unheard"
           /\ job[w][r].phase = "unheard" => job'[w][r].phase = "idle"
<1> row[r] \in RowType /\ job[w][r] \in JobType
  BY DEF TypeOK
<1>1. CASE BeginInactive(w, r)
  <2>1. row'[r] = [Unlock(row[r]) EXCEPT !.status = "dead"] /\ row[r].status \in Exists
    BY <1>1 DEF BeginInactive, TypeOK, Exists
  <2>2. row'[r].status = "dead" /\ row'[r].stale = FALSE
    BY <2>1 DEF Unlock, RowType
  <2> QED BY <1>1, <2>1, <2>2 DEF BeginInactive, EndJob, NoJob, TypeOK
<1>2. CASE FinishSent(w, r) \/ FinishFiltered(w, r)
  <2>1. row'[r] = SentRow(row[r]) /\ row[r].status \in Exists
    BY <1>2 DEF FinishSent, FinishFiltered, TypeOK
  <2>2. row'[r].status = "sent" /\ row'[r].stale = FALSE
    BY <2>1 DEF SentRow, Unlock, RowType
  <2> QED BY <1>2, <2>1, <2>2 DEF FinishSent, FinishFiltered, EndJob, NoJob, TypeOK
<1>3. CASE FinishRetry(w, r)
  <2>1. /\ row'[r] = [FailedRow(row[r], job[w][r].attempts + 1)
                        EXCEPT !.status = "queued", !.due = FALSE]
        /\ row[r].status \in Exists
    BY <1>3 DEF FinishRetry, TypeOK
  <2>2. row'[r].status = "queued" /\ row'[r].stale = FALSE
    BY <2>1 DEF FailedRow, Unlock, RowType
  <2> QED BY <1>3, <2>1, <2>2 DEF FinishRetry, EndJob, NoJob, TypeOK
<1>4. CASE FinishDead(w, r)
  <2>1. /\ row'[r] = [FailedRow(row[r], job[w][r].attempts + 1) EXCEPT !.status = "dead"]
        /\ row[r].status \in Exists
    BY <1>4 DEF FinishDead, TypeOK
  <2>2. row'[r].status = "dead" /\ row'[r].stale = FALSE
    BY <2>1 DEF FailedRow, Unlock, RowType
  <2> QED BY <1>4, <2>1, <2>2 DEF FinishDead, EndJob, NoJob, TypeOK
<1>5. CASE BeginSkips(w, r) \/ BeginSend(w, r) \/ FinishGone(w, r) \/ FailureLost(w, r)
  BY <1>5 DEF BeginSkips, BeginSend, FinishGone, FailureLost, EndJob, NoJob, TypeOK
<1>6. CASE CommitFails(w, r)
  BY <1>6 DEF CommitFails, TypeOK, JobType
<1>7. CASE Send(w, r)
  <2>1. ASSUME NEW phase \in Phases \ {"unheard"}, Answer(w, r, phase)
        PROVE  row' = row /\ job'[w][r].phase # "unheard" /\ job[w][r].phase = "sending"
    BY <2>1 DEF Answer, TypeOK, JobType
  <2> QED
    BY <1>7, <2>1 DEF Send, SendAccepted, SendRefused, SendUnanswered, SendFiltered, Phases
<1>8. CASE CommitUnanswered(w, r)
  <2>1. row'[r] = SentRow(row[r]) /\ row[r].status \in Exists
    BY <1>8 DEF CommitUnanswered, TypeOK
  <2>2. row'[r].status = "sent" /\ row'[r].stale = FALSE
    BY <2>1 DEF SentRow, Unlock, RowType
  <2> QED BY <1>8, <2>1, <2>2 DEF CommitUnanswered, TypeOK, JobType
<1> QED BY <1>1, <1>2, <1>3, <1>4, <1>5, <1>6, <1>7, <1>8 DEF Task, Finish

\* The inductive invariant of OneTaskPerRow holds at the start.
LEMMA LockInit == Init => LockInv
<1> SUFFICES ASSUME Init PROVE LockFacts
  BY TypeInit DEF LockInv
<1>1. /\ \A r \in Rows : row[r].status = "absent"
      /\ \A w \in Workers, r \in Rows : job[w][r].phase = "idle"
  BY DEF Init, NoJob
<1> QED
  BY <1>1 DEF LockFacts, OneTaskPerRow, NoTaskBeforeRow, StaleMeansIdle, ProcessingIsLocked, Live

\* A task's step preserves it when no lock goes stale under a live task.
LEMMA LockTask ==
    ASSUME LockInv, NEW w \in Workers, NEW r \in Rows, Task(w, r)
    PROVE  LockFacts'
<1>1. /\ Live(w, r)
      /\ \A s \in Rows \ {r} : row'[s] = row[s]
      /\ \A v \in Workers, s \in Rows : v # w \/ s # r => job'[v][s] = job[v][s]
      /\ \A v \in Workers, s \in Rows : Live(v, s)' => Live(v, s)
      /\ job[w][r].phase = "unheard" => ~Live(w, r)'
  BY TaskFrame, TaskWrites DEF LockInv, Live
<1>2. CASE row' = row /\ job'[w][r].phase # "unheard"
  BY <1>1, <1>2 DEF LockInv, LockFacts, OneTaskPerRow, NoTaskBeforeRow, StaleMeansIdle,
                    ProcessingIsLocked, Live
<1>3. CASE /\ row[r].status \in Exists /\ row'[r].stale = FALSE
           /\ \/ row'[r].status \in {"sent", "dead", "queued"} /\ ~Live(w, r)'
              \/ row'[r].status = "sent" /\ job'[w][r].phase = "unheard"
  <2>1. \A v \in Workers \ {w} : ~Live(v, r)'
    BY <1>1, <1>3 DEF LockInv, LockFacts, OneTaskPerRow, Exists
  <2>2. OneTaskPerRow'
    <3> SUFFICES ASSUME NEW s \in Rows, NEW v \in Workers, Live(v, s)', row'[s].status # "deleted"
                 PROVE  /\ IF job'[v][s].phase = "unheard"
                           THEN row'[s].status = "sent"
                           ELSE row'[s].status = "processing" /\ row'[s].locked = v
                        /\ \A u \in Workers \ {v} : ~Live(u, s)'
      BY DEF OneTaskPerRow
    <3>1. CASE s = r
      BY <1>3, <2>1, <3>1
    <3>2. CASE s # r
      <4>1. row'[s] = row[s] /\ job'[v][s] = job[v][s] /\ Live(v, s)
        BY <1>1, <3>2
      <4> QED BY <1>1, <4>1 DEF LockInv, LockFacts, OneTaskPerRow
    <3> QED BY <3>1, <3>2
  <2>3. NoTaskBeforeRow'
    BY <1>1, <1>3 DEF LockInv, LockFacts, NoTaskBeforeRow, Live
  <2>4. StaleMeansIdle'
    BY <1>1, <1>3 DEF LockInv, LockFacts, StaleMeansIdle
  <2>5. ProcessingIsLocked'
    BY <1>1, <1>3 DEF LockInv, LockFacts, ProcessingIsLocked
  <2> QED BY <2>2, <2>3, <2>4, <2>5 DEF LockFacts
<1> QED BY <1>2, <1>3, TaskWrites DEF LockInv, Live

\* So does a claim: it takes no row that a live task works on.
LEMMA LockClaim ==
    ASSUME LockInv, NEW w \in Workers, Claim(w)
    PROVE  LockFacts'
<1>1. PICK batch \in SUBSET Rows :
        /\ IsBatch(batch)
        /\ row' = [r \in Rows |-> IF r \in batch THEN Lock(row[r], w) ELSE row[r]]
        /\ job' = [job EXCEPT ![w] = [r \in Rows |->
                     IF r \in batch THEN [NoJob EXCEPT !.phase = "claimed"] ELSE NoJob]]
  BY DEF Claim
<1>2. ASSUME NEW r \in batch
      PROVE  /\ row'[r].status = "processing" /\ row'[r].locked = w /\ row'[r].stale = FALSE
             /\ row[r].status \in Open
             /\ \A v \in Workers : ~Live(v, r)
  <2>1. row[r] \in RowType /\ row'[r] = Lock(row[r], w)
    BY <1>1 DEF LockInv, TypeOK
  <2>2. row'[r].status = "processing" /\ row'[r].locked = w /\ row'[r].stale = FALSE
    BY <2>1 DEF Lock, RowType
  <2>3. Claimable(r)
    BY <1>1 DEF IsBatch
  <2>4. row[r].status = "processing" => row[r].stale
    BY <2>3, OutboxAssumption DEF Claimable, LockInv, LockFacts, ProcessingIsLocked
  <2>5. \A v \in Workers : ~Live(v, r)
    BY <2>3, <2>4 DEF Claimable, Open, LockInv, LockFacts, OneTaskPerRow, StaleMeansIdle
  <2> QED BY <2>2, <2>3, <2>5 DEF Claimable
<1>3. \A r \in Rows \ batch : row'[r] = row[r]
  BY <1>1
<1>4. /\ \A v \in Workers \ {w}, r \in Rows : job'[v][r] = job[v][r] /\ Live(v, r)' = Live(v, r)
      /\ \A r \in Rows : Live(w, r)' <=> r \in batch
      /\ \A r \in Rows : job'[w][r].phase # "unheard"
  BY <1>1 DEF Live, LockInv, TypeOK, NoJob
<1>5. OneTaskPerRow'
  <2> SUFFICES ASSUME NEW r \in Rows, NEW v \in Workers, Live(v, r)', row'[r].status # "deleted"
               PROVE  /\ IF job'[v][r].phase = "unheard"
                         THEN row'[r].status = "sent"
                         ELSE row'[r].status = "processing" /\ row'[r].locked = v
                      /\ \A u \in Workers \ {v} : ~Live(u, r)'
    BY DEF OneTaskPerRow
  <2>1. CASE r \in batch
    BY <1>2, <1>4, <2>1
  <2>2. CASE r \notin batch
    <3>1. v # w /\ Live(v, r) /\ row'[r] = row[r] /\ job'[v][r] = job[v][r]
      BY <1>3, <1>4, <2>2
    <3>2. /\ IF job[v][r].phase = "unheard"
             THEN row[r].status = "sent"
             ELSE row[r].status = "processing" /\ row[r].locked = v
          /\ \A u \in Workers \ {v} : ~Live(u, r)
      BY <3>1 DEF LockInv, LockFacts, OneTaskPerRow
    <3> QED BY <1>4, <2>2, <3>1, <3>2
  <2> QED BY <2>1, <2>2
<1>6. NoTaskBeforeRow'
  <2> SUFFICES ASSUME NEW r \in Rows, NEW v \in Workers, row'[r].status = "absent"
               PROVE  ~Live(v, r)'
    BY DEF NoTaskBeforeRow, Live
  <2>1. r \notin batch /\ row'[r] = row[r]
    BY <1>2, <1>3
  <2>2. ~Live(v, r)
    BY <2>1 DEF LockInv, LockFacts, NoTaskBeforeRow, Live
  <2> QED BY <1>4, <2>1, <2>2
<1>7. StaleMeansIdle'
  <2> SUFFICES ASSUME NEW r \in Rows, NEW v \in Workers, row'[r].stale, row'[r].status # "deleted"
               PROVE  ~Live(v, r)'
    BY DEF StaleMeansIdle
  <2>1. r \notin batch /\ row'[r] = row[r]
    BY <1>2, <1>3
  <2>2. ~Live(v, r)
    BY <2>1 DEF LockInv, LockFacts, StaleMeansIdle
  <2> QED BY <1>4, <2>1, <2>2
<1>8. ProcessingIsLocked'
  BY <1>2, <1>3 DEF LockInv, LockFacts, ProcessingIsLocked
<1> QED BY <1>5, <1>6, <1>7, <1>8 DEF LockFacts

\* So does every step.
LEMMA LockNext ==
    ASSUME ~SlowDelivery, LockInv, [Next]_vars
    PROVE  LockInv'
<1> SUFFICES LockFacts'
  BY TypeNext DEF LockInv
<1> USE DEF LockInv, LockFacts, OneTaskPerRow, NoTaskBeforeRow, StaleMeansIdle, ProcessingIsLocked, Live
<1>0. \A r \in Rows : row[r] \in RowType
  BY DEF TypeOK
<1>1. ASSUME NEW r \in Rows, Enqueue(r) \/ PortalRetry(r) PROVE LockFacts'
  <2>1. /\ job' = job
        /\ row[r].status \notin {"processing", "sent", "deleted"}
        /\ \A s \in Rows \ {r} : row'[s] = row[s]
    BY <1>1 DEF Enqueue, PortalRetry, TypeOK, Exists
  <2>2. row'[r].status = "queued" /\ row'[r].stale = FALSE
    <3>1. CASE Enqueue(r)
      BY <3>1 DEF Enqueue, TypeOK
    <3>2. CASE PortalRetry(r)
      BY <1>0, <3>2 DEF PortalRetry, TypeOK, Unlock, RowType
    <3> QED BY <1>1, <3>1, <3>2
  <2>3. \A v \in Workers : ~Live(v, r)
    BY <2>1
  <2> QED BY <2>1, <2>2, <2>3
<1>2. ASSUME NEW r \in Rows, BackoffElapses(r) PROVE LockFacts'
  <2>1. job' = job
    BY <1>2 DEF BackoffElapses
  <2>2. \A s \in Rows : /\ row'[s].status = row[s].status
                        /\ row'[s].locked = row[s].locked
                        /\ row'[s].stale = row[s].stale
    BY <1>0, <1>2 DEF BackoffElapses, TypeOK, RowType
  <2> QED BY <2>1, <2>2
<1>3. ASSUME NEW r \in Rows, LockExpires(r) PROVE LockFacts'
  <2>1. /\ job' = job
        /\ \A v \in Workers : ~Live(v, r)
        /\ \A s \in Rows \ {r} : row'[s] = row[s]
        /\ row' = [row EXCEPT ![r].stale = TRUE]
    BY <1>3 DEF LockExpires, TypeOK
  <2>2. row'[r].status = row[r].status /\ row'[r].locked = row[r].locked
    BY <1>0, <2>1 DEF RowType, TypeOK
  <2> QED BY <2>1, <2>2
<1>4. ASSUME NEW w \in Workers, Crash(w) PROVE LockFacts'
  <2>1. /\ row' = row
        /\ \A v \in Workers, s \in Rows : Live(v, s)' => Live(v, s) /\ job'[v][s] = job[v][s]
    BY <1>4 DEF Crash, TypeOK, NoJob
  <2> QED BY <2>1
<1>5. CASE CleanupSelect \/ SwitchOff \/ SwitchOn \/ UNCHANGED vars
  BY <1>5 DEF CleanupSelect, SwitchOff, SwitchOn, vars
<1>6. CASE CleanupDelete \/ DeleteClient
  <2>1. /\ job' = job
        /\ \A r \in Rows : row'[r] = row[r] \/ row'[r].status = "deleted"
    BY <1>0, <1>6 DEF CleanupDelete, DeleteClient, RowType
  <2> QED BY <2>1
<1> HIDE DEF LockInv, LockFacts
<1> QED
  BY <1>1, <1>2, <1>3, <1>4, <1>5, <1>6, LockTask, LockClaim DEF Next

\* When no task outlives WORKER_STALE_LOCK_SECONDS, two workers never send one
\* row at the same time.
THEOREM TasksExclusive ==
    ASSUME ~SlowDelivery PROVE Spec => []OneTaskPerRow
<1>1. LockInv => OneTaskPerRow
  BY DEF LockInv, LockFacts
<1>2. LockInv /\ [Next]_vars => LockInv'
  BY LockNext
<1> QED BY <1>1, <1>2, LockInit, PTL DEF Spec

\* Under the same condition a row recorded as sent is queued again, or given
\* up, by nobody but the task that recorded it and was not told so.
THEOREM SentStaysSent ==
    ASSUME ~SlowDelivery PROVE Spec => SentIsFinal
<1> DEFINE Final == \A r \in Rows : row[r].status = "sent" =>
                      \/ row'[r].status \in {"sent", "deleted"}
                      \/ \E w \in Workers : job[w][r].phase = "unheard" /\ ~Live(w, r)'
<1>1. LockInv /\ [Next]_vars => [Final]_vars
  <2> SUFFICES ASSUME LockInv, Next, NEW r \in Rows, row[r].status = "sent"
               PROVE  \/ row'[r].status \in {"sent", "deleted"}
                      \/ \E w \in Workers : job[w][r].phase = "unheard" /\ ~Live(w, r)'
    BY DEF vars
  <2>0. row[r] \in RowType
    BY DEF LockInv, TypeOK
  <2>1. ASSUME NEW s \in Rows, Enqueue(s) \/ PortalRetry(s) \/ BackoffElapses(s) \/ LockExpires(s)
        PROVE  row'[r] = row[r]
    BY <2>1 DEF Enqueue, PortalRetry, BackoffElapses, LockExpires, Open, LockInv, TypeOK
  <2>2. ASSUME NEW w \in Workers, Claim(w) PROVE row'[r] = row[r]
    BY <2>2 DEF Claim, IsBatch, Claimable, Open
  <2>3. ASSUME NEW w \in Workers, NEW s \in Rows, Task(w, s)
        PROVE  row'[r] = row[r] \/ (job[w][r].phase = "unheard" /\ ~Live(w, r)')
    <3>1. CASE s = r
      <4>1. Live(w, r)
        BY <2>3, <3>1, TaskFrame DEF LockInv, Live
      <4>2. job[w][r].phase = "unheard"
        BY <4>1 DEF LockInv, LockFacts, OneTaskPerRow
      <4> QED BY <2>3, <3>1, <4>2, TaskWrites DEF LockInv, Live
    <3>2. CASE s # r
      BY <2>3, <3>2, TaskFrame DEF LockInv
    <3> QED BY <3>1, <3>2
  <2>4. CASE CleanupDelete \/ DeleteClient
    BY <2>0, <2>4 DEF CleanupDelete, DeleteClient, RowType
  <2>5. CASE CleanupSelect \/ SwitchOff \/ SwitchOn
    BY <2>5 DEF CleanupSelect, SwitchOff, SwitchOn
  <2>6. ASSUME NEW w \in Workers, Crash(w) PROVE row'[r] = row[r]
    BY <2>6 DEF Crash
  <2> QED BY <2>1, <2>2, <2>3, <2>4, <2>5, <2>6 DEF Next
<1>2. LockInv /\ [Next]_vars => LockInv'
  BY LockNext
<1> QED BY <1>1, <1>2, LockInit, PTL DEF Spec, SentIsFinal

-----------------------------------------------------------------------------
(* DuplicatesNeedLoss and AttemptsOnlyGrow, when no task outlives its lock. *)
(* A row then belongs to one task at a time, also when it is deleted under  *)
(* that task.                                                               *)

OneLive ==
    \A r \in Rows, v \in Workers, w \in Workers : Live(v, r) /\ Live(w, r) => v = w

\* A claim takes rows that no task works on, and changes no other row or task.
ClaimOf(w, batch) ==
    /\ \A r \in batch :
          /\ row[r].status \in Open /\ row'[r].status = "processing"
          /\ row'[r].attempts = row[r].attempts
          /\ \A v \in Workers : ~Live(v, r)
    /\ \A r \in Rows \ batch : row'[r] = row[r]
    /\ \A v \in Workers \ {w}, r \in Rows : job'[v][r] = job[v][r]
    /\ \A r \in Rows : job'[w][r].phase = IF r \in batch THEN "claimed" ELSE "idle"

LEMMA ClaimTakesIdle ==
    ASSUME LockInv, NEW w \in Workers, Claim(w)
    PROVE  \E batch \in SUBSET Rows : ClaimOf(w, batch)
<1>1. PICK batch \in SUBSET Rows :
        /\ IsBatch(batch)
        /\ row' = [r \in Rows |-> IF r \in batch THEN Lock(row[r], w) ELSE row[r]]
        /\ job' = [job EXCEPT ![w] = [r \in Rows |->
                     IF r \in batch THEN [NoJob EXCEPT !.phase = "claimed"] ELSE NoJob]]
  BY DEF Claim
<1>2. ASSUME NEW r \in batch
      PROVE  /\ row[r].status \in Open /\ row'[r].status = "processing"
             /\ row'[r].attempts = row[r].attempts
             /\ \A v \in Workers : ~Live(v, r)
  <2>1. row[r] \in RowType /\ row'[r] = Lock(row[r], w)
    BY <1>1 DEF LockInv, TypeOK
  <2>2. row'[r].status = "processing" /\ row'[r].attempts = row[r].attempts
    BY <2>1 DEF Lock, RowType
  <2>3. Claimable(r)
    BY <1>1 DEF IsBatch
  <2>4. row[r].status = "processing" => row[r].stale
    BY <2>3, OutboxAssumption DEF Claimable, LockInv, LockFacts, ProcessingIsLocked
  <2>5. \A v \in Workers : ~Live(v, r)
    BY <2>3, <2>4 DEF Claimable, Open, LockInv, LockFacts, OneTaskPerRow, StaleMeansIdle
  <2> QED BY <2>2, <2>3, <2>5 DEF Claimable
<1>3. \A r \in Rows \ batch : row'[r] = row[r]
  BY <1>1
<1>4. /\ \A v \in Workers \ {w}, r \in Rows : job'[v][r] = job[v][r]
      /\ \A r \in Rows : job'[w][r].phase = IF r \in batch THEN "claimed" ELSE "idle"
  BY <1>1 DEF LockInv, TypeOK, NoJob
<1> QED BY <1>2, <1>3, <1>4 DEF ClaimOf

\* No step brings a second task to a row.
LEMMA OneLiveNext ==
    ASSUME LockInv, OneLive, [Next]_vars
    PROVE  OneLive'
<1> USE DEF OneLive
<1>1. CASE \A v \in Workers, s \in Rows : Live(v, s)' => Live(v, s)
  BY <1>1
<1>2. ASSUME NEW w \in Workers, Claim(w) PROVE OneLive'
  <2>1. PICK batch \in SUBSET Rows : ClaimOf(w, batch)
    BY <1>2, ClaimTakesIdle
  <2> SUFFICES ASSUME NEW r \in Rows, NEW u \in Workers, NEW v \in Workers, Live(u, r)', Live(v, r)'
               PROVE  u = v
    OBVIOUS
  <2>2. CASE r \in batch
    BY <2>1, <2>2 DEF ClaimOf, Live
  <2>3. CASE r \notin batch
    BY <2>1, <2>3 DEF ClaimOf, Live
  <2> QED BY <2>2, <2>3
<1>3. ASSUME NEW w \in Workers, NEW r \in Rows, Task(w, r) PROVE OneLive'
  <2>1. \A v \in Workers, s \in Rows : Live(v, s)' => Live(v, s)
    BY <1>3, TaskFrame DEF LockInv, Live
  <2> QED BY <1>1, <2>1
<1>4. ASSUME NEW w \in Workers, Crash(w) PROVE OneLive'
  <2>1. \A v \in Workers, s \in Rows : Live(v, s)' => Live(v, s)
    BY <1>4 DEF Crash, LockInv, TypeOK, NoJob, Live
  <2> QED BY <1>1, <2>1
<1>5. CASE job' = job
  BY <1>5 DEF Live
<1>6. /\ \A r \in Rows : Enqueue(r) \/ PortalRetry(r) \/ BackoffElapses(r) \/ LockExpires(r) => job' = job
      /\ CleanupSelect \/ CleanupDelete \/ SwitchOff \/ SwitchOn \/ DeleteClient \/ UNCHANGED vars => job' = job
  BY DEF Enqueue, PortalRetry, BackoffElapses, LockExpires, CleanupSelect, CleanupDelete, SwitchOff, SwitchOn, DeleteClient, vars
<1> QED BY <1>2, <1>3, <1>4, <1>5, <1>6 DEF Next

\* While a task has not been told "accepted", every acceptance of its row was
\* lost; so it is while the row waits, or was given up.
SendsPaid ==
    /\ \A r \in Rows :
          /\ row[r].status \in {"absent", "queued", "processing", "dead"}
          /\ \A w \in Workers : job[w][r].phase # "accepted"
          => ledger[r].accepted <= ledger[r].lost
    /\ \A w \in Workers, r \in Rows :
          job[w][r].phase \in {"claimed", "sending", "filtered", "failed", "unheard"} =>
             ledger[r].accepted <= ledger[r].lost

DuplicatesInv == LockInv /\ OneLive /\ SendsPaid /\ DuplicatesNeedLoss

\* The counts of r's acceptances and losses after a step.
Counts(r, accepted, lost) == ledger'[r].accepted = accepted /\ ledger'[r].lost = lost

CountsSame(r) == Counts(r, ledger[r].accepted, ledger[r].lost)

\* What a task's step does to the counts of its row: an acceptance is one the
\* task is told of, or one that is lost at once; what the task was told is lost
\* or goes with the end of the task into a row that is sent, or gone.
TaskCount(w, r) ==
    \/ /\ CountsSame(r)
       /\ job'[w][r].phase \in {"idle", "sending", "filtered"} \cup Excepting
       /\ job[w][r].phase = "accepted" =>
             /\ job'[w][r].phase = "idle"
             /\ (row[r].status \notin Exists /\ row' = row) \/ row'[r].status = "sent"
    \/ /\ row' = row /\ job[w][r].phase = "sending" /\ job'[w][r].phase = "accepted"
       /\ Counts(r, ledger[r].accepted + 1, ledger[r].lost)
    \/ /\ row' = row /\ job[w][r].phase = "sending" /\ job'[w][r].phase = "failed"
       /\ Counts(r, ledger[r].accepted + 1, ledger[r].lost + 1)
    \/ /\ job[w][r].phase = "accepted" /\ job'[w][r].phase \in Excepting
       /\ Counts(r, ledger[r].accepted, ledger[r].lost + 1)

\* An outcome that loses no answer leaves the counts of answers alone.
LEMMA RecordCounts ==
    ASSUME TypeOK, NEW r \in Rows, NEW units \in Int, Record(r, units, 0)
    PROVE  \A s \in Rows : CountsSame(s)
<1>1. ledger[r].lost + 0 = ledger[r].lost
  BY DEF TypeOK, LedgerType
<1>2. /\ ledger'[r].accepted = ledger[r].accepted /\ ledger'[r].lost = ledger[r].lost
      /\ \A s \in Rows \ {r} : ledger'[s] = ledger[s]
  BY <1>1, RecordFields
<1> QED BY <1>2 DEF CountsSame, Counts

\* So does a rollback, committed or not.
LEMMA RollbackCounts ==
    ASSUME TypeOK, NEW r \in Rows, RollbackUsage(r) \/ RollbackAborted(r)
    PROVE  \A s \in Rows : CountsSame(s)
<1>1. CASE RollbackUsage(r)
  <2>1. PICK units \in {-1, 0} : Record(r, units, 0)
    BY <1>1, RollbackRecords
  <2> QED BY <2>1, RecordCounts
<1>2. CASE RollbackAborted(r)
  BY <1>2, AbortedFields DEF CountsSame, Counts
<1> QED BY <1>1, <1>2

LEMMA TaskCounts ==
    ASSUME TypeOK, NEW w \in Workers, NEW r \in Rows, Task(w, r)
    PROVE  TaskCount(w, r) /\ \A s \in Rows \ {r} : CountsSame(s)
<1> row[r] \in RowType /\ job[w][r] \in JobType /\ \A s \in Rows : ledger[s] \in LedgerType
  BY DEF TypeOK
<1>0. UNCHANGED ledger => \A s \in Rows : CountsSame(s)
  BY DEF CountsSame, Counts
<1>1. CASE BeginSkips(w, r) \/ FinishGone(w, r)
  BY <1>0, <1>1 DEF BeginSkips, FinishGone, EndJob, NoJob, TypeOK, TaskCount
<1>2. CASE BeginInactive(w, r)
  BY <1>0, <1>2 DEF BeginInactive, EndJob, NoJob, TypeOK, TaskCount
<1>3. CASE BeginSend(w, r)
  BY <1>0, <1>3 DEF BeginSend, TypeOK, TaskCount
<1>4. CASE SendAccepted(w, r)
  <2>1. /\ ledger'[r].accepted = ledger[r].accepted + 1 /\ ledger'[r].lost = ledger[r].lost
        /\ \A s \in Rows \ {r} : ledger'[s] = ledger[s]
    BY <1>4 DEF SendAccepted, TypeOK, LedgerType
  <2>2. row' = row /\ job[w][r].phase = "sending" /\ job'[w][r].phase = "accepted"
    BY <1>4 DEF SendAccepted, Answer, TypeOK, JobType
  <2> QED BY <2>1, <2>2 DEF TaskCount, Counts, CountsSame
<1>5. CASE SendRefused(w, r)
  <2>1. job[w][r].phase = "sending" /\ job'[w][r].phase = "failed"
    BY <1>5 DEF SendRefused, Answer, TypeOK, JobType
  <2> QED BY <1>0, <1>5, <2>1 DEF SendRefused, TaskCount, Excepting
<1>6. CASE SendUnanswered(w, r)
  <2>1. /\ ledger'[r].accepted = ledger[r].accepted + 1 /\ ledger'[r].lost = ledger[r].lost + 1
        /\ \A s \in Rows \ {r} : ledger'[s] = ledger[s]
    BY <1>6 DEF SendUnanswered, TypeOK, LedgerType
  <2>2. row' = row /\ job[w][r].phase = "sending" /\ job'[w][r].phase = "failed"
    BY <1>6 DEF SendUnanswered, Answer, TypeOK, JobType
  <2> QED BY <2>1, <2>2 DEF TaskCount, Counts, CountsSame
<1>7. CASE SendFiltered(w, r)
  <2>1. \A s \in Rows : CountsSame(s)
    BY <1>7 DEF SendFiltered, TypeOK, LedgerType, CountsSame, Counts
  <2>2. job[w][r].phase = "sending" /\ job'[w][r].phase = "filtered"
    BY <1>7 DEF SendFiltered, Answer, TypeOK, JobType
  <2> QED BY <2>1, <2>2 DEF TaskCount
<1>8. CASE FinishSent(w, r)
  <2>1. \A s \in Rows : CountsSame(s)
    BY <1>8, RecordCounts DEF FinishSent, SentUnits
  <2>2. row'[r].status = "sent"
    BY <1>8, RowFields DEF FinishSent, TypeOK, SentRow, Unlock, RowType
  <2> QED BY <1>8, <2>1, <2>2 DEF FinishSent, EndJob, NoJob, TypeOK, TaskCount
<1>9. CASE FinishFiltered(w, r)
  BY <1>9, RollbackCounts DEF FinishFiltered, EndJob, NoJob, TypeOK, TaskCount
<1>10. CASE FinishRetry(w, r)
  <2>1. \A s \in Rows : CountsSame(s)
    BY <1>10, RecordCounts DEF FinishRetry
  <2> QED BY <1>10, <2>1 DEF FinishRetry, EndJob, NoJob, TypeOK, TaskCount, Excepting
<1>11. CASE FinishDead(w, r)
  BY <1>11, RollbackCounts DEF FinishDead, EndJob, NoJob, TypeOK, TaskCount, Excepting
<1>12. CASE CommitFails(w, r)
  <2>1. row' = row /\ job'[w][r].phase = "failed"
    BY <1>12 DEF CommitFails, TypeOK, JobType
  <2>2. CASE job[w][r].phase = "accepted"
    <3>1. ledger' = [ledger EXCEPT ![r].lost = @ + 1]
      BY <1>12, <2>2 DEF CommitFails
    <3>2. /\ Counts(r, ledger[r].accepted, ledger[r].lost + 1)
          /\ \A s \in Rows \ {r} : CountsSame(s)
      BY <3>1 DEF TypeOK, LedgerType, Counts, CountsSame
    <3> QED BY <2>1, <2>2, <3>2 DEF TaskCount, Excepting
  <2>3. CASE job[w][r].phase # "accepted"
    <3>1. RollbackAborted(r)
      BY <1>12, <2>3 DEF CommitFails
    <3> QED BY <2>1, <2>3, <3>1, RollbackCounts DEF TaskCount, Excepting
  <2> QED BY <2>2, <2>3
<1>13. CASE FailureLost(w, r)
  <2>1. \A s \in Rows : CountsSame(s)
    BY <1>0, <1>13, RollbackCounts DEF FailureLost
  <2> QED BY <1>13, <2>1 DEF FailureLost, EndJob, NoJob, TypeOK, TaskCount, Excepting
<1>14. CASE CommitUnanswered(w, r)
  <2>1. job'[w][r].phase = "unheard"
    BY <1>14 DEF CommitUnanswered, TypeOK, JobType
  <2>2. CASE job[w][r].phase = "accepted"
    <3>1. Record(r, SentUnits(r), 1)
      BY <1>14, <2>2 DEF CommitUnanswered
    <3>2. /\ Counts(r, ledger[r].accepted, ledger[r].lost + 1)
          /\ \A s \in Rows \ {r} : CountsSame(s)
      BY <3>1, RecordFields DEF SentUnits, Counts, CountsSame
    <3> QED BY <2>1, <2>2, <3>2 DEF TaskCount, Excepting
  <2>3. CASE job[w][r].phase # "accepted"
    <3>1. RollbackUsage(r)
      BY <1>14, <2>3 DEF CommitUnanswered
    <3> QED BY <2>1, <2>3, <3>1, RollbackCounts DEF TaskCount, Excepting
  <2> QED BY <2>2, <2>3
<1> QED
  BY <1>1, <1>2, <1>3, <1>4, <1>5, <1>6, <1>7, <1>8, <1>9, <1>10, <1>11, <1>12, <1>13, <1>14
  DEF Task, Send, Finish

\* A task's step keeps the balance of acceptances and losses.
LEMMA DuplicatesTask ==
    ASSUME DuplicatesInv, NEW w \in Workers, NEW r \in Rows, Task(w, r)
    PROVE  SendsPaid' /\ DuplicatesNeedLoss'
<1>0. TypeOK /\ \A s \in Rows : ledger[s].accepted \in Nat /\ ledger[s].lost \in Nat
  BY DEF DuplicatesInv, LockInv, TypeOK, LedgerType
<1>1. /\ Live(w, r)
      /\ \A s \in Rows \ {r} : row'[s] = row[s]
      /\ \A v \in Workers, s \in Rows : v # w \/ s # r => job'[v][s] = job[v][s]
      /\ TaskCount(w, r) /\ \A s \in Rows \ {r} : CountsSame(s)
  BY <1>0, TaskFrame, TaskCounts DEF Live
<1>2. \A v \in Workers \ {w} : job'[v][r].phase = "idle"
  BY <1>1 DEF DuplicatesInv, OneLive, Live
<1>3. row[r].status # "absent" /\ row[r].status \in Statuses
  BY <1>1 DEF DuplicatesInv, LockInv, LockFacts, NoTaskBeforeRow, Live, TypeOK, RowType
\* Of the other rows nothing changed.
<1>4. ASSUME NEW s \in Rows \ {r}
      PROVE  /\ \/ row'[s].status \notin {"absent", "queued", "processing", "dead"}
                \/ \E v \in Workers : job'[v][s].phase = "accepted"
                \/ ledger'[s].accepted <= ledger'[s].lost
             /\ \A v \in Workers :
                   job'[v][s].phase \in {"claimed", "sending", "filtered", "failed", "unheard"} =>
                      ledger'[s].accepted <= ledger'[s].lost
             /\ ledger'[s].accepted <= 1 + ledger'[s].lost
  <2>1. /\ ledger'[s].accepted = ledger[s].accepted /\ ledger'[s].lost = ledger[s].lost
        /\ row'[s] = row[s] /\ \A v \in Workers : job'[v][s] = job[v][s]
    BY <1>1 DEF CountsSame, Counts
  <2> QED BY <2>1 DEF DuplicatesInv, SendsPaid, DuplicatesNeedLoss
\* Of r, by what the step did to its counts.
<1>5. /\ \/ row'[r].status \notin {"absent", "queued", "processing", "dead"}
         \/ job'[w][r].phase = "accepted"
         \/ ledger'[r].accepted <= ledger'[r].lost
      /\ job'[w][r].phase \in {"claimed", "sending", "filtered", "failed", "unheard"} =>
            ledger'[r].accepted <= ledger'[r].lost
      /\ ledger'[r].accepted <= 1 + ledger'[r].lost
  <2>1. ledger[r].accepted <= 1 + ledger[r].lost
    BY DEF DuplicatesInv, DuplicatesNeedLoss
  <2>2. job[w][r].phase \in {"claimed", "sending", "filtered", "failed", "unheard"} =>
           ledger[r].accepted <= ledger[r].lost
    BY DEF DuplicatesInv, SendsPaid
  <2>3. job[w][r].phase \in Phases \ {"idle"}
    BY <1>0, <1>1 DEF Live, TypeOK, JobType
  <2>4. CASE CountsSame(r) /\ job[w][r].phase = "accepted"
    <3>1. row'[r].status \notin {"absent", "queued", "processing", "dead"} /\ job'[w][r].phase = "idle"
      <4>1. ledger[r].lost # ledger[r].lost + 1
        BY <1>0
      <4>2. ~Counts(r, ledger[r].accepted, ledger[r].lost + 1)
        BY <2>4, <4>1 DEF Counts, CountsSame
      <4>3. /\ job'[w][r].phase = "idle"
            /\ (row[r].status \notin Exists /\ row' = row) \/ row'[r].status = "sent"
        BY <1>1, <2>4, <4>2 DEF TaskCount
      <4> QED BY <1>3, <4>3 DEF Statuses, Exists
    <3> QED BY <2>1, <2>4, <3>1 DEF CountsSame, Counts
  <2>5. CASE CountsSame(r) /\ job[w][r].phase # "accepted"
    <3>1. ledger[r].accepted <= ledger[r].lost
      BY <2>2, <2>3, <2>5 DEF Phases
    <3> QED BY <1>0, <2>1, <2>5, <3>1 DEF CountsSame, Counts
  <2>6. CASE /\ job[w][r].phase = "sending" /\ job'[w][r].phase = "accepted"
             /\ Counts(r, ledger[r].accepted + 1, ledger[r].lost)
    BY <1>0, <2>2, <2>6 DEF Counts
  <2>7. CASE job[w][r].phase = "sending" /\ Counts(r, ledger[r].accepted + 1, ledger[r].lost + 1)
    BY <1>0, <2>2, <2>7 DEF Counts
  <2>8. CASE Counts(r, ledger[r].accepted, ledger[r].lost + 1)
    BY <1>0, <2>1, <2>8 DEF Counts
  <2> QED BY <1>1, <2>4, <2>5, <2>6, <2>7, <2>8 DEF TaskCount
<1> QED BY <1>2, <1>4, <1>5 DEF SendsPaid, DuplicatesNeedLoss

\* So does every step.
LEMMA DuplicatesNext ==
    ASSUME ~SlowDelivery, DuplicatesInv, [Next]_vars
    PROVE  DuplicatesInv'
<1> SUFFICES SendsPaid' /\ DuplicatesNeedLoss'
  BY LockNext, OneLiveNext DEF DuplicatesInv
<1>0. /\ TypeOK
      /\ \A r \in Rows : /\ row[r] \in RowType /\ ledger[r] \in LedgerType
                         /\ ledger[r].accepted \in Nat /\ ledger[r].lost \in Nat
  BY DEF DuplicatesInv, LockInv, TypeOK, LedgerType
\* A step that counts nothing, tells no task anything and brings no sent or
\* deleted row back keeps them.
<1>1. ASSUME \A r \in Rows : CountsSame(r),
             \A r \in Rows : row[r].status \in {"sent", "deleted"} => row'[r].status \in {"sent", "deleted"},
             \A w \in Workers, r \in Rows :
                \/ job'[w][r].phase = job[w][r].phase
                \/ /\ job'[w][r].phase \in {"idle", "claimed"} /\ row[r].status \in Open
                   /\ \A v \in Workers : ~Live(v, r)
      PROVE  SendsPaid' /\ DuplicatesNeedLoss'
  <2>1. \A r \in Rows : ledger'[r].accepted = ledger[r].accepted /\ ledger'[r].lost = ledger[r].lost
    BY <1>1 DEF CountsSame, Counts
  <2>2. DuplicatesNeedLoss'
    BY <2>1 DEF DuplicatesInv, DuplicatesNeedLoss
  <2>3. \A r \in Rows : row'[r].status \in {"absent", "queued", "processing", "dead"} =>
           row[r].status \in {"absent", "queued", "processing", "dead"}
    BY <1>0, <1>1 DEF RowType, Statuses
  <2>4. ASSUME NEW r \in Rows, \A v \in Workers : ~Live(v, r), row[r].status \in Open
        PROVE  ledger[r].accepted <= ledger[r].lost
    BY <2>4 DEF DuplicatesInv, SendsPaid, Open, Live
  <2>5. ASSUME NEW r \in Rows, row'[r].status \in {"absent", "queued", "processing", "dead"},
               \A w \in Workers : job'[w][r].phase # "accepted"
        PROVE  ledger[r].accepted <= ledger[r].lost
    <3>1. CASE \A w \in Workers : job[w][r].phase # "accepted"
      BY <2>3, <2>5, <3>1 DEF DuplicatesInv, SendsPaid
    <3>2. CASE ~\A w \in Workers : job[w][r].phase # "accepted"
      BY <1>1, <2>4, <2>5, <3>2
    <3> QED BY <3>1, <3>2
  <2>6. ASSUME NEW w \in Workers, NEW r \in Rows,
               job'[w][r].phase \in {"claimed", "sending", "filtered", "failed", "unheard"}
        PROVE  ledger[r].accepted <= ledger[r].lost
    <3>1. CASE job'[w][r].phase = job[w][r].phase
      BY <2>6, <3>1 DEF DuplicatesInv, SendsPaid
    <3>2. CASE job'[w][r].phase # job[w][r].phase
      BY <1>1, <2>4, <3>2
    <3> QED BY <3>1, <3>2
  <2>7. SendsPaid'
    BY <2>1, <2>5, <2>6 DEF SendsPaid
  <2> QED BY <2>2, <2>7
<1>2. UNCHANGED ledger => \A r \in Rows : CountsSame(r)
  BY DEF CountsSame, Counts
<1>3. ASSUME NEW r \in Rows, Enqueue(r) \/ PortalRetry(r) PROVE SendsPaid' /\ DuplicatesNeedLoss'
  <2>1. \A s \in Rows : CountsSame(s)
    <3>1. CASE Enqueue(r)
      BY <1>0, <3>1 DEF Enqueue, TypeOK, LedgerType, CountsSame, Counts
    <3>2. CASE PortalRetry(r)
      BY <1>0, <3>2, RecordCounts DEF PortalRetry
    <3> QED BY <1>3, <3>1, <3>2
  <2>2. /\ row[r].status \notin {"sent", "deleted"} /\ job' = job
        /\ \A s \in Rows \ {r} : row'[s] = row[s]
    BY <1>0, <1>3 DEF Enqueue, PortalRetry, TypeOK, Exists
  <2> QED BY <1>1, <2>1, <2>2
<1>4. ASSUME NEW r \in Rows, BackoffElapses(r) \/ LockExpires(r)
      PROVE  SendsPaid' /\ DuplicatesNeedLoss'
  <2>1. \A s \in Rows : row'[s].status = row[s].status
    BY <1>0, <1>4, TimeKeeps
  <2>2. job' = job /\ ledger' = ledger
    BY <1>4 DEF BackoffElapses, LockExpires
  <2> QED BY <1>1, <1>2, <2>1, <2>2
<1>5. ASSUME NEW w \in Workers, Claim(w) PROVE SendsPaid' /\ DuplicatesNeedLoss'
  <2>1. PICK batch \in SUBSET Rows : ClaimOf(w, batch)
    BY <1>5, ClaimTakesIdle DEF DuplicatesInv
  <2>2. ledger' = ledger /\ \A r \in Rows : ~Live(w, r)
    BY <1>5 DEF Claim, Idle
  <2>3. \A r \in Rows : row[r].status \in {"sent", "deleted"} => row'[r].status \in {"sent", "deleted"}
    BY <2>1 DEF ClaimOf, Open
  <2>4. ASSUME NEW v \in Workers, NEW r \in Rows
        PROVE  \/ job'[v][r].phase = job[v][r].phase
               \/ /\ job'[v][r].phase \in {"idle", "claimed"} /\ row[r].status \in Open
                  /\ \A u \in Workers : ~Live(u, r)
    <3>1. CASE v = w /\ r \in batch
      BY <2>1, <3>1 DEF ClaimOf
    <3>2. CASE v = w /\ r \notin batch
      BY <2>1, <2>2, <3>2 DEF ClaimOf, Live
    <3>3. CASE v # w
      BY <2>1, <3>3 DEF ClaimOf
    <3> QED BY <3>1, <3>2, <3>3
  <2> QED BY <1>1, <1>2, <2>2, <2>3, <2>4
<1>6. ASSUME NEW w \in Workers, Crash(w) PROVE SendsPaid' /\ DuplicatesNeedLoss'
  <2>1. /\ row' = row
        /\ \A v \in Workers \ {w}, r \in Rows : job'[v][r] = job[v][r]
        /\ \A r \in Rows : job'[w][r].phase = "idle"
    BY <1>0, <1>6 DEF Crash, TypeOK, NoJob
  <2>2. \A r \in Rows :
           Counts(r, ledger[r].accepted,
                  IF job[w][r].phase = "accepted" THEN ledger[r].lost + 1 ELSE ledger[r].lost)
    BY <1>0, <1>6 DEF Crash, LedgerType, Counts
  <2>3. ASSUME NEW r \in Rows
        PROVE  /\ ledger'[r].accepted = ledger[r].accepted
               /\ ledger[r].lost <= ledger'[r].lost
               /\ ledger'[r].lost \in Nat
               /\ job[w][r].phase = "accepted" => ledger'[r].lost = ledger[r].lost + 1
    BY <1>0, <2>2 DEF Counts
  <2>4. ASSUME NEW r \in Rows, ledger[r].accepted <= ledger[r].lost
        PROVE  ledger'[r].accepted <= ledger'[r].lost
    BY <1>0, <2>3, <2>4
  <2>5. \A r \in Rows : ledger[r].accepted <= 1 + ledger[r].lost
    BY DEF DuplicatesInv, DuplicatesNeedLoss
  <2>6. DuplicatesNeedLoss'
    BY <1>0, <2>3, <2>5 DEF DuplicatesNeedLoss
  <2>7. ASSUME NEW r \in Rows, row'[r].status \in {"absent", "queued", "processing", "dead"},
               \A v \in Workers : job'[v][r].phase # "accepted"
        PROVE  ledger'[r].accepted <= ledger'[r].lost
    <3>1. CASE job[w][r].phase = "accepted"
      BY <1>0, <2>3, <2>5, <3>1
    <3>2. CASE job[w][r].phase # "accepted"
      BY <2>1, <2>4, <2>7, <3>2 DEF DuplicatesInv, SendsPaid
    <3> QED BY <3>1, <3>2
  <2>8. ASSUME NEW v \in Workers, NEW r \in Rows,
               job'[v][r].phase \in {"claimed", "sending", "filtered", "failed", "unheard"}
        PROVE  ledger'[r].accepted <= ledger'[r].lost
    BY <2>1, <2>4, <2>8 DEF DuplicatesInv, SendsPaid
  <2> QED BY <2>6, <2>7, <2>8 DEF SendsPaid
<1>7. CASE CleanupDelete \/ DeleteClient
  <2>1. \A r \in Rows : row'[r] = row[r] \/ row'[r].status = "deleted"
    BY <1>0, <1>7 DEF CleanupDelete, DeleteClient, RowType
  <2> QED BY <1>1, <1>2, <1>7, <2>1 DEF CleanupDelete, DeleteClient
<1>8. CASE CleanupSelect \/ SwitchOff \/ SwitchOn \/ UNCHANGED vars
  BY <1>1, <1>2, <1>8 DEF CleanupSelect, SwitchOff, SwitchOn, vars
<1> QED
  BY <1>3, <1>4, <1>5, <1>6, <1>7, <1>8, DuplicatesTask DEF Next

LEMMA DuplicatesInit == Init => DuplicatesInv
<1> SUFFICES ASSUME Init PROVE OneLive /\ SendsPaid /\ DuplicatesNeedLoss
  BY LockInit DEF DuplicatesInv
<1> QED BY DEF Init, OneLive, SendsPaid, DuplicatesNeedLoss, Live, NoJob

\* When no task outlives its lock, the platform is sent a row once more only for
\* every answer that was lost, through all retries, restarts and clean-ups.
THEOREM DuplicatesArePaid ==
    ASSUME ~SlowDelivery PROVE Spec => []DuplicatesNeedLoss
<1>1. DuplicatesInv => DuplicatesNeedLoss
  BY DEF DuplicatesInv
<1>2. DuplicatesInv /\ [Next]_vars => DuplicatesInv'
  BY DuplicatesNext
<1> QED BY <1>1, <1>2, DuplicatesInit, PTL DEF Spec

\* A task's copy of attempts is the row's own count.
CopiesCurrent ==
    \A w \in Workers, r \in Rows :
        job[w][r].phase \in Copied /\ row[r].status # "deleted" =>
            job[w][r].attempts = row[r].attempts

AttemptsInv == LockInv /\ CopiesCurrent

\* What a task's step does to the two counts: it copies the row's, keeps both,
\* or ends and writes its copy plus one.
LEMMA TaskAttempts ==
    ASSUME TypeOK, NEW w \in Workers, NEW r \in Rows, Task(w, r)
    PROVE  /\ \/ row'[r].attempts = row[r].attempts
              \/ /\ job[w][r].phase \in Excepting /\ row[r].status \in Exists
                 /\ row'[r].attempts = job[w][r].attempts + 1
           /\ \/ job'[w][r].phase = "idle"
              \/ row' = row /\ job'[w][r].attempts = row[r].attempts
              \/ /\ row'[r].attempts = row[r].attempts /\ job[w][r].phase \in Copied
                 /\ job'[w][r].attempts = job[w][r].attempts
<1> row[r] \in RowType /\ job[w][r] \in JobType
  BY DEF TypeOK
<1>1. CASE BeginSkips(w, r) \/ FinishGone(w, r) \/ FailureLost(w, r)
  BY <1>1 DEF BeginSkips, FinishGone, FailureLost, EndJob, NoJob, TypeOK
<1>2. CASE BeginInactive(w, r)
  <2>1. row'[r] = [Unlock(row[r]) EXCEPT !.status = "dead"]
    BY <1>2 DEF BeginInactive, TypeOK
  <2>2. row'[r].attempts = row[r].attempts
    BY <2>1 DEF Unlock, RowType
  <2> QED BY <1>2, <2>2 DEF BeginInactive, EndJob, NoJob, TypeOK
<1>3. CASE BeginSend(w, r)
  BY <1>3 DEF BeginSend, TypeOK
<1>4. CASE Send(w, r)
  <2>1. ASSUME NEW phase, Answer(w, r, phase)
        PROVE  /\ job[w][r].phase = "sending" /\ row' = row
               /\ job'[w][r] = [job[w][r] EXCEPT !.phase = phase]
    BY <2>1 DEF Answer, TypeOK
  <2>2. /\ job[w][r].phase = "sending" /\ row' = row
        /\ job'[w][r].attempts = job[w][r].attempts
    BY <1>4, <2>1 DEF Send, SendAccepted, SendRefused, SendUnanswered, SendFiltered, JobType
  <2> QED BY <2>2 DEF Copied, Excepting
<1>5. CASE FinishSent(w, r) \/ FinishFiltered(w, r)
  <2>1. row'[r] = SentRow(row[r])
    BY <1>5 DEF FinishSent, FinishFiltered, TypeOK
  <2>2. row'[r].attempts = row[r].attempts
    BY <2>1 DEF SentRow, Unlock, RowType
  <2> QED BY <1>5, <2>2 DEF FinishSent, FinishFiltered, EndJob, NoJob, TypeOK
<1>6. CASE FinishRetry(w, r)
  <2> DEFINE n == job[w][r].attempts + 1
  <2>1. row'[r] = [FailedRow(row[r], n) EXCEPT !.status = "queued", !.due = FALSE]
    BY <1>6 DEF FinishRetry, TypeOK
  <2>2. row'[r].attempts = n
    BY <2>1 DEF FailedRow, Unlock, RowType
  <2> QED BY <1>6, <2>2 DEF FinishRetry, EndJob, NoJob, TypeOK
<1>7. CASE FinishDead(w, r)
  <2> DEFINE n == job[w][r].attempts + 1
  <2>1. row'[r] = [FailedRow(row[r], n) EXCEPT !.status = "dead"]
    BY <1>7 DEF FinishDead, TypeOK
  <2>2. row'[r].attempts = n
    BY <2>1 DEF FailedRow, Unlock, RowType
  <2> QED BY <1>7, <2>2 DEF FinishDead, EndJob, NoJob, TypeOK
<1>8. CASE CommitFails(w, r)
  BY <1>8 DEF CommitFails, TypeOK, JobType, Copied, Excepting
<1>9. CASE CommitUnanswered(w, r)
  <2>1. row'[r] = SentRow(row[r])
    BY <1>9 DEF CommitUnanswered, TypeOK
  <2>2. row'[r].attempts = row[r].attempts
    BY <2>1 DEF SentRow, Unlock, RowType
  <2> QED BY <1>9, <2>2 DEF CommitUnanswered, TypeOK, JobType, Copied
<1> QED BY <1>1, <1>2, <1>3, <1>4, <1>5, <1>6, <1>7, <1>8, <1>9 DEF Task, Finish

\* Every step keeps the copies current, and no row's count falls.
LEMMA AttemptsStep ==
    ASSUME AttemptsInv, Next
    PROVE  /\ CopiesCurrent'
           /\ \A r \in Rows : row[r].status # "absent" => row'[r].attempts >= row[r].attempts
<1> DEFINE Grown == \A r \in Rows : row[r].status # "absent" => row'[r].attempts >= row[r].attempts
<1>0. /\ TypeOK
      /\ \A r \in Rows : row[r] \in RowType /\ row[r].attempts \in Nat
      /\ \A w \in Workers, r \in Rows : job[w][r] \in JobType
  BY DEF AttemptsInv, LockInv, TypeOK, RowType
<1>1. ASSUME \A w \in Workers, r \in Rows :
                job'[w][r] = job[w][r] \/ job'[w][r].phase \in {"idle", "claimed"},
             \A r \in Rows : \/ \A w \in Workers : ~Live(w, r)
                             \/ row'[r].status = "deleted"
                             \/ /\ row'[r].attempts = row[r].attempts
                                /\ row'[r].status = row[r].status
      PROVE  CopiesCurrent'
  <2> SUFFICES ASSUME NEW w \in Workers, NEW r \in Rows, job'[w][r].phase \in Copied,
                      row'[r].status # "deleted"
               PROVE  job'[w][r].attempts = row'[r].attempts
    BY DEF CopiesCurrent
  <2>1. job'[w][r] = job[w][r]
    BY <1>1 DEF Copied, Excepting
  <2>2. Live(w, r)
    BY <2>1 DEF Live, Copied, Excepting
  <2>3. row'[r].attempts = row[r].attempts /\ row[r].status # "deleted"
    BY <1>1, <2>2
  <2> QED BY <2>1, <2>3 DEF AttemptsInv, CopiesCurrent
<1>2. (\A r \in Rows : row[r].status = "absent" \/ row'[r].attempts = row[r].attempts) => Grown
  BY <1>0
<1>3. ASSUME NEW r \in Rows, Enqueue(r) \/ PortalRetry(r) PROVE CopiesCurrent' /\ Grown
  <2>1. /\ job' = job /\ row[r].status \notin {"processing", "sent", "deleted"}
        /\ \A s \in Rows \ {r} : row'[s] = row[s]
    BY <1>0, <1>3 DEF Enqueue, PortalRetry, TypeOK, Exists
  <2>2. \A w \in Workers : ~Live(w, r)
    BY <2>1 DEF AttemptsInv, LockInv, LockFacts, OneTaskPerRow
  <2>3. row[r].status = "absent" \/ row'[r].attempts = row[r].attempts
    <3>1. CASE Enqueue(r)
      BY <3>1 DEF Enqueue
    <3>2. CASE PortalRetry(r)
      BY <1>0, <3>2 DEF PortalRetry, TypeOK, Unlock, RowType
    <3> QED BY <1>3, <3>1, <3>2
  <2>4. CopiesCurrent'
    BY <1>1, <2>1, <2>2
  <2>5. \A s \in Rows : row[s].status = "absent" \/ row'[s].attempts = row[s].attempts
    BY <2>1, <2>3
  <2> QED BY <1>2, <2>4, <2>5
<1>4. ASSUME NEW r \in Rows, BackoffElapses(r) \/ LockExpires(r) PROVE CopiesCurrent' /\ Grown
  <2>1. \A s \in Rows : row'[s].status = row[s].status /\ row'[s].attempts = row[s].attempts
    BY <1>0, <1>4, TimeKeeps
  <2>2. job' = job
    BY <1>4 DEF BackoffElapses, LockExpires
  <2> QED BY <1>1, <1>2, <2>1, <2>2
<1>5. ASSUME NEW w \in Workers, Claim(w) PROVE CopiesCurrent' /\ Grown
  <2>1. PICK batch \in SUBSET Rows : ClaimOf(w, batch)
    BY <1>5, ClaimTakesIdle DEF AttemptsInv
  <2>2. \A v \in Workers, r \in Rows : job'[v][r] = job[v][r] \/ job'[v][r].phase \in {"idle", "claimed"}
    BY <2>1 DEF ClaimOf
  <2>3. \A r \in Rows : \/ \A v \in Workers : ~Live(v, r)
                        \/ row'[r].attempts = row[r].attempts /\ row'[r].status = row[r].status
    BY <2>1 DEF ClaimOf
  <2>4. \A r \in Rows : row'[r].attempts = row[r].attempts
    BY <2>1 DEF ClaimOf
  <2> QED BY <1>1, <1>2, <2>2, <2>3, <2>4
<1>6. ASSUME NEW w \in Workers, Crash(w) PROVE CopiesCurrent' /\ Grown
  <2>1. /\ row' = row
        /\ \A v \in Workers, r \in Rows : job'[v][r] = job[v][r] \/ job'[v][r].phase = "idle"
    BY <1>0, <1>6 DEF Crash, TypeOK, NoJob
  <2> QED BY <1>1, <1>2, <2>1
<1>7. ASSUME NEW w \in Workers, NEW r \in Rows, Task(w, r) PROVE CopiesCurrent' /\ Grown
  <2>1. /\ \A s \in Rows \ {r} : row'[s] = row[s]
        /\ \A v \in Workers, s \in Rows : v # w \/ s # r => job'[v][s] = job[v][s]
        /\ Live(w, r)
    BY <1>0, <1>7, TaskFrame DEF Live
  <2>2. row'[r].status = "deleted" => row' = row
    BY <1>0, <1>7, TaskWrites
  <2>3. row' = row \/ row[r].status # "deleted"
    BY <1>0, <1>7, TaskWrites DEF Exists
  <2>4. row[r].status # "deleted" => \A v \in Workers \ {w} : ~Live(v, r)
    BY <2>1 DEF AttemptsInv, LockInv, LockFacts, OneTaskPerRow
  <2>5. CopiesCurrent'
    <3> SUFFICES ASSUME NEW v \in Workers, NEW s \in Rows, job'[v][s].phase \in Copied,
                        row'[s].status # "deleted"
                 PROVE  job'[v][s].attempts = row'[s].attempts
      BY DEF CopiesCurrent
    <3>1. CASE s # r
      BY <2>1, <3>1 DEF AttemptsInv, CopiesCurrent
    <3>2. CASE s = r /\ v # w
      <4>1. job'[v][r] = job[v][r] /\ Live(v, r)
        BY <2>1, <3>2 DEF Live, Copied, Excepting
      <4>2. row[r].status = "deleted"
        BY <2>4, <3>2, <4>1
      <4> QED BY <2>3, <3>2, <4>2
    <3>3. CASE s = r /\ v = w
      <4>1. row'[r].attempts = row[r].attempts /\ row[r].status # "deleted"
        BY <1>0, <1>7, <2>3, <3>3, TaskAttempts DEF Copied, Excepting
      <4>2. CASE job'[w][r].attempts = row[r].attempts
        BY <3>3, <4>1, <4>2
      <4>3. CASE job[w][r].phase \in Copied /\ job'[w][r].attempts = job[w][r].attempts
        BY <3>3, <4>1, <4>3 DEF AttemptsInv, CopiesCurrent
      <4> QED BY <1>0, <1>7, <3>3, <4>2, <4>3, TaskAttempts DEF Copied, Excepting
    <3> QED BY <3>1, <3>2, <3>3
  <2>6. row'[r].attempts >= row[r].attempts
    <3>1. CASE row'[r].attempts = row[r].attempts
      BY <1>0, <3>1
    <3>2. CASE /\ job[w][r].phase \in Excepting /\ row[r].status \in Exists
               /\ row'[r].attempts = job[w][r].attempts + 1
      <4>1. job[w][r].attempts = row[r].attempts
        BY <3>2 DEF AttemptsInv, CopiesCurrent, Copied, Excepting, Exists
      <4> QED BY <1>0, <3>2, <4>1
    <3> QED BY <1>0, <1>7, <3>1, <3>2, TaskAttempts
  <2>7. Grown
    <3> SUFFICES ASSUME NEW s \in Rows PROVE row'[s].attempts >= row[s].attempts
      OBVIOUS
    <3>1. CASE s = r
      BY <2>6, <3>1
    <3>2. CASE s # r
      BY <1>0, <2>1, <3>2
    <3> QED BY <3>1, <3>2
  <2> QED BY <2>5, <2>7
<1>8. CASE CleanupDelete \/ DeleteClient
  <2>1. \A r \in Rows : /\ row'[r].attempts = row[r].attempts
                        /\ row'[r] = row[r] \/ row'[r].status = "deleted"
    BY <1>0, <1>8 DEF CleanupDelete, DeleteClient, RowType
  <2>2. job' = job
    BY <1>8 DEF CleanupDelete, DeleteClient
  <2> QED BY <1>1, <1>2, <2>1, <2>2
<1>9. CASE CleanupSelect \/ SwitchOff \/ SwitchOn
  BY <1>1, <1>2, <1>9 DEF CleanupSelect, SwitchOff, SwitchOn
<1> QED BY <1>3, <1>4, <1>5, <1>6, <1>7, <1>8, <1>9 DEF Next

\* When no task outlives its lock, the count of a row's failed attempts never
\* falls: what a task writes is one more than what the row says.
THEOREM AttemptsGrow ==
    ASSUME ~SlowDelivery PROVE Spec => AttemptsOnlyGrow
<1> DEFINE Grown == \A r \in Rows : row[r].status # "absent" => row'[r].attempts >= row[r].attempts
<1>1. AttemptsInv /\ [Next]_vars => [Grown]_vars
  BY AttemptsStep
<1>2. AttemptsInv /\ [Next]_vars => AttemptsInv'
  <2>1. CASE UNCHANGED vars
    BY <2>1, LockNext DEF AttemptsInv, CopiesCurrent, vars
  <2> QED BY <2>1, AttemptsStep, LockNext DEF AttemptsInv
<1>3. Init => AttemptsInv
  BY LockInit DEF Init, AttemptsInv, CopiesCurrent, NoJob, Copied, Excepting
<1> QED BY <1>1, <1>2, <1>3, PTL DEF Spec, AttemptsOnlyGrow

-----------------------------------------------------------------------------
(* ShortfallExplained, whatever is slow, lost or restarted.  A row that is  *)
(* open and reserved has its unit; an outcome may take it; and whatever     *)
(* writes to the row after its outcome is counted in redone.                *)

\* Explained, for one row.
RowCounted(r) ==
    /\ Accounted(r) >= 0
    /\ row[r].status = "sent" /\ (WorkerCounts \/ r \in Reserved) =>
          Accounted(r) >= 1 \/ ledger[r].filtered
    /\ row[r].status \in Open /\ r \in Reserved => Accounted(r) >= 1

\* A task that found nothing to send is right about it.
FilteredRight ==
    \A w \in Workers, r \in Rows : job[w][r].phase = "filtered" => ledger[r].filtered

UsageInv == TypeOK /\ FilteredRight /\ \A r \in Rows : RowCounted(r)

\* The counts of a row are numbers.
LEMMA AccountedType ==
    ASSUME TypeOK, NEW r \in Rows
    PROVE  /\ ledger[r] \in LedgerType /\ Accounted(r) \in Int
           /\ ledger[r].usage \in Int /\ ledger[r].redone \in Nat /\ ledger[r].stray \in Nat
BY DEF TypeOK, LedgerType, Accounted

\* A unit for a row that had its outcome already.
Again(r) == IF row[r].status \in {"sent", "dead"} THEN 1 ELSE 0

AccountedSame(r) == Accounted(r)' = Accounted(r) /\ ledger'[r].filtered = ledger[r].filtered

\* What recording an outcome does to the quota.
Paid(r, units) ==
    /\ Accounted(r)' = Accounted(r) + Again(r) + units
    /\ ledger'[r].filtered = ledger[r].filtered

LEMMA RecordPays ==
    ASSUME TypeOK, NEW r \in Rows, NEW units \in Int, NEW lost \in Nat, Record(r, units, lost)
    PROVE  Paid(r, units) /\ \A s \in Rows \ {r} : AccountedSame(s)
<1>1. ledger[r].usage \in Int /\ ledger[r].redone \in Nat /\ ledger[r].stray \in Nat
  BY AccountedType
<1>2. /\ ledger'[r].usage = ledger[r].usage + units
      /\ ledger'[r].redone = ledger[r].redone + Again(r)
      /\ ledger'[r].stray = ledger[r].stray
      /\ ledger'[r].filtered = ledger[r].filtered
  BY <1>1, RecordFields DEF Again
<1>3. Again(r) \in Nat
  BY DEF Again
<1>4. Accounted(r)' = Accounted(r) + Again(r) + units
  BY <1>1, <1>2, <1>3 DEF Accounted
<1>5. \A s \in Rows \ {r} : ledger'[s] = ledger[s]
  BY RecordFields
<1> QED BY <1>2, <1>4, <1>5 DEF Paid, AccountedSame, Accounted

\* What a task's step does to the quota of its row: nothing, or what the
\* outcome it records is worth.
TaskPays(w, r, units) ==
    \/ row'[r].status = "queued" /\ units = 0
    \/ row'[r].status = "dead" /\ (units = 0 \/ (units = -1 /\ r \in Reserved))
    \/ /\ row'[r].status = "sent" /\ job[w][r].phase = "filtered"
       /\ units = 0 \/ (units = -1 /\ r \in Reserved)
    \/ row'[r].status = "sent" /\ units = SentUnits(r)

TaskUsage(w, r) ==
    /\ ledger[r].filtered => ledger'[r].filtered
    /\ job'[w][r].phase = "filtered" => ledger'[r].filtered
    /\ \/ row' = row /\ Accounted(r)' = Accounted(r)
       \/ /\ row[r].status \in Exists
          /\ \E units \in {-1, 0, 1} : Paid(r, units) /\ TaskPays(w, r, units)

LEMMA TaskUsages ==
    ASSUME TypeOK, NEW w \in Workers, NEW r \in Rows, Task(w, r)
    PROVE  TaskUsage(w, r) /\ \A s \in Rows \ {r} : AccountedSame(s)
<1>0. /\ row[r] \in RowType /\ job[w][r] \in JobType /\ \A s \in Rows : ledger[s] \in LedgerType
      /\ SentUnits(r) \in {0, 1}
  BY DEF TypeOK, SentUnits
<1>1. ASSUME UNCHANGED ledger
      PROVE  /\ \A s \in Rows : AccountedSame(s)
             /\ Accounted(r)' = Accounted(r) /\ ledger'[r].filtered = ledger[r].filtered
  BY <1>1 DEF AccountedSame, Accounted
<1>2. ASSUME RollbackAborted(r)
      PROVE  /\ \A s \in Rows \ {r} : AccountedSame(s)
             /\ Accounted(r)' = Accounted(r) /\ ledger'[r].filtered = ledger[r].filtered
  <2>1. /\ ledger'[r].filtered = ledger[r].filtered /\ ledger'[r].redone = ledger[r].redone
        /\ ledger'[r].usage + ledger'[r].stray = ledger[r].usage + ledger[r].stray
        /\ \A s \in Rows \ {r} : ledger'[s] = ledger[s]
        /\ ledger'[r] \in LedgerType
    BY <1>2, AbortedFields
  <2>2. Accounted(r)' = Accounted(r)
    BY <1>0, <2>1 DEF Accounted, LedgerType
  <2> QED BY <2>1, <2>2 DEF AccountedSame, Accounted
<1>3. ASSUME RollbackUsage(r)
      PROVE  /\ \A s \in Rows \ {r} : AccountedSame(s)
             /\ \E units \in {-1, 0} : Paid(r, units) /\ (units = -1 => r \in Reserved)
  <2>1. PICK units \in {-1, 0} : Record(r, units, 0) /\ (units = -1 => r \in Reserved)
    BY <1>3, RollbackRecords
  <2> QED BY <2>1, RecordPays
<1>4. CASE BeginSkips(w, r) \/ FinishGone(w, r)
  BY <1>1, <1>4 DEF BeginSkips, FinishGone, EndJob, NoJob, TypeOK, TaskUsage
<1>5. CASE BeginInactive(w, r)
  <2>1. row'[r].status = "dead" /\ row[r].status = "processing"
    BY <1>0, <1>5 DEF BeginInactive, TypeOK, Unlock, RowType
  <2>2. Paid(r, 0)
    BY <1>1, <1>5, <2>1, AccountedType DEF BeginInactive, Paid, Again
  <2>3. ledger' = ledger /\ job'[w][r].phase = "idle"
    BY <1>5 DEF BeginInactive, EndJob, NoJob, TypeOK
  <2> QED BY <1>1, <2>1, <2>2, <2>3 DEF TaskUsage, TaskPays, Exists
<1>6. CASE BeginSend(w, r)
  BY <1>1, <1>6 DEF BeginSend, TypeOK, TaskUsage
<1>7. CASE SendAccepted(w, r) \/ SendUnanswered(w, r)
  <2> DEFINE m == ledger[r].accepted + 1
             n == IF SendAccepted(w, r) THEN ledger[r].lost ELSE ledger[r].lost + 1
             entry == [ledger[r] EXCEPT !.accepted = m, !.lost = n]
  <2>1. ledger' = [ledger EXCEPT ![r] = entry]
    <3>1. CASE SendAccepted(w, r)
      BY <1>0, <3>1 DEF SendAccepted, TypeOK, LedgerType
    <3>2. CASE ~SendAccepted(w, r)
      BY <1>7, <3>2 DEF SendUnanswered, TypeOK
    <3> QED BY <3>1, <3>2
  <2>2. /\ entry.usage = ledger[r].usage /\ entry.redone = ledger[r].redone
        /\ entry.stray = ledger[r].stray /\ entry.filtered = ledger[r].filtered
    BY <1>0 DEF LedgerType
  <2> HIDE DEF entry
  <2>3. \A s \in Rows : AccountedSame(s)
    BY <2>1, <2>2 DEF TypeOK, AccountedSame, Accounted
  <2>4. row' = row /\ job'[w][r].phase \in {"accepted", "failed"}
    BY <1>0, <1>7 DEF SendAccepted, SendUnanswered, Answer, TypeOK, JobType
  <2> QED BY <2>3, <2>4 DEF TaskUsage, AccountedSame
<1>8. CASE SendRefused(w, r)
  <2>1. row' = row /\ job'[w][r].phase = "failed"
    BY <1>0, <1>8 DEF SendRefused, Answer, TypeOK, JobType
  <2> QED BY <1>1, <1>8, <2>1 DEF SendRefused, TaskUsage
<1>9. CASE SendFiltered(w, r)
  <2>1. /\ ledger'[r].filtered /\ ledger'[r].usage = ledger[r].usage
        /\ ledger'[r].redone = ledger[r].redone /\ ledger'[r].stray = ledger[r].stray
        /\ \A s \in Rows \ {r} : ledger'[s] = ledger[s]
    BY <1>0, <1>9 DEF SendFiltered, TypeOK, LedgerType
  <2>2. row' = row
    BY <1>9 DEF SendFiltered, Answer
  <2> QED BY <2>1, <2>2 DEF TaskUsage, AccountedSame, Accounted
<1>10. CASE FinishSent(w, r)
  <2>1. row'[r].status = "sent" /\ row[r].status \in Exists
    BY <1>0, <1>10 DEF FinishSent, TypeOK, SentRow, Unlock, RowType
  <2>2. Paid(r, SentUnits(r)) /\ \A s \in Rows \ {r} : AccountedSame(s)
    BY <1>0, <1>10, RecordPays DEF FinishSent
  <2>3. job'[w][r].phase # "filtered"
    BY <1>10 DEF FinishSent, EndJob, NoJob, TypeOK
  <2> QED BY <1>0, <2>1, <2>2, <2>3 DEF TaskUsage, TaskPays, Paid
<1>11. CASE FinishFiltered(w, r)
  <2>1. row'[r].status = "sent" /\ row[r].status \in Exists
    BY <1>0, <1>11 DEF FinishFiltered, TypeOK, SentRow, Unlock, RowType
  <2>2. RollbackUsage(r) /\ job[w][r].phase = "filtered" /\ job'[w][r].phase # "filtered"
    BY <1>11 DEF FinishFiltered, EndJob, NoJob, TypeOK
  <2> QED BY <1>3, <2>1, <2>2 DEF TaskUsage, TaskPays, Paid
<1>12. CASE FinishRetry(w, r)
  <2>1. row'[r].status = "queued" /\ row[r].status \in Exists
    BY <1>0, <1>12 DEF FinishRetry, TypeOK, FailedRow, Unlock, RowType
  <2>2. Paid(r, 0) /\ \A s \in Rows \ {r} : AccountedSame(s)
    BY <1>12, RecordPays DEF FinishRetry
  <2>3. job'[w][r].phase # "filtered"
    BY <1>12 DEF FinishRetry, EndJob, NoJob, TypeOK
  <2> QED BY <2>1, <2>2, <2>3 DEF TaskUsage, TaskPays, Paid
<1>13. CASE FinishDead(w, r)
  <2>1. row'[r].status = "dead" /\ row[r].status \in Exists
    BY <1>0, <1>13 DEF FinishDead, TypeOK, FailedRow, Unlock, RowType
  <2>2. RollbackUsage(r) /\ job'[w][r].phase # "filtered"
    BY <1>13 DEF FinishDead, EndJob, NoJob, TypeOK
  <2> QED BY <1>3, <2>1, <2>2 DEF TaskUsage, TaskPays, Paid
<1>14. CASE CommitFails(w, r)
  <2>1. row' = row /\ job'[w][r].phase = "failed"
    BY <1>0, <1>14 DEF CommitFails, TypeOK, JobType
  <2>2. CASE ledger' = [ledger EXCEPT ![r].lost = @ + 1]
    <3> DEFINE entry == [ledger[r] EXCEPT !.lost = ledger[r].lost + 1]
    <3>1. /\ entry.usage = ledger[r].usage /\ entry.redone = ledger[r].redone
          /\ entry.stray = ledger[r].stray /\ entry.filtered = ledger[r].filtered
      BY <1>0 DEF LedgerType
    <3>2. ledger' = [ledger EXCEPT ![r] = entry]
      BY <2>2 DEF TypeOK
    <3> HIDE DEF entry
    <3>3. \A s \in Rows : AccountedSame(s)
      BY <3>1, <3>2 DEF TypeOK, AccountedSame, Accounted
    <3> QED BY <2>1, <3>3 DEF TaskUsage, AccountedSame
  <2>3. CASE RollbackAborted(r)
    BY <1>2, <2>1, <2>3 DEF TaskUsage
  <2> QED BY <1>14, <2>2, <2>3 DEF CommitFails
<1>15. CASE CommitUnanswered(w, r)
  <2>1. row'[r].status = "sent" /\ row[r].status \in Exists
    BY <1>0, <1>15 DEF CommitUnanswered, TypeOK, SentRow, Unlock, RowType
  <2>2. job'[w][r].phase # "filtered"
    BY <1>0, <1>15 DEF CommitUnanswered, TypeOK, JobType
  <2>3. CASE Record(r, SentUnits(r), 1)
    <3>1. Paid(r, SentUnits(r)) /\ \A s \in Rows \ {r} : AccountedSame(s)
      BY <1>0, <2>3, RecordPays
    <3> QED BY <1>0, <2>1, <2>2, <3>1 DEF TaskUsage, TaskPays, Paid
  <2>4. CASE job[w][r].phase = "filtered" /\ RollbackUsage(r)
    BY <1>3, <2>1, <2>2, <2>4 DEF TaskUsage, TaskPays, Paid
  <2> QED BY <1>15, <2>3, <2>4 DEF CommitUnanswered
<1>16. CASE FailureLost(w, r)
  <2>1. /\ row' = row /\ job'[w][r].phase # "filtered"
        /\ UNCHANGED ledger \/ RollbackAborted(r)
    BY <1>16 DEF FailureLost, EndJob, NoJob, TypeOK
  <2> QED BY <1>1, <1>2, <2>1 DEF TaskUsage
<1> QED
  BY <1>4, <1>5, <1>6, <1>7, <1>8, <1>9, <1>10, <1>11, <1>12, <1>13, <1>14, <1>15, <1>16
  DEF Task, Send, Finish

\* Before it records an outcome, a reserved row has a unit, counting the one
\* for an outcome it had before.
LEMMA UnitInHand ==
    ASSUME TypeOK, NEW r \in Rows, RowCounted(r), row[r].status \in Exists
    PROVE  /\ Accounted(r) + Again(r) \in Nat
           /\ r \in Reserved => Accounted(r) + Again(r) >= 1
<1>1. Accounted(r) \in Int /\ Accounted(r) >= 0
  BY AccountedType DEF RowCounted
<1> QED BY <1>1 DEF Again, RowCounted, Exists, Open

\* A task's step leaves its row counted.
LEMMA UsageTask ==
    ASSUME UsageInv, NEW w \in Workers, NEW r \in Rows, Task(w, r)
    PROVE  RowCounted(r)'
<1>1. /\ TypeOK /\ TaskUsage(w, r) /\ RowCounted(r)
      /\ job[w][r].phase = "filtered" => ledger[r].filtered
  BY TaskUsages DEF UsageInv, FilteredRight
<1>2. CASE row' = row /\ Accounted(r)' = Accounted(r)
  BY <1>1, <1>2 DEF TaskUsage, RowCounted
<1>3. ASSUME row[r].status \in Exists, NEW units \in {-1, 0, 1}, Paid(r, units), TaskPays(w, r, units)
      PROVE  RowCounted(r)'
  <2> DEFINE n == Accounted(r) + Again(r)
  <2>1. n \in Nat /\ (r \in Reserved => n >= 1) /\ Accounted(r)' = n + units
    BY <1>1, <1>3, UnitInHand DEF Paid
  <2>2. ledger[r].filtered => ledger'[r].filtered
    BY <1>1 DEF TaskUsage
  <2> HIDE DEF n
  <2>3. CASE row'[r].status = "queued" /\ units = 0
    BY <2>1, <2>3 DEF RowCounted
  <2>4. CASE row'[r].status = "dead" /\ (units = 0 \/ (units = -1 /\ r \in Reserved))
    BY <2>1, <2>4 DEF RowCounted, Open
  <2>5. CASE /\ row'[r].status = "sent" /\ job[w][r].phase = "filtered"
             /\ units = 0 \/ (units = -1 /\ r \in Reserved)
    BY <1>1, <2>1, <2>2, <2>5 DEF RowCounted, Open
  <2>6. CASE row'[r].status = "sent" /\ units = SentUnits(r)
    BY <2>1, <2>6 DEF RowCounted, Open, SentUnits
  <2> QED BY <1>3, <2>3, <2>4, <2>5, <2>6 DEF TaskPays
<1> QED BY <1>1, <1>2, <1>3 DEF TaskUsage

\* Every step keeps the rows counted.
LEMMA UsageNext == UsageInv /\ [Next]_vars => UsageInv'
<1> SUFFICES ASSUME UsageInv, [Next]_vars
             PROVE  FilteredRight' /\ \A r \in Rows : RowCounted(r)'
  BY TypeNext DEF UsageInv
<1>0. /\ TypeOK /\ FilteredRight /\ \A r \in Rows : RowCounted(r)
      /\ \A r \in Rows : row[r] \in RowType /\ ledger[r] \in LedgerType
  BY DEF UsageInv, TypeOK
\* A step that leaves the counts alone, and no row newly sent or newly open.
<1>1. ASSUME \A r \in Rows : AccountedSame(r),
             \A r \in Rows : \/ row'[r].status = row[r].status \/ row'[r].status = "deleted"
                             \/ row[r].status \in Open /\ row'[r].status \in Open,
             \A w \in Workers, r \in Rows : job'[w][r].phase = "filtered" => job[w][r].phase = "filtered"
      PROVE  FilteredRight' /\ \A r \in Rows : RowCounted(r)'
  <2>1. FilteredRight'
    BY <1>0, <1>1 DEF AccountedSame, FilteredRight
  <2>2. ASSUME NEW r \in Rows PROVE RowCounted(r)'
    BY <1>0, <1>1 DEF AccountedSame, RowCounted, Open
  <2> QED BY <2>1, <2>2
<1>2. UNCHANGED ledger => \A r \in Rows : AccountedSame(r)
  BY DEF AccountedSame, Accounted
<1>3. ASSUME NEW r \in Rows, Enqueue(r) PROVE FilteredRight' /\ \A s \in Rows : RowCounted(s)'
  <2>1. /\ job' = job /\ row'[r].status = "queued"
        /\ \A s \in Rows \ {r} : row'[s] = row[s] /\ ledger'[s] = ledger[s]
        /\ ledger'[r].usage = IF r \in Reserved THEN 1 ELSE 0
        /\ ledger'[r].redone = ledger[r].redone /\ ledger'[r].stray = ledger[r].stray
        /\ ledger'[r].filtered = ledger[r].filtered
    BY <1>0, <1>3 DEF Enqueue, TypeOK, LedgerType
  <2>2. FilteredRight'
    BY <1>0, <2>1 DEF FilteredRight
  <2>3. RowCounted(r)'
    BY <1>0, <2>1, AccountedType DEF RowCounted, Accounted
  <2>4. \A s \in Rows \ {r} : RowCounted(s)'
    BY <1>0, <2>1 DEF RowCounted, Accounted
  <2> QED BY <2>2, <2>3, <2>4
<1>4. ASSUME NEW r \in Rows, PortalRetry(r) PROVE FilteredRight' /\ \A s \in Rows : RowCounted(s)'
  <2>1. /\ row[r].status \in Exists /\ row'[r].status = "queued" /\ job' = job
        /\ \A s \in Rows \ {r} : row'[s] = row[s]
    BY <1>0, <1>4 DEF PortalRetry, TypeOK, Unlock, RowType
  <2>2. Paid(r, 0) /\ \A s \in Rows \ {r} : AccountedSame(s)
    BY <1>0, <1>4, RecordPays DEF PortalRetry
  <2>3. FilteredRight'
    BY <1>0, <2>1, <2>2 DEF FilteredRight, Paid, AccountedSame
  <2>4. RowCounted(r)'
    BY <1>0, <2>1, <2>2, UnitInHand DEF RowCounted, Paid
  <2>5. \A s \in Rows \ {r} : RowCounted(s)'
    BY <1>0, <2>1, <2>2 DEF RowCounted, AccountedSame
  <2> QED BY <2>3, <2>4, <2>5
<1>5. ASSUME NEW r \in Rows, BackoffElapses(r) \/ LockExpires(r)
      PROVE  FilteredRight' /\ \A s \in Rows : RowCounted(s)'
  <2>1. (\A s \in Rows : row'[s].status = row[s].status) /\ job' = job /\ ledger' = ledger
    BY <1>0, <1>5, TimeKeeps
  <2> QED BY <1>1, <1>2, <2>1
<1>6. ASSUME NEW w \in Workers, Claim(w) PROVE FilteredRight' /\ \A r \in Rows : RowCounted(r)'
  <2>1. PICK batch \in SUBSET Rows :
          /\ IsBatch(batch)
          /\ row' = [r \in Rows |-> IF r \in batch THEN Lock(row[r], w) ELSE row[r]]
          /\ job' = [job EXCEPT ![w] = [r \in Rows |->
                       IF r \in batch THEN [NoJob EXCEPT !.phase = "claimed"] ELSE NoJob]]
    BY <1>6 DEF Claim
  <2>2. ledger' = ledger
    BY <1>6 DEF Claim
  <2>3. \A v \in Workers, r \in Rows : job'[v][r].phase = "filtered" => job[v][r].phase = "filtered"
    BY <1>0, <2>1 DEF TypeOK, NoJob
  <2>4. ASSUME NEW r \in Rows
        PROVE  \/ row'[r].status = row[r].status
               \/ row[r].status \in Open /\ row'[r].status \in Open
    <3>1. CASE r \in batch
      BY <1>0, <2>1, <3>1 DEF IsBatch, Claimable, Lock, Open, RowType
    <3>2. CASE r \notin batch
      BY <2>1, <3>2
    <3> QED BY <3>1, <3>2
  <2> QED BY <1>1, <1>2, <2>2, <2>3, <2>4
<1>7. ASSUME NEW w \in Workers, Crash(w) PROVE FilteredRight' /\ \A r \in Rows : RowCounted(r)'
  <2>1. /\ row' = row
        /\ \A v \in Workers, r \in Rows : job'[v][r].phase = "filtered" => job[v][r].phase = "filtered"
    BY <1>0, <1>7 DEF Crash, TypeOK, NoJob
  <2>2. ASSUME NEW r \in Rows PROVE AccountedSame(r)
    <3>1. /\ ledger'[r].usage = ledger[r].usage /\ ledger'[r].redone = ledger[r].redone
          /\ ledger'[r].stray = ledger[r].stray /\ ledger'[r].filtered = ledger[r].filtered
      BY <1>0, <1>7 DEF Crash, LedgerType
    <3> QED BY <3>1 DEF AccountedSame, Accounted
  <2> QED BY <1>1, <2>1, <2>2
<1>8. ASSUME NEW w \in Workers, NEW r \in Rows, Task(w, r)
      PROVE  FilteredRight' /\ \A s \in Rows : RowCounted(s)'
  <2>1. /\ \A s \in Rows \ {r} : row'[s] = row[s]
        /\ \A v \in Workers, s \in Rows : v # w \/ s # r => job'[v][s] = job[v][s]
    BY <1>0, <1>8, TaskFrame
  <2>2. TaskUsage(w, r) /\ \A s \in Rows \ {r} : AccountedSame(s)
    BY <1>0, <1>8, TaskUsages
  <2>3. RowCounted(r)'
    BY <1>8, UsageTask
  <2>4. \A s \in Rows \ {r} : RowCounted(s)'
    BY <1>0, <2>1, <2>2 DEF RowCounted, AccountedSame
  <2>5. FilteredRight'
    <3> SUFFICES ASSUME NEW v \in Workers, NEW s \in Rows, job'[v][s].phase = "filtered"
                 PROVE  ledger'[s].filtered
      BY DEF FilteredRight
    <3>1. CASE s # r
      BY <1>0, <2>1, <2>2, <3>1 DEF AccountedSame, FilteredRight
    <3>2. CASE s = r /\ v # w
      BY <1>0, <2>1, <2>2, <3>2 DEF TaskUsage, FilteredRight
    <3>3. CASE s = r /\ v = w
      BY <2>2, <3>3 DEF TaskUsage
    <3> QED BY <3>1, <3>2, <3>3
  <2> QED BY <2>3, <2>4, <2>5
<1>9. CASE CleanupDelete \/ DeleteClient
  <2>1. \A r \in Rows : row'[r] = row[r] \/ row'[r].status = "deleted"
    BY <1>0, <1>9 DEF CleanupDelete, DeleteClient, RowType
  <2>2. job' = job /\ ledger' = ledger
    BY <1>9 DEF CleanupDelete, DeleteClient
  <2> QED BY <1>1, <1>2, <2>1, <2>2
<1>10. CASE CleanupSelect \/ SwitchOff \/ SwitchOn \/ UNCHANGED vars
  BY <1>1, <1>2, <1>10 DEF CleanupSelect, SwitchOff, SwitchOn, vars
<1> QED
  BY <1>3, <1>4, <1>5, <1>6, <1>7, <1>8, <1>9, <1>10 DEF Next

\* Whatever is slow, lost, restarted or retried, and wherever the counters are:
\* a row's quota falls short by at most one unit for each status it was given
\* after its outcome and one for each rollback in Redis left by a failed commit.
THEOREM ShortfallIsExplained == Spec => []ShortfallExplained
<1>1. UsageInv => ShortfallExplained
  BY DEF UsageInv, RowCounted, ShortfallExplained
<1>2. Init => UsageInv
  <2>1. ASSUME Init PROVE FilteredRight /\ \A r \in Rows : RowCounted(r)
    BY <2>1 DEF Init, FilteredRight, RowCounted, Accounted, NoJob, Open
  <2> QED BY <2>1, TypeInit DEF UsageInv
<1> QED BY <1>1, <1>2, UsageNext, PTL DEF Spec

=============================================================================
