---------------------------- MODULE QueueProofs ----------------------------
(***************************************************************************)
(* The outbox implements DurableQueue, for every set of rows and workers   *)
(* and every bound, when deliveries end before the stale-lock limit.  The  *)
(* argument needs, besides the lock invariant of OutboxProofs, that a task *)
(* which believes its row delivered is right (DeliveryInv), and that what  *)
(* the clean-up has chosen stays settled unless it is reopened             *)
(* (DoomedInv).                                                            *)
(***************************************************************************)
EXTENDS OutboxProofs

Taken(r) == ledger[r].accepted > 0 \/ ledger[r].filtered

-----------------------------------------------------------------------------
(* Sent means delivered.                                                    *)

DeliveryInv ==
    /\ SentWasDelivered
    /\ \A w \in Workers, r \in Rows :
          job[w][r].phase \in {"accepted", "filtered"} => Taken(r)

\* What recording an outcome leaves alone.
LEMMA RecordKeepsTaken ==
    ASSUME TypeOK, NEW r \in Rows, NEW units \in Int, NEW lost \in Nat, Record(r, units, lost)
    PROVE  \A s \in Rows : Taken(s)' = Taken(s)
<1> SUFFICES ASSUME NEW s \in Rows
             PROVE  ledger'[s].accepted = ledger[s].accepted /\ ledger'[s].filtered = ledger[s].filtered
  BY DEF Taken
<1> QED BY RecordFields

\* So does a rollback, aborted or not.
LEMMA RollbackKeepsTaken ==
    ASSUME TypeOK, NEW r \in Rows, RollbackUsage(r) \/ RollbackAborted(r)
    PROVE  \A s \in Rows : Taken(s)' = Taken(s)
<1>1. CASE RollbackUsage(r)
  <2>1. PICK units \in {-1, 0} : Record(r, units, 0)
    BY <1>1, RollbackRecords
  <2> QED BY <2>1, RecordKeepsTaken
<1>2. CASE RollbackAborted(r)
  <2> SUFFICES ASSUME NEW s \in Rows
               PROVE  ledger'[s].accepted = ledger[s].accepted /\ ledger'[s].filtered = ledger[s].filtered
    BY DEF Taken
  <2> QED BY <1>2, AbortedFields
<1> QED BY <1>1, <1>2

\* A step of a task tells the truth about deliveries: it takes a row or leaves
\* all of them as they were, ends a row as sent only after its own delivery, and
\* believes in a delivery only after one.
LEMMA TaskTaken ==
    ASSUME TypeOK, NEW w \in Workers, NEW r \in Rows, Task(w, r)
    PROVE  /\ \A s \in Rows : s # r => Taken(s)' = Taken(s)
           /\ \/ Taken(r)' = Taken(r)
              \/ Taken(r)' /\ job[w][r].phase = "sending" /\ row' = row
           /\ row' # row /\ row'[r].status = "sent" =>
                 job[w][r].phase \in {"accepted", "filtered"}
           /\ job'[w][r].phase \in {"accepted", "filtered"} => Taken(r)'
<1> row[r] \in RowType /\ job[w][r] \in JobType /\ \A s \in Rows : ledger[s] \in LedgerType
  BY DEF TypeOK
<1>1. CASE BeginSkips(w, r) \/ FinishGone(w, r)
  BY <1>1 DEF BeginSkips, FinishGone, EndJob, NoJob, TypeOK, Taken
<1>2. CASE BeginInactive(w, r)
  <2>1. row'[r].status = "dead"
    BY <1>2 DEF BeginInactive, TypeOK, Unlock, RowType
  <2> QED BY <1>2, <2>1 DEF BeginInactive, EndJob, NoJob, TypeOK, Taken
<1>3. CASE BeginSend(w, r)
  BY <1>3 DEF BeginSend, TypeOK, Taken
<1>4. CASE SendAccepted(w, r)
  <2>1. /\ ledger'[r].accepted = ledger[r].accepted + 1
        /\ \A s \in Rows \ {r} : ledger'[s] = ledger[s]
    BY <1>4 DEF SendAccepted, TypeOK, LedgerType
  <2>2. Taken(r)' /\ \A s \in Rows \ {r} : Taken(s)' = Taken(s)
    BY <2>1 DEF Taken, LedgerType
  <2> QED BY <1>4, <2>2 DEF SendAccepted, Answer
<1>5. CASE SendRefused(w, r)
  BY <1>5 DEF SendRefused, Answer, TypeOK, JobType, Taken
<1>6. CASE SendUnanswered(w, r)
  <2>1. /\ ledger'[r].accepted = ledger[r].accepted + 1
        /\ \A s \in Rows \ {r} : ledger'[s] = ledger[s]
    BY <1>6 DEF SendUnanswered, TypeOK, LedgerType
  <2>2. Taken(r)' /\ \A s \in Rows \ {r} : Taken(s)' = Taken(s)
    BY <2>1 DEF Taken, LedgerType
  <2> QED BY <1>6, <2>2 DEF SendUnanswered, Answer
<1>7. CASE SendFiltered(w, r)
  <2>1. /\ ledger'[r].filtered
        /\ \A s \in Rows \ {r} : ledger'[s] = ledger[s]
    BY <1>7 DEF SendFiltered, TypeOK, LedgerType
  <2>2. Taken(r)' /\ \A s \in Rows \ {r} : Taken(s)' = Taken(s)
    BY <2>1 DEF Taken
  <2> QED BY <1>7, <2>2 DEF SendFiltered, Answer
<1>8. CASE FinishSent(w, r)
  <2>1. \A s \in Rows : Taken(s)' = Taken(s)
    BY <1>8, RecordKeepsTaken DEF FinishSent, SentUnits
  <2> QED BY <1>8, <2>1 DEF FinishSent, EndJob, NoJob, TypeOK
<1>9. CASE FinishFiltered(w, r)
  BY <1>9, RollbackKeepsTaken DEF FinishFiltered, EndJob, NoJob, TypeOK
<1>10. CASE FinishRetry(w, r)
  <2>1. row'[r].status = "queued"
    BY <1>10 DEF FinishRetry, TypeOK, FailedRow, Unlock, RowType
  <2>2. \A s \in Rows : Taken(s)' = Taken(s)
    BY <1>10, RecordKeepsTaken DEF FinishRetry
  <2> QED BY <1>10, <2>1, <2>2 DEF FinishRetry, EndJob, NoJob, TypeOK
<1>11. CASE FinishDead(w, r)
  <2>1. row'[r].status = "dead"
    BY <1>11 DEF FinishDead, TypeOK, FailedRow, Unlock, RowType
  <2> QED BY <1>11, <2>1, RollbackKeepsTaken DEF FinishDead, EndJob, NoJob, TypeOK
<1>12. CASE CommitFails(w, r)
  <2>1. \A s \in Rows : Taken(s)' = Taken(s)
    <3>1. CASE ledger' = [ledger EXCEPT ![r].lost = @ + 1]
      BY <3>1 DEF TypeOK, Taken, LedgerType
    <3> QED BY <1>12, <3>1, RollbackKeepsTaken DEF CommitFails
  <2> QED BY <1>12, <2>1 DEF CommitFails, TypeOK, JobType
<1>13. CASE FailureLost(w, r)
  <2>1. \A s \in Rows : Taken(s)' = Taken(s)
    <3>1. CASE UNCHANGED ledger
      BY <3>1 DEF Taken
    <3> QED BY <1>13, <3>1, RollbackKeepsTaken DEF FailureLost
  <2> QED BY <1>13, <2>1 DEF FailureLost, EndJob, NoJob, TypeOK
<1>14. CASE CommitUnanswered(w, r)
  <2>1. \A s \in Rows : Taken(s)' = Taken(s)
    BY <1>14, RecordKeepsTaken, RollbackKeepsTaken DEF CommitUnanswered, SentUnits
  <2> QED BY <1>14, <2>1 DEF CommitUnanswered, TypeOK, JobType
<1> QED
  BY <1>1, <1>2, <1>3, <1>4, <1>5, <1>6, <1>7, <1>8, <1>9, <1>10, <1>11, <1>12, <1>13, <1>14
  DEF Task, Send, Finish

\* What no other step does: deliver, end a row as sent, or make a task believe
\* in a delivery.
NoDelivery ==
    /\ \A r \in Rows : Taken(r)' = Taken(r)
    /\ \A r \in Rows : row'[r].status = "sent" => row[r].status = "sent"
    /\ \A w \in Workers, r \in Rows :
          job'[w][r].phase \in {"accepted", "filtered"} => job'[w][r] = job[w][r]

LEMMA OthersTaken ==
    ASSUME TypeOK, [Next]_vars, \A w \in Workers, r \in Rows : ~Task(w, r)
    PROVE  NoDelivery
<1> \A r \in Rows : row[r] \in RowType /\ ledger[r] \in LedgerType
  BY DEF TypeOK
<1>1. ASSUME NEW r \in Rows, Enqueue(r) PROVE NoDelivery
  <2>1. \A s \in Rows : Taken(s)' = Taken(s)
    <3> SUFFICES ASSUME NEW s \in Rows
                 PROVE  ledger'[s].accepted = ledger[s].accepted /\ ledger'[s].filtered = ledger[s].filtered
      BY DEF Taken
    <3> QED BY <1>1 DEF Enqueue, TypeOK, LedgerType
  <2> QED BY <1>1, <2>1 DEF Enqueue, TypeOK, NoDelivery
<1>2. ASSUME NEW r \in Rows, PortalRetry(r) PROVE NoDelivery
  <2>1. row'[r].status = "queued" /\ \A s \in Rows \ {r} : row'[s] = row[s]
    BY <1>2 DEF PortalRetry, TypeOK, Unlock, RowType
  <2>2. (\A s \in Rows : Taken(s)' = Taken(s)) /\ job' = job
    BY <1>2, RecordKeepsTaken DEF PortalRetry
  <2> QED BY <2>1, <2>2 DEF NoDelivery
<1>3. ASSUME NEW r \in Rows, BackoffElapses(r) \/ LockExpires(r) PROVE NoDelivery
  BY <1>3, TimeKeeps DEF NoDelivery, Taken
<1>4. ASSUME NEW w \in Workers, Claim(w) PROVE NoDelivery
  <2>1. PICK batch \in SUBSET Rows :
          /\ row' = [r \in Rows |-> IF r \in batch THEN Lock(row[r], w) ELSE row[r]]
          /\ job' = [job EXCEPT ![w] = [r \in Rows |->
                       IF r \in batch THEN [NoJob EXCEPT !.phase = "claimed"] ELSE NoJob]]
    BY <1>4 DEF Claim
  <2>2. \A r \in Rows : row'[r].status = "sent" => row[r].status = "sent"
    BY <2>1 DEF Lock, RowType
  <2>3. \A v \in Workers, r \in Rows :
            job'[v][r].phase \in {"accepted", "filtered"} => job'[v][r] = job[v][r]
    BY <2>1 DEF NoJob, TypeOK
  <2> QED BY <1>4, <2>2, <2>3 DEF Claim, NoDelivery, Taken
<1>5. ASSUME NEW w \in Workers, Crash(w) PROVE NoDelivery
  <2>1. \A s \in Rows : Taken(s)' = Taken(s)
    <3> SUFFICES ASSUME NEW s \in Rows
                 PROVE  ledger'[s].accepted = ledger[s].accepted /\ ledger'[s].filtered = ledger[s].filtered
      BY DEF Taken
    <3> QED BY <1>5 DEF Crash, TypeOK, LedgerType
  <2>2. \A v \in Workers, r \in Rows :
            job'[v][r].phase \in {"accepted", "filtered"} => job'[v][r] = job[v][r]
    BY <1>5 DEF Crash, NoJob, TypeOK
  <2> QED BY <1>5, <2>1, <2>2 DEF Crash, NoDelivery
<1>6. CASE CleanupDelete \/ DeleteClient
  <2>1. \A r \in Rows : row'[r].status = "sent" => row[r].status = "sent"
    BY <1>6 DEF CleanupDelete, DeleteClient, RowType
  <2> QED BY <1>6, <2>1 DEF CleanupDelete, DeleteClient, NoDelivery, Taken
<1>7. CASE CleanupSelect \/ SwitchOff \/ SwitchOn \/ UNCHANGED vars
  BY <1>7 DEF CleanupSelect, SwitchOff, SwitchOn, vars, NoDelivery, Taken
<1> QED BY <1>1, <1>2, <1>3, <1>4, <1>5, <1>6, <1>7 DEF Next

\* Every step keeps DeliveryInv.
LEMMA DeliveryNext ==
    ASSUME TypeOK, DeliveryInv, [Next]_vars
    PROVE  DeliveryInv'
<1>1. ASSUME NEW w \in Workers, NEW r \in Rows, Task(w, r) PROVE DeliveryInv'
  <2>1. \A s \in Rows : Taken(s) => Taken(s)'
    BY <1>1, TaskTaken
  <2>2. SentWasDelivered'
    <3> SUFFICES ASSUME NEW s \in Rows, row'[s].status = "sent" PROVE Taken(s)'
      BY DEF SentWasDelivered, Taken
    <3>1. CASE row'[s] = row[s]
      BY <2>1, <3>1 DEF DeliveryInv, SentWasDelivered, Taken
    <3>2. CASE row'[s] # row[s]
      <4>1. s = r
        BY <1>1, <3>2, TaskFrame
      <4>2. Taken(r)
        BY <1>1, <3>2, <4>1, TaskTaken DEF DeliveryInv
      <4> QED BY <2>1, <4>1, <4>2
    <3> QED BY <3>1, <3>2
  <2>3. ASSUME NEW v \in Workers, NEW s \in Rows, job'[v][s].phase \in {"accepted", "filtered"}
        PROVE  Taken(s)'
    <3>1. CASE v = w /\ s = r
      BY <1>1, <2>3, <3>1, TaskTaken
    <3>2. CASE v # w \/ s # r
      <4>1. job'[v][s] = job[v][s]
        BY <1>1, <3>2, TaskFrame
      <4> QED BY <2>1, <2>3, <4>1 DEF DeliveryInv
    <3> QED BY <3>1, <3>2
  <2> QED BY <2>2, <2>3 DEF DeliveryInv, Taken
<1>2. CASE \A w \in Workers, r \in Rows : ~Task(w, r)
  <2>1. NoDelivery
    BY <1>2, OthersTaken
  <2>2. SentWasDelivered'
    BY <2>1 DEF NoDelivery, DeliveryInv, SentWasDelivered, Taken
  <2> QED BY <2>1, <2>2 DEF NoDelivery, DeliveryInv, Taken
<1> QED BY <1>1, <1>2

LEMMA DeliveryInit == Init => DeliveryInv
BY DEF Init, DeliveryInv, SentWasDelivered, NoJob

\* A row recorded as sent was taken by the platform, or there was nothing to
\* send: also when deliveries are slow and two tasks work on one row.
THEOREM SentDelivered == Spec => []SentWasDelivered
<1>1. DeliveryInv => SentWasDelivered
  BY DEF DeliveryInv
<1>2. TypeOK /\ DeliveryInv /\ [Next]_vars => (TypeOK /\ DeliveryInv)'
  BY TypeNext, DeliveryNext
<1> QED BY <1>1, <1>2, TypeInit, DeliveryInit, PTL DEF Spec

-----------------------------------------------------------------------------
(* The refinement.                                                          *)

DoomedInv ==
    \A r \in doomed : row[r].status \in {"sent", "dead", "deleted"} \/ ledger[r].redone > 0

QueueInv == LockInv /\ DeliveryInv /\ DoomedInv

RedoneSame(r) == ledger'[r].redone = ledger[r].redone

\* A step of a task counts in redone when it writes to a row that had its
\* outcome, and only then.
LEMMA TaskRedone ==
    ASSUME TypeOK, NEW w \in Workers, NEW r \in Rows, Task(w, r)
    PROVE  /\ \A s \in Rows \ {r} : RedoneSame(s)
           /\ \/ RedoneSame(r) /\ (row' = row \/ row[r].status \notin {"sent", "dead"})
              \/ ledger'[r].redone = ledger[r].redone + 1 /\ row[r].status \in {"sent", "dead"}
<1> DEFINE Goal == /\ \A s \in Rows \ {r} : RedoneSame(s)
                   /\ \/ RedoneSame(r) /\ (row' = row \/ row[r].status \notin {"sent", "dead"})
                      \/ /\ ledger'[r].redone = ledger[r].redone + 1
                         /\ row[r].status \in {"sent", "dead"}
<1>0. ledger \in [Rows -> LedgerType]
  BY DEF TypeOK
<1>1. ASSUME NEW units \in Int, NEW lost \in Nat, Record(r, units, lost) PROVE Goal
  BY <1>1, RecordFields DEF RedoneSame
<1>2. ASSUME RollbackUsage(r) PROVE Goal
  <2>1. PICK units \in {-1, 0} : Record(r, units, 0)
    BY <1>2, RollbackRecords
  <2> QED BY <1>1, <2>1
<1>3. ASSUME RollbackAborted(r), row' = row PROVE Goal
  BY <1>3, AbortedFields DEF RedoneSame
<1>4. ASSUME UNCHANGED ledger, row' = row \/ row[r].status \notin {"sent", "dead"} PROVE Goal
  BY <1>4 DEF RedoneSame
<1>5. CASE BeginSkips(w, r) \/ BeginInactive(w, r) \/ BeginSend(w, r) \/ FinishGone(w, r)
  BY <1>4, <1>5 DEF BeginSkips, BeginInactive, BeginSend, FinishGone
<1>6. CASE Send(w, r)
  <2>1. row' = row
    BY <1>6 DEF Send, SendAccepted, SendRefused, SendUnanswered, SendFiltered, Answer
  <2>2. \A s \in Rows : RedoneSame(s)
    BY <1>0, <1>6 DEF Send, SendAccepted, SendRefused, SendUnanswered, SendFiltered, RedoneSame, LedgerType
  <2> QED BY <2>1, <2>2
<1>7. CASE FinishSent(w, r)
  <2>1. SentUnits(r) \in Int /\ Record(r, SentUnits(r), 0)
    BY <1>7 DEF FinishSent, SentUnits
  <2> QED BY <1>1, <2>1
<1>8. CASE FinishFiltered(w, r)
  BY <1>2, <1>8 DEF FinishFiltered
<1>9. CASE FinishRetry(w, r)
  BY <1>1, <1>9 DEF FinishRetry
<1>10. CASE FinishDead(w, r)
  BY <1>2, <1>10 DEF FinishDead
<1>11. CASE CommitFails(w, r)
  <2>1. row' = row
    BY <1>11 DEF CommitFails
  <2>2. CASE ledger' = [ledger EXCEPT ![r].lost = @ + 1]
    <3>1. \A s \in Rows : RedoneSame(s)
      BY <1>0, <2>2 DEF RedoneSame, LedgerType
    <3> QED BY <2>1, <3>1
  <2> QED BY <1>3, <1>11, <2>1, <2>2 DEF CommitFails
<1>12. CASE CommitUnanswered(w, r)
  BY <1>1, <1>2, <1>12 DEF CommitUnanswered, SentUnits
<1>13. CASE FailureLost(w, r)
  BY <1>3, <1>4, <1>13 DEF FailureLost
<1> QED
  BY <1>5, <1>6, <1>7, <1>8, <1>9, <1>10, <1>11, <1>12, <1>13 DEF Task, Finish

\* A task's step leaves client and doomed alone.
LEMMA TaskOwner ==
    ASSUME NEW w \in Workers, NEW r \in Rows, Task(w, r)
    PROVE  client' = client /\ doomed' = doomed
BY DEF Task, BeginSkips, BeginInactive, BeginSend, Send, SendAccepted, SendRefused,
       SendUnanswered, SendFiltered, Answer, Finish, FinishGone, FinishSent,
       FinishFiltered, FinishRetry, FinishDead, CommitFails, CommitUnanswered, FailureLost

\* How a row looks to the queue depends on its status alone.
Shown(status) == IF status \in Open THEN "pending" ELSE status

\* The owner stays or stays away.
OwnerSame == (client' # "deleted") = (client # "deleted")

\* A step that shows no row in another way, takes and reopens none, and leaves
\* the unheard and the owner as they were is a stutter.
LEMMA QueueStutter ==
    ASSUME \A r \in Rows : Shown(row'[r].status) = Shown(row[r].status),
           \A r \in Rows : Taken(r)' = Taken(r),
           \A r \in Rows : RedoneSame(r),
           QueueUnheard' = QueueUnheard, OwnerSame
    PROVE  UNCHANGED Queue!queueVars
<1>1. QueueState' = QueueState
  BY DEF QueueState, Shown
<1>2. QueueTaken' = QueueTaken
  BY DEF QueueTaken, Taken
<1>3. QueueReopened' = QueueReopened
  BY DEF QueueReopened, RedoneSame
<1> QED BY <1>1, <1>2, <1>3 DEF Queue!queueVars, OwnerSame

\* A step that shows one row in another way is an update of QueueState.
LEMMA QueueMove ==
    ASSUME NEW r \in Rows, NEW status,
           Shown(row'[r].status) = status,
           \A s \in Rows \ {r} : Shown(row'[s].status) = Shown(row[s].status),
           \A s \in Rows : Taken(s)' = Taken(s)
    PROVE  /\ QueueState' = [QueueState EXCEPT ![r] = status]
           /\ QueueTaken' = QueueTaken
           /\ QueueState[r] = Shown(row[r].status)
<1>1. QueueState' = [QueueState EXCEPT ![r] = status]
  BY DEF QueueState, Shown
<1>2. QueueTaken' = QueueTaken
  BY DEF QueueTaken, Taken
<1> QED BY <1>1, <1>2 DEF QueueState, Shown

\* A row that is written to after its outcome counts as reopened.
LEMMA QueueReopen ==
    ASSUME TypeOK, NEW r \in Rows, ledger'[r].redone = ledger[r].redone + 1,
           \A s \in Rows \ {r} : RedoneSame(s)
    PROVE  QueueReopened' = QueueReopened \cup {r}
<1>1. ledger[r].redone \in Nat
  BY DEF TypeOK, LedgerType
<1>2. ledger'[r].redone > 0
  BY <1>1
<1> QED BY <1>2 DEF QueueReopened, RedoneSame

\* A task that is told of its commits leaves the unheard as they were; one that
\* is not adds its row.
LEMMA TaskUnheard ==
    ASSUME LockInv, NEW w \in Workers, NEW r \in Rows, Task(w, r)
    PROVE  /\ job[w][r].phase # "unheard" =>
                 QueueUnheard' = IF job'[w][r].phase = "unheard"
                                 THEN QueueUnheard \cup {r} ELSE QueueUnheard
           /\ job[w][r].phase = "unheard" => QueueUnheard' \subseteq QueueUnheard
           /\ job[w][r].phase = "unheard" /\ row[r].status # "deleted" =>
                 QueueUnheard' = QueueUnheard \ {r}
<1> USE DEF QueueUnheard
<1>1. \A v \in Workers, s \in Rows : v # w \/ s # r => job'[v][s] = job[v][s]
  BY TaskFrame DEF LockInv
<1>2. job[w][r].phase = "unheard" => job'[w][r].phase = "idle"
  BY TaskWrites DEF LockInv
<1>3. CASE job[w][r].phase # "unheard"
  BY <1>1, <1>3
<1>4. CASE job[w][r].phase = "unheard"
  <2>1. QueueUnheard' \subseteq QueueUnheard
    BY <1>1, <1>2, <1>4
  <2>2. ASSUME row[r].status # "deleted" PROVE QueueUnheard' = QueueUnheard \ {r}
    <3>1. \A v \in Workers \ {w} : job[v][r].phase = "idle"
      BY <1>4, <2>2 DEF LockInv, LockFacts, OneTaskPerRow, Live
    <3>2. \A v \in Workers : job'[v][r].phase # "unheard"
      BY <1>1, <1>2, <1>4, <3>1
    <3>3. \A v \in Workers, s \in Rows \ {r} : job'[v][s] = job[v][s]
      BY <1>1
    <3> QED BY <3>2, <3>3
  <2> QED BY <1>4, <2>1, <2>2
<1> QED BY <1>3, <1>4

\* Every step of a task that knows what was committed is a step of the queue:
\* a stutter, Take or Settle.
LEMMA TaskRefines ==
    ASSUME QueueInv, NEW w \in Workers, NEW r \in Rows, Task(w, r),
           job[w][r].phase # "unheard"
    PROVE  [Queue!QueueNext]_(Queue!queueVars)
<1> TypeOK /\ LockInv
  BY DEF QueueInv, LockInv
<1>1. /\ \A s \in Rows \ {r} : row'[s] = row[s]
      /\ row[r].status \in {"processing", "deleted"}
      /\ \A s \in Rows \ {r} : Taken(s)' = Taken(s)
      /\ \A s \in Rows : RedoneSame(s)
      /\ OwnerSame
  BY TaskFrame, TaskTaken, TaskRedone, TaskOwner DEF LockInv, LockFacts, OneTaskPerRow, Live, OwnerSame
<1>2. QueueReopened' = QueueReopened
  BY <1>1 DEF QueueReopened, RedoneSame
<1>3. CASE row' = row
  <2>1. QueueUnheard' = QueueUnheard
    <3>1. job'[w][r].phase # "unheard"
      BY <1>1, <1>3, TaskWrites DEF Exists
    <3> QED BY <3>1, TaskUnheard
  <2>2. CASE Taken(r)' = Taken(r)
    BY <1>1, <1>3, <2>1, <2>2, QueueStutter
  <2>3. CASE Taken(r)'
    <3>1. QueueState' = QueueState
      BY <1>3 DEF QueueState
    <3>2. QueueTaken' = [QueueTaken EXCEPT ![r] = TRUE]
      BY <1>1, <2>3 DEF QueueTaken, Taken
    <3>3. QueueState[r] \in {"pending", "deleted"}
      BY <1>1 DEF QueueState, Open
    <3>4. Queue!Take(r)
      BY <1>1, <1>2, <2>1, <3>1, <3>2, <3>3 DEF Queue!Take, OwnerSame
    <3> QED BY <3>4 DEF Queue!QueueNext
  <2> QED BY <2>2, <2>3, TaskTaken
<1>4. CASE row' # row
  <2>1. \A s \in Rows : Taken(s)' = Taken(s)
    BY <1>1, <1>4, TaskTaken
  <2>2. /\ row[r].status = "processing"
        /\ row'[r].status \in {"sent", "dead", "queued"}
        /\ row'[r].status # "sent" => job'[w][r].phase # "unheard"
    BY <1>1, <1>4, TaskWrites DEF Exists
  <2>3. CASE row'[r].status = "queued"
    <3>1. \A s \in Rows : Shown(row'[s].status) = Shown(row[s].status)
      BY <1>1, <2>2, <2>3 DEF Shown, Open
    <3>2. QueueUnheard' = QueueUnheard
      BY <2>2, <2>3, TaskUnheard
    <3> QED BY <1>1, <2>1, <3>1, <3>2, QueueStutter
  <2>4. CASE row'[r].status = "dead"
    <3>1. /\ QueueState' = [QueueState EXCEPT ![r] = "dead"]
          /\ QueueTaken' = QueueTaken
          /\ QueueState[r] = "pending"
      BY <1>1, <2>1, <2>2, <2>4, QueueMove DEF Shown, Open
    <3>2. QueueUnheard' = QueueUnheard
      BY <2>2, <2>4, TaskUnheard
    <3>3. Queue!Settle(r)
      BY <1>1, <1>2, <3>1, <3>2 DEF Queue!Settle, OwnerSame
    <3> QED BY <3>3 DEF Queue!QueueNext
  <2>5. CASE row'[r].status = "sent"
    <3>1. /\ QueueState' = [QueueState EXCEPT ![r] = "sent"]
          /\ QueueTaken' = QueueTaken
          /\ QueueState[r] = "pending"
      BY <1>1, <2>1, <2>2, <2>5, QueueMove DEF Shown, Open
    <3>2. QueueTaken[r]
      BY <1>4, <2>5, TaskTaken DEF QueueInv, DeliveryInv, QueueTaken, Taken
    <3>3. QueueUnheard' \in {QueueUnheard, QueueUnheard \cup {r}}
      BY TaskUnheard
    <3>4. Queue!Settle(r)
      BY <1>1, <1>2, <3>1, <3>2, <3>3 DEF Queue!Settle, OwnerSame
    <3> QED BY <3>4 DEF Queue!QueueNext
  <2> QED BY <2>2, <2>3, <2>4, <2>5
<1> QED BY <1>3, <1>4

\* What a task that was not told of its commit writes, if it writes.
LEMMA UnheardWrites ==
    ASSUME TypeOK, NEW w \in Workers, NEW r \in Rows, Task(w, r),
           job[w][r].phase = "unheard", ~RedoneSame(r)
    PROVE  row'[r].status \in {"queued", "dead"}
<1>1. FinishRetry(w, r) \/ FinishDead(w, r)
  <2>1. CASE FinishGone(w, r) \/ FailureLost(w, r)
    BY <2>1, AbortedFields DEF FinishGone, FailureLost, RedoneSame
  <2> QED
    BY <2>1 DEF Task, Finish, BeginSkips, BeginInactive, BeginSend, Send, SendAccepted, SendRefused,
       SendUnanswered, SendFiltered, Answer, FinishSent, FinishFiltered, CommitFails, CommitUnanswered
<1>2. row[r] \in RowType
  BY DEF TypeOK
<1>3. CASE FinishRetry(w, r)
  <2>1. row'[r] = [FailedRow(row[r], job[w][r].attempts + 1)
                     EXCEPT !.status = "queued", !.due = FALSE]
    BY <1>3 DEF FinishRetry, TypeOK
  <2> QED BY <1>2, <2>1 DEF FailedRow, Unlock, RowType
<1>4. CASE FinishDead(w, r)
  <2>1. row'[r] = [FailedRow(row[r], job[w][r].attempts + 1) EXCEPT !.status = "dead"]
    BY <1>4 DEF FinishDead, TypeOK
  <2> QED BY <1>2, <2>1 DEF FailedRow, Unlock, RowType
<1> QED BY <1>1, <1>3, <1>4

\* The last step of a task that was not told of its commit is End, or Mistake.
LEMMA UnheardRefines ==
    ASSUME QueueInv, NEW w \in Workers, NEW r \in Rows, Task(w, r),
           job[w][r].phase = "unheard"
    PROVE  [Queue!QueueNext]_(Queue!queueVars)
<1> TypeOK /\ LockInv
  BY DEF QueueInv, LockInv
<1>1. /\ \A s \in Rows \ {r} : row'[s] = row[s]
      /\ row[r].status \in {"sent", "deleted"}
      /\ \A s \in Rows \ {r} : RedoneSame(s)
      /\ OwnerSame
      /\ \A s \in Rows : Taken(s)' = Taken(s)
  BY TaskFrame, TaskTaken, TaskRedone, TaskOwner DEF LockInv, LockFacts, OneTaskPerRow, Live, OwnerSame
<1>2. CASE RedoneSame(r)
  <2>1. row' = row
    <3>1. CASE row[r].status = "sent"
      BY <1>2, <3>1, TaskRedone DEF RedoneSame, TypeOK, LedgerType
    <3>2. CASE row[r].status = "deleted"
      BY <3>2, TaskWrites DEF Exists
    <3> QED BY <1>1, <3>1, <3>2
  <2>2. QueueUnheard' \subseteq QueueUnheard
    BY TaskUnheard
  <2>3. QueueState' = QueueState /\ QueueTaken' = QueueTaken /\ QueueReopened' = QueueReopened
    BY <1>1, <1>2, <2>1 DEF QueueState, QueueTaken, Taken, QueueReopened, RedoneSame
  <2>4. Queue!End
    BY <1>1, <2>2, <2>3 DEF Queue!End, OwnerSame
  <2> QED BY <2>4 DEF Queue!QueueNext
<1>3. CASE ~RedoneSame(r)
  <2>1. row[r].status = "sent" /\ QueueReopened' = QueueReopened \cup {r}
    BY <1>1, <1>3, TaskRedone, QueueReopen
  <2>2. QueueUnheard' = QueueUnheard \ {r} /\ r \in QueueUnheard
    BY <2>1, TaskUnheard DEF QueueUnheard
  <2>3. PICK s \in {"pending", "dead"} : Shown(row'[r].status) = s
    BY <1>1, <1>3, UnheardWrites DEF Shown, Open
  <2>4. /\ QueueState' = [QueueState EXCEPT ![r] = s]
        /\ QueueTaken' = QueueTaken
        /\ QueueState[r] = "sent"
    BY <1>1, <2>1, <2>3, QueueMove DEF Shown, Open
  <2>5. Queue!Mistake(r)
    BY <1>1, <2>1, <2>2, <2>4 DEF Queue!Mistake, OwnerSame
  <2> QED BY <2>5 DEF Queue!QueueNext
<1> QED BY <1>2, <1>3

\* So is every step that is not of a task.
LEMMA OthersRefine ==
    ASSUME QueueInv, [Next]_vars, \A w \in Workers, r \in Rows : ~Task(w, r)
    PROVE  [Queue!QueueNext]_(Queue!queueVars)
<1> TypeOK /\ \A r \in Rows : row[r] \in RowType
  BY DEF QueueInv, LockInv, TypeOK
<1>0. \A r \in Rows : Taken(r)' = Taken(r)
  BY OthersTaken DEF NoDelivery
<1>1. ASSUME NEW r \in Rows, Enqueue(r) PROVE Queue!Accept(r)
  <2>1. /\ row[r].status = "absent" /\ row'[r].status = "queued"
        /\ \A s \in Rows \ {r} : row'[s] = row[s]
        /\ job' = job /\ client' = client /\ client # "deleted"
    BY <1>1 DEF Enqueue, TypeOK
  <2>2. /\ QueueState' = [QueueState EXCEPT ![r] = "pending"]
        /\ QueueTaken' = QueueTaken
        /\ QueueState[r] = "absent"
    BY <1>0, <2>1, QueueMove DEF Shown, Open
  <2>3. QueueUnheard' = QueueUnheard /\ QueueReopened' = QueueReopened
    <3>1. \A s \in Rows : RedoneSame(s)
      BY <1>1 DEF Enqueue, TypeOK, LedgerType, RedoneSame
    <3> QED BY <2>1, <3>1 DEF QueueUnheard, QueueReopened, RedoneSame
  <2> QED BY <2>1, <2>2, <2>3 DEF Queue!Accept
<1>2. ASSUME NEW r \in Rows, PortalRetry(r) PROVE [Queue!QueueNext]_(Queue!queueVars)
  <2>1. /\ row[r].status \in {"queued", "dead"} /\ row'[r].status = "queued"
        /\ \A s \in Rows \ {r} : row'[s] = row[s]
        /\ job' = job /\ client' = client
    BY <1>2 DEF PortalRetry, Exists, TypeOK, Unlock, RowType
  <2>2. QueueUnheard' = QueueUnheard /\ OwnerSame
    BY <2>1 DEF QueueUnheard, OwnerSame
  <2>3. /\ \A s \in Rows \ {r} : RedoneSame(s)
        /\ ledger'[r].redone = IF row[r].status = "dead" THEN ledger[r].redone + 1 ELSE ledger[r].redone
    <3>1. Record(r, 0, 0)
      BY <1>2 DEF PortalRetry
    <3> QED BY <2>1, <3>1, RecordFields DEF RedoneSame
  <2>4. CASE row[r].status = "queued"
    BY <1>0, <2>1, <2>2, <2>3, <2>4, QueueStutter DEF RedoneSame
  <2>5. CASE row[r].status = "dead"
    <3>1. /\ QueueState' = [QueueState EXCEPT ![r] = "pending"]
          /\ QueueTaken' = QueueTaken
          /\ QueueState[r] = "dead"
      BY <1>0, <2>1, <2>5, QueueMove DEF Shown, Open
    <3>2. QueueReopened' = QueueReopened \cup {r}
      BY <2>3, <2>5, QueueReopen
    <3>3. Queue!Retry(r)
      BY <2>2, <3>1, <3>2 DEF Queue!Retry, OwnerSame
    <3> QED BY <3>3 DEF Queue!QueueNext
  <2> QED BY <2>1, <2>4, <2>5
<1>3. ASSUME NEW r \in Rows, BackoffElapses(r) \/ LockExpires(r)
      PROVE  UNCHANGED Queue!queueVars
  <2>1. /\ \A s \in Rows : row'[s].status = row[s].status
        /\ job' = job /\ client' = client /\ ledger' = ledger
    BY <1>3, TimeKeeps
  <2> QED BY <1>0, <2>1, QueueStutter DEF QueueUnheard, OwnerSame, RedoneSame
<1>4. ASSUME NEW w \in Workers, Claim(w) PROVE UNCHANGED Queue!queueVars
  <2>1. PICK batch \in SUBSET Rows : ClaimOf(w, batch)
    BY <1>4, ClaimTakesIdle DEF QueueInv
  <2>2. client' = client /\ ledger' = ledger /\ \A r \in Rows : job[w][r].phase = "idle"
    BY <1>4 DEF Claim, Idle, Live
  <2>3. \A r \in Rows : Shown(row'[r].status) = Shown(row[r].status)
    BY <2>1 DEF ClaimOf, Shown, Open
  <2>4. QueueUnheard' = QueueUnheard
    <3>1. \A v \in Workers, r \in Rows : job'[v][r].phase = "unheard" <=> job[v][r].phase = "unheard"
      BY <2>1, <2>2 DEF ClaimOf
    <3> QED BY <3>1 DEF QueueUnheard
  <2> QED BY <1>0, <2>2, <2>3, <2>4, QueueStutter DEF OwnerSame, RedoneSame
<1>5. ASSUME NEW w \in Workers, Crash(w) PROVE Queue!End
  <2>1. row' = row /\ client' = client
    BY <1>5 DEF Crash
  <2>2. \A r \in Rows : RedoneSame(r)
    BY <1>5 DEF Crash, TypeOK, LedgerType, RedoneSame
  <2>3. QueueUnheard' \subseteq QueueUnheard
    <3>1. \A v \in Workers, r \in Rows : job'[v][r].phase = "unheard" => job[v][r].phase = "unheard"
      BY <1>5 DEF Crash, TypeOK, NoJob
    <3> QED BY <3>1 DEF QueueUnheard
  <2>4. QueueState' = QueueState /\ QueueTaken' = QueueTaken /\ QueueReopened' = QueueReopened
    BY <1>0, <2>1, <2>2 DEF QueueState, QueueTaken, Taken, QueueReopened, RedoneSame
  <2> QED BY <2>1, <2>3, <2>4 DEF Queue!End
<1>6. CASE CleanupDelete
  <2> DEFINE old == {r \in doomed : row[r].status # "deleted"}
  <2>1. old \in SUBSET Rows /\ \A r \in old : QueueState[r] \in {"sent", "dead"} \/ r \in QueueReopened
    BY DEF TypeOK, QueueInv, DoomedInv, QueueState, QueueReopened, Open
  <2>2. QueueState' = [r \in Rows |-> IF r \in old THEN "deleted" ELSE QueueState[r]]
    <3>1. \A r \in Rows : row'[r].status = IF r \in old THEN "deleted" ELSE row[r].status
      BY <1>6 DEF CleanupDelete, RowType
    <3> QED BY <3>1 DEF QueueState, Open
  <2>3. job' = job /\ client' = client /\ ledger' = ledger
    BY <1>6 DEF CleanupDelete
  <2>4. QueueTaken' = QueueTaken /\ QueueUnheard' = QueueUnheard /\ QueueReopened' = QueueReopened
    BY <2>3 DEF QueueTaken, QueueUnheard, QueueReopened
  <2> HIDE DEF old
  <2>5. Queue!CleanUp
    BY <2>1, <2>2, <2>3, <2>4 DEF Queue!CleanUp, Queue!Settled
  <2> QED BY <2>5 DEF Queue!QueueNext
<1>7. CASE DeleteClient
  <2>1. job' = job /\ ledger' = ledger /\ client # "deleted" /\ client' = "deleted"
    BY <1>7 DEF DeleteClient
  <2>2. QueueState' = [r \in Rows |-> IF QueueState[r] = "absent" THEN "absent" ELSE "deleted"]
    <3>1. \A r \in Rows : row'[r].status = IF row[r].status = "absent" THEN "absent" ELSE "deleted"
      BY <1>7 DEF DeleteClient, RowType, Statuses, Exists
    <3> QED BY <3>1 DEF QueueState, Open
  <2>3. QueueTaken' = QueueTaken /\ QueueUnheard' = QueueUnheard /\ QueueReopened' = QueueReopened
    BY <2>1 DEF QueueTaken, QueueUnheard, QueueReopened
  <2>4. Queue!Disown
    BY <2>1, <2>2, <2>3 DEF Queue!Disown
  <2> QED BY <2>4 DEF Queue!QueueNext
<1>8. CASE CleanupSelect \/ SwitchOff \/ SwitchOn \/ UNCHANGED vars
  <2>1. /\ row' = row /\ job' = job /\ ledger' = ledger
        /\ client' = client \/ (client # "deleted" /\ client' # "deleted")
    BY <1>8 DEF CleanupSelect, SwitchOff, SwitchOn, vars
  <2> QED BY <1>0, <2>1, QueueStutter DEF QueueUnheard, OwnerSame, RedoneSame
<1> QED
  BY <1>1, <1>2, <1>3, <1>4, <1>5, <1>6, <1>7, <1>8 DEF Next, Queue!QueueNext

\* Rows chosen by the clean-up stay settled as long as nobody reopens them.
LEMMA DoomedNext ==
    ASSUME QueueInv, [Next]_vars
    PROVE  DoomedInv'
<1> TypeOK /\ LockInv /\ doomed \subseteq Rows /\ \A r \in Rows : row[r] \in RowType
  BY DEF QueueInv, LockInv, TypeOK
<1>0. \A r \in Rows : ledger[r].redone \in Nat
  BY DEF TypeOK, LedgerType
\* A step that only closes rows, or counts them as reopened, keeps it.
<1>1. ASSUME doomed' \subseteq doomed,
             NEW r \in Rows, \A s \in Rows \ {r} : row'[s].status = row[s].status /\ RedoneSame(s),
             \/ /\ RedoneSame(r)
                /\ \/ row'[r].status \in {"sent", "dead", "deleted"}
                   \/ row[r].status \notin {"sent", "dead", "deleted"}
             \/ ledger'[r].redone = ledger[r].redone + 1
      PROVE  DoomedInv'
  BY <1>0, <1>1 DEF QueueInv, DoomedInv, RedoneSame
<1>2. ASSUME NEW w \in Workers, NEW r \in Rows, Task(w, r) PROVE DoomedInv'
  <2>1. \A s \in Rows \ {r} : row'[s] = row[s]
    BY <1>2, TaskFrame
  <2>2. row[r].status = "deleted" => row' = row
    BY <1>2, TaskWrites DEF Exists
  <2> QED BY <1>1, <1>2, <2>1, <2>2, TaskRedone, TaskOwner
<1>3. ASSUME NEW r \in Rows, Enqueue(r) PROVE DoomedInv'
  <2>1. /\ \A s \in Rows \ {r} : row'[s] = row[s]
        /\ row[r].status = "absent" /\ doomed' = doomed
    BY <1>3 DEF Enqueue, TypeOK
  <2>2. \A s \in Rows : RedoneSame(s)
    BY <1>3 DEF Enqueue, TypeOK, LedgerType, RedoneSame
  <2> QED BY <1>1, <2>1, <2>2
<1>4. ASSUME NEW r \in Rows, PortalRetry(r) PROVE DoomedInv'
  <2>1. /\ \A s \in Rows \ {r} : row'[s] = row[s]
        /\ row[r].status \in {"queued", "dead"} /\ doomed' = doomed
        /\ Record(r, 0, 0)
    BY <1>4 DEF PortalRetry, TypeOK, Exists
  <2>2. /\ \A s \in Rows \ {r} : RedoneSame(s)
        /\ ledger'[r].redone = IF row[r].status \in {"sent", "dead"}
                               THEN ledger[r].redone + 1 ELSE ledger[r].redone
    BY <2>1, RecordFields DEF RedoneSame
  <2> QED BY <1>1, <2>1, <2>2 DEF RedoneSame
\* The remaining steps count nothing and reopen nothing.
<1>5. ASSUME \A r \in Rows : RedoneSame(r), doomed' \subseteq doomed,
             \A r \in Rows : \/ row'[r].status = row[r].status \/ row'[r].status = "deleted"
                             \/ row[r].status \in Open
      PROVE  DoomedInv'
  BY <1>5 DEF QueueInv, DoomedInv, RedoneSame, Open
<1>6. ASSUME NEW r \in Rows, BackoffElapses(r) \/ LockExpires(r) PROVE DoomedInv'
  BY <1>5, <1>6, TimeKeeps DEF RedoneSame
<1>7. ASSUME NEW w \in Workers, Claim(w) PROVE DoomedInv'
  <2>1. PICK batch \in SUBSET Rows : ClaimOf(w, batch)
    BY <1>7, ClaimTakesIdle
  <2>2. ledger' = ledger /\ doomed' = doomed
    BY <1>7 DEF Claim
  <2> QED BY <1>5, <2>1, <2>2 DEF ClaimOf, RedoneSame
<1>8. ASSUME NEW w \in Workers, Crash(w) PROVE DoomedInv'
  <2>1. \A r \in Rows : RedoneSame(r)
    BY <1>8 DEF Crash, TypeOK, LedgerType, RedoneSame
  <2> QED BY <1>5, <1>8, <2>1 DEF Crash
<1>9. CASE CleanupSelect
  BY <1>9 DEF CleanupSelect, DoomedInv
<1>10. CASE CleanupDelete
  BY <1>10 DEF CleanupDelete, DoomedInv
<1>11. CASE DeleteClient
  <2>1. /\ \A r \in Rows : row'[r] = row[r] \/ row'[r].status = "deleted"
        /\ ledger' = ledger /\ doomed' = doomed
    BY <1>11 DEF DeleteClient, RowType
  <2> QED BY <1>5, <2>1 DEF RedoneSame
<1>12. CASE SwitchOff \/ SwitchOn \/ UNCHANGED vars
  BY <1>12 DEF SwitchOff, SwitchOn, vars, QueueInv, DoomedInv
<1> QED
  BY <1>2, <1>3, <1>4, <1>6, <1>7, <1>8, <1>9, <1>10, <1>11, <1>12 DEF Next

\* When no delivery outlives WORKER_STALE_LOCK_SECONDS, the table, its workers,
\* the retry button, the clean-up and the deletion of clients together are a
\* DurableQueue, also when commits fail or are not answered.
THEOREM OutboxIsQueue ==
    ASSUME ~SlowDelivery PROVE Spec => ImplementsQueue
<1>1. Init => QueueInv /\ Queue!QueueInit
  <2>1. ASSUME Init
        PROVE  /\ QueueState = [r \in Rows |-> "absent"] /\ QueueTaken = [r \in Rows |-> FALSE]
               /\ QueueUnheard = {} /\ QueueReopened = {} /\ (client # "deleted") = TRUE
    <3>1. QueueState = [r \in Rows |-> "absent"]
      BY <2>1 DEF Init, QueueState, Open
    <3>2. \A r \in Rows : (ledger[r].accepted > 0 \/ ledger[r].filtered) = FALSE
      BY <2>1 DEF Init
    <3>3. QueueTaken = [r \in Rows |-> FALSE]
      BY <3>2, Zenon DEF QueueTaken
    <3>4. QueueUnheard = {} /\ QueueReopened = {} /\ (client # "deleted") = TRUE
      BY <2>1 DEF Init, QueueUnheard, QueueReopened, NoJob
    <3> QED BY <3>1, <3>3, <3>4
  <2>2. ASSUME Init PROVE DoomedInv
    BY <2>2 DEF Init, DoomedInv
  <2> QED BY <2>1, <2>2, LockInit, DeliveryInit DEF QueueInv, Queue!QueueInit
<1>2. QueueInv /\ [Next]_vars => QueueInv'
  BY LockNext, DeliveryNext, DoomedNext DEF QueueInv, LockInv
<1>3. QueueInv /\ [Next]_vars => [Queue!QueueNext]_(Queue!queueVars)
  BY TaskRefines, UnheardRefines, OthersRefine
<1> QED BY <1>1, <1>2, <1>3, PTL DEF Spec, ImplementsQueue, Queue!QueueSpec

=============================================================================
