------------------------------- MODULE Outbox -------------------------------
(***************************************************************************)
(* The event_outbox table and the worker processes that drain it           *)
(* (app/services/event_worker.py), with the three other writers of a row:  *)
(* the portal's retry button, the nightly clean-up, and the admin, who     *)
(* deletes a client with its rows.                                         *)
(*                                                                         *)
(* A worker claims a batch in one transaction, then runs one task per row  *)
(* of the batch.  A task reads its row (phase 1), closes the session,      *)
(* sends to the platforms, and writes the outcome in a second session      *)
(* that does not look at the status or the lock again.  Between the two    *)
(* sessions anything may happen: the process may be restarted, the lock    *)
(* may grow older than WORKER_STALE_LOCK_SECONDS and be taken by another   *)
(* worker.                                                                 *)
(*                                                                         *)
(* A definition introduced as "Fault:" is no part of the model: it is a    *)
(* plausible slip in the definition after it, put in its place to see that *)
(* a run would notice.                                                     *)
(***************************************************************************)
EXTENDS Integers, FiniteSets

CONSTANTS
    Rows,               \* ids of outbox rows; created_at grows with the id
    Workers,            \* event_worker processes
    NoWorker,           \* a cleared locked_by
    OutboxMaxAttempts,  \* OUTBOX_MAX_ATTEMPTS
    BatchSize,          \* WORKER_BATCH_SIZE
    Reserved,           \* rows that carry a usage reservation made at ingestion
    RedisCounters,      \* are these reservations made in Redis, not in Postgres?
    WorkerCounts,       \* USAGE_RESERVATION_MODE == "worker"
    SlowDelivery,       \* may a task outlive WORKER_STALE_LOCK_SECONDS?
    MaxCrashes,         \* bound: worker restarts, lost sessions, unanswered commits
    MaxPortalRetries,   \* bound: presses of the portal's retry button
    MaxCleanups,        \* bound: clean-up batches
    MaxDeactivations    \* bound: times the client is switched off

ASSUME OutboxAssumption ==
    /\ Rows \subseteq Nat
    /\ NoWorker \notin Workers
    /\ OutboxMaxAttempts \in Nat \ {0}
    /\ BatchSize \in Nat \ {0}
    /\ Reserved \subseteq Rows
    /\ RedisCounters \in BOOLEAN
    /\ WorkerCounts \in BOOLEAN
    /\ SlowDelivery \in BOOLEAN
    /\ MaxCrashes \in Nat
    /\ MaxPortalRetries \in Nat
    /\ MaxCleanups \in Nat
    /\ MaxDeactivations \in Nat

VARIABLES
    row,           \* the event_outbox table
    job,           \* job[w][r]: worker w's process_outbox_row task for r
    client,        \* the rows' client: active, switched off or deleted
    doomed,        \* ids the clean-up has selected and not yet deleted
    ledger,        \* what happened to each row outside the table (history)
    spent          \* how much of each bound a behaviour has used

vars == <<row, job, client, doomed, ledger, spent>>

Statuses == {"absent", "queued", "processing", "sent", "dead", "deleted"}
Exists   == {"queued", "processing", "sent", "dead"}
Open     == {"queued", "processing"}
Phases   == {"idle", "claimed", "sending", "accepted", "filtered", "failed", "unheard"}

\* In the except branch: the send or the commit failed, or the commit took
\* effect and the task has not heard of it.
Excepting == {"failed", "unheard"}

\* A row: locked is locked_by, stale that locked_at is older than the
\* stale-lock limit, due that next_attempt_at has passed.
RowType ==
    [status: Statuses, attempts: Nat, max_attempts: Nat,
     locked: Workers \cup {NoWorker}, stale: BOOLEAN, due: BOOLEAN]

\* A task holds the copies of attempts and max_attempts it read in phase 1.
JobType == [phase: Phases, attempts: Nat, max_attempts: Nat]

\* accepted: times the platform took the events; lost: times such an answer
\* was lost before its task knew it recorded; filtered: a send found no
\* platform enabled; usage: units of quota counted for the row, net of
\* rollbacks; stray: rollbacks in Redis whose transaction was not committed;
\* redone: times the row was given a status again that had its outcome.
LedgerType ==
    [accepted: Nat, lost: Nat, filtered: BOOLEAN, usage: Int, stray: Nat, redone: Nat]

TypeOK ==
    /\ row \in [Rows -> RowType]
    /\ job \in [Workers -> [Rows -> JobType]]
    /\ client \in {"active", "inactive", "deleted"}
    /\ doomed \in SUBSET Rows
    /\ ledger \in [Rows -> LedgerType]
    /\ spent \in [crashes: Nat, retries: Nat, cleanups: Nat, deactivations: Nat]

NoJob == [phase |-> "idle", attempts |-> 0, max_attempts |-> 0]

Live(w, r) == job[w][r].phase # "idle"
Idle(w)    == \A r \in Rows : ~Live(w, r)

Init ==
    /\ row = [r \in Rows |->
                [status |-> "absent", attempts |-> 0, max_attempts |-> 0,
                 locked |-> NoWorker, stale |-> FALSE, due |-> FALSE]]
    /\ job = [w \in Workers |-> [r \in Rows |-> NoJob]]
    /\ client = "active"
    /\ doomed = {}
    /\ ledger = [r \in Rows |-> [accepted |-> 0, lost |-> 0,
                                 filtered |-> FALSE, usage |-> 0,
                                 stray |-> 0, redone |-> 0]]
    /\ spent = [crashes |-> 0, retries |-> 0, cleanups |-> 0, deactivations |-> 0]

-----------------------------------------------------------------------------
(* Ingestion: enqueue_events, or the bridge, adds a row.                    *)

Enqueue(r) ==
    /\ row[r].status = "absent"
    /\ client # "deleted"
    /\ row' = [row EXCEPT ![r] =
                 [status |-> "queued", attempts |-> 0,
                  max_attempts |-> OutboxMaxAttempts,
                  locked |-> NoWorker, stale |-> FALSE, due |-> TRUE]]
    /\ ledger' = [ledger EXCEPT ![r].usage = IF r \in Reserved THEN 1 ELSE 0]
    /\ UNCHANGED <<job, client, doomed, spent>>

-----------------------------------------------------------------------------
(* A worker: claim_due_events, then process_outbox_row for every row.       *)

\* Fault: a row that is being processed is up for grabs at once.
ClaimableLocked(r) ==
    /\ row[r].status \in Open
    /\ row[r].attempts < row[r].max_attempts
    /\ row[r].due

\* Fault: stale locks are not taken over.
ClaimableFresh(r) ==
    /\ ClaimableLocked(r)
    /\ row[r].status = "queued" \/ row[r].locked = NoWorker

Claimable(r) ==
    /\ row[r].status \in Open
    /\ row[r].attempts < row[r].max_attempts
    /\ row[r].due
    /\ \/ row[r].status = "queued"
       \/ row[r].locked = NoWorker
       \/ row[r].stale

\* ORDER BY created_at LIMIT BatchSize over the claimable rows.
IsBatch(batch) ==
    LET claimable == {r \in Rows : Claimable(r)}
    IN /\ batch \subseteq claimable
       /\ \A a \in batch, b \in claimable \ batch : a < b
       /\ \/ batch = claimable /\ Cardinality(batch) <= BatchSize
          \/ Cardinality(batch) = BatchSize

Lock(entry, w) ==
    [entry EXCEPT !.status = "processing", !.locked = w, !.stale = FALSE]

Unlock(entry) == [entry EXCEPT !.locked = NoWorker, !.stale = FALSE]

\* An empty batch is the poll that finds nothing: the transaction is rolled back.
Claim(w) ==
    /\ Idle(w)
    /\ \E batch \in SUBSET Rows :
         /\ IsBatch(batch)
         /\ row' = [r \in Rows |-> IF r \in batch THEN Lock(row[r], w) ELSE row[r]]
         /\ job' = [job EXCEPT ![w] = [r \in Rows |->
                      IF r \in batch THEN [NoJob EXCEPT !.phase = "claimed"]
                                     ELSE NoJob]]
    /\ UNCHANGED <<client, doomed, ledger, spent>>

\* The task ends: gather() has its result.
EndJob(w, r) == job' = [job EXCEPT ![w][r] = NoJob]

\* Phase 1, the row is gone or no longer being processed: return.
BeginSkips(w, r) ==
    /\ job[w][r].phase = "claimed"
    /\ row[r].status # "processing"
    /\ EndJob(w, r)
    /\ UNCHANGED <<row, client, doomed, ledger, spent>>

\* Phase 1, the client is inactive: dead, without a usage rollback.
BeginInactive(w, r) ==
    /\ job[w][r].phase = "claimed"
    /\ row[r].status = "processing"
    /\ client # "active"
    /\ row' = [row EXCEPT ![r] = [Unlock(@) EXCEPT !.status = "dead"]]
    /\ EndJob(w, r)
    /\ UNCHANGED <<client, doomed, ledger, spent>>

\* Phase 1, the row is copied and the session closed.
BeginSend(w, r) ==
    /\ job[w][r].phase = "claimed"
    /\ row[r].status = "processing"
    /\ client = "active"
    /\ job' = [job EXCEPT ![w][r] =
                 [phase |-> "sending", attempts |-> row[r].attempts,
                  max_attempts |-> row[r].max_attempts]]
    /\ UNCHANGED <<row, client, doomed, ledger, spent>>

\* deliver_events_to_platforms answers, as the task sees it and as the
\* platform does: accepted; refused; accepted with the answer lost (or a
\* webhook batch of which a part was refused); nothing enabled for the events.
Answer(w, r, phase) ==
    /\ job[w][r].phase = "sending"
    /\ job' = [job EXCEPT ![w][r].phase = phase]
    /\ UNCHANGED <<row, client, doomed, spent>>

SendAccepted(w, r) ==
    /\ Answer(w, r, "accepted")
    /\ ledger' = [ledger EXCEPT ![r].accepted = @ + 1]

\* Fault: the delivery error is swallowed.
SendRefusalSwallowed(w, r) ==
    /\ Answer(w, r, "accepted")
    /\ UNCHANGED ledger

SendRefused(w, r) ==
    /\ Answer(w, r, "failed")
    /\ UNCHANGED ledger

SendUnanswered(w, r) ==
    /\ Answer(w, r, "failed")
    /\ ledger' = [ledger EXCEPT ![r].accepted = @ + 1, ![r].lost = @ + 1]

SendFiltered(w, r) ==
    /\ Answer(w, r, "filtered")
    /\ ledger' = [ledger EXCEPT ![r].filtered = TRUE]

\* The quota and the history of a row whose new status is committed.
Record(r, units, lost) ==
    ledger' = [ledger EXCEPT
                 ![r].usage = @ + units,
                 ![r].lost = @ + lost,
                 ![r].redone = IF row[r].status \in {"sent", "dead"} THEN @ + 1 ELSE @]

\* rollback_usage_reservation inside a savepoint: it may fail, and is logged.
RollbackUsage(r) == Record(r, 0, 0) \/ (r \in Reserved /\ Record(r, -1, 0))

\* What is left of it when the transaction around it does not commit: Redis
\* keeps its DECRBY.
RollbackAborted(r) ==
    \/ UNCHANGED ledger
    \/ /\ RedisCounters /\ r \in Reserved
       /\ ledger' = [ledger EXCEPT ![r].usage = @ - 1, ![r].stray = @ + 1]

\* An event delivered in worker mode is counted now, unless it was reserved.
SentUnits(r) == IF WorkerCounts /\ r \notin Reserved THEN 1 ELSE 0

\* Phase 3 finds no row: return.
FinishGone(w, r) ==
    /\ job[w][r].phase \in {"accepted", "filtered"} \cup Excepting
    /\ row[r].status \notin Exists
    /\ EndJob(w, r)
    /\ UNCHANGED <<row, client, doomed, ledger, spent>>

\* Fault: the event log's word for it is written to the row.
SuccessRow(entry) == [Unlock(entry) EXCEPT !.status = "success"]

SentRow(entry) == [Unlock(entry) EXCEPT !.status = "sent"]

FinishSent(w, r) ==
    /\ job[w][r].phase = "accepted"
    /\ row[r].status \in Exists
    /\ row' = [row EXCEPT ![r] = SentRow(@)]
    /\ Record(r, SentUnits(r), 0)
    /\ EndJob(w, r)
    /\ UNCHANGED <<client, doomed, spent>>

FinishFiltered(w, r) ==
    /\ job[w][r].phase = "filtered"
    /\ row[r].status \in Exists
    /\ row' = [row EXCEPT ![r] = SentRow(@)]
    /\ RollbackUsage(r)
    /\ EndJob(w, r)
    /\ UNCHANGED <<client, doomed, spent>>

\* The commit of phase 3 fails: the except branch treats it as a failed send.
CommitFails(w, r) ==
    /\ job[w][r].phase \in {"accepted", "filtered"}
    /\ row[r].status \in Exists
    /\ job' = [job EXCEPT ![w][r].phase = "failed"]
    /\ \/ job[w][r].phase = "accepted" /\ ledger' = [ledger EXCEPT ![r].lost = @ + 1]
       \/ job[w][r].phase = "filtered" /\ RollbackAborted(r)
    /\ UNCHANGED <<row, client, doomed, spent>>

\* The commit of phase 3 takes effect and its answer does not arrive: the row
\* is sent, and the task goes to the except branch as if it were not.  Bounded
\* as a crash is.
CommitUnanswered(w, r) ==
    /\ job[w][r].phase \in {"accepted", "filtered"}
    /\ row[r].status \in Exists
    /\ spent.crashes < MaxCrashes
    /\ job' = [job EXCEPT ![w][r].phase = "unheard"]
    /\ row' = [row EXCEPT ![r] = SentRow(@)]
    /\ \/ job[w][r].phase = "accepted" /\ Record(r, SentUnits(r), 1)
       \/ job[w][r].phase = "filtered" /\ RollbackUsage(r)
    /\ spent' = [spent EXCEPT !.crashes = @ + 1]
    /\ UNCHANGED <<client, doomed>>

FailedRow(entry, attempts) == [Unlock(entry) EXCEPT !.attempts = attempts]

\* Fault: one attempt too many.
FinishRetryOnceMore(w, r) ==
    LET attempts == job[w][r].attempts + 1
    IN /\ job[w][r].phase \in Excepting
       /\ row[r].status \in Exists
       /\ attempts <= job[w][r].max_attempts
       /\ row' = [row EXCEPT ![r] =
                    [FailedRow(@, attempts) EXCEPT !.status = "queued", !.due = FALSE]]
       /\ Record(r, 0, 0)
       /\ EndJob(w, r)
       /\ UNCHANGED <<client, doomed, spent>>

\* Fault: every failure gives the quota back, not the last one only.
FinishRetryUncounted(w, r) ==
    LET attempts == job[w][r].attempts + 1
    IN /\ job[w][r].phase \in Excepting
       /\ row[r].status \in Exists
       /\ attempts < job[w][r].max_attempts
       /\ row' = [row EXCEPT ![r] =
                    [FailedRow(@, attempts) EXCEPT !.status = "queued", !.due = FALSE]]
       /\ RollbackUsage(r)
       /\ EndJob(w, r)
       /\ UNCHANGED <<client, doomed, spent>>

\* A failed send, or what the task takes for one: attempts is overwritten with
\* the copy of phase 1 plus one, and the status without a look at it.
FinishRetry(w, r) ==
    LET attempts == job[w][r].attempts + 1
    IN /\ job[w][r].phase \in Excepting
       /\ row[r].status \in Exists
       /\ attempts < job[w][r].max_attempts
       /\ row' = [row EXCEPT ![r] =
                    [FailedRow(@, attempts) EXCEPT !.status = "queued", !.due = FALSE]]
       /\ Record(r, 0, 0)
       /\ EndJob(w, r)
       /\ UNCHANGED <<client, doomed, spent>>

\* The last attempt failed: _mark_dead.
FinishDead(w, r) ==
    LET attempts == job[w][r].attempts + 1
    IN /\ job[w][r].phase \in Excepting
       /\ row[r].status \in Exists
       /\ attempts >= job[w][r].max_attempts
       /\ row' = [row EXCEPT ![r] = [FailedRow(@, attempts) EXCEPT !.status = "dead"]]
       /\ RollbackUsage(r)
       /\ EndJob(w, r)
       /\ UNCHANGED <<client, doomed, spent>>

\* A session cannot be opened or committed (no database) in phase 1 or in the
\* except branch: gather() logs the exception and the row is left as it is,
\* locked until the lock is stale.  Bounded as a crash is.
FailureLost(w, r) ==
    /\ \/ job[w][r].phase \in {"claimed"} \cup Excepting /\ UNCHANGED ledger
       \/ /\ job[w][r].phase \in Excepting
          /\ job[w][r].attempts + 1 >= job[w][r].max_attempts
          /\ RollbackAborted(r)
    /\ spent.crashes < MaxCrashes
    /\ EndJob(w, r)
    /\ spent' = [spent EXCEPT !.crashes = @ + 1]
    /\ UNCHANGED <<row, client, doomed>>

\* The process is killed and restarted (deploy.sh, supervisor autorestart):
\* its tasks are gone, its rows stay locked.
Crash(w) ==
    /\ ~Idle(w)
    /\ spent.crashes < MaxCrashes
    /\ job' = [job EXCEPT ![w] = [r \in Rows |-> NoJob]]
    /\ ledger' = [r \in Rows |->
                    IF job[w][r].phase = "accepted"
                    THEN [ledger[r] EXCEPT !.lost = @ + 1] ELSE ledger[r]]
    /\ spent' = [spent EXCEPT !.crashes = @ + 1]
    /\ UNCHANGED <<row, client, doomed>>

-----------------------------------------------------------------------------
(* The other writers, and time.                                             *)

\* Fault: max_attempts is not raised.
PortalRetryExhausted(r) ==
    /\ row[r].status \in Exists \ {"processing", "sent"}
    /\ spent.retries < MaxPortalRetries
    /\ row' = [row EXCEPT ![r] = [Unlock(row[r]) EXCEPT !.status = "queued", !.due = TRUE]]
    /\ spent' = [spent EXCEPT !.retries = @ + 1]
    /\ Record(r, 0, 0)
    /\ UNCHANGED <<job, client, doomed>>

\* Fault: a row recorded as sent may be retried.
PortalRetrySent(r) ==
    /\ row[r].status \in Exists \ {"processing"}
    /\ spent.retries < MaxPortalRetries
    /\ row' = [row EXCEPT ![r] = [Unlock(row[r]) EXCEPT !.status = "queued", !.due = TRUE,
                    !.max_attempts = row[r].attempts + 1]]
    /\ spent' = [spent EXCEPT !.retries = @ + 1]
    /\ Record(r, 0, 0)
    /\ UNCHANGED <<job, client, doomed>>

\* Fault: a row being processed may be retried.
PortalRetryProcessing(r) ==
    /\ row[r].status \in Exists \ {"sent"}
    /\ spent.retries < MaxPortalRetries
    /\ row' = [row EXCEPT ![r] = [Unlock(row[r]) EXCEPT !.status = "queued", !.due = TRUE,
                    !.max_attempts = row[r].attempts + 1]]
    /\ spent' = [spent EXCEPT !.retries = @ + 1]
    /\ Record(r, 0, 0)
    /\ UNCHANGED <<job, client, doomed>>

\* Fault: attempts is reset rather than max_attempts raised.
PortalRetryAfresh(r) ==
    /\ row[r].status \in Exists \ {"processing", "sent"}
    /\ spent.retries < MaxPortalRetries
    /\ row' = [row EXCEPT ![r] = [Unlock(row[r]) EXCEPT !.status = "queued", !.due = TRUE, !.attempts = 0]]
    /\ spent' = [spent EXCEPT !.retries = @ + 1]
    /\ Record(r, 0, 0)
    /\ UNCHANGED <<job, client, doomed>>

\* POST /outbox/{id}/retry in the client portal.
PortalRetry(r) ==
    /\ row[r].status \in Exists \ {"processing", "sent"}
    /\ spent.retries < MaxPortalRetries
    /\ row' = [row EXCEPT ![r] =
                 [Unlock(row[r]) EXCEPT !.status = "queued", !.due = TRUE,
                    !.max_attempts = IF row[r].attempts < row[r].max_attempts
                                     THEN row[r].max_attempts
                                     ELSE row[r].attempts + 1]]
    /\ spent' = [spent EXCEPT !.retries = @ + 1]
    /\ Record(r, 0, 0)
    /\ UNCHANGED <<job, client, doomed>>

\* Fault: old rows are selected whatever their status.
CleanupSelectAny ==
    /\ doomed = {}
    /\ spent.cleanups < MaxCleanups
    /\ doomed' = {r \in Rows : row[r].status \in Exists}
    /\ doomed' # {}
    /\ spent' = [spent EXCEPT !.cleanups = @ + 1]
    /\ UNCHANGED <<row, job, client, ledger>>

\* _batched_delete selects the ids of finished rows (they are old by then) ...
CleanupSelect ==
    /\ doomed = {}
    /\ spent.cleanups < MaxCleanups
    /\ doomed' = {r \in Rows : row[r].status \in {"sent", "dead"}}
    /\ doomed' # {}
    /\ spent' = [spent EXCEPT !.cleanups = @ + 1]
    /\ UNCHANGED <<row, job, client, ledger>>

\* ... and deletes by id alone in the next statement.
CleanupDelete ==
    /\ doomed # {}
    /\ row' = [r \in Rows |->
                 IF r \in doomed
                 THEN [row[r] EXCEPT !.status = "deleted"]
                 ELSE row[r]]
    /\ doomed' = {}
    /\ UNCHANGED <<job, client, ledger, spent>>

SwitchOff ==
    /\ client = "active"
    /\ spent.deactivations < MaxDeactivations
    /\ client' = "inactive"
    /\ spent' = [spent EXCEPT !.deactivations = @ + 1]
    /\ UNCHANGED <<row, job, doomed, ledger>>

SwitchOn ==
    /\ client = "inactive"
    /\ client' = "active"
    /\ UNCHANGED <<row, job, doomed, ledger, spent>>

\* The admin deletes the client and, in the same transaction, all its rows.
DeleteClient ==
    /\ client # "deleted"
    /\ client' = "deleted"
    /\ row' = [r \in Rows |->
                 IF row[r].status \in Exists
                 THEN [row[r] EXCEPT !.status = "deleted"]
                 ELSE row[r]]
    /\ UNCHANGED <<job, doomed, ledger, spent>>

BackoffElapses(r) ==
    /\ row[r].status \in Open
    /\ ~row[r].due
    /\ row' = [row EXCEPT ![r].due = TRUE]
    /\ UNCHANGED <<job, client, doomed, ledger, spent>>

\* Unless deliveries are slow, a lock grows stale only after its task is gone.
LockExpires(r) ==
    /\ row[r].status = "processing"
    /\ row[r].locked # NoWorker
    /\ ~row[r].stale
    /\ SlowDelivery \/ \A w \in Workers : ~Live(w, r)
    /\ row' = [row EXCEPT ![r].stale = TRUE]
    /\ UNCHANGED <<job, client, doomed, ledger, spent>>

-----------------------------------------------------------------------------

Send(w, r) ==
    \/ SendAccepted(w, r) \/ SendRefused(w, r)
    \/ SendUnanswered(w, r) \/ SendFiltered(w, r)

Finish(w, r) ==
    \/ FinishGone(w, r) \/ FinishSent(w, r) \/ FinishFiltered(w, r)
    \/ FinishRetry(w, r) \/ FinishDead(w, r)

\* One step of the task: what the event loop runs next for it.
Task(w, r) ==
    \/ BeginSkips(w, r) \/ BeginInactive(w, r) \/ BeginSend(w, r)
    \/ Send(w, r) \/ Finish(w, r)
    \/ CommitFails(w, r) \/ CommitUnanswered(w, r) \/ FailureLost(w, r)

Next ==
    \/ \E r \in Rows : Enqueue(r) \/ PortalRetry(r) \/ BackoffElapses(r) \/ LockExpires(r)
    \/ \E w \in Workers : Claim(w) \/ Crash(w) \/ \E r \in Rows : Task(w, r)
    \/ CleanupSelect \/ CleanupDelete \/ SwitchOff \/ SwitchOn \/ DeleteClient

Spec == Init /\ [][Next]_vars

\* Workers poll for ever, every HTTP call has a timeout, and clocks advance.
Fairness ==
    /\ \A w \in Workers : WF_vars(Claim(w))
    /\ \A w \in Workers, r \in Rows : WF_vars(Task(w, r))
    /\ \A r \in Rows : WF_vars(BackoffElapses(r)) /\ WF_vars(LockExpires(r))

FairSpec == Spec /\ Fairness

-----------------------------------------------------------------------------
(* What must hold.                                                          *)

\* No row is stranded: a row waiting to be sent, or locked by a worker that
\* may have died, always passes claim_due_events' test attempts < max_attempts,
\* although a late task overwrites attempts with its own old copy plus one.
NeverStranded ==
    \A r \in Rows : row[r].status \in Open => row[r].attempts < row[r].max_attempts

\* A row is recorded as sent only when some send of it was accepted by the
\* primary platform or found nothing to send (process_outbox_row).
SentWasDelivered ==
    \A r \in Rows : row[r].status = "sent" => ledger[r].accepted > 0 \/ ledger[r].filtered

\* At most one task is at work on a row, and the row carries its lock, or is
\* recorded as sent and the task does not know it yet (FOR UPDATE SKIP LOCKED
\* and the stale-lock test of claim_due_events).  It needs deliveries that end
\* before the lock is stale.
OneTaskPerRow ==
    \A r \in Rows, w \in Workers :
        Live(w, r) /\ row[r].status # "deleted" =>
            /\ IF job[w][r].phase = "unheard"
               THEN row[r].status = "sent"
               ELSE row[r].status = "processing" /\ row[r].locked = w
            /\ \A v \in Workers \ {w} : ~Live(v, r)

\* The platform is sent a row twice only if an earlier answer was lost: by a
\* restart, a failed or unanswered commit, or a time-out after the platform
\* had accepted.
DuplicatesNeedLoss ==
    \A r \in Rows : ledger[r].accepted <= 1 + ledger[r].lost

\* A row that was recorded as sent is never put back to work, but by the one
\* task whose commit of it was not answered.
SentIsFinal ==
    [][\A r \in Rows : row[r].status = "sent" =>
          \/ row'[r].status \in {"sent", "deleted"}
          \/ \E w \in Workers : job[w][r].phase = "unheard" /\ ~Live(w, r)']_vars

\* The count of failed attempts of a row only grows, so the schedule of
\* RETRY_DELAYS only lengthens and the row's attempts run out.
AttemptsOnlyGrow ==
    [][\A r \in Rows : row[r].status # "absent" => row'[r].attempts >= row[r].attempts]_vars

\* The quota of a row is not under-counted: never less than nothing, and an
\* event the platform has, in a row at rest as sent, is counted.
NotUndercounted ==
    \A r \in Rows :
        /\ ledger[r].usage >= 0
        /\ row[r].status = "sent" /\ (WorkerCounts \/ r \in Reserved) =>
              ledger[r].usage >= 1 \/ ledger[r].filtered

\* What is counted for a row, or known not to be: a unit for each time it was
\* given a status after it had its outcome (by the portal's retry, a task that
\* did not hear of its commit or one that was overtaken) and for each rollback
\* in Redis whose transaction failed.
Accounted(r) == ledger[r].usage + ledger[r].redone + ledger[r].stray

\* The quota of a row never falls short by more than that: with it there is
\* never less than nothing, and a unit for an event in a row recorded as sent.
ShortfallExplained ==
    \A r \in Rows :
        /\ Accounted(r) >= 0
        /\ row[r].status = "sent" /\ (WorkerCounts \/ r \in Reserved) =>
              Accounted(r) >= 1 \/ ledger[r].filtered

\* The table with its workers does what DurableQueue promises: a queued or
\* processing row is pending, and no step but those of the queue shows.  It
\* needs deliveries that end before the lock is stale.
QueueState == [r \in Rows |-> IF row[r].status \in Open THEN "pending" ELSE row[r].status]
QueueTaken == [r \in Rows |-> ledger[r].accepted > 0 \/ ledger[r].filtered]
QueueUnheard == {r \in Rows : \E w \in Workers : job[w][r].phase = "unheard"}
QueueReopened == {r \in Rows : ledger[r].redone > 0}
Queue == INSTANCE DurableQueue
             WITH state <- QueueState, taken <- QueueTaken, unheard <- QueueUnheard,
                  reopened <- QueueReopened, owned <- client # "deleted"
ImplementsQueue == Queue!QueueSpec

\* Every accepted row is settled in the end: sent, dead or cleaned up.
EventuallySettled ==
    \A r \in Rows : row[r].status = "queued" ~> row[r].status \in {"sent", "dead", "deleted"}

=============================================================================
