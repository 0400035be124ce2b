----------------------------- MODULE IngestProofs -----------------------------
(***************************************************************************)
(* Theorems about EventIngest, for every number of requests in flight,     *)
(* events and workers, every limit and every bound on what fails: the      *)
(* quota holds and is exact, an event is queued once for each failure and  *)
(* once more, its key stands for it, and what was answered "queued" is     *)
(* kept.                                                                   *)
(***************************************************************************)
EXTENDS EventIngest, StreamProofs

-----------------------------------------------------------------------------
(* What a step does to its request, and to the history.                     *)

Taken(s) == ~At(s, "free")
ReqTyped == req \in [Slots -> Requests \cup {Free}]
Others(s) == \A t \in Slots \ {s} : req'[t] = req[t]

\* The request of s goes on, or is over.
Becomes(s, step, tx) ==
    /\ Taken(s) /\ Taken(s)'
    /\ req'[s].at = step /\ req'[s].tx = tx
    /\ req'[s].id = req[s].id /\ req'[s].route = req[s].route
    /\ Others(s) /\ ReqTyped'

Leaves(s) == ~Taken(s)' /\ Others(s) /\ ReqTyped'

LEMMA RequestFields ==
    ASSUME ReqTyped, NEW s \in Slots, Taken(s)
    PROVE  /\ req[s] \in Requests /\ req[s].at \in Steps /\ req[s].id \in Ids
           /\ req[s].route \in Routes /\ req[s].fast \in BOOLEAN
           /\ req[s].tx \in SUBSET {"key", "count", "row"}
<1>1. req[s] # Free
  BY DEF Taken, At, Free
<1> QED BY <1>1 DEF ReqTyped, Requests

\* A new record for s
LEMMA TakesRecord ==
    ASSUME ReqTyped, NEW s \in Slots, NEW r \in Requests, req' = [req EXCEPT ![s] = r]
    PROVE  /\ Taken(s)' /\ Others(s) /\ ReqTyped' /\ req'[s] = r
<1>1. r.at # "free"
  BY DEF Requests, Steps
<1>2. req'[s] = r /\ ReqTyped' /\ Others(s)
  BY DEF ReqTyped, Others
<1> QED BY <1>1, <1>2 DEF Taken, At

LEMMA Proceeds ==
    ASSUME ReqTyped, NEW s \in Slots, Taken(s), NEW step \in Steps,
           NEW tx \in SUBSET {"key", "count", "row"},
           \/ req' = [req EXCEPT ![s].tx = tx, ![s].at = step]
           \/ GoesTo(s, step) /\ tx = req[s].tx
    PROVE  Becomes(s, step, tx)
<1> DEFINE r == [req[s] EXCEPT !.tx = tx, !.at = step]
<1>0. req[s] \in Requests
  BY RequestFields
<1>1. r \in Requests /\ r.at = step /\ r.tx = tx /\ r.id = req[s].id /\ r.route = req[s].route
  BY <1>0 DEF Requests
<1>2. req' = [req EXCEPT ![s] = r]
  <2>1. CASE req' = [req EXCEPT ![s].tx = tx, ![s].at = step]
    BY <2>1 DEF ReqTyped
  <2>2. CASE GoesTo(s, step) /\ tx = req[s].tx
    <3>1. [req[s] EXCEPT !.at = step] = r
      BY <1>0, <2>2 DEF Requests
    <3> QED BY <2>2, <3>1 DEF GoesTo, ReqTyped
  <2> QED BY <2>1, <2>2
<1> HIDE DEF r
<1>3. Taken(s)' /\ Others(s) /\ ReqTyped' /\ req'[s] = r
  BY <1>1, <1>2, TakesRecord
<1> QED BY <1>1, <1>3 DEF Becomes

LEMMA Slows ==
    ASSUME ReqTyped, NEW s \in Slots, Taken(s), req' = [req EXCEPT ![s].fast = FALSE]
    PROVE  Becomes(s, req[s].at, req[s].tx)
<1> DEFINE r == [req[s] EXCEPT !.fast = FALSE]
<1>0. req[s] \in Requests
  BY RequestFields
<1>1. /\ r \in Requests /\ r.at = req[s].at /\ r.tx = req[s].tx
      /\ r.id = req[s].id /\ r.route = req[s].route
  BY <1>0 DEF Requests
<1>2. req' = [req EXCEPT ![s] = r]
  BY DEF ReqTyped
<1> HIDE DEF r
<1>3. Taken(s)' /\ Others(s) /\ ReqTyped' /\ req'[s] = r
  BY <1>1, <1>2, TakesRecord
<1> QED BY <1>1, <1>3 DEF Becomes

LEMMA Gone == ASSUME ReqTyped, NEW s \in Slots, Ends(s) PROVE Leaves(s)
BY DEF ReqTyped, Ends, Leaves, Taken, At, Free, Others

LEMMA Comes ==
    ASSUME ReqTyped, NEW s \in Slots, NEW e \in Ids, NEW route \in Routes,
           req' = [req EXCEPT ![s] = [at |-> IF redis THEN "reserve" ELSE "reserveDB", id |-> e,
                                      route |-> route, fast |-> redis /\ route = "collect",
                                      tx |-> {}]]
    PROVE  /\ Taken(s)' /\ Others(s) /\ ReqTyped'
           /\ req'[s].at = (IF redis THEN "reserve" ELSE "reserveDB")
           /\ req'[s].tx = {} /\ req'[s].id = e
<1> DEFINE r == [at |-> IF redis THEN "reserve" ELSE "reserveDB", id |-> e, route |-> route,
                 fast |-> redis /\ route = "collect", tx |-> {}]
<1>1. r \in Requests
  BY DEF Requests, Steps
<1>2. r.at = (IF redis THEN "reserve" ELSE "reserveDB") /\ r.tx = {} /\ r.id = e
  OBVIOUS
<1>3. req' = [req EXCEPT ![s] = r]
  OBVIOUS
<1> HIDE DEF r
<1> QED BY <1>1, <1>2, <1>3, TakesRecord

\* In the history: the event queued q times more, f failures more.
Counts(s, q, f) ==
    /\ past'.total = past.total + q
    /\ Mishaps' = Mishaps + f
    /\ \A e \in Ids :
          /\ past'.queued[e] = past.queued[e] + (IF e = req[s].id THEN q ELSE 0)
          /\ past'.failures[e] = past.failures[e] + (IF e = req[s].id THEN f ELSE 0)

HistoryTyped ==
    /\ past \in [queued: [Ids -> Nat], total: Nat, told: SUBSET Ids, refused: SUBSET Ids,
                 failures: [Ids -> Nat]]
    /\ spent \in [requests: 0 .. MaxRequests, failures: 0 .. MaxCallFailures,
                  crashes: 0 .. MaxWebCrashes]

LEMMA SpentFields ==
    ASSUME HistoryTyped
    PROVE  /\ spent.requests \in Nat /\ spent.failures \in Nat /\ spent.crashes \in Nat
           /\ Mishaps \in Nat /\ past.total \in Nat
           /\ \A e \in Ids : past.queued[e] \in Nat /\ past.failures[e] \in Nat
BY IngestAssumption DEF HistoryTyped, Mishaps

LEMMA NoneMore ==
    ASSUME HistoryTyped, NEW s, past'.total = past.total, past'.queued = past.queued,
           past'.failures = past.failures, Mishaps' = Mishaps
    PROVE  Counts(s, 0, 0)
<1>1. /\ past.total = past.total + 0 /\ Mishaps = Mishaps + 0
      /\ \A e \in Ids : past.queued[e] = past.queued[e] + 0 /\ past.failures[e] = past.failures[e] + 0
  BY SpentFields
<1> QED BY <1>1 DEF Counts

LEMMA NothingNew ==
    ASSUME HistoryTyped, NEW s, past' = past,
           \/ spent' = spent
           \/ spent.requests < MaxRequests /\ spent' = [spent EXCEPT !.requests = @ + 1]
    PROVE  HistoryTyped' /\ Counts(s, 0, 0) /\ past'.told = past.told /\ past'.refused = past.refused
<1>1. spent'.failures = spent.failures /\ spent'.crashes = spent.crashes
  BY DEF HistoryTyped
<1>2. Counts(s, 0, 0)
  BY <1>1, NoneMore DEF Mishaps
<1>3. spent' \in [requests: 0 .. MaxRequests, failures: 0 .. MaxCallFailures,
                    crashes: 0 .. MaxWebCrashes]
  <2>1. spent.requests < MaxRequests => spent.requests + 1 \in 0 .. MaxRequests
    BY SpentFields, IngestAssumption
  <2> QED BY <2>1 DEF HistoryTyped
<1> QED BY <1>2, <1>3 DEF HistoryTyped

LEMMA QueuedHistory ==
    ASSUME HistoryTyped, ReqTyped, NEW s \in Slots, Taken(s), NEW n \in {0, 1}
    PROVE  /\ Queued(s, n) \in [queued: [Ids -> Nat], total: Nat, told: SUBSET Ids,
                                refused: SUBSET Ids, failures: [Ids -> Nat]]
           /\ Queued(s, n).total = past.total + n
           /\ \A e \in Ids : Queued(s, n).queued[e]
                                = past.queued[e] + (IF e = req[s].id THEN n ELSE 0)
           /\ Queued(s, n).failures = past.failures
           /\ Queued(s, n).told = past.told /\ Queued(s, n).refused = past.refused
<1>0. req[s].id \in Ids
  BY RequestFields
<1>1. DOMAIN past = {"queued", "total", "told", "refused", "failures"}
  BY DEF HistoryTyped
<1>2. /\ past.queued \in [Ids -> Nat] /\ past.total \in Nat /\ past.told \in SUBSET Ids
      /\ past.refused \in SUBSET Ids /\ past.failures \in [Ids -> Nat]
  BY DEF HistoryTyped
<1>3. /\ Queued(s, n).queued = [past.queued EXCEPT ![req[s].id] = @ + n]
      /\ Queued(s, n).total = past.total + n
      /\ Queued(s, n).failures = past.failures
      /\ Queued(s, n).told = past.told /\ Queued(s, n).refused = past.refused
  BY <1>1 DEF Queued
<1>4. [past.queued EXCEPT ![req[s].id] = @ + n] \in [Ids -> Nat] /\ past.total + n \in Nat
  BY <1>0, <1>2
<1>5. Queued(s, n) \in [queued: [Ids -> Nat], total: Nat, told: SUBSET Ids,
                        refused: SUBSET Ids, failures: [Ids -> Nat]]
  <2>1. Queued(s, n) = [past EXCEPT !.queued = [past.queued EXCEPT ![req[s].id] = @ + n],
                                    !.total = past.total + n]
    BY <1>1 DEF Queued
  <2>2. ASSUME NEW f \in [Ids -> Nat], NEW m \in Nat
        PROVE  [past EXCEPT !.queued = f, !.total = m]
                  \in [queued: [Ids -> Nat], total: Nat, told: SUBSET Ids,
                       refused: SUBSET Ids, failures: [Ids -> Nat]]
    BY DEF HistoryTyped
  <2> QED BY <1>4, <2>1, <2>2
<1>6. \A e \in Ids : [past.queued EXCEPT ![req[s].id] = @ + n][e]
                        = past.queued[e] + (IF e = req[s].id THEN n ELSE 0)
  BY <1>0, <1>2
<1> QED BY <1>2, <1>3, <1>5, <1>6

LEMMA FailsCounts ==
    ASSUME HistoryTyped, ReqTyped, NEW s \in Slots, Taken(s), NEW n \in {0, 1}, Fails(s, n)
    PROVE  HistoryTyped' /\ Counts(s, n, 1) /\ past'.told = past.told /\ past'.refused = past.refused
<1> DEFINE q == Queued(s, n)
<1>0. req[s].id \in Ids
  BY RequestFields
<1>1. /\ q \in [queued: [Ids -> Nat], total: Nat, told: SUBSET Ids,
                refused: SUBSET Ids, failures: [Ids -> Nat]]
      /\ q.total = past.total + n
      /\ \A e \in Ids : q.queued[e] = past.queued[e] + (IF e = req[s].id THEN n ELSE 0)
      /\ q.failures = past.failures /\ q.told = past.told /\ q.refused = past.refused
  BY QueuedHistory
<1>2. past' = [q EXCEPT !.failures[req[s].id] = @ + 1]
  BY DEF Fails
<1>3. spent' = [spent EXCEPT !.failures = @ + 1] /\ spent.failures < MaxCallFailures
  BY DEF Fails
<1> HIDE DEF q
<1>4. past' = [queued |-> q.queued, total |-> q.total, told |-> q.told, refused |-> q.refused,
               failures |-> [q.failures EXCEPT ![req[s].id] = @ + 1]]
  BY <1>1, <1>2
<1>5. /\ q.failures \in [Ids -> Nat]
      /\ [q.failures EXCEPT ![req[s].id] = @ + 1] \in [Ids -> Nat]
      /\ \A e \in Ids : [q.failures EXCEPT ![req[s].id] = @ + 1][e]
                           = past.failures[e] + (IF e = req[s].id THEN 1 ELSE 0)
  BY <1>0, <1>1
<1>6. Mishaps' = Mishaps + 1
  BY <1>3, SpentFields DEF Mishaps, HistoryTyped
<1>7. HistoryTyped'
  BY <1>1, <1>3, <1>4, <1>5, IngestAssumption DEF HistoryTyped
<1> QED BY <1>1, <1>4, <1>5, <1>6, <1>7 DEF Counts

LEMMA QueueCounts ==
    ASSUME HistoryTyped, ReqTyped, NEW s \in Slots, Taken(s), NEW n \in {0, 1}, spent' = spent,
           \/ past' = Queued(s, n)
           \/ past' = [Queued(s, n) EXCEPT !.told = @ \cup {req[s].id}]
    PROVE  /\ HistoryTyped' /\ Counts(s, n, 0) /\ past'.refused = past.refused
           /\ past'.told \subseteq past.told \cup {req[s].id}
           /\ past' = Queued(s, n) => past'.told = past.told
<1> DEFINE q == Queued(s, n)
<1>0. req[s].id \in Ids
  BY RequestFields
<1>1. /\ q \in [queued: [Ids -> Nat], total: Nat, told: SUBSET Ids,
                refused: SUBSET Ids, failures: [Ids -> Nat]]
      /\ q.total = past.total + n
      /\ \A e \in Ids : q.queued[e] = past.queued[e] + (IF e = req[s].id THEN n ELSE 0)
      /\ q.failures = past.failures /\ q.told = past.told /\ q.refused = past.refused
  BY QueuedHistory
<1>2. past' = q \/ past' = [q EXCEPT !.told = @ \cup {req[s].id}]
  OBVIOUS
<1> HIDE DEF q
<1>3. /\ past'.queued = q.queued /\ past'.total = q.total /\ past'.failures = q.failures
      /\ past'.refused = q.refused /\ past'.told \in {q.told, q.told \cup {req[s].id}}
      /\ past' \in [queued: [Ids -> Nat], total: Nat, told: SUBSET Ids,
                    refused: SUBSET Ids, failures: [Ids -> Nat]]
  BY <1>0, <1>1, <1>2
<1>4. Mishaps' = Mishaps + 0 /\ \A e \in Ids : past.failures[e] = past.failures[e] + 0
  BY SpentFields DEF Mishaps
<1>5. HistoryTyped'
  BY <1>3 DEF HistoryTyped
<1>6. past' = Queued(s, n) => past'.told = past.told
  BY <1>1 DEF q
<1>7. Counts(s, n, 0)
  BY <1>1, <1>3, <1>4 DEF Counts
<1> QED BY <1>1, <1>3, <1>5, <1>6, <1>7

LEMMA RefuseCounts ==
    ASSUME HistoryTyped, ReqTyped, NEW s \in Slots, Refuse(s)
    PROVE  /\ HistoryTyped' /\ Counts(s, 0, 0) /\ past'.told = past.told
           /\ past'.refused = past.refused \cup (dedup.redis \cap {req[s].id})
<1>0. Taken(s) /\ req[s].id \in Ids
  <2>1. Taken(s)
    BY DEF Refuse, At, Taken
  <2> QED BY <2>1, RequestFields
<1>1. /\ past' = [past EXCEPT !.refused = @ \cup (dedup.redis \cap {req[s].id})] /\ spent' = spent
  BY DEF Refuse
<1>2. /\ past'.queued = past.queued /\ past'.total = past.total /\ past'.told = past.told
      /\ past'.failures = past.failures
      /\ past'.refused = past.refused \cup (dedup.redis \cap {req[s].id})
      /\ past' \in [queued: [Ids -> Nat], total: Nat, told: SUBSET Ids,
                    refused: SUBSET Ids, failures: [Ids -> Nat]]
  BY <1>0, <1>1 DEF HistoryTyped
<1>3. Counts(s, 0, 0)
  BY <1>1, <1>2, SpentFields, NoneMore DEF Mishaps
<1> QED BY <1>1, <1>2, <1>3 DEF HistoryTyped

LEMMA CrashCounts ==
    ASSUME HistoryTyped, ReqTyped, NEW s \in Slots, WebCrash(s)
    PROVE  /\ HistoryTyped' /\ Counts(s, 0, 1) /\ past'.told = past.told
           /\ past'.refused = past.refused
<1>0. req[s].id \in Ids
  BY RequestFields DEF WebCrash, Taken
<1>1. /\ past' = [past EXCEPT !.failures[req[s].id] = @ + 1]
      /\ spent' = [spent EXCEPT !.crashes = @ + 1] /\ spent.crashes < MaxWebCrashes
  BY DEF WebCrash
<1>2. /\ past'.queued = past.queued /\ past'.total = past.total /\ past'.told = past.told
      /\ past'.failures = [past.failures EXCEPT ![req[s].id] = @ + 1]
      /\ past'.refused = past.refused
      /\ past' \in [queued: [Ids -> Nat], total: Nat, told: SUBSET Ids,
                    refused: SUBSET Ids, failures: [Ids -> Nat]]
  BY <1>0, <1>1 DEF HistoryTyped
<1>3. /\ past.failures \in [Ids -> Nat] /\ past.queued \in [Ids -> Nat] /\ past.total \in Nat
  BY DEF HistoryTyped
<1>4. Mishaps' = Mishaps + 1
  BY <1>1, SpentFields DEF Mishaps, HistoryTyped
<1>5. HistoryTyped'
  BY <1>1, <1>2, IngestAssumption DEF HistoryTyped
<1> QED BY <1>0, <1>2, <1>3, <1>4, <1>5 DEF Counts

-----------------------------------------------------------------------------
(* What each call of a request does to the stores.                          *)

StoresTyped ==
    /\ dedup \in [redis: SUBSET Ids, db: SUBSET Ids]
    /\ usage \in [redis: Nat, db: 0 .. Limit]
    /\ rows \in [Ids -> Nat]
Typed == ReqTyped /\ HistoryTyped /\ StoresTyped

UsageIs(r, d) == usage' = [redis |-> r, db |-> d]
DedupIs(r, d) == dedup' = [redis |-> r, db |-> d]
QueueKept == UNCHANGED <<stream, rows>>

\* The event queued q times more and f failures more, and nothing answered
Recorded(s, q, f) ==
    HistoryTyped' /\ Counts(s, q, f) /\ past'.told = past.told /\ past'.refused = past.refused

LEMMA UsageFields ==
    ASSUME StoresTyped
    PROVE  /\ usage.redis \in Nat /\ usage.db \in Nat /\ usage.db <= Limit /\ Limit \in Nat
           /\ dedup.redis \in SUBSET Ids /\ dedup.db \in SUBSET Ids
           /\ usage' = usage => UsageIs(usage.redis, usage.db)
           /\ dedup' = dedup => DedupIs(dedup.redis, dedup.db)
           /\ \A r : usage' = [usage EXCEPT !.redis = r] => UsageIs(r, usage.db)
           /\ \A d : usage' = [usage EXCEPT !.db = d] => UsageIs(usage.redis, d)
           /\ \A r : dedup' = [dedup EXCEPT !.redis = r] => DedupIs(r, dedup.db)
           /\ \A d : dedup' = [dedup EXCEPT !.db = d] => DedupIs(dedup.redis, d)
BY IngestAssumption DEF StoresTyped, UsageIs, DedupIs

LEMMA DoesArrive ==
    ASSUME Typed, NEW s \in Slots, Arrives(s)
    PROVE  /\ ~Taken(s) /\ Recorded(s, 0, 0) /\ QueueKept /\ usage' = usage /\ dedup' = dedup
           /\ Taken(s)' /\ Others(s) /\ ReqTyped'
           /\ req'[s].at = (IF redis THEN "reserve" ELSE "reserveDB") /\ req'[s].tx = {}
           /\ req'[s].id \in Ids
<1>1. /\ ~Taken(s) /\ QueueKept /\ usage' = usage /\ dedup' = dedup /\ past' = past
      /\ spent.requests < MaxRequests /\ spent' = [spent EXCEPT !.requests = @ + 1]
  BY DEF Arrives, Taken, QueueKept, streamVars
<1>2. PICK e \in Ids, route \in Routes :
           req' = [req EXCEPT ![s] = [at |-> IF redis THEN "reserve" ELSE "reserveDB", id |-> e,
                                      route |-> route, fast |-> redis /\ route = "collect",
                                      tx |-> {}]]
  BY DEF Arrives
<1>3. Recorded(s, 0, 0)
  BY <1>1, NothingNew DEF Recorded, Typed
<1> QED BY <1>1, <1>2, <1>3, Comes DEF Typed

\* The step after a reservation
AfterKey(s) ==
    IF ~redis THEN "countDB" ELSE IF req[s].route = "events" THEN "lua"
    ELSE IF req[s].fast THEN "rate" ELSE "count"

LEMMA DoesReserve ==
    ASSUME Typed, NEW s \in Slots, Reserve(s)
    PROVE  /\ Taken(s) /\ At(s, "reserve") /\ Recorded(s, 0, 0) /\ QueueKept /\ usage' = usage
           /\ DedupIs(dedup.redis \cup {req[s].id}, dedup.db)
           /\ \/ req[s].id \in dedup.redis /\ Leaves(s)
              \/ req[s].id \notin dedup.redis /\ Becomes(s, AfterKey(s), req[s].tx)
<1>1. /\ Taken(s) /\ At(s, "reserve") /\ QueueKept /\ usage' = usage /\ past' = past /\ spent' = spent
      /\ dedup' = [dedup EXCEPT !.redis = @ \cup {req[s].id}]
  BY DEF Reserve, Taken, At, QueueKept, streamVars
<1>2. Recorded(s, 0, 0)
  BY <1>1, NothingNew DEF Recorded, Typed
<1>3. DedupIs(dedup.redis \cup {req[s].id}, dedup.db)
  BY <1>1, UsageFields DEF Typed
<1>4. CASE req[s].id \in dedup.redis
  BY <1>1, <1>2, <1>3, <1>4, Gone DEF Reserve, Typed
<1>5. CASE req[s].id \notin dedup.redis
  <2>1. req' = [req EXCEPT ![s].tx = @ \cup {}, ![s].at = AfterKey(s)]
    BY <1>5 DEF Reserve, Reserved, AfterKey
  <2>2. req[s].tx \cup {} = req[s].tx
    OBVIOUS
  <2>3. AfterKey(s) \in Steps /\ req[s].tx \in SUBSET {"key", "count", "row"}
    BY <1>1, RequestFields DEF AfterKey, Steps, Typed
  <2>4. req' = [req EXCEPT ![s].tx = req[s].tx, ![s].at = AfterKey(s)]
    BY <2>1, <2>2
  <2>5. Becomes(s, AfterKey(s), req[s].tx)
    BY <1>1, <2>3, <2>4, Proceeds DEF Typed
  <2> QED BY <1>1, <1>2, <1>3, <1>5, <2>5
<1> QED BY <1>4, <1>5

LEMMA DoesReserveFail ==
    ASSUME Typed, NEW s \in Slots, ReserveFails(s)
    PROVE  /\ Taken(s) /\ At(s, "reserve") /\ Recorded(s, 0, 1) /\ QueueKept /\ usage' = usage
           /\ \/ DedupIs(dedup.redis, dedup.db)
              \/ DedupIs(dedup.redis \cup {req[s].id}, dedup.db)
           /\ \E step \in {"reserve", "reserveDB"} : Becomes(s, step, req[s].tx)
<1>1. /\ Taken(s) /\ At(s, "reserve") /\ QueueKept /\ usage' = usage /\ Fails(s, 0)
  BY DEF ReserveFails, Taken, At, QueueKept, streamVars
<1>2. Recorded(s, 0, 1)
  BY <1>1, FailsCounts DEF Recorded, Typed
<1>3. DedupIs(dedup.redis, dedup.db) \/ DedupIs(dedup.redis \cup {req[s].id}, dedup.db)
  BY UsageFields DEF Typed, ReserveFails
<1>4. CASE req' = [req EXCEPT ![s].fast = FALSE]
  BY <1>1, <1>2, <1>3, <1>4, Slows DEF Typed, At
<1>5. CASE GoesTo(s, "reserveDB")
  <2>1. "reserveDB" \in Steps /\ req[s].tx \in SUBSET {"key", "count", "row"}
    BY <1>1, RequestFields DEF Steps, Typed
  <2>2. Becomes(s, "reserveDB", req[s].tx)
    BY <1>1, <1>5, <2>1, Proceeds DEF Typed
  <2> QED BY <1>1, <1>2, <1>3, <2>2
<1> QED BY <1>4, <1>5 DEF ReserveFails

LEMMA DoesReserveRow ==
    ASSUME Typed, NEW s \in Slots, ReserveDB(s)
    PROVE  /\ Taken(s) /\ At(s, "reserveDB") /\ Recorded(s, 0, 0) /\ QueueKept /\ usage' = usage
           /\ dedup' = dedup /\ ~Locked(s, "key", {req[s].id})
           /\ \/ req[s].id \in dedup.db /\ Leaves(s)
              \/ req[s].id \notin dedup.db /\ Becomes(s, AfterKey(s), req[s].tx \cup {"key"})
<1>1. /\ Taken(s) /\ At(s, "reserveDB") /\ QueueKept /\ usage' = usage /\ dedup' = dedup
      /\ past' = past /\ spent' = spent /\ ~Locked(s, "key", {req[s].id})
  BY DEF ReserveDB, Taken, At, QueueKept, streamVars
<1>2. Recorded(s, 0, 0)
  BY <1>1, NothingNew DEF Recorded, Typed
<1>3. CASE req[s].id \in dedup.db
  BY <1>1, <1>2, <1>3, Gone DEF ReserveDB, Typed
<1>4. CASE req[s].id \notin dedup.db
  <2>1. req' = [req EXCEPT ![s].tx = req[s].tx \cup {"key"}, ![s].at = AfterKey(s)]
    BY <1>4 DEF ReserveDB, Reserved, AfterKey
  <2>2. AfterKey(s) \in Steps /\ req[s].tx \cup {"key"} \in SUBSET {"key", "count", "row"}
    BY <1>1, RequestFields DEF AfterKey, Steps, Typed
  <2>3. Becomes(s, AfterKey(s), req[s].tx \cup {"key"})
    BY <1>1, <2>1, <2>2, Proceeds DEF Typed
  <2> QED BY <1>1, <1>2, <1>4, <2>3
<1> QED BY <1>3, <1>4

LEMMA DoesScript ==
    ASSUME Typed, NEW s \in Slots, LuaAccepts(s)
    PROVE  /\ Taken(s) /\ At(s, "lua") /\ Recorded(s, 1, 0) /\ dedup' = dedup /\ rows' = rows
           /\ Xadd(req[s].id) /\ usage.redis + 1 <= Limit /\ UsageIs(usage.redis + 1, usage.db)
           /\ Becomes(s, "commit", req[s].tx)
<1>1. /\ Taken(s) /\ At(s, "lua") /\ dedup' = dedup /\ rows' = rows /\ past' = Queued(s, 1)
      /\ Xadd(req[s].id) /\ usage.redis + 1 <= Limit /\ spent' = spent
      /\ usage' = [usage EXCEPT !.redis = usage.redis + 1] /\ GoesTo(s, "commit")
  BY DEF LuaAccepts, Script, BridgeUnchanged, Taken, At
<1>2. Recorded(s, 1, 0)
  BY <1>1, QueueCounts DEF Recorded, Typed
<1>3. Becomes(s, "commit", req[s].tx)
  BY <1>1, RequestFields, Proceeds DEF Typed, Steps
<1> QED BY <1>1, <1>2, <1>3, UsageFields DEF Typed

LEMMA DoesRefuseScript ==
    ASSUME Typed, NEW s \in Slots, LuaRejects(s)
    PROVE  /\ Taken(s) /\ At(s, "lua") /\ Recorded(s, 0, 0) /\ dedup' = dedup /\ QueueKept
           /\ usage' = usage /\ Becomes(s, "undo", req[s].tx)
<1>1. /\ Taken(s) /\ At(s, "lua") /\ dedup' = dedup /\ QueueKept /\ usage' = usage
      /\ past' = past /\ spent' = spent /\ GoesTo(s, "undo")
  BY DEF LuaRejects, QueueKept, streamVars, Taken, At
<1>2. Recorded(s, 0, 0)
  BY <1>1, NothingNew DEF Recorded, Typed
<1>3. Becomes(s, "undo", req[s].tx)
  BY <1>1, RequestFields, Proceeds DEF Typed, Steps
<1> QED BY <1>1, <1>2, <1>3

LEMMA DoesFailScript ==
    ASSUME Typed, NEW s \in Slots, LuaFails(s)
    PROVE  /\ Taken(s) /\ At(s, "lua") /\ dedup' = dedup /\ rows' = rows
           /\ \/ Recorded(s, 0, 1) /\ stream' = stream /\ usage' = usage
              \/ /\ Recorded(s, 1, 1) /\ Xadd(req[s].id)
                 /\ usage.redis + 1 <= Limit /\ UsageIs(usage.redis + 1, usage.db)
           /\ Becomes(s, "count", req[s].tx)
<1>1. Taken(s) /\ At(s, "lua") /\ dedup' = dedup /\ rows' = rows /\ GoesTo(s, "count")
  BY DEF LuaFails, BridgeUnchanged, Taken, At
<1>2. Becomes(s, "count", req[s].tx)
  BY <1>1, RequestFields, Proceeds DEF Typed, Steps
<1>3. CASE Fails(s, 0) /\ UNCHANGED <<stream, usage>>
  <2>1. Recorded(s, 0, 1)
    BY <1>1, <1>3, FailsCounts DEF Recorded, Typed
  <2> QED BY <1>1, <1>2, <1>3, <2>1
<1>4. CASE Fails(s, 1) /\ Script(s)
  <2>1. Recorded(s, 1, 1)
    BY <1>1, <1>4, FailsCounts DEF Recorded, Typed
  <2>2. /\ Xadd(req[s].id) /\ usage.redis + 1 <= Limit
        /\ usage' = [usage EXCEPT !.redis = usage.redis + 1]
    BY <1>4 DEF Script
  <2> QED BY <1>1, <1>2, <2>1, <2>2, UsageFields DEF Typed
<1> QED BY <1>3, <1>4 DEF LuaFails

\* The two counters on their own, and how their steps are called
CountSteps == {"rate", "count"}

LEMMA StepNames ==
    ASSUME NEW step \in CountSteps
    PROVE  /\ Undoing(step) \in {"unrate", "uncount"} /\ Instead(step) \in {"enqueue", "countDB"}
           /\ Instead(step) = "countDB" => step = "count"
           /\ {step, Undoing(step), Instead(step)} \subseteq Steps
BY DEF CountSteps, Undoing, Instead, Steps

LEMMA DoesIncrement ==
    ASSUME Typed, NEW s \in Slots, NEW step \in CountSteps, Increment(s, step)
    PROVE  /\ Taken(s) /\ At(s, step) /\ Recorded(s, 0, 0) /\ dedup' = dedup /\ QueueKept
           /\ UsageIs(usage.redis + 1, usage.db)
           /\ \/ usage.redis + 1 > Limit /\ Becomes(s, Undoing(step), req[s].tx)
              \/ ~(usage.redis + 1 > Limit) /\ Becomes(s, "enqueue", req[s].tx)
<1>1. /\ At(s, step) /\ dedup' = dedup /\ QueueKept /\ past' = past /\ spent' = spent
      /\ usage' = [usage EXCEPT !.redis = usage.redis + 1]
  BY DEF Increment, QueueKept, streamVars
<1>2. Taken(s)
  BY <1>1 DEF At, Taken, CountSteps
<1>3. Recorded(s, 0, 0)
  BY <1>1, NothingNew DEF Recorded, Typed
<1>4. UsageIs(usage.redis + 1, usage.db)
  BY <1>1, UsageFields DEF Typed
<1>5. Undoing(step) \in Steps /\ "enqueue" \in Steps /\ req[s].tx \in SUBSET {"key", "count", "row"}
  BY <1>2, StepNames, RequestFields DEF Steps, Typed
<1>6. CASE usage.redis + 1 > Limit
  <2>1. GoesTo(s, Undoing(step))
    BY <1>6 DEF Increment
  <2>2. Becomes(s, Undoing(step), req[s].tx)
    BY <1>2, <1>5, <2>1, Proceeds DEF Typed
  <2> QED BY <1>1, <1>2, <1>3, <1>4, <1>6, <2>2
<1>7. CASE ~(usage.redis + 1 > Limit)
  <2>1. GoesTo(s, "enqueue")
    BY <1>7 DEF Increment
  <2>2. Becomes(s, "enqueue", req[s].tx)
    BY <1>2, <1>5, <2>1, Proceeds DEF Typed
  <2> QED BY <1>1, <1>2, <1>3, <1>4, <1>7, <2>2
<1> QED BY <1>6, <1>7

LEMMA DoesIncrementFail ==
    ASSUME Typed, NEW s \in Slots, NEW step \in CountSteps, IncrementFails(s, step)
    PROVE  /\ Taken(s) /\ At(s, step) /\ Recorded(s, 0, 1) /\ dedup' = dedup /\ QueueKept
           /\ UsageIs(usage.redis, usage.db) \/ UsageIs(usage.redis + 1, usage.db)
           /\ Becomes(s, Instead(step), req[s].tx)
<1>1. /\ At(s, step) /\ dedup' = dedup /\ QueueKept /\ Fails(s, 0) /\ GoesTo(s, Instead(step))
      /\ usage' = usage \/ usage' = [usage EXCEPT !.redis = usage.redis + 1]
  BY DEF IncrementFails, QueueKept, streamVars
<1>2. Taken(s)
  BY <1>1 DEF At, Taken, CountSteps
<1>3. Recorded(s, 0, 1)
  BY <1>1, <1>2, FailsCounts DEF Recorded, Typed
<1>4. UsageIs(usage.redis, usage.db) \/ UsageIs(usage.redis + 1, usage.db)
  BY <1>1, UsageFields DEF Typed
<1>5. Instead(step) \in Steps /\ req[s].tx \in SUBSET {"key", "count", "row"}
  BY <1>2, StepNames, RequestFields DEF Typed
<1>6. Becomes(s, Instead(step), req[s].tx)
  BY <1>1, <1>2, <1>5, Proceeds DEF Typed
<1> QED BY <1>1, <1>2, <1>3, <1>4, <1>6

LEMMA DoesDecrement ==
    ASSUME Typed, NEW s \in Slots, NEW step \in CountSteps, Decrement(s, step)
    PROVE  /\ Taken(s) /\ At(s, Undoing(step)) /\ Recorded(s, 0, 0) /\ dedup' = dedup /\ QueueKept
           /\ UsageIs(usage.redis - 1, usage.db) /\ Becomes(s, "undo", req[s].tx)
<1>1. /\ At(s, Undoing(step)) /\ dedup' = dedup /\ QueueKept /\ past' = past /\ spent' = spent
      /\ usage' = [usage EXCEPT !.redis = usage.redis - 1] /\ GoesTo(s, "undo")
  BY DEF Decrement, QueueKept, streamVars
<1>2. Taken(s)
  BY <1>1, StepNames DEF At, Taken
<1>3. Recorded(s, 0, 0)
  BY <1>1, NothingNew DEF Recorded, Typed
<1>4. UsageIs(usage.redis - 1, usage.db)
  BY <1>1, UsageFields DEF Typed
<1>5. Becomes(s, "undo", req[s].tx)
  BY <1>1, <1>2, RequestFields, Proceeds DEF Typed, Steps
<1> QED BY <1>1, <1>2, <1>3, <1>4, <1>5

LEMMA DoesDecrementFail ==
    ASSUME Typed, NEW s \in Slots, NEW step \in CountSteps, DecrementFails(s, step)
    PROVE  /\ Taken(s) /\ At(s, Undoing(step)) /\ Recorded(s, 0, 1) /\ dedup' = dedup /\ QueueKept
           /\ UsageIs(usage.redis, usage.db) \/ UsageIs(usage.redis - 1, usage.db)
           /\ Becomes(s, Instead(step), req[s].tx)
<1>1. /\ At(s, Undoing(step)) /\ dedup' = dedup /\ QueueKept /\ Fails(s, 0)
      /\ GoesTo(s, Instead(step))
      /\ usage' = usage \/ usage' = [usage EXCEPT !.redis = usage.redis - 1]
  BY DEF DecrementFails, QueueKept, streamVars
<1>2. Taken(s)
  BY <1>1, StepNames DEF At, Taken
<1>3. Recorded(s, 0, 1)
  BY <1>1, <1>2, FailsCounts DEF Recorded, Typed
<1>4. UsageIs(usage.redis, usage.db) \/ UsageIs(usage.redis - 1, usage.db)
  BY <1>1, UsageFields DEF Typed
<1>5. Instead(step) \in Steps /\ req[s].tx \in SUBSET {"key", "count", "row"}
  BY <1>2, StepNames, RequestFields DEF Typed
<1>6. Becomes(s, Instead(step), req[s].tx)
  BY <1>1, <1>2, <1>5, Proceeds DEF Typed
<1> QED BY <1>1, <1>2, <1>3, <1>4, <1>6

LEMMA DoesCountRow ==
    ASSUME Typed, NEW s \in Slots, CountDB(s)
    PROVE  /\ Taken(s) /\ At(s, "countDB") /\ Recorded(s, 0, 0) /\ dedup' = dedup /\ QueueKept
           /\ usage' = usage /\ ~Locked(s, "count", Ids)
           /\ \/ Becomes(s, "undo", req[s].tx)
              \/ usage.db + 1 <= Limit /\ Becomes(s, "enqueue", req[s].tx \cup {"count"})
<1>1. /\ Taken(s) /\ At(s, "countDB") /\ dedup' = dedup /\ QueueKept /\ usage' = usage
      /\ past' = past /\ spent' = spent /\ ~Locked(s, "count", Ids)
  BY DEF CountDB, QueueKept, streamVars, Taken, At
<1>2. Recorded(s, 0, 0)
  BY <1>1, NothingNew DEF Recorded, Typed
<1>3. /\ {"undo", "enqueue"} \subseteq Steps /\ req[s].tx \in SUBSET {"key", "count", "row"}
      /\ req[s].tx \cup {"count"} \in SUBSET {"key", "count", "row"}
  BY <1>1, RequestFields DEF Steps, Typed
<1>4. CASE GoesTo(s, "undo")
  <2>1. Becomes(s, "undo", req[s].tx)
    BY <1>1, <1>3, <1>4, Proceeds DEF Typed
  <2> QED BY <1>1, <1>2, <2>1
<1>5. CASE /\ usage.db + 1 <= Limit
           /\ req' = [req EXCEPT ![s].tx = req[s].tx \cup {"count"}, ![s].at = "enqueue"]
  <2>1. Becomes(s, "enqueue", req[s].tx \cup {"count"})
    BY <1>1, <1>3, <1>5, Proceeds DEF Typed
  <2> QED BY <1>1, <1>2, <1>5, <2>1
<1> QED BY <1>4, <1>5 DEF CountDB

LEMMA DoesEnqueue ==
    ASSUME Typed, NEW s \in Slots, Enqueue(s)
    PROVE  /\ Taken(s) /\ At(s, "enqueue") /\ redis /\ Recorded(s, 1, 0) /\ dedup' = dedup
           /\ rows' = rows /\ usage' = usage /\ Xadd(req[s].id) /\ Becomes(s, "commit", req[s].tx)
<1>1. /\ Taken(s) /\ At(s, "enqueue") /\ redis /\ dedup' = dedup /\ rows' = rows /\ usage' = usage
      /\ past' = Queued(s, 1) /\ Xadd(req[s].id) /\ spent' = spent /\ GoesTo(s, "commit")
  BY DEF Enqueue, BridgeUnchanged, Taken, At
<1>2. Recorded(s, 1, 0)
  BY <1>1, QueueCounts DEF Recorded, Typed
<1>3. Becomes(s, "commit", req[s].tx)
  BY <1>1, RequestFields, Proceeds DEF Typed, Steps
<1> QED BY <1>1, <1>2, <1>3

LEMMA DoesEnqueueFail ==
    ASSUME Typed, NEW s \in Slots, EnqueueFails(s)
    PROVE  /\ Taken(s) /\ At(s, "enqueue") /\ redis /\ dedup' = dedup /\ rows' = rows /\ usage' = usage
           /\ \/ Recorded(s, 0, 1) /\ stream' = stream
              \/ Recorded(s, 1, 1) /\ Xadd(req[s].id)
           /\ Becomes(s, "commit", req[s].tx \cup {"row"})
<1>1. /\ Taken(s) /\ At(s, "enqueue") /\ redis /\ dedup' = dedup /\ rows' = rows /\ usage' = usage
      /\ req' = [req EXCEPT ![s].tx = req[s].tx \cup {"row"}, ![s].at = "commit"]
  BY DEF EnqueueFails, BridgeUnchanged, Taken, At
<1>2. "commit" \in Steps /\ req[s].tx \cup {"row"} \in SUBSET {"key", "count", "row"}
  BY <1>1, RequestFields DEF Typed, Steps
<1>3. Becomes(s, "commit", req[s].tx \cup {"row"})
  BY <1>1, <1>2, Proceeds DEF Typed
<1>4. CASE Fails(s, 0) /\ UNCHANGED stream
  <2>1. Recorded(s, 0, 1)
    BY <1>1, <1>4, FailsCounts DEF Recorded, Typed
  <2> QED BY <1>1, <1>3, <1>4, <2>1
<1>5. CASE Fails(s, 1) /\ Xadd(req[s].id)
  <2>1. Recorded(s, 1, 1)
    BY <1>1, <1>5, FailsCounts DEF Recorded, Typed
  <2> QED BY <1>1, <1>3, <1>5, <2>1
<1> QED BY <1>4, <1>5 DEF EnqueueFails

LEMMA DoesEnqueueRow ==
    ASSUME Typed, NEW s \in Slots, EnqueueRow(s)
    PROVE  /\ Taken(s) /\ At(s, "enqueue") /\ ~redis /\ Recorded(s, 0, 0) /\ dedup' = dedup
           /\ QueueKept /\ usage' = usage /\ Becomes(s, "commit", req[s].tx \cup {"row"})
<1>1. /\ Taken(s) /\ At(s, "enqueue") /\ ~redis /\ dedup' = dedup /\ QueueKept /\ usage' = usage
      /\ req' = [req EXCEPT ![s].tx = req[s].tx \cup {"row"}, ![s].at = "commit"]
      /\ past' = past /\ spent' = spent
  BY DEF EnqueueRow, QueueKept, streamVars, Taken, At
<1>2. "commit" \in Steps /\ req[s].tx \cup {"row"} \in SUBSET {"key", "count", "row"}
  BY <1>1, RequestFields DEF Typed, Steps
<1>3. Becomes(s, "commit", req[s].tx \cup {"row"})
  BY <1>1, <1>2, Proceeds DEF Typed
<1>4. Recorded(s, 0, 0)
  BY <1>1, NothingNew DEF Recorded, Typed
<1> QED BY <1>1, <1>3, <1>4

\* What the transaction has written comes to be.
Wrote(s) ==
    /\ DedupIs(dedup.redis, dedup.db \cup (IF "key" \in req[s].tx THEN {req[s].id} ELSE {}))
    /\ UsageIs(usage.redis, usage.db + One(s, "count"))
    /\ \A e \in Ids : rows'[e] = rows[e] + (IF e = req[s].id THEN One(s, "row") ELSE 0)
    /\ rows' \in [Ids -> Nat]

LEMMA DoesWrite ==
    ASSUME Typed, NEW s \in Slots, Taken(s), Committed(s)
    PROVE  Wrote(s)
<1>1. dedup' = [dedup EXCEPT !.db = dedup.db \cup {e \in {req[s].id} : "key" \in req[s].tx}]
  BY DEF Committed
<1>2. {e \in {req[s].id} : "key" \in req[s].tx}
         = IF "key" \in req[s].tx THEN {req[s].id} ELSE {}
  OBVIOUS
<1>3. usage' = [usage EXCEPT !.db = usage.db + One(s, "count")]
  BY DEF Committed
<1>4. rows' = [rows EXCEPT ![req[s].id] = rows[req[s].id] + One(s, "row")]
  BY DEF Committed
<1>5. One(s, "row") \in Nat /\ req[s].id \in Ids
  BY RequestFields DEF One, Typed
<1>6. /\ \A e \in Ids : rows'[e] = rows[e] + (IF e = req[s].id THEN One(s, "row") ELSE 0)
      /\ rows' \in [Ids -> Nat]
  BY <1>4, <1>5 DEF Typed, StoresTyped
<1>7. DedupIs(dedup.redis, dedup.db \cup (IF "key" \in req[s].tx THEN {req[s].id} ELSE {}))
  BY <1>1, <1>2, UsageFields DEF Typed
<1>8. UsageIs(usage.redis, usage.db + One(s, "count"))
  BY <1>3, UsageFields DEF Typed
<1> QED BY <1>6, <1>7, <1>8 DEF Wrote

LEMMA DoesCommit ==
    ASSUME Typed, NEW s \in Slots, Commit(s)
    PROVE  /\ Taken(s) /\ At(s, "commit") /\ stream' = stream /\ Wrote(s) /\ Leaves(s)
           /\ HistoryTyped' /\ Counts(s, One(s, "row"), 0) /\ past'.refused = past.refused
           /\ past'.told \subseteq past.told \cup {req[s].id}
<1>1. /\ Taken(s) /\ At(s, "commit") /\ stream' = stream /\ Committed(s) /\ Ends(s) /\ spent' = spent
      /\ past' = [Queued(s, One(s, "row")) EXCEPT !.told = @ \cup {req[s].id}]
  BY DEF Commit, Taken, At
<1>2. One(s, "row") \in {0, 1}
  BY DEF One
<1>3. /\ HistoryTyped' /\ Counts(s, One(s, "row"), 0) /\ past'.refused = past.refused
      /\ past'.told \subseteq past.told \cup {req[s].id}
  BY <1>1, <1>2, QueueCounts DEF Typed
<1> QED BY <1>1, <1>3, DoesWrite, Gone DEF Typed

LEMMA DoesFailInTable ==
    ASSUME Typed, NEW s \in Slots, DatabaseFails(s)
    PROVE  /\ Taken(s) /\ (At(s, "countDB") \/ At(s, "commit"))
           /\ stream' = stream /\ Becomes(s, "undo", {})
           /\ \/ Recorded(s, 0, 1) /\ rows' = rows /\ dedup' = dedup /\ usage' = usage
              \/ At(s, "commit") /\ Recorded(s, One(s, "row"), 1) /\ Wrote(s)
<1>1. /\ Taken(s) /\ (At(s, "countDB") \/ At(s, "commit"))
      /\ stream' = stream /\ req' = [req EXCEPT ![s].tx = {}, ![s].at = "undo"]
  BY DEF DatabaseFails, Commits, Taken, At
<1>2. "undo" \in Steps /\ {} \in SUBSET {"key", "count", "row"}
  BY DEF Steps
<1>3. Becomes(s, "undo", {})
  BY <1>1, <1>2, Proceeds DEF Typed
<1>4. CASE Fails(s, 0) /\ UNCHANGED <<rows, dedup, usage>>
  <2>1. Recorded(s, 0, 1)
    BY <1>1, <1>4, FailsCounts DEF Recorded, Typed
  <2> QED BY <1>1, <1>3, <1>4, <2>1
<1>5. CASE At(s, "commit") /\ Fails(s, One(s, "row")) /\ Committed(s)
  <2>1. One(s, "row") \in {0, 1}
    BY DEF One
  <2>2. Recorded(s, One(s, "row"), 1)
    BY <1>1, <1>5, <2>1, FailsCounts DEF Recorded, Typed
  <2> QED BY <1>1, <1>3, <1>5, <2>2, DoesWrite
<1> QED BY <1>4, <1>5 DEF DatabaseFails

LEMMA DoesUndo ==
    ASSUME Typed, NEW s \in Slots, Undo(s)
    PROVE  /\ Taken(s) /\ At(s, "undo") /\ Recorded(s, 0, 0) /\ QueueKept /\ usage' = usage
           /\ DedupIs(dedup.redis \ {req[s].id}, dedup.db) /\ Leaves(s)
<1>1. /\ Taken(s) /\ At(s, "undo") /\ QueueKept /\ usage' = usage /\ past' = past /\ spent' = spent
      /\ dedup' = [dedup EXCEPT !.redis = dedup.redis \ {req[s].id}] /\ Ends(s)
  BY DEF Undo, Taken, At, QueueKept, streamVars
<1>2. Recorded(s, 0, 0)
  BY <1>1, NothingNew DEF Recorded, Typed
<1> QED BY <1>1, <1>2, UsageFields, Gone DEF Typed

LEMMA DoesRefuse ==
    ASSUME Typed, NEW s \in Slots, Refuse(s)
    PROVE  /\ Taken(s) /\ At(s, "undo") /\ HistoryTyped' /\ Counts(s, 0, 0) /\ QueueKept
           /\ usage' = usage /\ dedup' = dedup /\ Leaves(s) /\ past'.told = past.told
           /\ past'.refused = past.refused \cup (dedup.redis \cap {req[s].id})
<1>1. /\ Taken(s) /\ At(s, "undo") /\ QueueKept /\ usage' = usage /\ dedup' = dedup /\ Ends(s)
  BY DEF Refuse, Taken, At, QueueKept, streamVars
<1> QED BY <1>1, RefuseCounts, Gone DEF Typed

\* The request is over with a failure: its process dies, or the last call fails.
LEMMA DoesBreakOff ==
    ASSUME Typed, NEW s \in Slots, WebCrash(s) \/ UndoFails(s) \/ ReserveDBFails(s)
    PROVE  /\ Taken(s) /\ Recorded(s, 0, 1) /\ QueueKept /\ usage' = usage /\ dedup' = dedup
           /\ Leaves(s)
<1>1. /\ Taken(s) /\ QueueKept /\ usage' = usage /\ dedup' = dedup /\ Ends(s)
  BY DEF WebCrash, UndoFails, ReserveDBFails, Taken, At, QueueKept, streamVars
<1>2. CASE WebCrash(s)
  BY <1>1, <1>2, CrashCounts, Gone DEF Typed, Recorded
<1>3. CASE Fails(s, 0)
  <2>1. Recorded(s, 0, 1)
    BY <1>1, <1>3, FailsCounts DEF Recorded, Typed
  <2> QED BY <1>1, <2>1, Gone DEF Typed
<1> QED BY <1>2, <1>3 DEF UndoFails, ReserveDBFails

-----------------------------------------------------------------------------
(* Types, and the steps a request may be at.                                *)

\* Entries are appended, rows added; the bridge's own state is left alone.
QueueGrows(s) ==
    /\ stream' = stream \/ (Taken(s) /\ Xadd(req[s].id))
    /\ UNCHANGED <<group, bridge, deleted, bridgeSpent, redis>>
    /\ rows' \in [Ids -> Nat]
    /\ \A e \in Ids : rows'[e] >= rows[e]

LEMMA RequestsGrow == ASSUME Typed, NEW s \in Slots, Request(s) PROVE QueueGrows(s)
<1>1. UNCHANGED <<group, bridge, deleted, bridgeSpent, redis>>
  BY DEF Request, Arrives, Dedup, Reserve, ReserveFails, ReserveDB, ReserveDBFails, Quota,
         LuaAccepts, LuaRejects, LuaFails, CountDB, Increment, IncrementFails, Decrement,
         DecrementFails, Finish, Enqueue, EnqueueFails, EnqueueRow, Commit, DatabaseFails, Undo,
         UndoFails, Refuse, WebCrash, BridgeUnchanged, streamVars
<1>2. CASE rows' = rows
  <2>1. rows' \in [Ids -> Nat] /\ \A e \in Ids : rows'[e] >= rows[e]
    <3>1. \A e \in Ids : rows[e] \in Nat
      BY DEF Typed, StoresTyped
    <3> QED BY <1>2, <3>1 DEF Typed, StoresTyped
  <2>2. stream' = stream \/ (Taken(s) /\ Xadd(req[s].id))
    BY DEF Request, Arrives, Dedup, Reserve, ReserveFails, ReserveDB, ReserveDBFails, Quota,
           LuaAccepts, LuaRejects, LuaFails, Script, CountDB, Increment, IncrementFails, Decrement,
           DecrementFails, Finish, Enqueue, EnqueueFails, EnqueueRow, Commit, DatabaseFails, Undo,
           UndoFails, Refuse, WebCrash, BridgeUnchanged, streamVars, At, Taken
  <2> QED BY <1>1, <2>1, <2>2 DEF QueueGrows
<1>3. CASE Taken(s) /\ Committed(s) /\ stream' = stream
  <2>1. Wrote(s)
    BY <1>3, DoesWrite
  <2>2. One(s, "row") \in Nat
    BY DEF One
  <2>3. rows' \in [Ids -> Nat] /\ \A e \in Ids : rows'[e] >= rows[e]
    BY <2>1, <2>2 DEF Wrote, Typed, StoresTyped
  <2> QED BY <1>1, <1>3, <2>3 DEF QueueGrows
<1> QED BY <1>2, <1>3
        DEF Request, Arrives, Dedup, Reserve, ReserveFails, ReserveDB, ReserveDBFails, Quota,
            LuaAccepts, LuaRejects, LuaFails, CountDB, Increment, IncrementFails, Decrement,
            DecrementFails, Finish, Enqueue, EnqueueFails, EnqueueRow, Commit, DatabaseFails, Undo,
            UndoFails, Refuse, WebCrash, BridgeUnchanged, streamVars, At, Taken

\* What the bridge relies on outlasts the requests.
LEMMA AckInvGrows ==
    ASSUME AckInv, ReqTyped, NEW s \in Slots, QueueGrows(s)
    PROVE  AckInv'
<1>0. /\ EntriesTyped /\ GroupTyped /\ BridgeTyped /\ RowsTyped
      /\ group.read \in Nat /\ Len(stream) \in Nat /\ group.read <= Len(stream)
  BY TypeParts DEF AckInv, EntriesTyped
<1>1. UNCHANGED <<group, bridge, deleted, bridgeSpent>> /\ rows' \in [Ids -> Nat]
  BY DEF QueueGrows
<1>2. stream' = stream \/ \E e \in Ids : stream' = Append(stream, e)
  BY RequestFields DEF QueueGrows, Xadd
<1>3. StreamTypeOK'
  <2>1. EntriesTyped'
    <3>1. ASSUME NEW e \in Ids, stream' = Append(stream, e)
          PROVE  stream' \in Seq(Ids) /\ Len(stream') = Len(stream) + 1
      BY <1>0, <3>1, AppendProperties DEF EntriesTyped
    <3>2. stream' \in Seq(Ids) /\ (Len(stream') = Len(stream) \/ Len(stream') = Len(stream) + 1)
      BY <1>0, <1>2, <3>1 DEF EntriesTyped
    <3>3. group' = group
      BY <1>1
    <3> QED BY <1>0, <3>2, <3>3 DEF EntriesTyped
  <2>2. GroupTyped' /\ BridgeTyped' /\ RowsTyped'
    BY <1>0, <1>1 DEF GroupTyped, BridgeTyped, RowsTyped, GroupType, BatchType
  <2> QED BY <2>1, <2>2, TypePartsNext
<1>4. ASSUME NEW i \in 1 .. group.read, HasRow(i) PROVE HasRow(i)'
  <2>1. i \in 1 .. Len(stream) /\ stream[i] \in Ids
    BY <1>0 DEF EntriesTyped
  <2>2. stream'[i] = stream[i]
    BY <1>0, <1>2, <2>1, AppendProperties DEF EntriesTyped
  <2>3. rows'[stream[i]] >= rows[stream[i]] /\ rows[stream[i]] \in Nat /\ rows'[stream[i]] \in Nat
    BY <1>0, <1>1, <2>1 DEF QueueGrows, RowsTyped
  <2> QED BY <1>1, <1>4, <2>2, <2>3 DEF HasRow
<1>5. group.acked \subseteq 1 .. group.read /\ \A c \in Consumers : bridge[c].ack \subseteq 1 .. group.read
  BY <1>0 DEF GroupTyped, GroupType, BridgeTyped, BatchType
<1>6. EntriesKept'
  BY <1>1 DEF AckInv, EntriesKept
<1> QED BY <1>1, <1>3, <1>4, <1>5, <1>6 DEF AckInv

\* Where Redis is not set, a request takes the steps of its transaction only; an
\* outbox row waits for the commit, and a count for it or for the insert.
Fits(step, tx) ==
    /\ ~redis => /\ step \in {"reserveDB", "countDB", "enqueue", "commit", "undo"}
                 /\ step \in {"enqueue", "commit"} => "count" \in tx
                 /\ step = "commit" => "row" \in tx
    /\ "row" \in tx => step = "commit"
    /\ "count" \in tx => step \in {"enqueue", "commit"}

InStep == \A s \in Slots : Taken(s) => Fits(req[s].at, req[s].tx)

\* The row of usage_counters is written by one transaction at a time, and has room.
Counting(s) == Taken(s) /\ "count" \in req[s].tx
OneCounts == \A s, t \in Slots : Counting(s) /\ Counting(t) => s = t
RoomForCount == \A s \in Slots : Counting(s) => usage.db + 1 <= Limit

StepInv ==
    /\ Typed
    /\ redis \in Configured
    /\ InStep
    /\ OneCounts
    /\ RoomForCount

\* A step of s keeps them when it keeps them for s.
LEMMA StepKeeps ==
    ASSUME StepInv, NEW s \in Slots, Others(s), redis' = redis, Typed',
           Taken(s)' => Fits(req'[s].at, req'[s].tx),
           \/ usage'.db = usage.db
           \/ Counting(s) /\ ~Counting(s)' /\ usage'.db = usage.db + 1,
           Counting(s)' =>
              \/ Counting(s)
              \/ usage.db + 1 <= Limit /\ \A t \in Slots \ {s} : ~Counting(t)
    PROVE  StepInv'
<1>0. Typed /\ InStep /\ OneCounts /\ RoomForCount
  BY DEF StepInv
<1>1. \A t \in Slots \ {s} : req'[t] = req[t] /\ (Taken(t)' <=> Taken(t)) /\ (Counting(t)' <=> Counting(t))
  BY DEF Others, Taken, At, Counting
<1>2. InStep'
  <2>1. ASSUME NEW t \in Slots \ {s}, Taken(t)' PROVE Fits(req[t].at, req[t].tx)'
    BY <1>0, <1>1, <2>1 DEF InStep, Fits
  <2>2. Taken(s)' => Fits(req[s].at, req[s].tx)'
    BY DEF Fits
  <2> QED BY <2>1, <2>2 DEF InStep
<1>3. OneCounts'
  BY <1>0, <1>1 DEF OneCounts
<1>4. RoomForCount'
  <2>1. ASSUME NEW t \in Slots, Counting(t)' PROVE usage.db + 1 <= Limit /\ usage'.db = usage.db
    <3>1. CASE t = s
      BY <1>0, <2>1, <3>1 DEF RoomForCount
    <3>2. CASE t # s
      BY <1>0, <1>1, <2>1, <3>2 DEF RoomForCount, OneCounts
    <3> QED BY <3>1, <3>2
  <2> QED BY <2>1 DEF RoomForCount
<1>5. redis' \in Configured
  BY DEF StepInv
<1> QED BY <1>2, <1>3, <1>4, <1>5 DEF StepInv

LEMMA StepGoesOn ==
    ASSUME StepInv, NEW s \in Slots, NEW step, NEW tx, Becomes(s, step, tx),
           redis' = redis, HistoryTyped', StoresTyped', usage'.db = usage.db, Fits(step, tx),
           "count" \in tx => \/ "count" \in req[s].tx
                             \/ usage.db + 1 <= Limit /\ \A t \in Slots \ {s} : ~Counting(t)
    PROVE  StepInv'
<1>1. Typed' /\ Others(s)
  BY DEF Becomes, Typed
<1>2. Taken(s) /\ req'[s].at = step /\ req'[s].tx = tx
  BY DEF Becomes
<1>3. Counting(s)' => "count" \in tx
  BY <1>2 DEF Counting
<1> QED BY <1>1, <1>2, <1>3, StepKeeps DEF Counting

LEMMA StepEnds ==
    ASSUME StepInv, NEW s \in Slots, Leaves(s), redis' = redis, HistoryTyped', StoresTyped',
           usage'.db = usage.db \/ (Counting(s) /\ usage'.db = usage.db + 1)
    PROVE  StepInv'
<1>1. Typed' /\ Others(s) /\ ~Taken(s)' /\ ~Counting(s)'
  BY DEF Leaves, Typed, Counting
<1> QED BY <1>1, StepKeeps

LEMMA StoresStay ==
    ASSUME Typed, rows' \in [Ids -> Nat],
           dedup' = dedup \/ \E k, d \in SUBSET Ids : DedupIs(k, d),
           usage' = usage \/ \E n \in Nat : UsageIs(n, usage.db)
    PROVE  StoresTyped' /\ usage'.db = usage.db
BY UsageFields DEF Typed, StoresTyped, DedupIs, UsageIs

LEMMA WroteStores ==
    ASSUME StepInv, NEW s \in Slots, Taken(s), Wrote(s)
    PROVE  StoresTyped' /\ (usage'.db = usage.db \/ (Counting(s) /\ usage'.db = usage.db + 1))
<1>1. /\ usage.redis \in Nat /\ usage.db \in Nat /\ usage.db <= Limit /\ Limit \in Nat
      /\ dedup.redis \in SUBSET Ids /\ dedup.db \in SUBSET Ids
  BY UsageFields DEF StepInv, Typed
<1>2. req[s].id \in Ids
  BY RequestFields DEF StepInv, Typed
<1>3. usage' = [redis |-> usage.redis, db |-> usage.db + One(s, "count")]
  BY DEF Wrote, UsageIs
<1>4. Counting(s) => usage.db + 1 <= Limit
  BY DEF StepInv, RoomForCount
<1>5. \/ ~Counting(s) /\ One(s, "count") = 0
      \/ Counting(s) /\ One(s, "count") = 1
  BY DEF Counting, One
<1>6. usage' \in [redis: Nat, db: 0 .. Limit]
  BY <1>1, <1>3, <1>4, <1>5
<1>7. usage'.db = usage.db \/ (Counting(s) /\ usage'.db = usage.db + 1)
  BY <1>1, <1>3, <1>5
<1>8. dedup' \in [redis: SUBSET Ids, db: SUBSET Ids]
  BY <1>1, <1>2 DEF Wrote, DedupIs
<1> QED BY <1>6, <1>7, <1>8 DEF StoresTyped, Wrote

LEMMA StepDedup ==
    ASSUME StepInv, NEW s \in Slots, Dedup(s), QueueGrows(s)
    PROVE  StepInv'
<1>0. /\ Typed /\ ReqTyped /\ rows' \in [Ids -> Nat] /\ redis' = redis
      /\ dedup.redis \in SUBSET Ids /\ dedup.db \in SUBSET Ids
  BY UsageFields DEF StepInv, Typed, QueueGrows
<1>1. Taken(s) /\ (At(s, "reserve") \/ At(s, "reserveDB"))
  BY DEF Dedup, Reserve, ReserveFails, ReserveDB, ReserveDBFails, At, Taken
<1>2. Fits(req[s].at, req[s].tx) /\ req[s].id \in Ids
  BY <1>0, <1>1, RequestFields DEF StepInv, InStep
<1>3. "row" \notin req[s].tx /\ "count" \notin req[s].tx
  BY <1>1, <1>2 DEF Fits, At
<1>4. Fits(AfterKey(s), req[s].tx) /\ Fits(AfterKey(s), req[s].tx \cup {"key"})
  BY <1>3 DEF Fits, AfterKey
<1>5. CASE Reserve(s)
  <2>1. /\ Recorded(s, 0, 0) /\ usage' = usage
        /\ DedupIs(dedup.redis \cup {req[s].id}, dedup.db)
        /\ Leaves(s) \/ Becomes(s, AfterKey(s), req[s].tx)
    BY <1>0, <1>5, DoesReserve
  <2>2. StoresTyped' /\ usage'.db = usage.db
    BY <1>0, <1>2, <2>1, StoresStay
  <2> QED BY <1>0, <1>3, <1>4, <2>1, <2>2, StepGoesOn, StepEnds DEF Recorded
<1>6. CASE ReserveFails(s)
  <2>1. /\ Recorded(s, 0, 1) /\ usage' = usage /\ At(s, "reserve")
        /\ \/ DedupIs(dedup.redis, dedup.db)
           \/ DedupIs(dedup.redis \cup {req[s].id}, dedup.db)
        /\ \E step \in {"reserve", "reserveDB"} : Becomes(s, step, req[s].tx)
    BY <1>0, <1>6, DoesReserveFail
  <2>2. StoresTyped' /\ usage'.db = usage.db
    BY <1>0, <1>2, <2>1, StoresStay
  <2>3. Fits("reserve", req[s].tx) /\ Fits("reserveDB", req[s].tx)
    BY <1>2, <1>3, <2>1 DEF Fits, At
  <2> QED BY <1>0, <1>3, <2>1, <2>2, <2>3, StepGoesOn DEF Recorded
<1>7. CASE ReserveDB(s)
  <2>1. /\ Recorded(s, 0, 0) /\ usage' = usage /\ dedup' = dedup
        /\ Leaves(s) \/ Becomes(s, AfterKey(s), req[s].tx \cup {"key"})
    BY <1>0, <1>7, DoesReserveRow
  <2>2. StoresTyped' /\ usage'.db = usage.db
    BY <1>0, <1>2, <2>1, StoresStay
  <2>3. "count" \notin req[s].tx \cup {"key"}
    BY <1>3
  <2> QED BY <1>0, <1>4, <2>1, <2>2, <2>3, StepGoesOn, StepEnds DEF Recorded
<1>8. CASE ReserveDBFails(s)
  <2>1. Recorded(s, 0, 1) /\ usage' = usage /\ dedup' = dedup /\ Leaves(s)
    BY <1>0, <1>8, DoesBreakOff
  <2>2. StoresTyped' /\ usage'.db = usage.db
    BY <1>0, <2>1, StoresStay
  <2> QED BY <1>0, <2>1, <2>2, StepEnds DEF Recorded
<1> QED BY <1>5, <1>6, <1>7, <1>8 DEF Dedup

\* Counted in Redis, refused, and not taken back yet: the count is above zero.
Raised(s) == Taken(s) /\ req[s].at \in {"unrate", "uncount"}

LEMMA StepQuota ==
    ASSUME StepInv, NEW s \in Slots, Quota(s), QueueGrows(s), Raised(s) => usage.redis >= 1
    PROVE  StepInv'
<1>0. /\ Typed /\ ReqTyped /\ rows' \in [Ids -> Nat] /\ redis' = redis
      /\ usage.redis \in Nat /\ usage.redis + 1 \in Nat
  BY UsageFields DEF StepInv, Typed, QueueGrows
<1>1. ASSUME NEW step, NEW tx, Becomes(s, step, tx), HistoryTyped', dedup' = dedup,
             usage' = usage \/ \E n \in Nat : UsageIs(n, usage.db), Fits(step, tx),
             "count" \in tx => \/ "count" \in req[s].tx
                               \/ usage.db + 1 <= Limit /\ \A t \in Slots \ {s} : ~Counting(t)
      PROVE  StepInv'
  BY <1>0, <1>1, StoresStay, StepGoesOn
<1>2. ASSUME Taken(s), req[s].at \notin {"enqueue", "commit"}, NEW step \in {"commit", "count", "undo", "unrate", "uncount", "enqueue", "countDB"},
             redis \/ step \in {"undo", "countDB"}
      PROVE  Fits(step, req[s].tx)
  BY <1>2 DEF StepInv, InStep, Fits
<1>3. ASSUME Taken(s), req[s].at \notin {"reserveDB", "countDB", "enqueue", "commit", "undo"} PROVE redis
  BY <1>3 DEF StepInv, InStep, Fits
<1>4. CASE LuaAccepts(s)
  <2>1. /\ Taken(s) /\ req[s].at = "lua" /\ HistoryTyped' /\ dedup' = dedup
        /\ UsageIs(usage.redis + 1, usage.db) /\ Becomes(s, "commit", req[s].tx)
    BY <1>0, <1>4, DoesScript DEF Recorded, At
  <2> QED BY <1>0, <1>1, <1>2, <1>3, <2>1
<1>5. CASE LuaRejects(s)
  <2>1. /\ Taken(s) /\ req[s].at = "lua" /\ HistoryTyped' /\ dedup' = dedup
        /\ usage' = usage /\ Becomes(s, "undo", req[s].tx)
    BY <1>0, <1>5, DoesRefuseScript DEF Recorded, At
  <2> QED BY <1>0, <1>1, <1>2, <1>3, <2>1
<1>6. CASE LuaFails(s)
  <2>1. /\ Taken(s) /\ req[s].at = "lua" /\ HistoryTyped' /\ dedup' = dedup
        /\ usage' = usage \/ UsageIs(usage.redis + 1, usage.db)
        /\ Becomes(s, "count", req[s].tx)
    BY <1>0, <1>6, DoesFailScript DEF Recorded, At
  <2> QED BY <1>0, <1>1, <1>2, <1>3, <2>1
<1>7. ASSUME NEW step \in CountSteps, Increment(s, step) PROVE StepInv'
  <2>1. /\ Taken(s) /\ req[s].at \in CountSteps /\ HistoryTyped' /\ dedup' = dedup
        /\ UsageIs(usage.redis + 1, usage.db)
        /\ \E to \in {"unrate", "uncount", "enqueue"} : Becomes(s, to, req[s].tx)
    BY <1>0, <1>7, DoesIncrement, StepNames DEF Recorded, At
  <2> QED BY <1>0, <1>1, <1>2, <1>3, <2>1 DEF CountSteps
<1>8. ASSUME NEW step \in CountSteps, IncrementFails(s, step) PROVE StepInv'
  <2>1. /\ Taken(s) /\ req[s].at \in CountSteps /\ HistoryTyped' /\ dedup' = dedup
        /\ UsageIs(usage.redis, usage.db) \/ UsageIs(usage.redis + 1, usage.db)
        /\ \E to \in {"enqueue", "countDB"} : Becomes(s, to, req[s].tx)
    BY <1>0, <1>8, DoesIncrementFail, StepNames DEF Recorded, At
  <2> QED BY <1>0, <1>1, <1>2, <1>3, <2>1 DEF CountSteps
<1>9. ASSUME NEW step \in CountSteps, Decrement(s, step) PROVE StepInv'
  <2>1. /\ Taken(s) /\ req[s].at \in {"unrate", "uncount"} /\ HistoryTyped' /\ dedup' = dedup
        /\ UsageIs(usage.redis - 1, usage.db) /\ Becomes(s, "undo", req[s].tx)
    BY <1>0, <1>9, DoesDecrement, StepNames DEF Recorded, At
  <2>2. usage.redis - 1 \in Nat
    BY <1>0, <2>1 DEF Raised
  <2> QED BY <1>0, <1>1, <1>2, <1>3, <2>1, <2>2
<1>10. ASSUME NEW step \in CountSteps, DecrementFails(s, step) PROVE StepInv'
  <2>1. /\ Taken(s) /\ req[s].at \in {"unrate", "uncount"} /\ HistoryTyped' /\ dedup' = dedup
        /\ UsageIs(usage.redis, usage.db) \/ UsageIs(usage.redis - 1, usage.db)
        /\ \E to \in {"enqueue", "countDB"} : Becomes(s, to, req[s].tx)
    BY <1>0, <1>10, DoesDecrementFail, StepNames DEF Recorded, At
  <2>2. usage.redis - 1 \in Nat
    BY <1>0, <2>1 DEF Raised
  <2> QED BY <1>0, <1>1, <1>2, <1>3, <2>1, <2>2
<1>11. CASE CountDB(s)
  <2>1. /\ Taken(s) /\ req[s].at = "countDB" /\ HistoryTyped' /\ dedup' = dedup
        /\ usage' = usage /\ ~Locked(s, "count", Ids)
        /\ \/ Becomes(s, "undo", req[s].tx)
           \/ usage.db + 1 <= Limit /\ Becomes(s, "enqueue", req[s].tx \cup {"count"})
    BY <1>0, <1>11, DoesCountRow DEF Recorded, At
  <2>2. \A t \in Slots \ {s} : ~Counting(t)
    BY <1>0, <2>1, RequestFields DEF Locked, Counting, Taken
  <2>3. Fits("undo", req[s].tx)
    BY <1>2, <2>1
  <2>4. Fits("enqueue", req[s].tx \cup {"count"})
    BY <2>1 DEF StepInv, InStep, Fits
  <2>5. CASE Becomes(s, "undo", req[s].tx)
    BY <1>1, <2>1, <2>3, <2>5
  <2>6. CASE usage.db + 1 <= Limit /\ Becomes(s, "enqueue", req[s].tx \cup {"count"})
    BY <1>1, <2>1, <2>2, <2>4, <2>6
  <2> QED BY <2>1, <2>5, <2>6
<1> QED BY <1>4, <1>5, <1>6, <1>7, <1>8, <1>9, <1>10, <1>11 DEF Quota, CountSteps

LEMMA StepFinish ==
    ASSUME StepInv, NEW s \in Slots, Finish(s) \/ WebCrash(s), QueueGrows(s)
    PROVE  StepInv'
<1>0. /\ Typed /\ ReqTyped /\ rows' \in [Ids -> Nat] /\ redis' = redis
      /\ dedup.redis \in SUBSET Ids /\ dedup.db \in SUBSET Ids
  BY UsageFields DEF StepInv, Typed, QueueGrows
<1>1. ASSUME Taken(s) PROVE Fits(req[s].at, req[s].tx)
  BY <1>1 DEF StepInv, InStep
<1>2. CASE Enqueue(s)
  <2>1. /\ Taken(s) /\ req[s].at = "enqueue" /\ HistoryTyped' /\ redis /\ dedup' = dedup
        /\ usage' = usage /\ Becomes(s, "commit", req[s].tx)
    BY <1>0, <1>2, DoesEnqueue DEF Recorded, At
  <2>2. Fits("commit", req[s].tx)
    BY <1>1, <2>1 DEF Fits
  <2> QED BY <1>0, <2>1, <2>2, StoresStay, StepGoesOn
<1>3. CASE EnqueueFails(s) \/ EnqueueRow(s)
  <2>1. /\ Taken(s) /\ req[s].at = "enqueue" /\ HistoryTyped' /\ dedup' = dedup
        /\ usage' = usage /\ Becomes(s, "commit", req[s].tx \cup {"row"})
    BY <1>0, <1>3, DoesEnqueueFail, DoesEnqueueRow DEF Recorded, At
  <2>2. Fits("commit", req[s].tx \cup {"row"})
    BY <1>1, <2>1 DEF Fits
  <2> QED BY <1>0, <2>1, <2>2, StoresStay, StepGoesOn
<1>4. CASE Commit(s)
  <2>1. Taken(s) /\ Wrote(s) /\ Leaves(s) /\ HistoryTyped'
    BY <1>0, <1>4, DoesCommit
  <2> QED BY <1>0, <2>1, WroteStores, StepEnds
<1>5. CASE DatabaseFails(s)
  <2>1. /\ Taken(s) /\ Becomes(s, "undo", {}) /\ HistoryTyped'
        /\ Wrote(s) \/ (dedup' = dedup /\ usage' = usage)
    BY <1>0, <1>5, DoesFailInTable DEF Recorded
  <2>2. StoresTyped' /\ (usage'.db = usage.db \/ (Counting(s) /\ usage'.db = usage.db + 1))
    BY <1>0, <2>1, WroteStores, StoresStay
  <2>3. Fits("undo", {})
    BY DEF Fits
  <2>4. Typed' /\ Others(s) /\ Fits(req'[s].at, req'[s].tx) /\ ~Counting(s)'
    BY <2>1, <2>2, <2>3 DEF Becomes, Typed, Counting
  <2> QED BY <1>0, <2>2, <2>4, StepKeeps
<1>6. CASE Undo(s)
  <2>1. /\ HistoryTyped' /\ usage' = usage /\ Leaves(s)
        /\ DedupIs(dedup.redis \ {req[s].id}, dedup.db)
    BY <1>0, <1>6, DoesUndo DEF Recorded
  <2> QED BY <1>0, <2>1, StoresStay, StepEnds
<1>7. CASE Refuse(s) \/ WebCrash(s) \/ UndoFails(s)
  <2>1. HistoryTyped' /\ usage' = usage /\ dedup' = dedup /\ Leaves(s)
    BY <1>0, <1>7, DoesRefuse, DoesBreakOff DEF Recorded
  <2> QED BY <1>0, <2>1, StoresStay, StepEnds
<1> QED BY <1>2, <1>3, <1>4, <1>5, <1>6, <1>7 DEF Finish

LEMMA StepArrives ==
    ASSUME StepInv, NEW s \in Slots, Arrives(s), QueueGrows(s)
    PROVE  StepInv'
<1>0. Typed /\ rows' \in [Ids -> Nat] /\ redis' = redis
  BY DEF StepInv, QueueGrows
<1>1. /\ HistoryTyped' /\ usage' = usage /\ dedup' = dedup /\ Others(s) /\ ReqTyped'
      /\ req'[s].at = (IF redis THEN "reserve" ELSE "reserveDB") /\ req'[s].tx = {}
  BY <1>0, DoesArrive DEF Recorded
<1>2. StoresTyped' /\ usage'.db = usage.db
  BY <1>0, <1>1, StoresStay
<1>3. Typed' /\ ~Counting(s)' /\ Fits(req'[s].at, req'[s].tx)
  BY <1>1, <1>2 DEF Typed, Counting, Fits
<1> QED BY <1>0, <1>1, <1>2, <1>3, StepKeeps

-----------------------------------------------------------------------------
(* The quota.  Two sets of requests stand between the counter and what was  *)
(* queued: those let in, and those counted but refused.                     *)

Ones(b) == IF b THEN 1 ELSE 0

\* Only the membership of x changes.
LEMMA SetMoves ==
    ASSUME NEW S, NEW T, NEW x, IsFiniteSet(S), T \ {x} = S \ {x}
    PROVE  /\ IsFiniteSet(T) /\ Cardinality(S) \in Nat /\ Cardinality(T) \in Nat
           /\ Cardinality(T) + Ones(x \in S) = Cardinality(S) + Ones(x \in T)
<1> DEFINE R == S \ {x}
<1>1. IsFiniteSet(R) /\ Cardinality(R) \in Nat
  BY FS_Subset, FS_CardinalityType
<1>2. ASSUME NEW Q, Q \ {x} = R
      PROVE  IsFiniteSet(Q) /\ Cardinality(Q) = Cardinality(R) + Ones(x \in Q)
  <2>1. CASE x \in Q
    <3>1. Q = R \cup {x} /\ x \notin R
      BY <1>2, <2>1
    <3>2. IsFiniteSet(R \cup {x}) /\ Cardinality(R \cup {x}) = Cardinality(R) + 1
      BY <1>1, <3>1, FS_AddElement
    <3> QED BY <2>1, <3>1, <3>2 DEF Ones
  <2>2. CASE x \notin Q
    <3>1. Q = R
      BY <1>2, <2>2
    <3>2. Cardinality(R) + 0 = Cardinality(R)
      BY <1>1
    <3> QED BY <1>1, <2>2, <3>1, <3>2 DEF Ones
  <2> QED BY <2>1, <2>2
<1>3. IsFiniteSet(T) /\ Cardinality(T) = Cardinality(R) + Ones(x \in T)
  BY <1>2
<1>4. Cardinality(S) = Cardinality(R) + Ones(x \in S)
  BY <1>2
<1>5. Ones(x \in S) \in Nat /\ Ones(x \in T) \in Nat
  BY DEF Ones
<1> HIDE DEF R
<1> QED BY <1>1, <1>3, <1>4, <1>5

\* Let through, and not queued yet
LetIn(s) ==
    /\ Taken(s)
    /\ \/ req[s].at \in {"enqueue", "countDB"}
       \/ req[s].at = "commit" /\ "row" \in req[s].tx

AllLetIn == {s \in Slots : LetIn(s)}
AllRaised == {s \in Slots : Raised(s)}

\* A step of s moves nobody else.
LEMMA LedgerSets ==
    ASSUME NEW s \in Slots, Others(s)
    PROVE  /\ Cardinality(AllLetIn) \in Nat /\ Cardinality(AllRaised) \in Nat
           /\ Cardinality(AllLetIn)' \in Nat /\ Cardinality(AllRaised)' \in Nat
           /\ Cardinality(AllLetIn)' + Ones(LetIn(s)) = Cardinality(AllLetIn) + Ones(LetIn(s)')
           /\ Cardinality(AllRaised)' + Ones(Raised(s)) = Cardinality(AllRaised) + Ones(Raised(s)')
<1>1. \A t \in Slots \ {s} : (LetIn(t)' <=> LetIn(t)) /\ (Raised(t)' <=> Raised(t))
  BY DEF Others, LetIn, Raised, Taken, At
<1>2. IsFiniteSet(AllLetIn) /\ IsFiniteSet(AllRaised)
  BY IngestAssumption, FS_Subset DEF AllLetIn, AllRaised
<1>3. AllLetIn' \ {s} = AllLetIn \ {s} /\ AllRaised' \ {s} = AllRaised \ {s}
  BY <1>1 DEF AllLetIn, AllRaised
<1>4. /\ (s \in AllLetIn <=> LetIn(s)) /\ (s \in AllLetIn' <=> LetIn(s)')
      /\ (s \in AllRaised <=> Raised(s)) /\ (s \in AllRaised' <=> Raised(s)')
  BY DEF AllLetIn, AllRaised
<1>5. /\ Ones(s \in AllLetIn) = Ones(LetIn(s)) /\ Ones(s \in AllLetIn') = Ones(LetIn(s)')
      /\ Ones(s \in AllRaised) = Ones(Raised(s)) /\ Ones(s \in AllRaised') = Ones(Raised(s)')
  BY <1>4 DEF Ones
<1>6. /\ Cardinality(AllLetIn) \in Nat /\ Cardinality(AllLetIn') \in Nat
      /\ Cardinality(AllLetIn') + Ones(s \in AllLetIn) = Cardinality(AllLetIn) + Ones(s \in AllLetIn')
  BY <1>2, <1>3, SetMoves
<1>7. /\ Cardinality(AllRaised) \in Nat /\ Cardinality(AllRaised') \in Nat
      /\ Cardinality(AllRaised') + Ones(s \in AllRaised) = Cardinality(AllRaised) + Ones(s \in AllRaised')
  BY <1>2, <1>3, SetMoves
<1> QED BY <1>5, <1>6, <1>7

\* What a step does to the ledger in Redis: q queued, f failed; who is let in, who
\* is counted, and the counter.
Balanced(s, q, f) ==
    /\ usage.redis + Ones(Raised(s)') <= usage'.redis + Ones(Raised(s))
    /\ q + Ones(LetIn(s)') + Ones(Raised(s)') + usage.redis
          <= usage'.redis + f + Ones(LetIn(s)) + Ones(Raised(s))
    /\ q + Ones(LetIn(s)') <= f + Ones(LetIn(s)) \/ usage'.redis <= Limit
    /\ f = 0 /\ ~At(s, "countDB") =>
          q + Ones(LetIn(s)') + Ones(Raised(s)') + usage.redis
             = usage'.redis + Ones(LetIn(s)) + Ones(Raised(s))

\* The same in the table, where Redis is not set
TableBalanced(q, f) ==
    /\ usage'.redis = usage.redis
    /\ q + usage.db <= usage'.db + f
    /\ f = 0 => q + usage.db = usage'.db

Entered(s) == \E q, f \in {0, 1} :
    /\ Counts(s, q, f) /\ Others(s)
    /\ redis => Balanced(s, q, f)
    /\ ~redis => TableBalanced(q, f)

\* A step from one set to another, with the counter in Redis at n
LEMMA Balances ==
    ASSUME redis, NEW s \in Slots, NEW q \in {0, 1}, NEW f \in {0, 1}, NEW n,
           Counts(s, q, f), Others(s), usage'.redis = n,
           NEW was \in 0 .. 1, Ones(LetIn(s)) = was, NEW is \in 0 .. 1, Ones(LetIn(s)') = is,
           NEW up \in 0 .. 1, Ones(Raised(s)) = up, NEW now \in 0 .. 1, Ones(Raised(s)') = now,
           usage.redis + now <= n + up,
           q + is + now + usage.redis <= n + f + was + up,
           q + is <= f + was \/ n <= Limit,
           f = 0 /\ ~At(s, "countDB") => q + is + now + usage.redis = n + was + up
    PROVE  Entered(s)
<1>1. Balanced(s, q, f)
  BY DEF Balanced
<1> QED BY <1>1 DEF Entered

\* A step that leaves the counters alone and lets nobody in
LEMMA BalancesIdly ==
    ASSUME Typed, NEW s \in Slots, NEW f \in {0, 1}, Counts(s, 0, f), Others(s), usage' = usage,
           redis => /\ ~LetIn(s)' /\ ~Raised(s)'
                    /\ f = 1 \/ At(s, "countDB") \/ (~LetIn(s) /\ ~Raised(s))
    PROVE  Entered(s)
<1>1. usage.redis \in Nat /\ usage.db \in Nat
  BY UsageFields DEF Typed
<1>2. /\ Ones(LetIn(s)) \in 0 .. 1 /\ Ones(Raised(s)) \in 0 .. 1
      /\ ~LetIn(s) => Ones(LetIn(s)) = 0
      /\ ~Raised(s) => Ones(Raised(s)) = 0
      /\ redis => Ones(LetIn(s)') = 0 /\ Ones(Raised(s)') = 0
  BY DEF Ones
<1>3. ASSUME NEW was \in 0 .. 1, NEW up \in 0 .. 1
      PROVE  /\ usage.redis + 0 <= usage.redis + up
             /\ 0 + 0 + 0 + usage.redis <= usage.redis + f + was + up
             /\ 0 + 0 <= f + was
             /\ was = 0 /\ up = 0 => 0 + 0 + 0 + usage.redis = usage.redis + was + up
  BY <1>1
<1>4. redis => Balanced(s, 0, f)
  BY <1>2, <1>3 DEF Balanced
<1>5. TableBalanced(0, f)
  BY <1>1 DEF TableBalanced
<1> QED BY <1>4, <1>5 DEF Entered

LEMMA DedupEntered ==
    ASSUME StepInv, NEW s \in Slots, Dedup(s) \/ Arrives(s)
    PROVE  Entered(s)
<1>0. Typed
  BY DEF StepInv
<1>1. ~LetIn(s) /\ ~Raised(s)
  BY DEF Dedup, Arrives, Reserve, ReserveFails, ReserveDB, ReserveDBFails, LetIn, Raised, At, Taken
<1>2. CASE Arrives(s)
  <2>1. /\ Counts(s, 0, 0) /\ Others(s) /\ usage' = usage
        /\ req'[s].at = IF redis THEN "reserve" ELSE "reserveDB"
    BY <1>0, <1>2, DoesArrive DEF Recorded
  <2>2. ~LetIn(s)' /\ ~Raised(s)'
    BY <2>1 DEF LetIn, Raised
  <2> QED BY <1>0, <1>1, <2>1, <2>2, BalancesIdly
<1>3. CASE Dedup(s)
  <2>1. PICK f \in {0, 1} : Counts(s, 0, f)
    BY <1>0, <1>3, DoesReserve, DoesReserveFail, DoesReserveRow, DoesBreakOff DEF Recorded, Dedup
  <2>2. /\ usage' = usage
        /\ \/ Leaves(s)
           \/ \E step \in {"reserve", "reserveDB", AfterKey(s)} :
                 Others(s) /\ req'[s].at = step
    <3>1. CASE Reserve(s)
      BY <1>0, <3>1, DoesReserve DEF Becomes
    <3>2. CASE ReserveFails(s)
      BY <1>0, <3>2, DoesReserveFail DEF Becomes
    <3>3. CASE ReserveDB(s)
      BY <1>0, <3>3, DoesReserveRow DEF Becomes
    <3>4. CASE ReserveDBFails(s)
      BY <1>0, <3>4, DoesBreakOff
    <3> QED BY <1>3, <3>1, <3>2, <3>3, <3>4 DEF Dedup
  <2>3. Others(s) /\ (redis => ~LetIn(s)' /\ ~Raised(s)')
    BY <2>2 DEF Leaves, LetIn, Raised, AfterKey
  <2> QED BY <1>0, <1>1, <2>1, <2>2, <2>3, BalancesIdly
<1> QED BY <1>2, <1>3

LEMMA QuotaEntered ==
    ASSUME StepInv, NEW s \in Slots, Quota(s)
    PROVE  Entered(s)
<1>0. Typed
  BY DEF StepInv
<1>1. /\ usage.redis \in Nat /\ usage.db \in Nat /\ Limit \in Nat
  BY <1>0, UsageFields DEF Typed
<1>2. ASSUME Taken(s), req[s].at \notin {"reserveDB", "countDB", "enqueue", "commit", "undo"} PROVE redis
  BY <1>2 DEF StepInv, InStep, Fits
<1>3. ASSUME Taken(s), "row" \in req[s].tx PROVE req[s].at = "commit"
  BY <1>3 DEF StepInv, InStep, Fits
<1>4. \A r, d : UsageIs(r, d) => usage'.redis = r
  BY DEF UsageIs
<1>5. CASE LuaAccepts(s) \/ LuaFails(s)
  <2>1. /\ Taken(s) /\ req[s].at = "lua"
        /\ \E f \in {0, 1}, to \in {"commit", "count"} :
              /\ Becomes(s, to, req[s].tx)
              /\ \/ Counts(s, 1, f) /\ usage.redis + 1 <= Limit /\ usage'.redis = usage.redis + 1
                 \/ f = 1 /\ Counts(s, 0, f) /\ usage' = usage
    BY <1>0, <1>4, <1>5, DoesScript, DoesFailScript DEF Recorded, At
  <2>2. PICK f \in {0, 1}, to \in {"commit", "count"} :
              /\ Becomes(s, to, req[s].tx)
              /\ \/ Counts(s, 1, f) /\ usage.redis + 1 <= Limit /\ usage'.redis = usage.redis + 1
                 \/ f = 1 /\ Counts(s, 0, f) /\ usage' = usage
    BY <2>1
  <2>3. "row" \notin req[s].tx /\ redis
    BY <1>2, <1>3, <2>1
  <2>4. ~LetIn(s) /\ ~LetIn(s)' /\ ~Raised(s) /\ ~Raised(s)' /\ Others(s)
    BY <2>1, <2>2, <2>3 DEF Becomes, LetIn, Raised
  <2>5. CASE Counts(s, 0, f) /\ f = 1 /\ usage' = usage
    BY <1>0, <2>4, <2>5, BalancesIdly
  <2>6. CASE Counts(s, 1, f) /\ usage.redis + 1 <= Limit /\ usage'.redis = usage.redis + 1
    <3>1. Ones(LetIn(s)) = 0 /\ Ones(LetIn(s)') = 0 /\ Ones(Raised(s)) = 0 /\ Ones(Raised(s)') = 0
      BY <2>4 DEF Ones
    <3>2. /\ usage.redis + 0 <= usage.redis + 1 + 0
          /\ 1 + 0 + 0 + usage.redis <= usage.redis + 1 + f + 0 + 0
          /\ 1 + 0 + 0 + usage.redis = usage.redis + 1 + 0 + 0
          /\ 0 \in 0 .. 1
      BY <1>1
    <3> QED BY <2>3, <2>4, <2>6, <3>1, <3>2, Balances
  <2> QED BY <2>2, <2>5, <2>6
<1>6. CASE LuaRejects(s)
  <2>1. /\ Taken(s) /\ req[s].at = "lua" /\ Counts(s, 0, 0) /\ usage' = usage
        /\ Becomes(s, "undo", req[s].tx)
    BY <1>0, <1>6, DoesRefuseScript DEF Recorded, At
  <2>2. ~LetIn(s) /\ ~LetIn(s)' /\ ~Raised(s) /\ ~Raised(s)' /\ Others(s)
    BY <2>1 DEF Becomes, LetIn, Raised
  <2> QED BY <1>0, <2>1, <2>2, BalancesIdly
<1>7. ASSUME NEW step \in CountSteps, Increment(s, step) PROVE Entered(s)
  <2>1. /\ Taken(s) /\ req[s].at \in CountSteps /\ Counts(s, 0, 0)
        /\ usage'.redis = usage.redis + 1
        /\ \/ \E to \in {"unrate", "uncount"} : Becomes(s, to, req[s].tx)
           \/ ~(usage.redis + 1 > Limit) /\ Becomes(s, "enqueue", req[s].tx)
    BY <1>0, <1>4, <1>7, DoesIncrement, StepNames DEF Recorded, At
  <2>2. redis /\ ~LetIn(s) /\ ~Raised(s) /\ Others(s)
    BY <1>2, <2>1 DEF CountSteps, LetIn, Raised, Becomes
  <2>3. /\ 0 \in 0 .. 1 /\ 1 \in 0 .. 1
        /\ usage.redis + 0 <= usage.redis + 1 + 0 /\ usage.redis + 1 <= usage.redis + 1 + 0
        /\ 0 + 1 + 0 + usage.redis <= usage.redis + 1 + 0 + 0 + 0
        /\ 0 + 1 + 0 + usage.redis = usage.redis + 1 + 0 + 0
        /\ 0 + 0 + 1 + usage.redis <= usage.redis + 1 + 0 + 0 + 0
        /\ 0 + 0 + 1 + usage.redis = usage.redis + 1 + 0 + 0
        /\ 0 + 0 <= 0 + 0
        /\ ~(usage.redis + 1 > Limit) => usage.redis + 1 <= Limit
    BY <1>1
  <2>4. CASE \E to \in {"unrate", "uncount"} : Becomes(s, to, req[s].tx)
    <3>1. ~LetIn(s)' /\ Raised(s)'
      BY <2>4 DEF Becomes, LetIn, Raised
    <3>2. Ones(LetIn(s)) = 0 /\ Ones(LetIn(s)') = 0 /\ Ones(Raised(s)) = 0 /\ Ones(Raised(s)') = 1
      BY <2>2, <3>1 DEF Ones
    <3> QED BY <2>1, <2>2, <2>3, <3>2, Balances
  <2>5. CASE ~(usage.redis + 1 > Limit) /\ Becomes(s, "enqueue", req[s].tx)
    <3>1. LetIn(s)' /\ ~Raised(s)'
      BY <2>5 DEF Becomes, LetIn, Raised
    <3>2. Ones(LetIn(s)) = 0 /\ Ones(LetIn(s)') = 1 /\ Ones(Raised(s)) = 0 /\ Ones(Raised(s)') = 0
      BY <2>2, <3>1 DEF Ones
    <3> QED BY <2>1, <2>2, <2>3, <2>5, <3>2, Balances
  <2> QED BY <2>1, <2>4, <2>5
<1>8. ASSUME NEW step \in CountSteps, IncrementFails(s, step) PROVE Entered(s)
  <2>1. /\ Taken(s) /\ req[s].at \in CountSteps /\ Counts(s, 0, 1)
        /\ usage'.redis = usage.redis \/ usage'.redis = usage.redis + 1
        /\ \E to \in {"enqueue", "countDB"} : Becomes(s, to, req[s].tx)
    BY <1>0, <1>4, <1>8, DoesIncrementFail, StepNames DEF Recorded, At
  <2>2. /\ redis /\ ~LetIn(s) /\ ~Raised(s) /\ LetIn(s)' /\ ~Raised(s)' /\ Others(s)
    BY <1>2, <2>1 DEF CountSteps, LetIn, Raised, Becomes
  <2>3. Ones(LetIn(s)) = 0 /\ Ones(LetIn(s)') = 1 /\ Ones(Raised(s)) = 0 /\ Ones(Raised(s)') = 0
    BY <2>2 DEF Ones
  <2>4. PICK n \in {usage.redis, usage.redis + 1} : usage'.redis = n
    BY <2>1
  <2>5. /\ 0 \in 0 .. 1 /\ 1 \in 0 .. 1 /\ usage.redis + 0 <= n + 0
        /\ 0 + 1 + 0 + usage.redis <= n + 1 + 0 + 0
        /\ 0 + 1 <= 1 + 0 /\ 1 # 0
    BY <1>1
  <2> QED BY <2>1, <2>2, <2>3, <2>4, <2>5, Balances
<1>9. ASSUME NEW step \in CountSteps, Decrement(s, step) PROVE Entered(s)
  <2>1. /\ Taken(s) /\ req[s].at \in {"unrate", "uncount"} /\ Counts(s, 0, 0)
        /\ usage'.redis = usage.redis - 1 /\ Becomes(s, "undo", req[s].tx)
    BY <1>0, <1>4, <1>9, DoesDecrement, StepNames DEF Recorded, At
  <2>2. /\ redis /\ ~LetIn(s) /\ Raised(s) /\ ~LetIn(s)' /\ ~Raised(s)' /\ Others(s)
    BY <1>2, <2>1 DEF LetIn, Raised, Becomes
  <2>3. Ones(LetIn(s)) = 0 /\ Ones(LetIn(s)') = 0 /\ Ones(Raised(s)) = 1 /\ Ones(Raised(s)') = 0
    BY <2>2 DEF Ones
  <2>4. /\ 0 \in 0 .. 1 /\ 1 \in 0 .. 1 /\ usage.redis + 0 <= usage.redis - 1 + 1
        /\ 0 + 0 + 0 + usage.redis <= usage.redis - 1 + 0 + 0 + 1
        /\ 0 + 0 + 0 + usage.redis = usage.redis - 1 + 0 + 1
        /\ 0 + 0 <= 0 + 0
    BY <1>1
  <2> QED BY <2>1, <2>2, <2>3, <2>4, Balances
<1>10. ASSUME NEW step \in CountSteps, DecrementFails(s, step) PROVE Entered(s)
  <2>1. /\ Taken(s) /\ req[s].at \in {"unrate", "uncount"} /\ Counts(s, 0, 1)
        /\ usage'.redis = usage.redis \/ usage'.redis = usage.redis - 1
        /\ \E to \in {"enqueue", "countDB"} : Becomes(s, to, req[s].tx)
    BY <1>0, <1>4, <1>10, DoesDecrementFail, StepNames DEF Recorded, At
  <2>2. /\ redis /\ ~LetIn(s) /\ Raised(s) /\ LetIn(s)' /\ ~Raised(s)' /\ Others(s)
    BY <1>2, <2>1 DEF LetIn, Raised, Becomes
  <2>3. Ones(LetIn(s)) = 0 /\ Ones(LetIn(s)') = 1 /\ Ones(Raised(s)) = 1 /\ Ones(Raised(s)') = 0
    BY <2>2 DEF Ones
  <2>4. PICK n \in {usage.redis, usage.redis - 1} : usage'.redis = n
    BY <2>1
  <2>5. /\ 0 \in 0 .. 1 /\ 1 \in 0 .. 1 /\ usage.redis + 0 <= n + 1
        /\ 0 + 1 + 0 + usage.redis <= n + 1 + 0 + 1
        /\ 0 + 1 <= 1 + 0 /\ 1 # 0
    BY <1>1
  <2> QED BY <2>1, <2>2, <2>3, <2>4, <2>5, Balances
<1>11. CASE CountDB(s)
  <2>1. /\ Taken(s) /\ req[s].at = "countDB" /\ At(s, "countDB") /\ Counts(s, 0, 0) /\ usage' = usage
        /\ \/ Becomes(s, "undo", req[s].tx)
           \/ Becomes(s, "enqueue", req[s].tx \cup {"count"})
    BY <1>0, <1>11, DoesCountRow DEF Recorded, At
  <2>2. LetIn(s) /\ ~Raised(s) /\ ~Raised(s)' /\ Others(s)
    BY <2>1 DEF LetIn, Raised, Becomes
  <2>3. CASE Becomes(s, "undo", req[s].tx)
    <3>1. ~LetIn(s)'
      BY <2>3 DEF LetIn, Becomes
    <3> QED BY <1>0, <2>1, <2>2, <3>1, BalancesIdly
  <2>4. CASE Becomes(s, "enqueue", req[s].tx \cup {"count"})
    <3>1. LetIn(s)'
      BY <2>4 DEF LetIn, Becomes
    <3>2. Ones(LetIn(s)) = 1 /\ Ones(LetIn(s)') = 1 /\ Ones(Raised(s)) = 0 /\ Ones(Raised(s)') = 0
      BY <2>2, <3>1 DEF Ones
    <3>3. /\ 0 \in 0 .. 1 /\ 1 \in 0 .. 1 /\ usage.redis + 0 <= usage.redis + 0
          /\ 0 + 1 + 0 + usage.redis <= usage.redis + 0 + 1 + 0
          /\ 0 + 1 + 0 + usage.redis = usage.redis + 1 + 0
          /\ 0 + 1 <= 0 + 1
      BY <1>1
    <3>4. CASE redis
      BY <2>1, <2>2, <3>2, <3>3, <3>4, Balances
    <3>5. CASE ~redis
      BY <1>0, <2>1, <2>2, <3>5, BalancesIdly
    <3> QED BY <3>4, <3>5
  <2> QED BY <2>1, <2>3, <2>4
<1> QED BY <1>5, <1>6, <1>7, <1>8, <1>9, <1>10, <1>11 DEF Quota, CountSteps

\* The commit of an outbox row: what is queued now was let in, or is counted now.
LEMMA WroteEntered ==
    ASSUME StepInv, NEW s \in Slots, Taken(s), At(s, "commit"), Wrote(s), NEW f \in {0, 1},
           Counts(s, One(s, "row"), f), Others(s), ~LetIn(s)', ~Raised(s)'
    PROVE  Entered(s)
<1>1. Typed /\ Fits("commit", req[s].tx)
  BY DEF StepInv, InStep, At
<1>2. usage.redis \in Nat /\ usage.db \in Nat
  BY <1>1, UsageFields DEF Typed
<1>3. usage'.redis = usage.redis /\ usage'.db = usage.db + One(s, "count")
  BY DEF Wrote, UsageIs
<1>4. /\ One(s, "row") = Ones(LetIn(s)) /\ One(s, "row") \in {0, 1} /\ One(s, "row") \in 0 .. 1
      /\ Ones(LetIn(s)') = 0 /\ Ones(Raised(s)) = 0 /\ Ones(Raised(s)') = 0
  BY DEF One, Ones, LetIn, Raised, At
<1>5. CASE redis
  <2>1. ASSUME NEW q \in {0, 1}
        PROVE  /\ 0 \in 0 .. 1 /\ usage.redis + 0 <= usage.redis + 0
               /\ q + 0 + 0 + usage.redis <= usage.redis + f + q + 0
               /\ q + 0 <= f + q
               /\ f = 0 => q + 0 + 0 + usage.redis = usage.redis + q + 0
    BY <1>2
  <2>2. PICK q \in {0, 1} : q = One(s, "row") /\ q \in 0 .. 1
    BY <1>4
  <2>3. Counts(s, q, f) /\ Ones(LetIn(s)) = q
    BY <1>4, <2>2
  <2>4. Balanced(s, q, f)
    BY <1>3, <1>4, <2>1, <2>3 DEF Balanced
  <2> QED BY <1>5, <2>3, <2>4 DEF Entered
<1>6. CASE ~redis
  <2>1. One(s, "count") = 1 /\ One(s, "row") = 1
    BY <1>1, <1>6 DEF Fits, One
  <2>2. TableBalanced(1, f)
    BY <1>2, <1>3, <2>1 DEF TableBalanced
  <2> QED BY <1>6, <2>1, <2>2 DEF Entered
<1> QED BY <1>5, <1>6

LEMMA FinishEntered ==
    ASSUME StepInv, NEW s \in Slots, Finish(s) \/ WebCrash(s)
    PROVE  Entered(s)
<1>0. Typed
  BY DEF StepInv
<1>1. usage.redis \in Nat /\ usage.db \in Nat
  BY <1>0, UsageFields DEF Typed
<1>2. ASSUME Taken(s), "row" \in req[s].tx PROVE req[s].at = "commit"
  BY <1>2 DEF StepInv, InStep, Fits
<1>3. CASE Enqueue(s)
  <2>1. /\ Taken(s) /\ req[s].at = "enqueue" /\ redis /\ Counts(s, 1, 0) /\ usage' = usage
        /\ Becomes(s, "commit", req[s].tx)
    BY <1>0, <1>3, DoesEnqueue DEF Recorded, At
  <2>2. LetIn(s) /\ ~LetIn(s)' /\ ~Raised(s) /\ ~Raised(s)' /\ Others(s)
    BY <1>2, <2>1 DEF LetIn, Raised, Becomes
  <2>3. Ones(LetIn(s)) = 1 /\ Ones(LetIn(s)') = 0 /\ Ones(Raised(s)) = 0 /\ Ones(Raised(s)') = 0
    BY <2>2 DEF Ones
  <2>4. /\ 0 \in 0 .. 1 /\ 1 \in 0 .. 1 /\ usage.redis + 0 <= usage.redis + 0
        /\ 1 + 0 + 0 + usage.redis <= usage.redis + 0 + 1 + 0
        /\ 1 + 0 + 0 + usage.redis = usage.redis + 1 + 0
        /\ 1 + 0 <= 0 + 1
    BY <1>1
  <2> QED BY <2>1, <2>2, <2>3, <2>4, Balances
<1>4. CASE EnqueueFails(s)
  <2>1. /\ Taken(s) /\ req[s].at = "enqueue" /\ redis /\ usage' = usage
        /\ Counts(s, 0, 1) \/ Counts(s, 1, 1)
        /\ Becomes(s, "commit", req[s].tx \cup {"row"})
    BY <1>0, <1>4, DoesEnqueueFail DEF Recorded, At
  <2>2. LetIn(s) /\ LetIn(s)' /\ ~Raised(s) /\ ~Raised(s)' /\ Others(s)
    BY <2>1 DEF LetIn, Raised, Becomes
  <2>3. Ones(LetIn(s)) = 1 /\ Ones(LetIn(s)') = 1 /\ Ones(Raised(s)) = 0 /\ Ones(Raised(s)') = 0
    BY <2>2 DEF Ones
  <2>4. PICK q \in {0, 1} : Counts(s, q, 1)
    BY <2>1
  <2>5. /\ 0 \in 0 .. 1 /\ 1 \in 0 .. 1 /\ usage.redis + 0 <= usage.redis + 0
        /\ q + 1 + 0 + usage.redis <= usage.redis + 1 + 1 + 0
        /\ q + 1 <= 1 + 1 /\ 1 # 0
    BY <1>1
  <2> QED BY <2>1, <2>2, <2>3, <2>4, <2>5, Balances
<1>5. CASE EnqueueRow(s)
  <2>1. ~redis /\ Counts(s, 0, 0) /\ usage' = usage /\ Others(s)
    BY <1>0, <1>5, DoesEnqueueRow DEF Recorded, Becomes
  <2> QED BY <1>0, <2>1, BalancesIdly
<1>6. CASE Commit(s)
  <2>1. Taken(s) /\ At(s, "commit") /\ Wrote(s) /\ Leaves(s) /\ Counts(s, One(s, "row"), 0)
    BY <1>0, <1>6, DoesCommit
  <2>2. ~LetIn(s)' /\ ~Raised(s)' /\ Others(s)
    BY <2>1 DEF Leaves, LetIn, Raised
  <2> QED BY <2>1, <2>2, WroteEntered
<1>7. CASE DatabaseFails(s)
  <2>1. /\ Taken(s) /\ Becomes(s, "undo", {})
        /\ \/ Counts(s, 0, 1) /\ usage' = usage
           \/ At(s, "commit") /\ Wrote(s) /\ Counts(s, One(s, "row"), 1)
    BY <1>0, <1>7, DoesFailInTable DEF Recorded
  <2>2. ~LetIn(s)' /\ ~Raised(s)' /\ Others(s)
    BY <2>1 DEF Becomes, LetIn, Raised
  <2>3. CASE Counts(s, 0, 1) /\ usage' = usage
    BY <1>0, <2>2, <2>3, BalancesIdly
  <2>4. CASE At(s, "commit") /\ Wrote(s) /\ Counts(s, One(s, "row"), 1)
    BY <2>1, <2>2, <2>4, WroteEntered
  <2> QED BY <2>1, <2>3, <2>4
<1>8. CASE Undo(s) \/ Refuse(s)
  <2>1. Taken(s) /\ At(s, "undo") /\ Counts(s, 0, 0) /\ usage' = usage /\ Leaves(s)
    BY <1>0, <1>8, DoesUndo, DoesRefuse DEF Recorded
  <2>2. ~LetIn(s) /\ ~LetIn(s)' /\ ~Raised(s) /\ ~Raised(s)' /\ Others(s)
    BY <2>1 DEF LetIn, Raised, Leaves, At
  <2> QED BY <1>0, <2>1, <2>2, BalancesIdly
<1>9. CASE UndoFails(s) \/ WebCrash(s)
  <2>1. Counts(s, 0, 1) /\ usage' = usage /\ Leaves(s)
    BY <1>0, <1>9, DoesBreakOff DEF Recorded
  <2>2. ~LetIn(s)' /\ ~Raised(s)' /\ Others(s)
    BY <2>1 DEF LetIn, Raised, Leaves
  <2> QED BY <1>0, <2>1, <2>2, BalancesIdly
<1> QED BY <1>3, <1>4, <1>5, <1>6, <1>7, <1>8, <1>9 DEF Finish

\* What was queued and will be, but for what a failure let in, is counted in Redis,
\* and was within the limit when it was counted; in the table, when Redis is not set.
RedisLedger ==
    redis => /\ Cardinality(AllRaised) <= usage.redis
             /\ past.total + Cardinality(AllLetIn) + Cardinality(AllRaised) <= usage.redis + Mishaps
             /\ past.total + Cardinality(AllLetIn) <= Limit + Mishaps
TableLedger == ~redis => usage.redis = 0 /\ past.total <= usage.db + Mishaps

\* While nothing has failed, the counts are exact, and with Redis nobody asks the tables.
ExactStep(s) == Taken(s) => req[s].at \notin {"reserveDB", "countDB"} /\ req[s].tx = {}
ExactLedger ==
    Mishaps = 0 =>
        /\ redis => /\ usage.redis = past.total + Cardinality(AllLetIn) + Cardinality(AllRaised)
                    /\ usage.db = 0
                    /\ \A s \in Slots : ExactStep(s)
        /\ ~redis => past.total = usage.db

QuotaInv == StepInv /\ RedisLedger /\ TableLedger
ExactInv == QuotaInv /\ ExactLedger

LEMMA LedgerNext ==
    ASSUME QuotaInv, NEW s \in Slots, Entered(s), redis' = redis, Typed'
    PROVE  RedisLedger' /\ TableLedger'
<1>1. Typed
  BY DEF QuotaInv, StepInv
<1>2. PICK q \in {0, 1}, f \in {0, 1} :
        /\ Counts(s, q, f) /\ Others(s)
        /\ redis => Balanced(s, q, f)
        /\ ~redis => TableBalanced(q, f)
  BY DEF Entered
<1>3. /\ usage.redis \in Nat /\ usage.db \in Nat /\ past.total \in Nat /\ Mishaps \in Nat /\ Limit \in Nat
      /\ past'.total = past.total + q /\ Mishaps' = Mishaps + f
  BY <1>1, <1>2, UsageFields, SpentFields DEF Typed, Counts
<1>4. usage'.redis \in Nat /\ usage'.db \in Nat
  BY IngestAssumption DEF Typed, StoresTyped
<1>5. CASE redis
  <2>1. Balanced(s, q, f) /\ RedisLedger
    BY <1>2, <1>5 DEF QuotaInv
  <2>2. /\ Cardinality(AllLetIn) \in Nat /\ Cardinality(AllRaised) \in Nat
        /\ Cardinality(AllLetIn)' \in Nat /\ Cardinality(AllRaised)' \in Nat
        /\ Cardinality(AllLetIn)' + Ones(LetIn(s)) = Cardinality(AllLetIn) + Ones(LetIn(s)')
        /\ Cardinality(AllRaised)' + Ones(Raised(s)) = Cardinality(AllRaised) + Ones(Raised(s)')
    BY <1>2, LedgerSets
  <2>3. /\ Ones(LetIn(s)) \in Nat /\ Ones(LetIn(s)') \in Nat
        /\ Ones(Raised(s)) \in Nat /\ Ones(Raised(s)') \in Nat
    BY DEF Ones
  <2>4. Cardinality(AllRaised)' <= usage'.redis
    BY <1>3, <1>4, <1>5, <2>1, <2>2, <2>3 DEF RedisLedger, Balanced
  <2>5. past'.total + Cardinality(AllLetIn)' + Cardinality(AllRaised)' <= usage'.redis + Mishaps'
    BY <1>3, <1>4, <1>5, <2>1, <2>2, <2>3 DEF RedisLedger, Balanced
  <2>6. past'.total + Cardinality(AllLetIn)' <= Limit + Mishaps'
    <3>1. CASE q + Ones(LetIn(s)') <= f + Ones(LetIn(s))
      BY <1>3, <1>5, <2>1, <2>2, <2>3, <3>1 DEF RedisLedger
    <3>2. CASE usage'.redis <= Limit
      <4>1. Mishaps' \in Nat /\ past'.total \in Nat
        BY <1>3
      <4> QED BY <1>3, <1>4, <2>2, <2>5, <3>2, <4>1
    <3> QED BY <2>1, <3>1, <3>2 DEF Balanced
  <2>7. RedisLedger'
    BY <2>4, <2>5, <2>6 DEF RedisLedger
  <2> QED BY <1>5, <2>7 DEF TableLedger
<1>6. CASE ~redis
  <2>1. TableBalanced(q, f) /\ usage.redis = 0 /\ past.total <= usage.db + Mishaps
    BY <1>2, <1>6 DEF QuotaInv, TableLedger
  <2>2. usage'.redis = 0 /\ past'.total <= usage'.db + Mishaps'
    BY <1>3, <1>4, <2>1 DEF TableBalanced
  <2> QED BY <1>6, <2>2 DEF TableLedger, RedisLedger
<1> QED BY <1>5, <1>6

LEMMA Within == QuotaInv => QuotaHolds
<1> SUFFICES ASSUME QuotaInv PROVE past.total <= Limit + Mishaps
  BY DEF QuotaHolds
<1>1. Typed
  BY DEF QuotaInv, StepInv
<1>2. /\ usage.db \in Nat /\ usage.db <= Limit /\ Limit \in Nat /\ Mishaps \in Nat /\ past.total \in Nat
  BY <1>1, UsageFields, SpentFields DEF Typed
<1>3. CASE redis
  <2>1. Cardinality(AllLetIn) \in Nat
    BY IngestAssumption, FS_Subset, FS_CardinalityType DEF AllLetIn
  <2> QED BY <1>2, <1>3, <2>1 DEF QuotaInv, RedisLedger
<1>4. CASE ~redis
  BY <1>2, <1>4 DEF QuotaInv, TableLedger
<1> QED BY <1>3, <1>4

\* Whoever is about to take a count back has counted.
LEMMA RaisedCounts == ASSUME QuotaInv, NEW s \in Slots, Raised(s) PROVE usage.redis >= 1
<1>1. Typed
  BY DEF QuotaInv, StepInv
<1>2. redis
  BY DEF QuotaInv, StepInv, InStep, Fits, Raised
<1>3. IsFiniteSet(AllRaised) /\ s \in AllRaised
  BY IngestAssumption, FS_Subset DEF AllRaised
<1>4. Cardinality(AllRaised) \in Nat /\ Cardinality(AllRaised) # 0
  BY <1>3, FS_CardinalityType, FS_EmptySet
<1>5. usage.redis \in Nat /\ Cardinality(AllRaised) <= usage.redis
  BY <1>1, <1>2, UsageFields DEF QuotaInv, RedisLedger, Typed
<1> QED BY <1>4, <1>5

\* Every step of a request
LEMMA RequestQuota == ASSUME QuotaInv, NEW s \in Slots, Request(s) PROVE QuotaInv' /\ Entered(s)
<1>1. StepInv /\ Typed
  BY DEF QuotaInv, StepInv
<1>2. QueueGrows(s)
  BY <1>1, RequestsGrow
<1>3. Entered(s)
  BY <1>1, DedupEntered, QuotaEntered, FinishEntered DEF Request
<1>4. StepInv'
  BY <1>1, <1>2, RaisedCounts, StepArrives, StepDedup, StepQuota, StepFinish DEF Request
<1>5. RedisLedger' /\ TableLedger'
  BY <1>2, <1>3, <1>4, LedgerNext DEF StepInv, QueueGrows
<1> QED BY <1>3, <1>4, <1>5 DEF QuotaInv

\* With Redis, and no failure: nobody comes to ask the tables, and no count is written there.
LEMMA StaysExact ==
    ASSUME StepInv, redis, NEW s \in Slots, ExactStep(s), Request(s), Mishaps' = Mishaps
    PROVE  ExactStep(s)' /\ usage'.db = usage.db /\ ~At(s, "countDB")
<1>0. Typed /\ Mishaps \in Nat /\ Mishaps + 1 # Mishaps
  <2>1. Typed
    BY DEF StepInv
  <2> QED BY <2>1, SpentFields DEF Typed
<1>1. \A q : ~Counts(s, q, 1)
  BY <1>0 DEF Counts
<1>2. ASSUME NEW step \in Steps \ {"reserveDB", "countDB"}, Becomes(s, step, req[s].tx)
      PROVE  ExactStep(s)'
  BY <1>2 DEF ExactStep, Becomes
<1>3. Leaves(s) => ExactStep(s)'
  BY DEF ExactStep, Leaves
<1>4. \A r, d : UsageIs(r, d) => usage'.db = d
  BY DEF UsageIs
<1>5. ~At(s, "countDB") /\ ~At(s, "reserveDB")
  BY DEF ExactStep, Taken, At
<1>6. CASE Arrives(s)
  <2>1. req'[s].at = "reserve" /\ req'[s].tx = {} /\ usage' = usage
    BY <1>0, <1>6, DoesArrive
  <2> QED BY <1>5, <2>1 DEF ExactStep
<1>7. CASE Dedup(s)
  <2>1. Reserve(s)
    BY <1>0, <1>1, <1>5, <1>7, DoesReserveFail, DoesReserveRow, DoesBreakOff DEF Dedup, Recorded
  <2>2. usage' = usage /\ (Leaves(s) \/ Becomes(s, AfterKey(s), req[s].tx))
    BY <1>0, <2>1, DoesReserve
  <2>3. AfterKey(s) \in Steps \ {"reserveDB", "countDB"}
    BY DEF AfterKey, Steps
  <2> QED BY <1>2, <1>3, <1>5, <2>2, <2>3
<1>8. CASE Quota(s)
  <2>1. CASE LuaAccepts(s)
    BY <1>0, <1>2, <1>4, <1>5, <2>1, DoesScript DEF Steps
  <2>2. CASE LuaRejects(s)
    BY <1>0, <1>2, <1>5, <2>2, DoesRefuseScript DEF Steps
  <2>3. CASE LuaFails(s) \/ CountDB(s)
    BY <1>0, <1>1, <1>5, <2>3, DoesFailScript, DoesCountRow DEF Recorded
  <2>4. ASSUME NEW step \in CountSteps, Increment(s, step)
        PROVE  ExactStep(s)' /\ usage'.db = usage.db
    <3>1. /\ usage'.db = usage.db
          /\ \E to \in {"unrate", "uncount", "enqueue"} : Becomes(s, to, req[s].tx)
      BY <1>0, <1>4, <2>4, DoesIncrement, StepNames
    <3> QED BY <1>2, <3>1 DEF Steps
  <2>5. ASSUME NEW step \in CountSteps, Decrement(s, step)
        PROVE  ExactStep(s)' /\ usage'.db = usage.db
    BY <1>0, <1>2, <1>4, <2>5, DoesDecrement DEF Steps
  <2>6. ASSUME NEW step \in CountSteps PROVE ~IncrementFails(s, step) /\ ~DecrementFails(s, step)
    BY <1>0, <1>1, <2>6, DoesIncrementFail, DoesDecrementFail DEF Recorded
  <2> QED BY <1>5, <1>8, <2>1, <2>2, <2>3, <2>4, <2>5, <2>6 DEF Quota, CountSteps
<1>9. CASE Finish(s) \/ WebCrash(s)
  <2>1. CASE Enqueue(s)
    BY <1>0, <1>2, <1>5, <2>1, DoesEnqueue DEF Steps
  <2>2. CASE Commit(s)
    <3>1. Taken(s) /\ Wrote(s) /\ Leaves(s)
      BY <1>0, <2>2, DoesCommit
    <3>2. One(s, "count") = 0 /\ usage'.db = usage.db + One(s, "count")
      BY <1>4, <3>1 DEF ExactStep, One, Wrote
    <3>3. usage.db + 0 = usage.db
      BY <1>0, UsageFields DEF Typed
    <3> QED BY <1>3, <1>5, <3>1, <3>2, <3>3
  <2>3. CASE Undo(s) \/ Refuse(s)
    BY <1>0, <1>3, <1>5, <2>3, DoesUndo, DoesRefuse
  <2>4. CASE EnqueueFails(s) \/ DatabaseFails(s) \/ UndoFails(s) \/ WebCrash(s)
    BY <1>0, <1>1, <2>4, DoesEnqueueFail, DoesFailInTable, DoesBreakOff DEF Recorded
  <2>5. ~EnqueueRow(s)
    BY DEF EnqueueRow
  <2> QED BY <1>9, <2>1, <2>2, <2>3, <2>4, <2>5 DEF Finish
<1> QED BY <1>6, <1>7, <1>8, <1>9 DEF Request

\* What every step keeps: the bridge's own invariant, the types, the ledgers.
BaseInv == AckInv /\ QuotaInv

LEMMA BaseInit == Init => BaseInv
<1> SUFFICES ASSUME Init PROVE BaseInv
  OBVIOUS
<1>1. AckInv /\ rows \in [Ids -> Nat]
  BY AckInvInit DEF Init, StreamInit
<1>2. \A s \in Slots : ~Taken(s)
  BY DEF Init, Taken, At, Free
<1>3. Typed
  <2>1. ReqTyped /\ StoresTyped
    BY <1>1, IngestAssumption DEF Init, ReqTyped, StoresTyped
  <2>2. HistoryTyped
    BY IngestAssumption DEF Init, HistoryTyped
  <2> QED BY <2>1, <2>2 DEF Typed
<1>4. StepInv
  BY <1>2, <1>3 DEF StepInv, Init, InStep, OneCounts, RoomForCount, Counting
<1>5. AllLetIn = {} /\ AllRaised = {}
  BY <1>2 DEF AllLetIn, AllRaised, LetIn, Raised
<1>6. Cardinality(AllLetIn) = 0 /\ Cardinality(AllRaised) = 0
  BY <1>5, FS_EmptySet
<1>7. usage.redis = 0 /\ usage.db = 0 /\ past.total = 0 /\ Mishaps = 0 /\ Limit \in Nat
  BY IngestAssumption DEF Init, Mishaps
<1>8. RedisLedger /\ TableLedger
  BY <1>6, <1>7 DEF RedisLedger, TableLedger
<1> QED BY <1>1, <1>4, <1>8 DEF BaseInv, QuotaInv

\* A step of the bridge, or none, leaves the requests and their stores alone.
RequestsRest == UNCHANGED <<redis, req, dedup, usage, past, spent>>

LEMMA QuotaRests ==
    ASSUME QuotaInv, RequestsRest, rows' \in [Ids -> Nat]
    PROVE  QuotaInv' /\ (ExactLedger => ExactLedger')
<1>1. UNCHANGED <<redis, req, dedup, usage, past, spent>>
  BY DEF RequestsRest
<1>2. Mishaps' = Mishaps /\ AllLetIn' = AllLetIn /\ AllRaised' = AllRaised
  BY <1>1 DEF Mishaps, AllLetIn, AllRaised, LetIn, Raised, Taken, At
<1>3. Typed'
  BY <1>1 DEF QuotaInv, StepInv, Typed, ReqTyped, HistoryTyped, StoresTyped
<1>4. InStep' /\ OneCounts' /\ RoomForCount'
  BY <1>1 DEF QuotaInv, StepInv, InStep, Fits, OneCounts, RoomForCount, Counting, Taken, At
<1>5. RedisLedger' /\ TableLedger'
  BY <1>1, <1>2 DEF QuotaInv, RedisLedger, TableLedger
<1>6. ExactLedger => ExactLedger'
  BY <1>1, <1>2 DEF ExactLedger, ExactStep, Taken, At
<1> QED BY <1>1, <1>3, <1>4, <1>5, <1>6 DEF QuotaInv, StepInv

\* The three kinds of steps
LEMMA BaseNext ==
    ASSUME BaseInv, [Next]_vars
    PROVE  /\ BaseInv'
           /\ RequestsRest \/ \E s \in Slots : Request(s)
<1>1. AckInv /\ QuotaInv /\ Typed /\ ReqTyped
  BY DEF BaseInv, QuotaInv, StepInv, Typed
<1>2. ASSUME NEW s \in Slots, Request(s) PROVE BaseInv'
  BY <1>1, <1>2, RequestsGrow, AckInvGrows, RequestQuota DEF BaseInv
<1>3. CASE Bridge \/ UNCHANGED vars
  <2>1. [BridgeNext]_streamVars /\ RequestsRest
    BY <1>3 DEF Bridge, vars, streamVars, BridgeNext, RequestsRest
  <2>2. AckInv'
    BY <1>1, <2>1, AckInvNext
  <2>3. rows' \in [Ids -> Nat]
    BY <2>2 DEF AckInv, StreamTypeOK
  <2> QED BY <1>1, <2>1, <2>2, <2>3, QuotaRests DEF BaseInv
<1> QED BY <1>2, <1>3 DEF Next, Bridge, RequestsRest, vars

\* The types of EventIngest.
THEOREM IngestTypes == Spec => []TypeOK
<1>1. Init => BaseInv
  BY BaseInit
<1>2. BaseInv /\ [Next]_vars => BaseInv'
  BY BaseNext
<1>3. BaseInv => TypeOK
  BY DEF BaseInv, AckInv, QuotaInv, StepInv, Typed, ReqTyped, HistoryTyped, StoresTyped, TypeOK
<1> QED BY <1>1, <1>2, <1>3, PTL DEF Spec

\* The counter's two stores and the calls between them let no event over the limit,
\* but for one with each call that failed and each process that died: for every
\* number of requests at once, with Redis and without.
THEOREM QuotaIsKept == Spec => []QuotaHolds
<1>1. Init => BaseInv
  BY BaseInit
<1>2. BaseInv /\ [Next]_vars => BaseInv'
  BY BaseNext
<1>3. BaseInv => QuotaHolds
  BY Within DEF BaseInv
<1> QED BY <1>1, <1>2, <1>3, PTL DEF Spec

LEMMA ExactNext ==
    ASSUME QuotaInv, ExactLedger, NEW s \in Slots, Request(s)
    PROVE  ExactLedger'
<1>1. QuotaInv' /\ Entered(s) /\ StepInv /\ Typed /\ Typed'
  BY RequestQuota DEF QuotaInv, StepInv
<1>2. PICK q \in {0, 1}, f \in {0, 1} :
        /\ Counts(s, q, f) /\ Others(s)
        /\ redis => Balanced(s, q, f)
        /\ ~redis => TableBalanced(q, f)
  BY <1>1 DEF Entered
<1>3. SUFFICES ASSUME Mishaps' = 0 PROVE ExactLedger'
  BY DEF ExactLedger
<1>4. /\ Mishaps \in Nat /\ Mishaps' = Mishaps + f /\ past.total \in Nat /\ past'.total = past.total + q
      /\ usage.redis \in Nat /\ usage.db \in Nat /\ redis' = redis
  BY <1>1, <1>2, SpentFields, UsageFields, RequestsGrow DEF Counts, Typed, QueueGrows
<1>5. f = 0 /\ Mishaps = 0 /\ Mishaps' = Mishaps
  BY <1>3, <1>4
<1>6. CASE redis
  <2>1. /\ usage.redis = past.total + Cardinality(AllLetIn) + Cardinality(AllRaised)
        /\ usage.db = 0
        /\ \A t \in Slots : ExactStep(t)
    BY <1>5, <1>6 DEF ExactLedger
  <2>2. ExactStep(s)' /\ usage'.db = 0 /\ ~At(s, "countDB")
    BY <1>1, <1>5, <1>6, <2>1, StaysExact
  <2>3. \A t \in Slots : ExactStep(t)'
    BY <1>2, <2>1, <2>2 DEF Others, ExactStep, Taken, At
  <2>4. q + Ones(LetIn(s)') + Ones(Raised(s)') + usage.redis
           = usage'.redis + Ones(LetIn(s)) + Ones(Raised(s))
    BY <1>2, <1>5, <1>6, <2>2 DEF Balanced
  <2>5. usage'.redis \in Nat
    BY <1>1 DEF Typed, StoresTyped
  <2>6. /\ Ones(LetIn(s)) \in Nat /\ Ones(LetIn(s)') \in Nat
        /\ Ones(Raised(s)) \in Nat /\ Ones(Raised(s)') \in Nat
    BY DEF Ones
  <2>7. usage'.redis = past'.total + Cardinality(AllLetIn)' + Cardinality(AllRaised)'
    <3>1. /\ Cardinality(AllLetIn) \in Nat /\ Cardinality(AllRaised) \in Nat
          /\ Cardinality(AllLetIn)' \in Nat /\ Cardinality(AllRaised)' \in Nat
          /\ Cardinality(AllLetIn)' + Ones(LetIn(s)) = Cardinality(AllLetIn) + Ones(LetIn(s)')
          /\ Cardinality(AllRaised)' + Ones(Raised(s)) = Cardinality(AllRaised) + Ones(Raised(s)')
      BY <1>2, LedgerSets
    <3>2. q \in Nat /\ past.total \in Nat /\ past'.total = past.total + q /\ usage.redis \in Nat
      BY <1>4
    <3>3. usage'.redis <= past.total + q + Cardinality(AllLetIn)' + Cardinality(AllRaised)'
      BY <2>1, <2>4, <2>5, <2>6, <3>1, <3>2
    <3>4. past.total + q + Cardinality(AllLetIn)' + Cardinality(AllRaised)' <= usage'.redis
      BY <2>1, <2>4, <2>5, <2>6, <3>1, <3>2
    <3> QED BY <2>5, <3>1, <3>2, <3>3, <3>4
  <2> QED BY <1>4, <1>6, <2>2, <2>3, <2>7 DEF ExactLedger
<1>7. CASE ~redis
  <2>1. past.total = usage.db /\ q + usage.db = usage'.db
    BY <1>2, <1>5, <1>7 DEF ExactLedger, TableBalanced
  <2> QED BY <1>4, <1>7, <2>1 DEF ExactLedger
<1> QED BY <1>6, <1>7

\* When nothing has failed and nothing is under way, what the two counters show is
\* what was queued: nothing is charged that was not queued, and nothing was queued
\* free of charge.
THEOREM QuotaIsExact == Spec => []QuotaExact
<1>1. Init => BaseInv /\ ExactLedger
  <2> SUFFICES ASSUME Init PROVE BaseInv /\ ExactLedger
    OBVIOUS
  <2>1. \A s \in Slots : ~Taken(s)
    BY DEF Init, Taken, At, Free
  <2>2. AllLetIn = {} /\ AllRaised = {}
    BY <2>1 DEF AllLetIn, AllRaised, LetIn, Raised
  <2>3. Cardinality(AllLetIn) = 0 /\ Cardinality(AllRaised) = 0
    BY <2>2, FS_EmptySet
  <2> QED BY <2>1, <2>3, BaseInit DEF Init, ExactLedger, ExactStep
<1>2. BaseInv /\ ExactLedger /\ [Next]_vars => BaseInv' /\ ExactLedger'
  <2> SUFFICES ASSUME BaseInv, ExactLedger, [Next]_vars PROVE BaseInv' /\ ExactLedger'
    OBVIOUS
  <2>1. BaseInv' /\ QuotaInv /\ (RequestsRest \/ \E s \in Slots : Request(s))
    BY BaseNext DEF BaseInv
  <2>2. rows' \in [Ids -> Nat]
    BY <2>1 DEF BaseInv, AckInv, StreamTypeOK
  <2> QED BY <2>1, <2>2, QuotaRests, ExactNext
<1>3. BaseInv /\ ExactLedger => QuotaExact
  <2> SUFFICES ASSUME BaseInv, ExactLedger, Quiet, Mishaps = 0
               PROVE  usage.redis + usage.db = past.total
    BY DEF QuotaExact
  <2>1. AllLetIn = {} /\ AllRaised = {}
    BY DEF Quiet, AllLetIn, AllRaised, LetIn, Raised, Taken
  <2>2. Cardinality(AllLetIn) = 0 /\ Cardinality(AllRaised) = 0
    BY <2>1, FS_EmptySet
  <2>3. Typed
    BY DEF BaseInv, QuotaInv, StepInv
  <2>4. usage.redis \in Nat /\ usage.db \in Nat /\ past.total \in Nat
    BY <2>3, UsageFields, SpentFields DEF Typed
  <2> QED BY <2>2, <2>4 DEF ExactLedger, BaseInv, QuotaInv, TableLedger
<1> QED BY <1>1, <1>2, <1>3, PTL DEF Spec

-----------------------------------------------------------------------------
(* The key of an event, and how often it is queued.                         *)

\* Past the deduplication
Working(s) == Taken(s) /\ req[s].at \notin {"reserve", "reserveDB"}

\* A step between the deduplication and the end of the request: it queues the event
\* and waits for the commit, or it has not queued it unless a call failed.
Moves(s) == \E q, f \in {0, 1}, step \in Steps \ {"reserve", "reserveDB"}, tx \in SUBSET {"key", "count", "row"} :
    /\ Working(s) /\ ~At(s, "commit")
    /\ Counts(s, q, f) /\ Becomes(s, step, tx)
    /\ dedup' = dedup /\ past'.refused = past.refused
    /\ req[s].tx \subseteq tx
    /\ step = "commit" /\ "row" \notin tx => q = 1
    /\ q = 1 => f = 1 \/ (step = "commit" /\ "row" \notin tx)

LEMMA MovesOn ==
    ASSUME StepInv, NEW s \in Slots, Quota(s) \/ Enqueue(s) \/ EnqueueFails(s) \/ EnqueueRow(s)
    PROVE  Moves(s)
<1>0. Typed
  BY DEF StepInv
<1>1. ASSUME NEW q \in {0, 1}, NEW f \in {0, 1}, NEW step \in Steps \ {"reserve", "reserveDB"},
             NEW tx, tx \in {req[s].tx, req[s].tx \cup {"count"}, req[s].tx \cup {"row"}},
             Working(s), ~At(s, "commit"), Recorded(s, q, f), Becomes(s, step, tx), dedup' = dedup,
             step = "commit" /\ "row" \notin tx => q = 1,
             q = 1 => f = 1 \/ (step = "commit" /\ "row" \notin tx)
      PROVE  Moves(s)
  <2>1. tx \in SUBSET {"key", "count", "row"} /\ req[s].tx \subseteq tx
    BY <1>0, <1>1, RequestFields DEF Working, Typed
  <2> QED BY <1>1, <2>1 DEF Moves, Recorded
<1>2. "row" \in req[s].tx => ~Taken(s) \/ At(s, "commit")
  BY DEF StepInv, InStep, Fits, At
<1>3. CASE LuaAccepts(s) \/ Enqueue(s)
  <2>1. /\ Working(s) /\ ~At(s, "commit") /\ Recorded(s, 1, 0) /\ dedup' = dedup
        /\ Becomes(s, "commit", req[s].tx)
    BY <1>0, <1>3, DoesScript, DoesEnqueue DEF Working, At
  <2>2. "row" \notin req[s].tx
    BY <1>2, <2>1 DEF Working
  <2>3. "commit" \in Steps \ {"reserve", "reserveDB"}
    BY DEF Steps
  <2> QED BY <1>1, <2>1, <2>2, <2>3
<1>4. CASE LuaRejects(s) \/ LuaFails(s)
  <2>1. /\ Working(s) /\ ~At(s, "commit") /\ dedup' = dedup
        /\ \/ Recorded(s, 0, 0) /\ Becomes(s, "undo", req[s].tx)
           \/ \E q \in {0, 1} : Recorded(s, q, 1) /\ Becomes(s, "count", req[s].tx)
    BY <1>0, <1>4, DoesRefuseScript, DoesFailScript DEF Working, At
  <2>2. {"undo", "count"} \subseteq Steps \ {"reserve", "reserveDB"}
    BY DEF Steps
  <2>3. CASE Recorded(s, 0, 0) /\ Becomes(s, "undo", req[s].tx)
    BY <1>1, <2>1, <2>2, <2>3
  <2>4. ASSUME NEW q \in {0, 1}, Recorded(s, q, 1), Becomes(s, "count", req[s].tx) PROVE Moves(s)
    BY <1>1, <2>1, <2>2, <2>4
  <2> QED BY <2>1, <2>3, <2>4
<1>5. ASSUME NEW step \in CountSteps,
             Increment(s, step) \/ IncrementFails(s, step) \/ Decrement(s, step) \/ DecrementFails(s, step)
      PROVE  Moves(s)
  <2>1. /\ Taken(s) /\ dedup' = dedup /\ req[s].at \in {"rate", "count", "unrate", "uncount"}
        /\ \E f \in {0, 1}, to \in {"undo", "unrate", "uncount", "enqueue", "countDB"} :
              Recorded(s, 0, f) /\ Becomes(s, to, req[s].tx)
    <3>1. CASE Increment(s, step)
      BY <1>0, <3>1, DoesIncrement, StepNames DEF At, CountSteps
    <3>2. CASE IncrementFails(s, step)
      BY <1>0, <3>2, DoesIncrementFail, StepNames DEF At, CountSteps
    <3>3. CASE Decrement(s, step)
      BY <1>0, <3>3, DoesDecrement, StepNames DEF At, CountSteps
    <3>4. CASE DecrementFails(s, step)
      BY <1>0, <3>4, DoesDecrementFail, StepNames DEF At, CountSteps
    <3> QED BY <1>5, <3>1, <3>2, <3>3, <3>4
  <2>2. PICK f \in {0, 1}, to \in {"undo", "unrate", "uncount", "enqueue", "countDB"} :
              Recorded(s, 0, f) /\ Becomes(s, to, req[s].tx)
    BY <2>1
  <2>3. Working(s) /\ ~At(s, "commit") /\ to # "commit" /\ to \in Steps \ {"reserve", "reserveDB"}
    BY <2>1 DEF Working, At, Steps
  <2> QED BY <1>1, <2>1, <2>2, <2>3
<1>6. CASE CountDB(s)
  <2>1. /\ Working(s) /\ ~At(s, "commit") /\ Recorded(s, 0, 0) /\ dedup' = dedup
        /\ Becomes(s, "undo", req[s].tx) \/ Becomes(s, "enqueue", req[s].tx \cup {"count"})
    BY <1>0, <1>6, DoesCountRow DEF Working, At
  <2>2. {"undo", "enqueue"} \subseteq Steps \ {"reserve", "reserveDB"}
    BY DEF Steps
  <2> QED BY <1>1, <2>1, <2>2
<1>7. CASE EnqueueFails(s) \/ EnqueueRow(s)
  <2>1. /\ Working(s) /\ ~At(s, "commit") /\ dedup' = dedup
        /\ Becomes(s, "commit", req[s].tx \cup {"row"})
        /\ Recorded(s, 0, 0) \/ \E q \in {0, 1} : Recorded(s, q, 1)
    BY <1>0, <1>7, DoesEnqueueFail, DoesEnqueueRow DEF Working, At
  <2>2. "commit" \in Steps \ {"reserve", "reserveDB"} /\ "row" \in req[s].tx \cup {"row"}
    BY DEF Steps
  <2>3. PICK q \in {0, 1}, f \in {0, 1} : Recorded(s, q, f) /\ (q = 1 => f = 1)
    BY <2>1
  <2> QED BY <1>1, <2>1, <2>2, <2>3
<1> QED BY <1>3, <1>4, <1>5, <1>6, <1>7 DEF Quota, CountSteps

\* Past the deduplication, and not queued; where Redis is set, whoever asks the table
\* has met a failure.
Admitted(s) ==
    /\ Taken(s)
    /\ req[s].at # "reserve"
    /\ req[s].at = "reserveDB" => redis
    /\ req[s].at = "commit" => "row" \in req[s].tx
AllAdmitted(e) == {s \in Slots : Admitted(s) /\ req[s].id = e}

\* The next request for the event is turned away.
HasKey(s, e) == Taken(s) /\ req[s].id = e /\ "key" \in req[s].tx
Barred(e) == IF redis THEN e \in dedup.redis
             ELSE e \in dedup.db \/ \E s \in Slots : HasKey(s, e)

\* A key is written after the table was asked.
KeyStep(s) == Taken(s) /\ req[s].at \in {"reserve", "reserveDB"} => req[s].tx = {}

AdmittedOnce ==
    \A e \in Ids : past.queued[e] + Cardinality(AllAdmitted(e)) <= past.failures[e] + Ones(Barred(e))

\* A step of s: no key of another event goes, and one event is queued or let in
\* for each key that is set and each failure.
KeysKept(s) ==
    \A e \in Ids \ {req[s].id} : /\ e \in dedup.redis => e \in dedup'.redis
                                 /\ e \in dedup.db => e \in dedup'.db
Passes(s, q, f) ==
    /\ Counts(s, q, f) /\ Taken(s) /\ Others(s)
    /\ Taken(s)' => req'[s].id = req[s].id
    /\ KeyStep(s)'
    /\ KeysKept(s)
    /\ \A e \in Ids : e = req[s].id =>
          q + Ones(Admitted(s)') + Ones(Barred(e)) <= f + Ones(Admitted(s)) + Ones(Barred(e)')

LEMMA PassesOnce ==
    ASSUME Typed, AdmittedOnce, redis' = redis, NEW s \in Slots,
           NEW q \in {0, 1}, NEW f \in {0, 1}, Passes(s, q, f)
    PROVE  AdmittedOnce'
<1>0. req[s].id \in Ids
  BY RequestFields DEF Typed, Passes
<1> SUFFICES ASSUME NEW e \in Ids
             PROVE  past'.queued[e] + Cardinality(AllAdmitted(e))' <= past'.failures[e] + Ones(Barred(e)')
  BY DEF AdmittedOnce, Ones
<1>1. \A t \in Slots \ {s} : /\ Admitted(t)' <=> Admitted(t)
                             /\ req'[t].id = req[t].id
                             /\ HasKey(t, e)' <=> HasKey(t, e)
  BY DEF Passes, Others, Admitted, HasKey, Taken, At
<1>2. past.queued[e] \in Nat /\ past.failures[e] \in Nat
  BY SpentFields DEF Typed
<1>3. past.queued[e] + Cardinality(AllAdmitted(e)) <= past.failures[e] + Ones(Barred(e))
  BY DEF AdmittedOnce
<1>4. IsFiniteSet(AllAdmitted(e)) /\ Cardinality(AllAdmitted(e)) \in Nat
  BY IngestAssumption, FS_Subset, FS_CardinalityType DEF AllAdmitted
<1>5. Ones(Barred(e)) \in Nat /\ Ones(Barred(e)') \in Nat
  BY DEF Ones
<1>6. CASE e = req[s].id
  <2>1. AllAdmitted(e)' \ {s} = AllAdmitted(e) \ {s}
    BY <1>1 DEF AllAdmitted
  <2>2. (s \in AllAdmitted(e) <=> Admitted(s)) /\ (s \in AllAdmitted(e)' <=> Admitted(s)')
    BY <1>6 DEF AllAdmitted, Passes, Admitted
  <2>3. Ones(s \in AllAdmitted(e)) = Ones(Admitted(s)) /\ Ones(s \in AllAdmitted(e)') = Ones(Admitted(s)')
    BY <2>2 DEF Ones
  <2>4. /\ Cardinality(AllAdmitted(e)') \in Nat
        /\ Cardinality(AllAdmitted(e)') + Ones(s \in AllAdmitted(e))
              = Cardinality(AllAdmitted(e)) + Ones(s \in AllAdmitted(e)')
    BY <1>4, <2>1, SetMoves
  <2>5. Ones(Admitted(s)) \in Nat /\ Ones(Admitted(s)') \in Nat
    BY DEF Ones
  <2>6. past'.queued[e] = past.queued[e] + q /\ past'.failures[e] = past.failures[e] + f
    BY <1>6 DEF Passes, Counts
  <2>7. q + Ones(Admitted(s)') + Ones(Barred(e)) <= f + Ones(Admitted(s)) + Ones(Barred(e)')
    BY <1>6 DEF Passes
  <2> QED BY <1>2, <1>3, <1>4, <1>5, <2>3, <2>4, <2>5, <2>6, <2>7
<1>7. CASE e # req[s].id
  <2>1. AllAdmitted(e)' = AllAdmitted(e)
    BY <1>1, <1>7 DEF AllAdmitted, Passes, Admitted
  <2>2. past'.queued[e] = past.queued[e] + 0 /\ past'.failures[e] = past.failures[e] + 0
    BY <1>7 DEF Passes, Counts
  <2>3. Barred(e) => Barred(e)'
    BY <1>1, <1>7 DEF Barred, Passes, KeysKept, HasKey
  <2>4. Ones(Barred(e)) <= Ones(Barred(e)')
    BY <2>3 DEF Ones
  <2> QED BY <1>2, <1>3, <1>4, <1>5, <2>1, <2>2, <2>4
<1> QED BY <1>6, <1>7

\* The three ways a step passes: the key stays and nobody is let in for nothing, a
\* failure or the end of the request pays for the key, or the key is set by it.
LEMMA PassesWhen ==
    ASSUME NEW s \in Slots, NEW q \in {0, 1}, NEW f \in {0, 1}, NEW e \in Ids, e = req[s].id,
           Counts(s, q, f), Taken(s), Others(s), Taken(s)' => req'[s].id = req[s].id,
           KeyStep(s)', KeysKept(s),
           \/ (Barred(e) => Barred(e)') /\ q + Ones(Admitted(s)') <= f + Ones(Admitted(s))
           \/ q + Ones(Admitted(s)') + 1 <= f + Ones(Admitted(s))
           \/ q = 0 /\ ~Barred(e) /\ Barred(e)'
    PROVE  Passes(s, q, f)
<1>1. /\ Ones(Admitted(s)) \in 0 .. 1 /\ Ones(Admitted(s)') \in 0 .. 1
      /\ Ones(Barred(e)) \in 0 .. 1 /\ Ones(Barred(e)') \in 0 .. 1
      /\ (Barred(e) => Barred(e)') => Ones(Barred(e)) <= Ones(Barred(e)')
      /\ ~Barred(e) /\ Barred(e)' => Ones(Barred(e)) = 0 /\ Ones(Barred(e)') = 1
  BY DEF Ones
<1>2. q + Ones(Admitted(s)') + Ones(Barred(e)) <= f + Ones(Admitted(s)) + Ones(Barred(e)')
  BY <1>1
<1> QED BY <1>2 DEF Passes

LEMMA BarredStays ==
    ASSUME NEW s \in Slots, NEW e \in Ids, Others(s), redis' = redis,
           e \in dedup.redis => e \in dedup'.redis, e \in dedup.db => e \in dedup'.db,
           HasKey(s, e) => HasKey(s, e)' \/ e \in dedup'.db \/ redis
    PROVE  Barred(e) => Barred(e)'
<1>1. \A t \in Slots \ {s} : HasKey(t, e)' <=> HasKey(t, e)
  BY DEF Others, HasKey, Taken, At
<1> QED BY <1>1 DEF Barred

LEMMA MovePasses ==
    ASSUME StepInv, redis' = redis, NEW s \in Slots, Moves(s)
    PROVE  \E q, f \in {0, 1} : Passes(s, q, f)
<1>0. Typed
  BY DEF StepInv
<1>1. PICK q \in {0, 1}, f \in {0, 1}, step \in Steps \ {"reserve", "reserveDB"},
           tx \in SUBSET {"key", "count", "row"} :
        /\ Working(s) /\ ~At(s, "commit")
        /\ Counts(s, q, f) /\ Becomes(s, step, tx)
        /\ dedup' = dedup /\ past'.refused = past.refused
        /\ req[s].tx \subseteq tx
        /\ step = "commit" /\ "row" \notin tx => q = 1
        /\ q = 1 => f = 1 \/ (step = "commit" /\ "row" \notin tx)
  BY DEF Moves
<1>2. /\ Taken(s) /\ Taken(s)' /\ Others(s) /\ KeysKept(s) /\ KeyStep(s)' /\ req[s].id \in Ids
      /\ req'[s].id = req[s].id /\ req'[s].at = step /\ req'[s].tx = tx
  BY <1>0, <1>1, RequestFields DEF Becomes, KeysKept, KeyStep, Typed
<1>3. PICK e \in Ids : e = req[s].id
  BY <1>2
<1>4. Barred(e) => Barred(e)'
  <2>1. HasKey(s, e) => HasKey(s, e)'
    BY <1>1, <1>2 DEF HasKey
  <2> QED BY <1>1, <1>2, <2>1, BarredStays
<1>5. Admitted(s) /\ Ones(Admitted(s)) = 1
  BY <1>1, <1>2 DEF Admitted, Working, At, Ones
<1>6. Admitted(s)' <=> ~(step = "commit" /\ "row" \notin tx)
  BY <1>1, <1>2 DEF Admitted
<1>7. q + Ones(Admitted(s)') <= f + 1
  BY <1>1, <1>6 DEF Ones
<1> QED BY <1>1, <1>2, <1>3, <1>4, <1>5, <1>7, PassesWhen

LEMMA DedupPasses ==
    ASSUME StepInv, redis' = redis, NEW s \in Slots, KeyStep(s), Dedup(s)
    PROVE  \E q, f \in {0, 1} : Passes(s, q, f)
<1>0. Typed
  BY DEF StepInv
<1>1. Taken(s) /\ (At(s, "reserve") \/ At(s, "reserveDB")) /\ req[s].id \in Ids /\ req[s].tx = {}
  <2>1. Taken(s) /\ (At(s, "reserve") \/ At(s, "reserveDB"))
    BY DEF Dedup, Reserve, ReserveFails, ReserveDB, ReserveDBFails, At, Taken
  <2> QED BY <1>0, <2>1, RequestFields DEF Typed, KeyStep, At
<1>2. PICK e \in Ids : e = req[s].id
  BY <1>1
<1>3. At(s, "reserve") => redis /\ ~Admitted(s)
  BY <1>1 DEF StepInv, InStep, Fits, At, Admitted
<1>4. ~HasKey(s, e)
  BY <1>1 DEF HasKey
<1>5. AfterKey(s) \notin {"reserve", "reserveDB", "commit"}
  BY DEF AfterKey
<1>6. Leaves(s) => ~Admitted(s)' /\ KeyStep(s)' /\ ~Taken(s)' /\ Others(s)
  BY DEF Leaves, Admitted, KeyStep
<1>7. Ones(FALSE) = 0 /\ Ones(TRUE) = 1 /\ Ones(Admitted(s)) \in 0 .. 1 /\ Ones(Admitted(s)') \in 0 .. 1
  BY DEF Ones
<1>8. CASE Reserve(s)
  <2>1. /\ Counts(s, 0, 0) /\ dedup' = [redis |-> dedup.redis \cup {e}, db |-> dedup.db]
        /\ At(s, "reserve")
        /\ \/ e \in dedup.redis /\ Leaves(s)
           \/ e \notin dedup.redis /\ Becomes(s, AfterKey(s), req[s].tx)
    BY <1>0, <1>2, <1>8, DoesReserve DEF Recorded, DedupIs
  <2>2. KeysKept(s) /\ redis /\ Barred(e)' /\ ~Admitted(s)
    BY <1>2, <1>3, <2>1 DEF KeysKept, Barred
  <2>3. CASE e \in dedup.redis /\ Leaves(s)
    <3>1. 0 + Ones(Admitted(s)') <= 0 + Ones(Admitted(s))
      BY <1>6, <2>2, <2>3 DEF Ones
    <3> QED BY <1>1, <1>2, <1>6, <2>1, <2>2, <2>3, <3>1, PassesWhen
  <2>4. CASE e \notin dedup.redis /\ Becomes(s, AfterKey(s), req[s].tx)
    <3>1. Others(s) /\ req'[s].id = req[s].id /\ KeyStep(s)' /\ ~Barred(e)
      BY <1>5, <2>2, <2>4 DEF Becomes, KeyStep, Barred
    <3> QED BY <1>1, <1>2, <2>1, <2>2, <3>1, PassesWhen
  <2> QED BY <2>1, <2>3, <2>4
<1>9. CASE ReserveFails(s)
  <2>1. /\ Counts(s, 0, 1) /\ At(s, "reserve")
        /\ dedup'.redis \in {dedup.redis, dedup.redis \cup {e}} /\ dedup'.db = dedup.db
        /\ \E step \in {"reserve", "reserveDB"} : Becomes(s, step, req[s].tx)
    BY <1>0, <1>2, <1>9, DoesReserveFail DEF Recorded, DedupIs
  <2>2. KeysKept(s) /\ Others(s) /\ req'[s].id = req[s].id /\ KeyStep(s)'
    BY <1>1, <1>2, <2>1 DEF KeysKept, Becomes, KeyStep
  <2>3. Barred(e) => Barred(e)'
    BY <1>4, <2>1, <2>2, BarredStays
  <2>4. 0 + Ones(Admitted(s)') <= 1 + Ones(Admitted(s))
    BY <1>7
  <2> QED BY <1>1, <1>2, <2>1, <2>2, <2>3, <2>4, PassesWhen
<1>10. CASE ReserveDB(s)
  <2>1. /\ Counts(s, 0, 0) /\ dedup' = dedup /\ At(s, "reserveDB") /\ ~Locked(s, "key", {req[s].id})
        /\ \/ Leaves(s)
           \/ e \notin dedup.db /\ Becomes(s, AfterKey(s), req[s].tx \cup {"key"})
    BY <1>0, <1>2, <1>10, DoesReserveRow DEF Recorded
  <2>2. KeysKept(s)
    BY <2>1 DEF KeysKept
  <2>3. CASE Leaves(s)
    <3>1. Barred(e) => Barred(e)'
      BY <1>4, <1>6, <2>1, <2>3, BarredStays
    <3>2. 0 + Ones(Admitted(s)') <= 0 + Ones(Admitted(s))
      BY <1>6, <2>3 DEF Ones
    <3> QED BY <1>1, <1>2, <1>6, <2>1, <2>2, <2>3, <3>1, <3>2, PassesWhen
  <2>4. CASE e \notin dedup.db /\ Becomes(s, AfterKey(s), req[s].tx \cup {"key"})
    <3>1. /\ Others(s) /\ req'[s].id = req[s].id /\ KeyStep(s)' /\ HasKey(s, e)'
      BY <1>2, <1>5, <2>4 DEF Becomes, KeyStep, HasKey
    <3>2. CASE redis
      <4>1. Admitted(s)
        BY <1>1, <2>1, <3>2 DEF Admitted, At
      <4>2. 0 + Ones(Admitted(s)') <= 0 + Ones(Admitted(s))
        BY <4>1 DEF Ones
      <4>3. Barred(e) => Barred(e)'
        BY <1>4, <2>1, <3>1, BarredStays
      <4> QED BY <1>1, <1>2, <2>1, <2>2, <3>1, <4>2, <4>3, PassesWhen
    <3>3. CASE ~redis
      <4>1. Barred(e)'
        BY <3>1, <3>3 DEF Barred
      <4>2. ~Barred(e)
        BY <1>2, <1>4, <2>1, <2>4, <3>3 DEF Barred, Locked, HasKey, Taken
      <4> QED BY <1>1, <1>2, <2>1, <2>2, <3>1, <4>1, <4>2, PassesWhen
    <3> QED BY <3>2, <3>3
  <2> QED BY <2>1, <2>3, <2>4
<1>11. CASE ReserveDBFails(s)
  <2>1. Counts(s, 0, 1) /\ dedup' = dedup /\ Leaves(s)
    BY <1>0, <1>11, DoesBreakOff DEF Recorded
  <2>2. KeysKept(s)
    BY <2>1 DEF KeysKept
  <2>3. 0 + Ones(Admitted(s)') + 1 <= 1 + Ones(Admitted(s))
    BY <1>6, <2>1 DEF Ones
  <2> QED BY <1>1, <1>2, <1>6, <2>1, <2>2, <2>3, PassesWhen
<1> QED BY <1>8, <1>9, <1>10, <1>11 DEF Dedup

LEMMA FinishPasses ==
    ASSUME StepInv, redis' = redis, NEW s \in Slots,
           Commit(s) \/ DatabaseFails(s) \/ Undo(s) \/ UndoFails(s) \/ Refuse(s) \/ WebCrash(s)
    PROVE  \E q, f \in {0, 1} : Passes(s, q, f)
<1>0. Typed
  BY DEF StepInv
<1>1. Taken(s)
  BY DEF Commit, DatabaseFails, Commits, Undo, UndoFails, Refuse, WebCrash, At, Taken
<1>2. req[s].id \in Ids /\ Fits(req[s].at, req[s].tx)
  BY <1>0, <1>1, RequestFields DEF Typed, StepInv, InStep
<1>3. PICK e \in Ids : e = req[s].id
  BY <1>2
<1>4. Leaves(s) => ~Admitted(s)' /\ KeyStep(s)' /\ ~Taken(s)' /\ Others(s)
  BY DEF Leaves, Admitted, KeyStep
<1>5. ASSUME At(s, "commit"), Wrote(s)
      PROVE  /\ KeysKept(s)
             /\ HasKey(s, e) => e \in dedup'.db
             /\ e \in dedup.redis => e \in dedup'.redis
             /\ e \in dedup.db => e \in dedup'.db
             /\ One(s, "row") = Ones(Admitted(s)) /\ One(s, "row") \in {0, 1}
  BY <1>1, <1>3, <1>5 DEF Wrote, DedupIs, KeysKept, HasKey, One, Ones, Admitted, At
<1>6. Ones(Admitted(s)) \in 0 .. 1 /\ Ones(Admitted(s)') \in 0 .. 1
  BY DEF Ones
<1>7. CASE Commit(s)
  <2>1. At(s, "commit") /\ Wrote(s) /\ Leaves(s) /\ Counts(s, One(s, "row"), 0)
    BY <1>0, <1>7, DoesCommit
  <2>2. Barred(e) => Barred(e)'
    BY <1>4, <1>5, <2>1, BarredStays
  <2>3. Ones(Admitted(s)') = 0
    BY <1>4, <2>1 DEF Ones
  <2>4. PICK q \in {0, 1} : q = One(s, "row") /\ q + Ones(Admitted(s)') <= 0 + Ones(Admitted(s))
    BY <1>5, <2>1, <2>3
  <2> QED BY <1>1, <1>3, <1>4, <1>5, <2>1, <2>2, <2>4, PassesWhen
<1>8. CASE DatabaseFails(s)
  <2>1. /\ At(s, "countDB") \/ At(s, "commit")
        /\ Becomes(s, "undo", {})
        /\ \/ Counts(s, 0, 1) /\ dedup' = dedup
           \/ At(s, "commit") /\ Counts(s, One(s, "row"), 1) /\ Wrote(s)
    BY <1>0, <1>8, DoesFailInTable DEF Recorded
  <2>2. Others(s) /\ req'[s].id = req[s].id /\ KeyStep(s)' /\ Ones(Admitted(s)') = 1
    BY <2>1 DEF Becomes, KeyStep, Admitted, Ones
  <2>3. CASE Counts(s, 0, 1) /\ dedup' = dedup
    <3>1. KeysKept(s)
      BY <2>3 DEF KeysKept
    <3>2. CASE redis
      <4>1. Barred(e) => Barred(e)'
        BY <2>2, <2>3, <3>2, BarredStays
      <4>2. 0 + Ones(Admitted(s)') <= 1 + Ones(Admitted(s))
        BY <1>6
      <4> QED BY <1>1, <1>3, <2>2, <2>3, <3>1, <4>1, <4>2, PassesWhen
    <3>3. CASE ~redis
      <4>1. Admitted(s)
        BY <1>1, <1>2, <2>1, <3>3 DEF Fits, At, Admitted
      <4>2. Ones(Admitted(s)) = 1
        BY <4>1 DEF Ones
      <4>3. 0 + Ones(Admitted(s)') + 1 <= 1 + Ones(Admitted(s))
        BY <2>2, <4>2
      <4> QED BY <1>1, <1>3, <2>2, <2>3, <3>1, <4>3, PassesWhen
    <3> QED BY <3>2, <3>3
  <2>4. CASE At(s, "commit") /\ Counts(s, One(s, "row"), 1) /\ Wrote(s)
    <3>1. Barred(e) => Barred(e)'
      BY <1>5, <2>2, <2>4, BarredStays
    <3>2. PICK q \in {0, 1} : q = One(s, "row") /\ q + Ones(Admitted(s)') <= 1 + Ones(Admitted(s))
      BY <1>5, <2>2, <2>4
    <3> QED BY <1>1, <1>3, <1>5, <2>2, <2>4, <3>1, <3>2, PassesWhen
  <2> QED BY <2>1, <2>3, <2>4
<1>9. CASE Undo(s) \/ Refuse(s)
  <2>1. /\ At(s, "undo") /\ Leaves(s) /\ Counts(s, 0, 0)
        /\ dedup' = dedup \/ DedupIs(dedup.redis \ {req[s].id}, dedup.db)
    BY <1>0, <1>9, DoesUndo, DoesRefuse DEF Recorded
  <2>2. KeysKept(s)
    BY <2>1 DEF KeysKept, DedupIs
  <2>3. Admitted(s) /\ ~Admitted(s)'
    BY <1>1, <1>4, <2>1 DEF Admitted, At
  <2>4. 0 + Ones(Admitted(s)') + 1 <= 0 + Ones(Admitted(s))
    BY <2>3 DEF Ones
  <2> QED BY <1>1, <1>3, <1>4, <2>1, <2>2, <2>4, PassesWhen
<1>10. CASE UndoFails(s) \/ WebCrash(s)
  <2>1. Leaves(s) /\ Counts(s, 0, 1) /\ dedup' = dedup
    BY <1>0, <1>10, DoesBreakOff DEF Recorded
  <2>2. KeysKept(s)
    BY <2>1 DEF KeysKept
  <2>3. 0 + Ones(Admitted(s)') + 1 <= 1 + Ones(Admitted(s))
    BY <1>4, <2>1 DEF Ones
  <2> QED BY <1>1, <1>3, <1>4, <2>1, <2>2, <2>3, PassesWhen
<1> QED BY <1>7, <1>8, <1>9, <1>10

LEMMA ArrivesOnce ==
    ASSUME Typed, AdmittedOnce, redis' = redis, NEW s \in Slots, Arrives(s)
    PROVE  AdmittedOnce' /\ KeyStep(s)'
<1>1. /\ ~Taken(s) /\ Counts(s, 0, 0) /\ dedup' = dedup /\ Others(s) /\ Taken(s)'
      /\ req'[s].at = (IF redis THEN "reserve" ELSE "reserveDB") /\ req'[s].tx = {}
      /\ past' = past
  BY DoesArrive DEF Recorded, Arrives
<1>2. ~Admitted(s) /\ ~Admitted(s)' /\ KeyStep(s)'
  BY <1>1 DEF Admitted, KeyStep
<1>3. ASSUME NEW e \in Ids
      PROVE  AllAdmitted(e)' = AllAdmitted(e) /\ Barred(e)' = Barred(e)
  <2>1. \A t \in Slots : (Admitted(t)' <=> Admitted(t)) /\ (Admitted(t) => req'[t].id = req[t].id)
    BY <1>1, <1>2 DEF Others, Admitted, Taken, At
  <2>2. AllAdmitted(e)' = AllAdmitted(e)
    BY <2>1 DEF AllAdmitted
  <2>3. \A t \in Slots : HasKey(t, e)' <=> HasKey(t, e)
    BY <1>1 DEF Others, HasKey, Taken, At
  <2> QED BY <1>1, <2>2, <2>3 DEF Barred
<1>4. AdmittedOnce'
  BY <1>1, <1>3 DEF AdmittedOnce
<1> QED BY <1>2, <1>4

OnceInv ==
    /\ AdmittedOnce
    /\ \A s \in Slots : KeyStep(s)

LEMMA RequestOnce ==
    ASSUME StepInv, OnceInv, NEW s \in Slots, Request(s)
    PROVE  OnceInv'
<1>0. Typed /\ redis' = redis
  BY RequestsGrow DEF StepInv, QueueGrows
<1>1. CASE Arrives(s)
  <2>1. AdmittedOnce' /\ KeyStep(s)' /\ Others(s)
    BY <1>0, <1>1, ArrivesOnce, DoesArrive DEF OnceInv
  <2> QED BY <2>1 DEF OnceInv, Others, KeyStep, Taken, At
<1>2. CASE ~Arrives(s)
  <2>1. PICK q \in {0, 1}, f \in {0, 1} : Passes(s, q, f)
    BY <1>0, <1>2, MovesOn, MovePasses, DedupPasses, FinishPasses DEF OnceInv, Request, Finish
  <2>2. AdmittedOnce'
    BY <1>0, <2>1, PassesOnce DEF OnceInv
  <2> QED BY <2>1, <2>2 DEF OnceInv, Passes, Others, KeyStep, Taken, At
<1> QED BY <1>1, <1>2

LEMMA OnceRests == OnceInv /\ RequestsRest => OnceInv'
<1> SUFFICES ASSUME OnceInv, RequestsRest PROVE OnceInv'
  OBVIOUS
<1>1. UNCHANGED <<redis, req, dedup, past>>
  BY DEF RequestsRest
<1>2. \A e \in Ids : AllAdmitted(e)' = AllAdmitted(e) /\ Barred(e)' = Barred(e)
  BY <1>1 DEF AllAdmitted, Admitted, Barred, HasKey, Taken, At
<1>3. AdmittedOnce'
  BY <1>1, <1>2 DEF OnceInv, AdmittedOnce
<1> QED BY <1>1, <1>3 DEF OnceInv, KeyStep, Taken, At

\* However many requests carry the same event at the same time, it is queued once,
\* and once more only for each call for it that failed or process that died.
THEOREM EventsQueuedOnce == Spec => []QueuedOnce
<1>1. Init => BaseInv /\ OnceInv
  <2> SUFFICES ASSUME Init PROVE BaseInv /\ OnceInv
    OBVIOUS
  <2>1. \A s \in Slots : ~Taken(s)
    BY DEF Init, Taken, At, Free
  <2>2. \A e \in Ids : past.queued[e] = 0 /\ past.failures[e] = 0 /\ ~Barred(e)
    BY <2>1 DEF Init, Barred, HasKey
  <2>3. ASSUME NEW e \in Ids PROVE Cardinality(AllAdmitted(e)) = 0
    <3>1. AllAdmitted(e) = {}
      BY <2>1 DEF AllAdmitted, Admitted
    <3> QED BY <3>1, FS_EmptySet
  <2>4. AdmittedOnce
    BY <2>2, <2>3 DEF AdmittedOnce, Ones
  <2> QED BY <2>1, <2>4, BaseInit DEF OnceInv, KeyStep
<1>2. BaseInv /\ OnceInv /\ [Next]_vars => BaseInv' /\ OnceInv'
  <2> SUFFICES ASSUME BaseInv, OnceInv, [Next]_vars PROVE BaseInv' /\ OnceInv'
    OBVIOUS
  <2>1. BaseInv' /\ StepInv /\ (RequestsRest \/ \E s \in Slots : Request(s))
    BY BaseNext DEF BaseInv, QuotaInv
  <2> QED BY <2>1, OnceRests, RequestOnce
<1>3. BaseInv /\ OnceInv => QueuedOnce
  <2> SUFFICES ASSUME BaseInv, OnceInv, NEW e \in Ids
               PROVE  past.queued[e] <= 1 + past.failures[e]
    BY DEF QueuedOnce
  <2>1. past.queued[e] \in Nat /\ past.failures[e] \in Nat
    BY SpentFields DEF BaseInv, QuotaInv, StepInv, Typed
  <2>2. Cardinality(AllAdmitted(e)) \in Nat
    BY IngestAssumption, FS_Subset, FS_CardinalityType DEF AllAdmitted
  <2>3. Ones(Barred(e)) \in 0 .. 1
    BY DEF Ones
  <2>4. past.queued[e] + Cardinality(AllAdmitted(e)) <= past.failures[e] + Ones(Barred(e))
    BY DEF OnceInv, AdmittedOnce
  <2> QED BY <2>1, <2>2, <2>3, <2>4
<1> QED BY <1>1, <1>2, <1>3, PTL DEF Spec

-----------------------------------------------------------------------------
(* What a key stands for.                                                   *)

Seen(e) == past.queued[e] > 0 \/ past.failures[e] > 0
Waits(s) == Taken(s) /\ At(s, "commit") /\ "row" \notin req[s].tx

\* A key in the table is committed with its event, or after it; a key in Redis is
\* somebody's who is at work, or of an event that was queued, refused or failed for.
KeysTraced ==
    /\ \A s \in Slots : Waits(s) => past.queued[req[s].id] > 0
    /\ \A e \in dedup.db : Seen(e)
    /\ \A e \in dedup.redis \ past.refused : Seen(e) \/ \E s \in Slots : Working(s) /\ req[s].id = e

Traces(s, q, f) ==
    /\ Counts(s, q, f) /\ Taken(s) /\ Others(s)
    /\ Taken(s)' => req'[s].id = req[s].id
    /\ Waits(s)' => q = 1
    /\ \A e \in dedup'.db :
          e \in dedup.db \/ (e = req[s].id /\ (q = 1 \/ f = 1 \/ past.queued[e] > 0))
    /\ \A e \in dedup'.redis \ past'.refused :
          /\ e \in dedup.redis \ past.refused \/ (e = req[s].id /\ (f = 1 \/ Working(s)'))
          /\ e = req[s].id /\ Working(s) => Working(s)' \/ q = 1 \/ f = 1 \/ past.queued[e] > 0

LEMMA TracesKeys ==
    ASSUME Typed, Typed', KeysTraced, NEW s \in Slots,
           NEW q \in {0, 1}, NEW f \in {0, 1}, Traces(s, q, f)
    PROVE  KeysTraced'
<1>0. /\ req[s].id \in Ids /\ dedup'.db \subseteq Ids /\ dedup'.redis \subseteq Ids
      /\ Taken(s)' => req'[s].id = req[s].id
  BY RequestFields DEF Typed, Traces, StoresTyped
<1>1. \A t \in Slots \ {s} : /\ req'[t] = req[t]
                             /\ Waits(t)' <=> Waits(t)
                             /\ Working(t)' <=> Working(t)
  BY DEF Traces, Others, Waits, Working, Taken, At
<1>2. \A t \in Slots : Taken(t) => req[t].id \in Ids
  BY RequestFields DEF Typed
<1>3. ASSUME NEW e \in Ids
      PROVE  /\ past.queued[e] > 0 => past'.queued[e] > 0
             /\ Seen(e) => Seen(e)'
             /\ e = req[s].id /\ q = 1 => past'.queued[e] > 0
             /\ e = req[s].id /\ f = 1 => past'.failures[e] > 0
  <2>1. past.queued[e] \in Nat /\ past.failures[e] \in Nat
    BY SpentFields DEF Typed
  <2>2. \E i, j \in Nat : /\ past'.queued[e] = past.queued[e] + i
                          /\ past'.failures[e] = past.failures[e] + j
                          /\ e = req[s].id => i = q /\ j = f
    BY DEF Traces, Counts
  <2> QED BY <2>1, <2>2 DEF Seen
<1>4. ASSUME NEW t \in Slots, Waits(t)' PROVE past'.queued[req'[t].id] > 0
  <2>1. CASE t = s
    BY <1>0, <1>3, <1>4, <2>1 DEF Traces, Waits
  <2>2. CASE t # s
    BY <1>1, <1>2, <1>3, <1>4, <2>2 DEF KeysTraced, Waits
  <2> QED BY <2>1, <2>2
<1>5. ASSUME NEW e \in dedup'.db PROVE Seen(e)'
  <2>1. CASE e \in dedup.db
    BY <1>0, <1>3, <2>1 DEF KeysTraced
  <2>2. CASE e = req[s].id /\ (q = 1 \/ f = 1 \/ past.queued[e] > 0)
    BY <1>0, <1>3, <2>2 DEF Seen
  <2> QED BY <2>1, <2>2 DEF Traces
<1>6. ASSUME NEW e \in dedup'.redis \ past'.refused
      PROVE  Seen(e)' \/ \E t \in Slots : (Working(t) /\ req[t].id = e)'
  <2>1. CASE e = req[s].id /\ (q = 1 \/ f = 1 \/ past.queued[e] > 0)
    BY <1>0, <1>3, <2>1 DEF Seen
  <2>2. CASE e = req[s].id /\ Working(s)'
    BY <1>0, <2>2 DEF Working
  <2>3. CASE e \in dedup.redis \ past.refused /\ (e = req[s].id => ~Working(s))
    <3>1. CASE Seen(e)
      BY <1>0, <1>3, <3>1
    <3>2. CASE ~Seen(e)
      <4>1. PICK t \in Slots : Working(t) /\ req[t].id = e
        BY <2>3, <3>2 DEF KeysTraced
      <4>2. t \in Slots \ {s}
        BY <2>3, <4>1
      <4> QED BY <1>1, <4>1, <4>2
    <3> QED BY <3>1, <3>2
  <2> QED BY <2>1, <2>2, <2>3 DEF Traces
<1> QED BY <1>4, <1>5, <1>6 DEF KeysTraced

LEMMA DedupTraces ==
    ASSUME StepInv, NEW s \in Slots, Dedup(s)
    PROVE  \E q, f \in {0, 1} : Traces(s, q, f)
<1>0. Typed
  BY DEF StepInv
<1>1. Taken(s) /\ ~Working(s)
  BY DEF Dedup, Reserve, ReserveFails, ReserveDB, ReserveDBFails, At, Taken, Working
<1>2. AfterKey(s) \notin {"reserve", "reserveDB", "commit"}
  BY DEF AfterKey
<1>3. Leaves(s) => ~Waits(s)' /\ ~Taken(s)' /\ Others(s)
  BY DEF Leaves, Waits
<1>4. CASE Reserve(s)
  <2>1. /\ Counts(s, 0, 0) /\ past'.refused = past.refused
        /\ dedup' = [redis |-> dedup.redis \cup {req[s].id}, db |-> dedup.db]
        /\ \/ req[s].id \in dedup.redis /\ Leaves(s)
           \/ Becomes(s, AfterKey(s), req[s].tx)
    BY <1>0, <1>4, DoesReserve DEF Recorded, DedupIs
  <2>2. CASE req[s].id \in dedup.redis /\ Leaves(s)
    BY <1>1, <1>3, <2>1, <2>2 DEF Traces
  <2>3. CASE Becomes(s, AfterKey(s), req[s].tx)
    <3>1. Others(s) /\ req'[s].id = req[s].id /\ ~Waits(s)' /\ Working(s)'
      BY <1>2, <2>3 DEF Becomes, Waits, Working, At
    <3> QED BY <1>1, <2>1, <3>1 DEF Traces
  <2> QED BY <2>1, <2>2, <2>3
<1>5. CASE ReserveFails(s)
  <2>1. /\ Counts(s, 0, 1) /\ past'.refused = past.refused
        /\ dedup'.redis \in {dedup.redis, dedup.redis \cup {req[s].id}} /\ dedup'.db = dedup.db
        /\ \E step \in {"reserve", "reserveDB"} : Becomes(s, step, req[s].tx)
    BY <1>0, <1>5, DoesReserveFail DEF Recorded, DedupIs
  <2>2. Others(s) /\ req'[s].id = req[s].id /\ ~Waits(s)'
    BY <2>1 DEF Becomes, Waits, At
  <2> QED BY <1>1, <2>1, <2>2 DEF Traces
<1>6. CASE ReserveDB(s) \/ ReserveDBFails(s)
  <2>1. PICK f \in {0, 1} :
        /\ Counts(s, 0, f) /\ past'.refused = past.refused /\ dedup' = dedup
        /\ Leaves(s) \/ Becomes(s, AfterKey(s), req[s].tx \cup {"key"})
    BY <1>0, <1>6, DoesReserveRow, DoesBreakOff DEF Recorded
  <2>2. Others(s) /\ (Taken(s)' => req'[s].id = req[s].id) /\ ~Waits(s)'
    BY <1>2, <1>3, <2>1 DEF Becomes, Waits, At
  <2> QED BY <1>1, <2>1, <2>2 DEF Traces
<1> QED BY <1>4, <1>5, <1>6 DEF Dedup

LEMMA FinishTraces ==
    ASSUME StepInv, KeysTraced, NEW s \in Slots, Quota(s) \/ Finish(s) \/ WebCrash(s)
    PROVE  \E q, f \in {0, 1} : Traces(s, q, f)
<1>0. Typed
  BY DEF StepInv
<1>1. Leaves(s) => ~Waits(s)' /\ ~Taken(s)' /\ Others(s)
  BY DEF Leaves, Waits
<1>2. CASE Moves(s)
  <2>1. PICK q \in {0, 1}, f \in {0, 1}, step \in Steps \ {"reserve", "reserveDB"},
             tx \in SUBSET {"key", "count", "row"} :
          /\ Working(s)
          /\ Counts(s, q, f) /\ Becomes(s, step, tx)
          /\ dedup' = dedup /\ past'.refused = past.refused
          /\ step = "commit" /\ "row" \notin tx => q = 1
    BY <1>2 DEF Moves
  <2>2. Taken(s) /\ Others(s) /\ req'[s].id = req[s].id /\ Working(s)' /\ (Waits(s)' => q = 1)
    BY <2>1 DEF Becomes, Working, Waits, At
  <2> QED BY <2>1, <2>2 DEF Traces
<1>3. ASSUME At(s, "commit"), Wrote(s), Taken(s), NEW q \in {0, 1}, q = One(s, "row"),
             NEW f \in {0, 1}, Counts(s, q, f), past'.refused = past.refused, Others(s),
             Taken(s)' => req'[s].id = req[s].id, ~Waits(s)'
      PROVE  Traces(s, q, f)
  <2>1. q = 1 \/ past.queued[req[s].id] > 0
    BY <1>3 DEF KeysTraced, Waits, One
  <2>2. dedup' = [redis |-> dedup.redis, db |-> dedup.db \cup (IF "key" \in req[s].tx THEN {req[s].id} ELSE {})]
    BY <1>3 DEF Wrote, DedupIs
  <2> QED BY <1>3, <2>1, <2>2 DEF Traces
<1>4. CASE Commit(s)
  <2>1. /\ Taken(s) /\ At(s, "commit") /\ Wrote(s) /\ Leaves(s) /\ Counts(s, One(s, "row"), 0)
        /\ past'.refused = past.refused
    BY <1>0, <1>4, DoesCommit
  <2>2. PICK q \in {0, 1} : q = One(s, "row")
    BY DEF One
  <2> QED BY <1>1, <1>3, <2>1, <2>2
<1>5. CASE DatabaseFails(s)
  <2>1. /\ Taken(s) /\ Becomes(s, "undo", {}) /\ past'.refused = past.refused
        /\ \/ Counts(s, 0, 1) /\ dedup' = dedup
           \/ At(s, "commit") /\ Counts(s, One(s, "row"), 1) /\ Wrote(s)
    BY <1>0, <1>5, DoesFailInTable DEF Recorded
  <2>2. Others(s) /\ req'[s].id = req[s].id /\ ~Waits(s)'
    BY <2>1 DEF Becomes, Waits, At
  <2>3. CASE Counts(s, 0, 1) /\ dedup' = dedup
    BY <2>1, <2>2, <2>3 DEF Traces
  <2>4. CASE At(s, "commit") /\ Counts(s, One(s, "row"), 1) /\ Wrote(s)
    <3>1. PICK q \in {0, 1} : q = One(s, "row")
      BY DEF One
    <3> QED BY <1>3, <2>1, <2>2, <2>4, <3>1
  <2> QED BY <2>1, <2>3, <2>4
<1>6. CASE Undo(s)
  <2>1. /\ Taken(s) /\ Leaves(s) /\ Counts(s, 0, 0) /\ past'.refused = past.refused
        /\ dedup' = [redis |-> dedup.redis \ {req[s].id}, db |-> dedup.db]
    BY <1>0, <1>6, DoesUndo DEF Recorded, DedupIs
  <2> QED BY <1>1, <2>1 DEF Traces
<1>7. CASE Refuse(s)
  <2>1. /\ Taken(s) /\ Leaves(s) /\ Counts(s, 0, 0) /\ dedup' = dedup
        /\ past'.refused = past.refused \cup (dedup.redis \cap {req[s].id})
    BY <1>0, <1>7, DoesRefuse
  <2> QED BY <1>1, <2>1 DEF Traces
<1>8. CASE UndoFails(s) \/ WebCrash(s)
  <2>1. Taken(s) /\ Leaves(s) /\ Counts(s, 0, 1) /\ dedup' = dedup /\ past'.refused = past.refused
    BY <1>0, <1>8, DoesBreakOff DEF Recorded
  <2> QED BY <1>1, <2>1 DEF Traces
<1> QED BY <1>2, <1>4, <1>5, <1>6, <1>7, <1>8, MovesOn DEF Finish

LEMMA RequestTraced ==
    ASSUME StepInv, Typed', KeysTraced, NEW s \in Slots, Request(s)
    PROVE  KeysTraced'
<1>0. Typed
  BY DEF StepInv
<1>1. CASE Arrives(s)
  <2>1. /\ ~Taken(s) /\ dedup' = dedup /\ Others(s) /\ past' = past
        /\ req'[s].at = (IF redis THEN "reserve" ELSE "reserveDB")
    BY <1>0, <1>1, DoesArrive DEF Arrives
  <2>2. \A t \in Slots : /\ Waits(t)' => Waits(t) /\ req'[t].id = req[t].id
                         /\ Working(t) => Working(t)' /\ req'[t].id = req[t].id
    BY <2>1 DEF Others, Waits, Working, Taken, At
  <2> QED BY <2>1, <2>2 DEF KeysTraced, Seen
<1>2. CASE ~Arrives(s)
  <2>1. PICK q \in {0, 1}, f \in {0, 1} : Traces(s, q, f)
    BY <1>2, DedupTraces, FinishTraces DEF Request
  <2> QED BY <1>0, <2>1, TracesKeys
<1> QED BY <1>1, <1>2

\* A repeated event is ignored only when it is queued, being queued, refused over
\* quota, or something failed for it: whatever requests run at the same time.
THEOREM KeysMeanQueued == Spec => []DedupMeansQueued
<1>1. Init => BaseInv /\ KeysTraced
  <2> SUFFICES ASSUME Init PROVE BaseInv /\ KeysTraced
    OBVIOUS
  <2>1. \A s \in Slots : ~Taken(s)
    BY DEF Init, Taken, At, Free
  <2> QED BY <2>1, BaseInit DEF Init, KeysTraced, Waits
<1>2. BaseInv /\ KeysTraced /\ [Next]_vars => BaseInv' /\ KeysTraced'
  <2> SUFFICES ASSUME BaseInv, KeysTraced, [Next]_vars PROVE BaseInv' /\ KeysTraced'
    OBVIOUS
  <2>1. BaseInv' /\ StepInv /\ Typed' /\ (RequestsRest \/ \E s \in Slots : Request(s))
    BY BaseNext DEF BaseInv, QuotaInv, StepInv
  <2>2. RequestsRest => KeysTraced'
    BY DEF RequestsRest, KeysTraced, Seen, Waits, Working, Taken, At
  <2> QED BY <2>1, <2>2, RequestTraced
<1>3. KeysTraced => DedupMeansQueued
  BY DEF KeysTraced, DedupMeansQueued, Seen, Working, Taken
<1> QED BY <1>1, <1>2, <1>3, PTL DEF Spec

-----------------------------------------------------------------------------
(* What was answered "queued" is kept.                                      *)

\* In the table, or in the stream
Landed(e) == rows[e] > 0 \/ \E i \in 1 .. Len(stream) : stream[i] = e

\* Whoever waits for a commit without an outbox row has an entry in the stream.
HasLanded ==
    /\ deleted = {}
    /\ \A e \in past.told : Landed(e)
    /\ \A s \in Slots : Waits(s) => Landed(req[s].id)

\* Rows are not taken away and entries are appended.
LEMMA LandedStays ==
    ASSUME StreamTypeOK, rows' \in [Ids -> Nat], NEW e \in Ids, rows'[e] >= rows[e],
           stream' = stream \/ \E x \in Ids : stream' = Append(stream, x), Landed(e)
    PROVE  Landed(e)'
<1>1. stream \in Seq(Ids) /\ rows \in [Ids -> Nat] /\ Len(stream) \in Nat
  BY DEF StreamTypeOK
<1>2. CASE rows[e] > 0
  <2>1. rows[e] \in Nat /\ rows'[e] \in Nat
    BY <1>1
  <2> QED BY <1>2, <2>1 DEF Landed
<1>3. ASSUME NEW i \in 1 .. Len(stream), stream[i] = e PROVE Landed(e)'
  <2>1. CASE stream' = stream
    BY <1>3, <2>1 DEF Landed
  <2>2. CASE \E x \in Ids : stream' = Append(stream, x)
    <3>1. stream'[i] = e /\ i \in 1 .. Len(stream')
      BY <1>1, <1>3, <2>2, AppendProperties
    <3> QED BY <3>1 DEF Landed
  <2> QED BY <2>1, <2>2
<1> QED BY <1>2, <1>3 DEF Landed

LEMMA XaddLands == ASSUME StreamTypeOK, NEW e \in Ids, Xadd(e) PROVE Landed(e)'
<1>1. stream \in Seq(Ids) /\ Len(stream) \in Nat /\ stream' = Append(stream, e)
  BY DEF StreamTypeOK, Xadd
<1>2. Len(stream') = Len(stream) + 1 /\ stream'[Len(stream) + 1] = e
  BY <1>1, AppendProperties
<1>3. Len(stream) + 1 \in 1 .. Len(stream')
  BY <1>1, <1>2
<1> QED BY <1>2, <1>3 DEF Landed

\* A request comes to wait for its commit by an XADD.
LEMMA WaitsByXadd ==
    ASSUME StepInv, NEW s \in Slots, Request(s), Waits(s)'
    PROVE  Taken(s) /\ Xadd(req[s].id) /\ req'[s].id = req[s].id
<1>0. Typed
  BY DEF StepInv
<1>1. /\ Taken(s)' /\ ~Leaves(s)
      /\ \A step, tx : Becomes(s, step, tx) => step = "commit"
      /\ \A tx : /\ ~Becomes(s, "reserve", tx) /\ ~Becomes(s, "reserveDB", tx)
                 /\ ~Becomes(s, "undo", tx) /\ ~Becomes(s, "count", tx) /\ ~Becomes(s, "enqueue", tx)
                 /\ ~Becomes(s, "commit", tx \cup {"row"})
  BY DEF Waits, Leaves, Becomes, At
<1>2. CASE Arrives(s)
  BY <1>0, <1>2, DoesArrive DEF Waits, At
<1>3. CASE Dedup(s)
  <2>1. AfterKey(s) # "commit"
    BY DEF AfterKey
  <2>2. ~Reserve(s) /\ ~ReserveDB(s)
    BY <1>0, <1>1, <2>1, DoesReserve, DoesReserveRow
  <2>3. ~ReserveFails(s) /\ ~ReserveDBFails(s)
    BY <1>0, <1>1, DoesReserveFail, DoesBreakOff
  <2> QED BY <1>3, <2>2, <2>3 DEF Dedup
<1>4. CASE Quota(s)
  <2>1. \A step \in CountSteps : Undoing(step) # "commit" /\ Instead(step) # "commit"
    BY StepNames
  <2>2. \A step \in CountSteps : /\ ~Increment(s, step) /\ ~IncrementFails(s, step)
                                 /\ ~Decrement(s, step) /\ ~DecrementFails(s, step)
    BY <1>0, <1>1, <2>1, DoesIncrement, DoesIncrementFail, DoesDecrement, DoesDecrementFail
  <2>3. ~LuaRejects(s) /\ ~LuaFails(s) /\ ~CountDB(s)
    BY <1>0, <1>1, DoesRefuseScript, DoesFailScript, DoesCountRow
  <2>4. LuaAccepts(s)
    BY <1>4, <2>2, <2>3 DEF Quota, CountSteps
  <2> QED BY <1>0, <2>4, DoesScript DEF Becomes
<1>5. CASE Finish(s) \/ WebCrash(s)
  <2>1. ~EnqueueFails(s) /\ ~EnqueueRow(s)
    BY <1>0, <1>1, DoesEnqueueFail, DoesEnqueueRow
  <2>2. ~Commit(s) /\ ~Undo(s) /\ ~UndoFails(s) /\ ~Refuse(s) /\ ~WebCrash(s)
    BY <1>0, <1>1, DoesCommit, DoesUndo, DoesRefuse, DoesBreakOff
  <2>3. ~DatabaseFails(s)
    BY <1>0, <1>1, DoesFailInTable
  <2>4. Enqueue(s)
    BY <1>5, <2>1, <2>2, <2>3 DEF Finish
  <2> QED BY <1>0, <2>4, DoesEnqueue DEF Becomes
<1> QED BY <1>2, <1>3, <1>4, <1>5 DEF Request

\* Only a commit is answered "queued".
LEMMA ToldByCommit ==
    ASSUME StepInv, NEW s \in Slots, Request(s)
    PROVE  past'.told = past.told \/ Commit(s)
<1>0. Typed
  BY DEF StepInv
<1>1. CASE Arrives(s)
  BY <1>0, <1>1, DoesArrive DEF Recorded
<1>2. CASE Dedup(s)
  BY <1>0, <1>2, DoesReserve, DoesReserveFail, DoesReserveRow, DoesBreakOff DEF Dedup, Recorded
<1>3. CASE Quota(s)
  <2>1. ASSUME NEW step \in CountSteps,
               \/ Increment(s, step) \/ IncrementFails(s, step)
               \/ Decrement(s, step) \/ DecrementFails(s, step)
        PROVE  past'.told = past.told
    BY <1>0, <2>1, DoesIncrement, DoesIncrementFail, DoesDecrement, DoesDecrementFail DEF Recorded
  <2>2. CASE LuaAccepts(s) \/ LuaRejects(s) \/ LuaFails(s) \/ CountDB(s)
    BY <1>0, <2>2, DoesScript, DoesRefuseScript, DoesFailScript, DoesCountRow DEF Recorded
  <2> QED BY <1>3, <2>1, <2>2 DEF Quota, CountSteps
<1>4. CASE Finish(s) \/ WebCrash(s)
  BY <1>0, <1>4, DoesEnqueue, DoesEnqueueFail, DoesEnqueueRow, DoesFailInTable, DoesUndo, DoesRefuse,
     DoesBreakOff DEF Finish, Recorded
<1> QED BY <1>1, <1>2, <1>3, <1>4 DEF Request

LEMMA RequestLands ==
    ASSUME BaseInv, HasLanded, NEW s \in Slots, Request(s)
    PROVE  HasLanded'
<1>0. StepInv /\ Typed /\ StreamTypeOK /\ QueueGrows(s) /\ past.told \subseteq Ids
  BY RequestsGrow DEF BaseInv, QuotaInv, StepInv, AckInv, Typed, HistoryTyped
<1>1. ASSUME NEW e \in Ids, Landed(e) PROVE Landed(e)'
  <2>1. stream' = stream \/ \E x \in Ids : stream' = Append(stream, x)
    BY <1>0, RequestFields DEF QueueGrows, Xadd, Typed
  <2> QED BY <1>0, <1>1, <2>1, LandedStays DEF QueueGrows
<1>2. ASSUME Waits(s)' PROVE Landed(req[s].id)'
  <2>1. PICK e \in Ids : e = req[s].id /\ e = req'[s].id /\ Xadd(e)
    BY <1>0, <1>2, WaitsByXadd, RequestFields DEF Typed
  <2>2. Landed(e)'
    BY <1>0, <2>1, XaddLands
  <2> QED BY <2>1, <2>2 DEF Landed
<1>3. Others(s)
  BY <1>0, RequestQuota DEF BaseInv, Entered
<1>4. ASSUME NEW t \in Slots \ {s}, Waits(t)' PROVE Landed(req[t].id)'
  <2>1. Waits(t) /\ req'[t] = req[t]
    BY <1>3, <1>4 DEF Others, Waits, Taken, At
  <2>2. PICK e \in Ids : e = req[t].id /\ e = req'[t].id
    BY <1>0, <2>1, RequestFields DEF Typed, Waits
  <2>3. Landed(e)'
    BY <1>1, <2>1, <2>2 DEF HasLanded
  <2> QED BY <2>2, <2>3 DEF Landed
<1>5. ASSUME NEW e \in past'.told PROVE Landed(e)'
  <2>1. CASE e \in past.told
    BY <1>0, <1>1, <2>1 DEF HasLanded
  <2>2. CASE e \notin past.told
    <3>1. Commit(s)
      BY <1>0, <1>5, <2>2, ToldByCommit
    <3>2. /\ Taken(s) /\ At(s, "commit") /\ Wrote(s) /\ e = req[s].id /\ e \in Ids
      BY <1>0, <1>5, <2>2, <3>1, DoesCommit, RequestFields DEF Typed
    <3>3. CASE Waits(s)
      BY <1>1, <3>2, <3>3 DEF HasLanded
    <3>4. CASE ~Waits(s)
      <4>1. rows'[e] = rows[e] + 1 /\ rows[e] \in Nat
        BY <1>0, <3>2, <3>4 DEF Waits, Wrote, One, Typed, StoresTyped
      <4> QED BY <4>1 DEF Landed
    <3> QED BY <3>3, <3>4
  <2> QED BY <2>1, <2>2
<1>6. deleted' = {}
  BY <1>0 DEF QueueGrows, HasLanded
<1> QED BY <1>2, <1>4, <1>5, <1>6 DEF HasLanded

\* The bridge adds rows and deletes nobody here.
LEMMA BridgeLands ==
    ASSUME BaseInv, HasLanded, Bridge \/ UNCHANGED vars
    PROVE  HasLanded'
<1>0. StreamTypeOK /\ Typed /\ UNCHANGED <<req, past>> /\ past.told \subseteq Ids
  BY DEF BaseInv, AckInv, QuotaInv, StepInv, Typed, HistoryTyped, Bridge, vars
<1>1. UNCHANGED <<stream, deleted>>
  BY DEF Bridge, vars, streamVars, BridgeStep, ReadPending, ReadNew, BridgeEntry, BridgeRefused,
         BridgeFails, Ack, AckFails
<1>2. rows' = rows \/ \E i \in 1 .. Len(stream) : rows' = [rows EXCEPT ![stream[i]] = @ + 1]
  <2>1. ASSUME NEW c \in Consumers, NEW i \in bridge[c].todo PROVE i \in 1 .. Len(stream)
    BY <1>0, TypeParts DEF BridgeTyped, BatchType, EntriesTyped
  <2> QED BY <2>1 DEF Bridge, vars, streamVars, BridgeStep, ReadPending, ReadNew, BridgeEntry,
                      BridgeRefused, BridgeFails, Ack, AckFails
<1>3. ASSUME NEW e \in Ids, Landed(e) PROVE Landed(e)'
  <2>1. rows \in [Ids -> Nat] /\ rows[e] \in Nat
    BY <1>0 DEF StreamTypeOK
  <2>2. \A i \in 1 .. Len(stream) : stream[i] \in Ids
    BY <1>0 DEF StreamTypeOK
  <2>3. rows'[e] = rows[e] \/ rows'[e] = rows[e] + 1
    BY <1>2, <2>1, <2>2
  <2>4. rows'[e] > 0 \/ ~(rows[e] > 0)
    BY <2>1, <2>3
  <2> QED BY <1>1, <1>3, <2>4 DEF Landed
<1>4. ASSUME NEW t \in Slots, Waits(t)' PROVE Landed(req[t].id)'
  <2>1. Waits(t) /\ req'[t] = req[t]
    BY <1>0, <1>4 DEF Waits, Taken, At
  <2>2. PICK e \in Ids : e = req[t].id /\ e = req'[t].id
    BY <1>0, <2>1, RequestFields DEF Typed, Waits
  <2>3. Landed(e)'
    BY <1>3, <2>1, <2>2 DEF HasLanded
  <2> QED BY <2>2, <2>3 DEF Landed
<1> QED BY <1>0, <1>1, <1>3, <1>4 DEF HasLanded

\* Whoever is answered "queued" can rely on it, whatever call fails and whichever
\* process dies: the event is in the outbox table, or in a stream entry that is
\* not acknowledged.
THEOREM AnswersAreKept == Spec => []ToldIsKept
<1>1. Init => BaseInv /\ HasLanded
  <2> SUFFICES ASSUME Init PROVE BaseInv /\ HasLanded
    OBVIOUS
  <2>1. \A s \in Slots : ~Taken(s)
    BY DEF Init, Taken, At, Free
  <2> QED BY <2>1, BaseInit DEF Init, StreamInit, HasLanded, Waits
<1>2. BaseInv /\ HasLanded /\ [Next]_vars => BaseInv' /\ HasLanded'
  <2> SUFFICES ASSUME BaseInv, HasLanded, [Next]_vars PROVE BaseInv' /\ HasLanded'
    OBVIOUS
  <2>1. BaseInv'
    BY BaseNext
  <2> QED BY <2>1, RequestLands, BridgeLands DEF Next
<1>3. BaseInv /\ HasLanded => ToldIsKept
  <2> SUFFICES ASSUME BaseInv, HasLanded, NEW e \in past.told
               PROVE  rows[e] > 0 \/ \E i \in 1 .. Len(stream) : stream[i] = e /\ i \notin group.acked
    BY DEF ToldIsKept
  <2>1. CASE rows[e] > 0
    BY <2>1
  <2>2. CASE ~(rows[e] > 0)
    <3>1. PICK i \in 1 .. Len(stream) : stream[i] = e
      BY <2>2 DEF HasLanded, Landed
    <3>2. i \notin group.acked
      BY <2>2, <3>1 DEF BaseInv, AckInv, HasRow, HasLanded
    <3> QED BY <3>1, <3>2
  <2> QED BY <2>1, <2>2
<1> QED BY <1>1, <1>2, <1>3, PTL DEF Spec

=============================================================================
