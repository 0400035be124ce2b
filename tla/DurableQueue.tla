---------------------------- MODULE DurableQueue ----------------------------
(***************************************************************************)
(* What the outbox promises to those who put events into it, without       *)
(* workers, locks, attempts or restarts: an accepted event stays pending   *)
(* until it is settled, it is settled as sent only after the platform took *)
(* it (or there was nothing to send), and only settled events are cleaned  *)
(* up.  There are three exceptions.  The portal's retry button opens dead  *)
(* events again.  A sender that was not told that its event is recorded as *)
(* sent may open it again or declare it dead, once.  And an event that was *)
(* so reopened may be taken away while it is pending, by a clean-up that   *)
(* had chosen it before.  The owner takes all its events with it.          *)
(***************************************************************************)

CONSTANT Rows       \* ids of events

VARIABLES
    state,      \* what the queue says of an event
    taken,      \* has a platform taken it, or was there nothing to send?
    unheard,    \* events recorded as sent whose sender was not told
    reopened,   \* events that were opened or settled again
    owned       \* is the owner of the events still there?

queueVars == <<state, taken, unheard, reopened, owned>>

Settled == {"sent", "dead"}
States  == {"absent", "pending", "deleted"} \cup Settled

QueueTypeOK ==
    /\ state \in [Rows -> States]
    /\ taken \in [Rows -> BOOLEAN]
    /\ unheard \in SUBSET Rows
    /\ reopened \in SUBSET Rows
    /\ owned \in BOOLEAN

QueueInit ==
    /\ state = [r \in Rows |-> "absent"]
    /\ taken = [r \in Rows |-> FALSE]
    /\ unheard = {}
    /\ reopened = {}
    /\ owned = TRUE

Accept(r) ==
    /\ owned
    /\ state[r] = "absent"
    /\ state' = [state EXCEPT ![r] = "pending"]
    /\ UNCHANGED <<taken, unheard, reopened, owned>>

\* The platform has the event before the queue knows it, and may get it again.
Take(r) ==
    /\ state[r] \in {"pending", "deleted"}
    /\ taken' = [taken EXCEPT ![r] = TRUE]
    /\ UNCHANGED <<state, unheard, reopened, owned>>

Settle(r) ==
    /\ state[r] = "pending"
    /\ \/ /\ taken[r]
          /\ state' = [state EXCEPT ![r] = "sent"]
          /\ unheard' \in {unheard, unheard \cup {r}}
       \/ /\ state' = [state EXCEPT ![r] = "dead"]
          /\ UNCHANGED unheard
    /\ UNCHANGED <<taken, reopened, owned>>

\* The sender goes by what it knows: the send failed.
Mistake(r) ==
    /\ r \in unheard
    /\ state[r] = "sent"
    /\ \E s \in {"pending", "dead"} : state' = [state EXCEPT ![r] = s]
    /\ unheard' = unheard \ {r}
    /\ reopened' = reopened \cup {r}
    /\ UNCHANGED <<taken, owned>>

\* Senders come to an end, and with them what they have not heard.
End ==
    /\ unheard' \in SUBSET unheard
    /\ UNCHANGED <<state, taken, reopened, owned>>

Retry(r) ==
    /\ state[r] = "dead"
    /\ state' = [state EXCEPT ![r] = "pending"]
    /\ reopened' = reopened \cup {r}
    /\ UNCHANGED <<taken, unheard, owned>>

CleanUp ==
    /\ \E old \in SUBSET Rows :
        /\ \A r \in old : state[r] \in Settled \/ r \in reopened
        /\ state' = [r \in Rows |-> IF r \in old THEN "deleted" ELSE state[r]]
    /\ UNCHANGED <<taken, unheard, reopened, owned>>

Disown ==
    /\ owned
    /\ owned' = FALSE
    /\ state' = [r \in Rows |-> IF state[r] = "absent" THEN "absent" ELSE "deleted"]
    /\ UNCHANGED <<taken, unheard, reopened>>

QueueNext ==
    \/ \E r \in Rows : Accept(r) \/ Take(r) \/ Settle(r) \/ Mistake(r) \/ Retry(r)
    \/ End \/ CleanUp \/ Disown

QueueSpec == QueueInit /\ [][QueueNext]_queueVars

=============================================================================
