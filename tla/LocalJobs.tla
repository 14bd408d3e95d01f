------------------------------ MODULE LocalJobs ------------------------------
(***************************************************************************)
(* Background jobs: the process-local registry (jobs-local/src/index.ts),  *)
(* the completion notices that the job tools deliver to a job's owner      *)
(* (tool-jobs/src/index.ts), and the two teardowns that end jobs, of an    *)
(* owner's scope and of the registry itself.                               *)
(*                                                                         *)
(* A producer's done promise resolves before its reaction settles the job, *)
(* and a wait returns some time after it was released, timed out or was    *)
(* aborted: kills, reads, teardowns and other waits run in between.  The   *)
(* tools are mounted as long as the registry is, and deliver by waking.    *)
(*                                                                         *)
(* Of an owner the model has its driver and its inbox, as far as a notice  *)
(* can tell (core/agent-loop/src/agent.ts and inbox.ts): every other       *)
(* message is a wake, or a claim that may hold a user's.                   *)
(***************************************************************************)
EXTENDS Naturals, FiniteSets

CONSTANTS
  Owners,      \* agents
  Nobody,      \* the owner of a job started without one, the job of an unused wait
  Jobs,        \* bound on the jobs of a behaviour
  Waits,       \* bound on the wait() calls of a behaviour
  Limit,       \* maxConcurrentJobsPerOwner
  WakeBudget   \* maxConsecutiveWakes

ASSUME NobodyAssumption == Nobody \notin Owners \cup Jobs
ASSUME LimitAssumption == Limit \in Nat \ {0} /\ WakeBudget \in Nat

VARIABLES
  status,    \* each record's status; "ended" is a producer's outcome
  owner,
  reported,
  store,     \* the records that can be looked up
  work,      \* what each producer is doing
  wait,      \* each wait() call: its job, and how far it is
  agent,     \* each owner's driver, or how far its scope has unwound
  cleanup,   \* the owner's cleanup effect, with what it captured
  service,   \* the registry, with what its teardown captured
  queued,    \* notices in each owner's inbox
  followups, \* of them, those sent to wake: each waits for a turn of its own
  spent,     \* spentWakes
  opened,    \* wakes by notices since the last human input
  notices,   \* notices delivered for each job
  heard,     \* whether a job's end was reported otherwise
  stranded   \* those queued that a turn broke off over, or that came behind its last look

records == <<status, owner, reported, store, work>>
owners  == <<agent, queued, followups, spent, opened, stranded>>
history == <<notices, heard>>
vars == <<records, wait, owners, cleanup, service, history>>

Live == {"running", "stopping"}
Terminal == {"ended", "forced"}
Statuses == {"none"} \cup Live \cup Terminal

Init ==
  /\ status = [j \in Jobs |-> "none"]
  /\ owner = [j \in Jobs |-> Nobody]
  /\ reported = [j \in Jobs |-> FALSE]
  /\ store = {}
  /\ work = [j \in Jobs |-> "none"]
  /\ wait = [w \in Waits |-> [job |-> Nobody, phase |-> "unused"]]
  /\ agent = [o \in Owners |-> "idle"]
  /\ cleanup = [o \in Owners |-> [phase |-> "none", jobs |-> {}]]
  /\ service = [phase |-> "up", jobs |-> {}]
  /\ queued = [o \in Owners |-> {}]
  /\ followups = [o \in Owners |-> {}] /\ stranded = [o \in Owners |-> {}]
  /\ spent = [o \in Owners |-> 0]
  /\ opened = [o \in Owners |-> 0]
  /\ notices = [j \in Jobs |-> 0]
  /\ heard = [j \in Jobs |-> FALSE]

-----------------------------------------------------------------------------
(***************************************************************************)
(* start().                                                                *)
(***************************************************************************)
Up == service.phase = "up"

\* Between two activities, in one, or (retiring) behind its turn loop, until the
\* continuation of kick() makes it idle.  A wake during maintenance is latched.
Drivers == {"idle", "maintenance", "latched", "busy", "retiring"}
Alive(o) == agent[o] \in Drivers
Active(o) == Cardinality({j \in store : owner[j] = o /\ status[j] \in Live})

\* ensureOwnerCleanup: a disposing scope takes no new effect.
EnsureCleanup(o) ==
  IF o = Nobody
    THEN UNCHANGED cleanup
    ELSE /\ Alive(o)
         /\ cleanup' = [cleanup EXCEPT ![o].phase = "attached"]

\* The cleanup is attached before the limit is looked at and the work started,
\* which may throw.
Start(j, o) ==
  /\ Up /\ status[j] = "none"
  /\ EnsureCleanup(o)
  /\ \/ /\ Active(o) < Limit
        /\ status' = [status EXCEPT ![j] = "running"]
        /\ owner' = [owner EXCEPT ![j] = o]
        /\ work' = [work EXCEPT ![j] = "going"]
        /\ store' = store \cup {j}
     \/ UNCHANGED <<status, owner, work, store>>
  /\ UNCHANGED <<reported, wait, owners, service, history>>

-----------------------------------------------------------------------------
(***************************************************************************)
(* settle(), and the notice that follows it.                               *)
(***************************************************************************)
\* A wait is counted from its registration until it rejects or returns.
Counted == {"pending", "timed out"}

\* Mutant of Waiters: a rejected wait is discounted when it returns.
WaitersRejected(j) ==
  {w \in Waits : wait[w].job = j /\ wait[w].phase \in Counted \cup {"rejected"}}

Waiters(j) == {w \in Waits : wait[w].job = j /\ wait[w].phase \in Counted}

\* The waits still pending are released, in the settling step itself.
Release(S) ==
  wait' = [w \in Waits |->
             IF wait[w].phase = "pending" /\ wait[w].job \in S
               THEN [wait[w] EXCEPT !.phase = "released"] ELSE wait[w]]

\* status tells maintenance from idleness as little as the job tools do.
Unoccupied == {"idle", "maintenance", "latched"}
WakeDriver(phase) == IF phase = "idle" THEN "busy" ELSE "latched"

\* The job tools' listener: an idle owner is woken while its budget lasts.  What is
\* injected into a turn that has looked at its inbox for the last time stays there.
Deliver(j) ==
  LET o == owner[j]
  IN /\ notices' = [notices EXCEPT ![j] = @ + 1]
     /\ queued' = [queued EXCEPT ![o] = @ \cup {j}]
     /\ IF agent[o] \in Unoccupied /\ spent[o] < WakeBudget
          THEN /\ spent' = [spent EXCEPT ![o] = @ + 1]
               /\ opened' = [opened EXCEPT ![o] = @ + 1]
               /\ agent' = [agent EXCEPT ![o] = WakeDriver(@)]
               /\ followups' = [followups EXCEPT ![o] = @ \cup {j}]
               /\ UNCHANGED stranded
          ELSE /\ stranded' = [stranded EXCEPT ![o] = IF agent[o] = "retiring"
                                                      THEN @ \cup {j} ELSE @]
               /\ UNCHANGED <<spent, opened, agent, followups>>

\* The notices left of an inbox after a claim or a cancel.
Keeps(o, left) ==
  /\ queued' = [queued EXCEPT ![o] = left]
  /\ followups' = [followups EXCEPT ![o] = @ \cap left]
  /\ stranded' = [stranded EXCEPT ![o] = @ \cap left]

\* The producer releases its resources: its done promise resolves.
ProducerEnds(j) ==
  /\ work[j] \in {"going", "cancelled"}
  /\ work' = [work EXCEPT ![j] = "done"]
  /\ UNCHANGED <<status, owner, reported, store, wait, owners, cleanup, service, history>>

\* Mutant of Settle: a late outcome replaces the record's.
SettleLast(j) ==
  /\ work[j] = "done"
  /\ work' = [work EXCEPT ![j] = "over"]
  /\ status' = [status EXCEPT ![j] = "ended"]
  /\ Release({j})
  /\ UNCHANGED <<reported, owner, store, owners, cleanup, service, history>>

\* The first outcome is recorded; a wait that is counted claims the report.
Settle(j) ==
  /\ work[j] = "done"
  /\ work' = [work EXCEPT ![j] = "over"]
  /\ IF status[j] \in Terminal
       THEN UNCHANGED <<status, reported, wait, owners, history>>
       ELSE LET claimed == reported[j] \/ Waiters(j) # {}
            IN /\ status' = [status EXCEPT ![j] = "ended"]
               /\ reported' = [reported EXCEPT ![j] = claimed]
               /\ Release({j})
               /\ UNCHANGED heard
               /\ IF ~claimed /\ owner[j] # Nobody /\ Up
                    THEN Deliver(j)
                    ELSE UNCHANGED <<owners, notices>>
  /\ UNCHANGED <<owner, store, cleanup, service>>

-----------------------------------------------------------------------------
(***************************************************************************)
(* read(), kill() and wait().                                              *)
(***************************************************************************)
Told(j) ==
  /\ reported' = [reported EXCEPT ![j] = TRUE]
  /\ heard' = [heard EXCEPT ![j] = TRUE]

\* Of a live job a read reports nothing.
Read(j) ==
  /\ Up /\ j \in store /\ status[j] \in Terminal
  /\ Told(j)
  /\ UNCHANGED <<status, owner, store, work, wait, owners, cleanup, service, notices>>

\* A cancel that throws leaves everything as it was.
Kill(j) ==
  /\ Up /\ j \in store
  /\ IF status[j] \in Terminal
       THEN UNCHANGED <<status, work>>
       ELSE /\ status' = [status EXCEPT ![j] = "stopping"]
            /\ work' = [work EXCEPT ![j] = IF @ = "going" THEN "cancelled" ELSE @]
  /\ Told(j)
  /\ UNCHANGED <<owner, store, wait, owners, cleanup, service, notices>>

Await(w, j) ==
  /\ Up /\ j \in store
  /\ wait[w].phase = "unused"
  /\ IF status[j] \in Terminal
       THEN Told(j) /\ wait' = [wait EXCEPT ![w] = [job |-> j, phase |-> "over"]]
       ELSE /\ wait' = [wait EXCEPT ![w] = [job |-> j, phase |-> "pending"]]
            /\ UNCHANGED <<reported, heard>>
  /\ UNCHANGED <<status, owner, store, work, owners, cleanup, service, notices>>

\* The deadline resolves the wait, which stays counted until it returns.
WaitTimesOut(w) ==
  /\ wait[w].phase = "pending"
  /\ wait' = [wait EXCEPT ![w].phase = "timed out"]
  /\ UNCHANGED <<records, owners, cleanup, service, history>>

\* The caller's signal discounts the wait at once, and rejects it.
WaitAborts(w) ==
  /\ wait[w].phase = "pending"
  /\ wait' = [wait EXCEPT ![w].phase = "rejected"]
  /\ UNCHANGED <<records, owners, cleanup, service, history>>

\* The continuation returns the record as it is by now.
WaitReturns(w) ==
  /\ wait[w].phase \in {"released", "timed out", "rejected"}
  /\ wait' = [wait EXCEPT ![w].phase = "over"]
  /\ IF wait[w].phase # "rejected" /\ status[wait[w].job] \in Terminal
       THEN Told(wait[w].job)
       ELSE UNCHANGED <<reported, heard>>
  /\ UNCHANGED <<status, owner, store, work, owners, cleanup, service, notices>>

-----------------------------------------------------------------------------
(***************************************************************************)
(* Teardown, by an owner's scope or by the registry's fiber.               *)
(***************************************************************************)
LiveOf(S) == {j \in S : status[j] \in Live}

\* Mutant of CancelForTeardown: a job is reported once its cancel has returned.
CancelReportsLate(S, throws) ==
  /\ reported' = [j \in Jobs |-> reported[j] \/ j \in LiveOf(S) \ throws]
  /\ heard' = [j \in Jobs |-> heard[j] \/ j \in LiveOf(S) \ throws]
  /\ notices' = [j \in Jobs |-> notices[j] + (IF j \in throws /\ ~reported[j] THEN 1 ELSE 0)]
  /\ status' = [j \in Jobs |-> IF j \in throws THEN "forced"
                               ELSE IF j \in LiveOf(S) THEN "stopping" ELSE status[j]]
  /\ work' = [j \in Jobs |-> IF j \in LiveOf(S) \ throws /\ work[j] = "going"
                             THEN "cancelled" ELSE work[j]]
  /\ Release(throws)

\* Mutant of CancelForTeardown: a cancel that throws is only logged.
CancelLogging(S, throws) ==
  /\ reported' = [j \in Jobs |-> reported[j] \/ j \in LiveOf(S)]
  /\ heard' = [j \in Jobs |-> heard[j] \/ j \in LiveOf(S)]
  /\ status' = [j \in Jobs |-> IF j \in LiveOf(S) \ throws THEN "stopping" ELSE status[j]]
  /\ work' = [j \in Jobs |-> IF j \in LiveOf(S) \ throws /\ work[j] = "going"
                             THEN "cancelled" ELSE work[j]]
  /\ UNCHANGED <<wait, notices>>

\* Every live job is reported before its cancel is called; a cancel that
\* throws settles the record by force, whatever becomes of the work.
CancelForTeardown(S, throws) ==
  /\ reported' = [j \in Jobs |-> reported[j] \/ j \in LiveOf(S)]
  /\ heard' = [j \in Jobs |-> heard[j] \/ j \in LiveOf(S)]
  /\ status' = [j \in Jobs |-> IF j \in throws THEN "forced"
                               ELSE IF j \in LiveOf(S) THEN "stopping" ELSE status[j]]
  /\ work' = [j \in Jobs |-> IF j \in LiveOf(S) \ throws /\ work[j] = "going"
                             THEN "cancelled" ELSE work[j]]
  /\ Release(throws)
  /\ UNCHANGED notices

\* The owner's scope unwinds, behind the cancel that clears the inbox, be its driver
\* idle by then or not: disposeOwned, if jobs were started.
OwnerDisposes(o) ==
  /\ Alive(o)
  /\ agent' = [agent EXCEPT ![o] = "disposing"]
  /\ Keeps(o, {})
  /\ LET owned == IF cleanup[o].phase = "attached" THEN {j \in store : owner[j] = o} ELSE {}
     IN /\ cleanup' = [cleanup EXCEPT ![o] = [phase |-> "running", jobs |-> owned]]
        /\ \E throws \in SUBSET LiveOf(owned) : CancelForTeardown(owned, throws)
  /\ UNCHANGED <<owner, store, spent, opened, service>>

Settled(S) == \A j \in S : status[j] \in Terminal

\* Mutant of OwnerDisposed: the disposal does not wait for the producers.
OwnerDisposedAhead(o) ==
  /\ agent[o] = "disposing"
  /\ agent' = [agent EXCEPT ![o] = "gone"]
  /\ cleanup' = [cleanup EXCEPT ![o] = [phase |-> "none", jobs |-> {}]]
  /\ store' = store \ cleanup[o].jobs
  /\ UNCHANGED <<status, owner, reported, work, wait, queued, followups, spent, opened,
                 stranded, service, history>>

\* All of them have settled: their records are dropped, the scope is unwound.
OwnerDisposed(o) ==
  /\ agent[o] = "disposing"
  /\ Settled(cleanup[o].jobs)
  /\ agent' = [agent EXCEPT ![o] = "gone"]
  /\ cleanup' = [cleanup EXCEPT ![o] = [phase |-> "none", jobs |-> {}]]
  /\ store' = store \ cleanup[o].jobs
  /\ UNCHANGED <<status, owner, reported, work, wait, queued, followups, spent, opened,
                 stranded, service, history>>

\* disposeAll: the listeners are closed before anything is cancelled.
ServiceDisposes ==
  /\ Up
  /\ service' = [phase |-> "draining", jobs |-> store]
  /\ \E throws \in SUBSET LiveOf(store) : CancelForTeardown(store, throws)
  /\ UNCHANGED <<owner, store, owners, cleanup>>

\* The store is emptied, and the effects left in live scopes are detached.
ServiceDisposed ==
  /\ service.phase = "draining"
  /\ Settled(service.jobs)
  /\ service' = [phase |-> "closed", jobs |-> {}]
  /\ store' = {}
  /\ cleanup' = [o \in Owners |->
                   IF cleanup[o].phase = "attached" THEN [phase |-> "none", jobs |-> {}]
                   ELSE cleanup[o]]
  /\ UNCHANGED <<status, owner, reported, work, wait, owners, history>>

-----------------------------------------------------------------------------
(***************************************************************************)
(* The owner's driver.                                                     *)
(***************************************************************************)
Unrelated == <<records, wait, cleanup, service, history>>

\* Another message wakes the owner, or its wake is latched behind maintenance.
Sends(o) ==
  /\ agent[o] \in {"idle", "maintenance"}
  /\ agent' = [agent EXCEPT ![o] = WakeDriver(@)]
  /\ UNCHANGED <<queued, followups, spent, opened, stranded, Unrelated>>

Maintains(o) ==
  /\ agent[o] = "idle"
  /\ agent' = [agent EXCEPT ![o] = "maintenance"]
  /\ UNCHANGED <<queued, followups, spent, opened, stranded, Unrelated>>

\* A latched wake is replayed.
MaintenanceEnds(o) ==
  /\ agent[o] \in {"maintenance", "latched"}
  /\ agent' = [agent EXCEPT ![o] = IF @ = "latched" THEN "busy" ELSE "idle"]
  /\ UNCHANGED <<queued, followups, spent, opened, stranded, Unrelated>>

\* The job tools listen to what is claimed: a user's message refills the budget.
Refills(o, human) ==
  /\ spent' = [spent EXCEPT ![o] = IF human THEN 0 ELSE @]
  /\ opened' = [opened EXCEPT ![o] = IF human THEN 0 ELSE @]

\* A step claims everything injected, and a turn at most one message that woke.
Claims(o, human, left) ==
  /\ agent[o] = "busy"
  /\ left \subseteq queued[o] \cap followups[o]
  /\ Keeps(o, left)
  /\ Refills(o, human)
  /\ UNCHANGED <<agent, Unrelated>>

\* Mutant of LastLook: the turn loop ends without a look at the inbox.
LastLookBlind(o) ==
  /\ agent[o] = "busy"
  /\ agent' = [agent EXCEPT ![o] = "retiring"]
  /\ UNCHANGED <<queued, followups, spent, opened, stranded, Unrelated>>

\* The turn loop ends over an empty inbox.
LastLook(o) ==
  /\ agent[o] = "busy" /\ queued[o] = {}
  /\ agent' = [agent EXCEPT ![o] = "retiring"]
  /\ UNCHANGED <<queued, followups, spent, opened, stranded, Unrelated>>

\* A turn that throws, is aborted, rejected or has nothing to say ends without a look.
Breaks(o) ==
  /\ agent[o] = "busy"
  /\ agent' = [agent EXCEPT ![o] = "retiring"]
  /\ stranded' = [stranded EXCEPT ![o] = queued[o]]
  /\ UNCHANGED <<queued, followups, spent, opened, Unrelated>>

Retires(o) ==
  /\ agent[o] = "retiring"
  /\ agent' = [agent EXCEPT ![o] = "idle"]
  /\ UNCHANGED <<queued, followups, spent, opened, stranded, Unrelated>>

\* cancel() without keepInbox; what it aborts ends by itself.
CancelClears(o) ==
  /\ Alive(o)
  /\ Keeps(o, {})
  /\ agent' = [agent EXCEPT ![o] = IF @ = "latched" THEN "maintenance" ELSE @]
  /\ UNCHANGED <<spent, opened, Unrelated>>

-----------------------------------------------------------------------------

Driver(o) ==
  \/ Sends(o) \/ Maintains(o) \/ MaintenanceEnds(o)
  \/ \E human \in BOOLEAN, left \in SUBSET queued[o] : Claims(o, human, left)
  \/ LastLook(o) \/ Breaks(o) \/ Retires(o) \/ CancelClears(o)

Next ==
  \/ \E j \in Jobs :
       \/ \E o \in Owners \cup {Nobody} : Start(j, o)
       \/ ProducerEnds(j) \/ Settle(j) \/ Read(j) \/ Kill(j)
       \/ \E w \in Waits : Await(w, j)
  \/ \E w \in Waits : WaitTimesOut(w) \/ WaitAborts(w) \/ WaitReturns(w)
  \/ \E o \in Owners :
       \/ OwnerDisposes(o) \/ OwnerDisposed(o) \/ Driver(o)
  \/ ServiceDisposes \/ ServiceDisposed

Spec == Init /\ [][Next]_vars

\* A producer that was cancelled ends (its contract), and reactions run.
Fairness ==
  /\ \A j \in Jobs : WF_vars(work[j] = "cancelled" /\ ProducerEnds(j)) /\ WF_vars(Settle(j))
  /\ \A o \in Owners : WF_vars(OwnerDisposed(o))
  /\ WF_vars(ServiceDisposed)

LiveSpec == Spec /\ Fairness

-----------------------------------------------------------------------------
(***************************************************************************)
(* Properties.                                                             *)
(***************************************************************************)
\* Every variable holds a value of its type.
TypeOK ==
  /\ status \in [Jobs -> Statuses]
  /\ owner \in [Jobs -> Owners \cup {Nobody}]
  /\ reported \in [Jobs -> BOOLEAN]
  /\ store \subseteq Jobs
  /\ work \in [Jobs -> {"none", "going", "cancelled", "done", "over"}]
  /\ wait \in [Waits -> [job : Jobs \cup {Nobody},
                         phase : {"unused", "pending", "released", "timed out", "rejected", "over"}]]
  /\ agent \in [Owners -> Drivers \cup {"disposing", "gone"}]
  /\ cleanup \in [Owners -> [phase : {"none", "attached", "running"}, jobs : SUBSET Jobs]]
  /\ service \in [phase : {"up", "draining", "closed"}, jobs : SUBSET Jobs]
  /\ queued \in [Owners -> SUBSET Jobs]
  /\ followups \in [Owners -> SUBSET Jobs] /\ stranded \in [Owners -> SUBSET Jobs]
  /\ spent \in [Owners -> Nat] /\ opened \in [Owners -> Nat]
  /\ notices \in [Jobs -> Nat]
  /\ heard \in [Jobs -> BOOLEAN]

\* The end of an owned job reaches its owner in one way: by one notice, or, if
\* the notice was suppressed, by a kill, a read, a teardown or a wait that has
\* returned the end or is bound to return it, never by a wait that rejected.
EndIsTold ==
  \A j \in Jobs : owner[j] # Nobody /\ status[j] \in Terminal =>
    \/ notices[j] = 1
    \/ /\ notices[j] = 0 /\ reported[j]
       /\ \/ heard[j]
          \/ \E w \in Waits : wait[w].job = j /\ wait[w].phase \in {"released", "timed out"}

\* The first outcome of a job stays its outcome, though a job that a teardown
\* failed by force may still settle, and kills and teardowns cross settlements.
FirstOutcomeStays ==
  [][\A j \in Jobs : status[j] \in Terminal => status'[j] = status[j]]_vars

\* No completion is announced to an owner from its disposeOwned on, nor by a
\* registry being disposed: a notice would open a model turn in a teardown.
TeardownIsQuiet ==
  [][\A j \in Jobs : notices'[j] > notices[j] =>
       service'.phase = "up" /\ agent'[owner[j]] \in Drivers]_vars

\* Once an owner is gone, or the registry closed, none of the jobs has a record
\* or goes on working, except work whose cancel threw in the teardown.
NoOrphans ==
  \A j \in Jobs :
    \/ owner[j] \in Owners /\ agent[owner[j]] = "gone"
    \/ service.phase = "closed"
    => j \notin store /\ (work[j] \in {"none", "over"} \/ status[j] = "forced")

\* Between two human inputs notices wake an owner at most WakeBudget times, however
\* jobs, turns and maintenance follow each other; and while the budget lasts an
\* owner between two activities has no notice left in its inbox, where the model
\* would never learn of it, except where a turn broke off over one or one came
\* behind a turn's last look.
WokenWithinBudget ==
  \A o \in Owners :
    /\ opened[o] <= WakeBudget
    /\ agent[o] \in {"idle", "maintenance"} /\ queued[o] \ stranded[o] # {} =>
         spent[o] = WakeBudget

\* Both teardowns end, provided that producers keep their contract: what was
\* cancelled ends, what throws is not waited for.
TeardownsEnd ==
  <>[](service.phase # "draining" /\ \A o \in Owners : agent[o] # "disposing")
=============================================================================
