--------------------------- MODULE LocalJobsProofs ---------------------------
(***************************************************************************)
(* Proofs about LocalJobs for any owners, jobs and waits, and any limits.  *)
(***************************************************************************)
EXTENDS LocalJobs, TLAPS

(***************************************************************************)
(* The inductive invariant.                                                *)
(***************************************************************************)
\* The status of a record and the work behind it go together.
Working ==
  \A j \in Jobs :
    /\ status[j] = "none" => work[j] = "none" /\ j \notin store
    /\ status[j] \in Live => work[j] \in {"going", "cancelled", "done"} /\ j \in store
    /\ status[j] = "ended" => work[j] = "over"

\* A stored record of an owner is known to the cleanup of that owner, and to
\* the teardown of the registry.
Registered ==
  /\ \A j \in store : owner[j] # Nobody =>
       \/ Alive(owner[j]) /\ cleanup[owner[j]].phase = "attached"
       \/ agent[owner[j]] = "disposing" /\ j \in cleanup[owner[j]].jobs
  /\ service.phase = "draining" => store \subseteq service.jobs
  /\ service.phase = "closed" => store = {}

\* A job that is still live has told nobody, except one that told aloud; and
\* in a teardown every live job has.
Unannounced ==
  \A j \in Jobs : status[j] \notin Terminal =>
    /\ notices[j] = 0
    /\ reported[j] => heard[j]
    /\ status[j] \in Live /\ (~Up \/ (owner[j] # Nobody /\ ~Alive(owner[j]))) => reported[j]

\* The wakes of notices are paid for, and none waits unseen before they are spent:
\* a turn that has looked for the last time leaves what is stranded only.
Budgeted ==
  \A o \in Owners :
    /\ opened[o] <= spent[o] /\ spent[o] <= WakeBudget
    /\ agent[o] \in {"idle", "maintenance"} /\ queued[o] \ stranded[o] # {} =>
         spent[o] = WakeBudget
    /\ agent[o] = "retiring" => queued[o] \subseteq stranded[o]

Inductive == TypeOK /\ Working /\ Registered /\ Unannounced /\ EndIsTold /\ Budgeted

-----------------------------------------------------------------------------
(***************************************************************************)
(* What the shared steps do to single jobs and waits.                      *)
(***************************************************************************)
Wait == [job : Jobs \cup {Nobody},
         phase : {"unused", "pending", "released", "timed out", "rejected", "over"}]
Phases == Drivers \cup {"disposing", "gone"}
Cleanup == [phase : {"none", "attached", "running"}, jobs : SUBSET Jobs]

LEMMA ReleaseEffect ==
  ASSUME TypeOK, NEW S, Release(S)
  PROVE  /\ wait' \in [Waits -> Wait]
         /\ \A w \in Waits :
              /\ wait'[w].job = wait[w].job
              /\ wait[w].phase \in {"released", "timed out"} => wait'[w].phase = wait[w].phase
              /\ wait[w].phase = "pending" /\ wait[w].job \in S => wait'[w].phase = "released"
<1>1. \A w \in Waits : wait[w] \in Wait
  BY DEF TypeOK, Wait
<1>2. \A w \in Waits :
        wait'[w] = IF wait[w].phase = "pending" /\ wait[w].job \in S
                     THEN [wait[w] EXCEPT !.phase = "released"] ELSE wait[w]
  BY DEF Release
<1>3. \A w \in Waits :
        /\ wait'[w] \in Wait
        /\ wait'[w].job = wait[w].job
        /\ wait[w].phase \in {"released", "timed out"} => wait'[w].phase = wait[w].phase
        /\ wait[w].phase = "pending" /\ wait[w].job \in S => wait'[w].phase = "released"
  BY <1>1, <1>2 DEF Wait
<1>4. wait' = [w \in Waits |-> wait'[w]]
  BY DEF Release
<1> QED BY <1>3, <1>4

\* What a teardown does to each job.
LEMMA TeardownEffect ==
  ASSUME TypeOK, NEW S \in SUBSET Jobs, NEW throws \in SUBSET LiveOf(S),
         CancelForTeardown(S, throws)
  PROVE  /\ status' \in [Jobs -> Statuses] /\ reported' \in [Jobs -> BOOLEAN]
         /\ heard' \in [Jobs -> BOOLEAN] /\ notices' = notices
         /\ work' \in [Jobs -> {"none", "going", "cancelled", "done", "over"}]
         /\ \A j \in Jobs :
              /\ j \notin LiveOf(S) =>
                   UNCHANGED <<status[j], work[j], reported[j], heard[j]>>
              /\ j \in LiveOf(S) =>
                   /\ reported'[j] /\ heard'[j]
                   /\ \/ status'[j] = "forced" /\ j \in throws /\ work'[j] = work[j]
                      \/ /\ status'[j] = "stopping" /\ j \notin throws
                         /\ work'[j] = IF work[j] = "going" THEN "cancelled" ELSE work[j]
<1>1. LiveOf(S) \subseteq Jobs /\ throws \subseteq LiveOf(S)
  BY DEF LiveOf
<1>2. \A j \in Jobs :
        /\ reported'[j] = (reported[j] \/ j \in LiveOf(S))
        /\ heard'[j] = (heard[j] \/ j \in LiveOf(S))
        /\ status'[j] = IF j \in throws THEN "forced"
                        ELSE IF j \in LiveOf(S) THEN "stopping" ELSE status[j]
        /\ work'[j] = IF j \in LiveOf(S) \ throws /\ work[j] = "going"
                      THEN "cancelled" ELSE work[j]
  BY DEF CancelForTeardown
<1>3. /\ status' = [j \in Jobs |-> status'[j]] /\ reported' = [j \in Jobs |-> reported'[j]]
      /\ heard' = [j \in Jobs |-> heard'[j]] /\ work' = [j \in Jobs |-> work'[j]]
      /\ notices' = notices
  BY DEF CancelForTeardown
<1>4. \A j \in Jobs : /\ status'[j] \in Statuses /\ reported'[j] \in BOOLEAN
                      /\ heard'[j] \in BOOLEAN
                      /\ work'[j] \in {"none", "going", "cancelled", "done", "over"}
  <2>1. \A j \in Jobs : status'[j] \in Statuses
    BY <1>2 DEF TypeOK, Statuses, Terminal, Live
  <2>2. \A j \in Jobs : work'[j] \in {"none", "going", "cancelled", "done", "over"}
    BY <1>2 DEF TypeOK
  <2>3. \A j \in Jobs : reported'[j] \in BOOLEAN /\ heard'[j] \in BOOLEAN
    BY <1>2, Zenon
  <2> QED BY <2>1, <2>2, <2>3
<1>5. /\ status' \in [Jobs -> Statuses] /\ reported' \in [Jobs -> BOOLEAN]
      /\ heard' \in [Jobs -> BOOLEAN] /\ notices' = notices
      /\ work' \in [Jobs -> {"none", "going", "cancelled", "done", "over"}]
  BY <1>3, <1>4
<1>6. ASSUME NEW j \in Jobs, j \notin LiveOf(S)
      PROVE  UNCHANGED <<status[j], work[j], reported[j], heard[j]>>
  <2>1. j \notin throws
    BY <1>1, <1>6
  <2>2. reported'[j] = reported[j] /\ heard'[j] = heard[j]
    <3>1. reported[j] \in BOOLEAN /\ heard[j] \in BOOLEAN
      BY DEF TypeOK
    <3> QED BY <1>2, <1>6, <3>1
  <2> QED BY <1>2, <1>6, <2>1, <2>2
<1>7. ASSUME NEW j \in Jobs, j \in LiveOf(S)
      PROVE  /\ reported'[j] /\ heard'[j]
             /\ \/ status'[j] = "forced" /\ j \in throws /\ work'[j] = work[j]
                \/ /\ status'[j] = "stopping" /\ j \notin throws
                   /\ work'[j] = IF work[j] = "going" THEN "cancelled" ELSE work[j]
  BY <1>2, <1>7
<1> QED BY <1>5, <1>6, <1>7

-----------------------------------------------------------------------------
(***************************************************************************)
(* Type correctness.                                                       *)
(***************************************************************************)
LEMMA InitTyped == Init => TypeOK
  BY DEF Init, TypeOK, Statuses, Drivers

\* A teardown, of an owner or of the registry, keeps the records and waits typed.
LEMMA TeardownTyped ==
  ASSUME TypeOK, NEW S \in SUBSET Jobs, NEW throws \in SUBSET LiveOf(S),
         CancelForTeardown(S, throws)
  PROVE  /\ status' \in [Jobs -> Statuses] /\ reported' \in [Jobs -> BOOLEAN]
         /\ heard' \in [Jobs -> BOOLEAN] /\ notices' = notices
         /\ work' \in [Jobs -> {"none", "going", "cancelled", "done", "over"}]
         /\ wait' \in [Waits -> Wait]
<1>1. Release(throws)
  BY DEF CancelForTeardown
<1> QED BY <1>1, TeardownEffect, ReleaseEffect

LEMMA WakePhase == \A phase : WakeDriver(phase) \in {"busy", "latched"}
  BY DEF WakeDriver

\* What a claim or a cancel leaves of an inbox.
LEMMA KeepsEffect ==
  ASSUME TypeOK, NEW o \in Owners, NEW left \in SUBSET Jobs, Keeps(o, left)
  PROVE  /\ queued' \in [Owners -> SUBSET Jobs] /\ followups' \in [Owners -> SUBSET Jobs]
         /\ stranded' \in [Owners -> SUBSET Jobs]
         /\ queued'[o] = left
         /\ \A p \in Owners \ {o} : UNCHANGED <<queued[p], stranded[p]>>
<1>1. /\ queued \in [Owners -> SUBSET Jobs] /\ followups \in [Owners -> SUBSET Jobs]
      /\ stranded \in [Owners -> SUBSET Jobs]
  BY DEF TypeOK
<1> QED BY <1>1 DEF Keeps

\* The steps of an owner's driver touch nothing but that owner.
LEMMA DriverEffect ==
  ASSUME TypeOK, NEW o \in Owners, Driver(o)
  PROVE  /\ UNCHANGED Unrelated
         /\ agent[o] \in Drivers /\ agent'[o] \in Drivers
         /\ agent' = [agent EXCEPT ![o] = agent'[o]]
         /\ queued' \in [Owners -> SUBSET Jobs] /\ followups' \in [Owners -> SUBSET Jobs]
         /\ stranded' \in [Owners -> SUBSET Jobs]
         /\ \/ UNCHANGED <<spent, opened>>
            \/ spent' = [spent EXCEPT ![o] = 0] /\ opened' = [opened EXCEPT ![o] = 0]
         /\ \A p \in Owners \ {o} : UNCHANGED <<queued[p], stranded[p]>>
<1>1. /\ DOMAIN agent = Owners /\ agent = [agent EXCEPT ![o] = agent[o]]
      /\ spent = [spent EXCEPT ![o] = spent[o]] /\ opened = [opened EXCEPT ![o] = opened[o]]
      /\ queued \in [Owners -> SUBSET Jobs] /\ followups \in [Owners -> SUBSET Jobs]
      /\ stranded \in [Owners -> SUBSET Jobs]
  BY DEF TypeOK
<1>2. CASE \/ Sends(o) \/ Maintains(o) \/ MaintenanceEnds(o) \/ LastLook(o) \/ Retires(o)
  <2>1. UNCHANGED <<queued, followups, spent, opened, stranded, Unrelated>>
    BY <1>2 DEF Sends, Maintains, MaintenanceEnds, LastLook, Retires
  <2>2. /\ agent[o] \in Drivers /\ agent'[o] \in Drivers
        /\ agent' = [agent EXCEPT ![o] = agent'[o]]
    BY <1>1, <1>2, WakePhase DEF Sends, Maintains, MaintenanceEnds, LastLook, Retires, Drivers
  <2> QED BY <1>1, <2>1, <2>2
<1>3. ASSUME NEW human \in BOOLEAN, NEW left \in SUBSET queued[o], Claims(o, human, left)
      PROVE  /\ UNCHANGED <<agent, Unrelated>> /\ agent[o] = "busy"
             /\ left \in SUBSET Jobs /\ Keeps(o, left)
             /\ \/ UNCHANGED <<spent, opened>>
                \/ spent' = [spent EXCEPT ![o] = 0] /\ opened' = [opened EXCEPT ![o] = 0]
  BY <1>1, <1>3 DEF Claims, Refills
<1>4. CASE \E human \in BOOLEAN, left \in SUBSET queued[o] : Claims(o, human, left)
  BY <1>1, <1>3, <1>4, KeepsEffect DEF Drivers
<1>5. CASE Breaks(o)
  <2>1. /\ agent[o] = "busy" /\ agent' = [agent EXCEPT ![o] = "retiring"]
        /\ stranded' = [stranded EXCEPT ![o] = queued[o]]
        /\ UNCHANGED <<queued, followups, spent, opened, Unrelated>>
    BY <1>5 DEF Breaks
  <2> QED BY <1>1, <2>1 DEF Drivers
<1>6. CASE CancelClears(o)
  <2>1. /\ Alive(o) /\ Keeps(o, {}) /\ UNCHANGED <<spent, opened, Unrelated>>
        /\ agent' = [agent EXCEPT ![o] =
              IF agent[o] = "latched" THEN "maintenance" ELSE agent[o]]
    BY <1>6 DEF CancelClears
  <2>2. /\ agent[o] \in Drivers /\ agent'[o] \in Drivers
        /\ agent' = [agent EXCEPT ![o] = agent'[o]]
    BY <1>1, <2>1 DEF Alive, Drivers
  <2> QED BY <2>1, <2>2, KeepsEffect
<1> QED BY <1>2, <1>4, <1>5, <1>6 DEF Driver

\* Starting a job, with the cleanup it attaches.
LEMMA StartTyped ==
  ASSUME TypeOK, NEW j \in Jobs, NEW o \in Owners \cup {Nobody}, Start(j, o)
  PROVE  TypeOK'
<1>1. UNCHANGED <<reported, wait, agent, queued, followups, spent, opened, stranded, service, notices, heard>>
  BY DEF Start, owners, history
<1>2. /\ status' \in [Jobs -> Statuses] /\ store' \subseteq Jobs
      /\ owner' \in [Jobs -> Owners \cup {Nobody}]
      /\ work' \in [Jobs -> {"none", "going", "cancelled", "done", "over"}]
  <2>1. CASE UNCHANGED <<status, owner, work, store>>
    BY <2>1 DEF TypeOK
  <2>2. CASE /\ status' = [status EXCEPT ![j] = "running"]
             /\ owner' = [owner EXCEPT ![j] = o]
             /\ work' = [work EXCEPT ![j] = "going"]
             /\ store' = store \cup {j}
    <3>1. status' \in [Jobs -> Statuses]
      BY <2>2 DEF TypeOK, Statuses, Live
    <3>2. owner' \in [Jobs -> Owners \cup {Nobody}]
      BY <2>2 DEF TypeOK
    <3>3. work' \in [Jobs -> {"none", "going", "cancelled", "done", "over"}]
      BY <2>2 DEF TypeOK
    <3> QED BY <2>2, <3>1, <3>2, <3>3 DEF TypeOK
  <2> QED BY <2>1, <2>2 DEF Start
<1>3. cleanup' \in [Owners -> Cleanup]
  <2>1. cleanup \in [Owners -> Cleanup]
    BY DEF TypeOK, Cleanup
  <2>2. CASE o = Nobody
    <3>1. cleanup' = cleanup
      BY <2>2 DEF Start, EnsureCleanup
    <3> QED BY <2>1, <3>1
  <2>3. CASE o # Nobody
    <3>1. cleanup[o] \in Cleanup
      BY <2>1, <2>3
    <3>2. [cleanup[o] EXCEPT !.phase = "attached"] \in Cleanup
      BY <3>1 DEF Cleanup
    <3>3. cleanup' = [cleanup EXCEPT ![o] = [cleanup[o] EXCEPT !.phase = "attached"]]
      BY <2>3 DEF Start, EnsureCleanup
    <3> QED BY <2>1, <3>2, <3>3
  <2> QED BY <2>2, <2>3
<1> QED BY <1>1, <1>2, <1>3 DEF TypeOK, Cleanup

\* What a notice does to its owner.
LEMMA DeliverEffect ==
  ASSUME TypeOK, NEW j \in Jobs, owner[j] # Nobody, Deliver(j)
  PROVE  /\ owner[j] \in Owners
         /\ notices' = [notices EXCEPT ![j] = notices[j] + 1]
         /\ queued' = [queued EXCEPT ![owner[j]] = queued[owner[j]] \cup {j}]
         /\ \/ /\ agent[owner[j]] \in Unoccupied /\ spent[owner[j]] < WakeBudget
               /\ spent' = [spent EXCEPT ![owner[j]] = spent[owner[j]] + 1]
               /\ opened' = [opened EXCEPT ![owner[j]] = opened[owner[j]] + 1]
               /\ agent' = [agent EXCEPT ![owner[j]] = WakeDriver(agent[owner[j]])]
               /\ followups' = [followups EXCEPT ![owner[j]] = followups[owner[j]] \cup {j}]
               /\ UNCHANGED stranded
            \/ /\ ~(agent[owner[j]] \in Unoccupied /\ spent[owner[j]] < WakeBudget)
               /\ \/ agent[owner[j]] # "retiring" /\ UNCHANGED stranded
                  \/ stranded' = [stranded EXCEPT ![owner[j]] = stranded[owner[j]] \cup {j}]
               /\ UNCHANGED <<spent, opened, agent, followups>>
  BY DEF TypeOK, Deliver

LEMMA DeliverTyped ==
  ASSUME TypeOK, NEW j \in Jobs, owner[j] # Nobody, Deliver(j)
  PROVE  /\ notices' \in [Jobs -> Nat] /\ queued' \in [Owners -> SUBSET Jobs]
         /\ followups' \in [Owners -> SUBSET Jobs] /\ stranded' \in [Owners -> SUBSET Jobs]
         /\ spent' \in [Owners -> Nat] /\ opened' \in [Owners -> Nat]
         /\ agent' \in [Owners -> Phases]
<1>1. notices \in [Jobs -> Nat] /\ queued \in [Owners -> SUBSET Jobs]
  BY DEF TypeOK
<1>2. /\ spent \in [Owners -> Nat] /\ opened \in [Owners -> Nat]
      /\ agent \in [Owners -> Phases]
  BY DEF TypeOK, Phases
<1>3. followups \in [Owners -> SUBSET Jobs] /\ stranded \in [Owners -> SUBSET Jobs]
  BY DEF TypeOK
<1>4. notices' \in [Jobs -> Nat] /\ owner[j] \in Owners
  BY <1>1, DeliverEffect
<1>5. queued' \in [Owners -> SUBSET Jobs]
  BY <1>1, DeliverEffect
<1>6. spent' \in [Owners -> Nat] /\ opened' \in [Owners -> Nat]
  BY <1>2, DeliverEffect
<1>7. agent' \in [Owners -> Phases]
  <2>1. agent' = agent \/ \E phase \in Phases : agent' = [agent EXCEPT ![owner[j]] = phase]
    BY DeliverEffect, WakePhase DEF Phases, Drivers
  <2> QED BY <1>2, <2>1
<1>8. followups' \in [Owners -> SUBSET Jobs]
  BY <1>3, DeliverEffect
<1>9. stranded' \in [Owners -> SUBSET Jobs]
  <2>1. stranded' = stranded \/ \E S \in SUBSET Jobs : stranded' = [stranded EXCEPT ![owner[j]] = S]
    <3>1. stranded[owner[j]] \in SUBSET Jobs /\ stranded[owner[j]] \cup {j} \in SUBSET Jobs
      BY <1>3, <1>4
    <3> QED BY <3>1, DeliverEffect
  <2> QED BY <1>3, <2>1
<1> QED BY <1>4, <1>5, <1>6, <1>7, <1>8, <1>9

\* What settling does: nothing to a record that has its outcome.
LEMMA SettleEffect ==
  ASSUME TypeOK, NEW j \in Jobs, Settle(j)
  PROVE  /\ work[j] = "done" /\ work' = [work EXCEPT ![j] = "over"]
         /\ UNCHANGED <<owner, store, cleanup, service, heard>>
         /\ \/ /\ status[j] \in Terminal
               /\ UNCHANGED <<status, reported, wait, agent, queued, followups, spent, opened, stranded, notices>>
            \/ /\ status[j] \notin Terminal
               /\ status' = [status EXCEPT ![j] = "ended"]
               /\ reported' = [reported EXCEPT ![j] = reported[j] \/ Waiters(j) # {}]
               /\ Release({j})
               /\ \/ /\ ~reported[j] /\ Waiters(j) = {} /\ owner[j] # Nobody /\ Up
                     /\ Deliver(j)
                  \/ /\ ~(~reported[j] /\ Waiters(j) = {} /\ owner[j] # Nobody /\ Up)
                     /\ UNCHANGED <<agent, queued, followups, spent, opened, stranded, notices>>
  BY DEF Settle, owners, history

LEMMA SettleTyped ==
  ASSUME TypeOK, NEW j \in Jobs, Settle(j)
  PROVE  TypeOK'
<1>1. work' \in [Jobs -> {"none", "going", "cancelled", "done", "over"}]
  BY SettleEffect DEF TypeOK
<1>2. CASE UNCHANGED <<status, reported, wait, agent, queued, followups, spent, opened, stranded, notices>>
  BY <1>1, <1>2, SettleEffect DEF TypeOK
<1>3. CASE /\ status' = [status EXCEPT ![j] = "ended"]
           /\ reported' = [reported EXCEPT ![j] = reported[j] \/ Waiters(j) # {}]
           /\ Release({j})
           /\ \/ owner[j] # Nobody /\ Deliver(j)
              \/ UNCHANGED <<agent, queued, followups, spent, opened, stranded, notices>>
  <2>1. status' \in [Jobs -> Statuses]
    BY <1>3 DEF TypeOK, Statuses, Terminal
  <2>2. reported' \in [Jobs -> BOOLEAN]
    <3>1. reported \in [Jobs -> BOOLEAN] /\ (reported[j] \/ Waiters(j) # {}) \in BOOLEAN
      BY DEF TypeOK
    <3> QED BY <1>3, <3>1
  <2>3. wait' \in [Waits -> Wait]
    BY <1>3, ReleaseEffect
  <2>4. /\ notices' \in [Jobs -> Nat] /\ queued' \in [Owners -> SUBSET Jobs]
        /\ followups' \in [Owners -> SUBSET Jobs] /\ stranded' \in [Owners -> SUBSET Jobs]
        /\ spent' \in [Owners -> Nat] /\ opened' \in [Owners -> Nat]
        /\ agent' \in [Owners -> Phases]
    <3>1. CASE UNCHANGED <<agent, queued, followups, spent, opened, stranded, notices>>
      BY <3>1 DEF TypeOK, Phases
    <3> QED BY <1>3, <3>1, DeliverTyped
  <2>5. UNCHANGED <<owner, store, cleanup, service, heard>>
    BY SettleEffect
  <2> QED BY <1>1, <2>1, <2>2, <2>3, <2>4, <2>5 DEF TypeOK, Wait, Phases
<1> QED BY <1>2, <1>3, SettleEffect

\* Reports and waits, apart from the shared steps.
LEMMA ToldTyped ==
  ASSUME TypeOK, NEW j \in Jobs, Told(j)
  PROVE  reported' \in [Jobs -> BOOLEAN] /\ heard' \in [Jobs -> BOOLEAN]
  BY DEF TypeOK, Told

LEMMA CallTyped ==
  ASSUME TypeOK,
         \/ \E j \in Jobs :
              \/ ProducerEnds(j) \/ Read(j) \/ Kill(j)
              \/ \E w \in Waits : Await(w, j)
         \/ \E w \in Waits : WaitTimesOut(w) \/ WaitAborts(w) \/ WaitReturns(w)
  PROVE  TypeOK'
<1> USE DEF records, owners, history
<1>1. ASSUME NEW j \in Jobs, ProducerEnds(j) PROVE TypeOK'
  <2>1. work' \in [Jobs -> {"none", "going", "cancelled", "done", "over"}]
    BY <1>1 DEF ProducerEnds, TypeOK
  <2> QED BY <1>1, <2>1 DEF ProducerEnds, TypeOK
<1>2. ASSUME NEW j \in Jobs, Read(j) PROVE TypeOK'
  <2>1. reported' \in [Jobs -> BOOLEAN] /\ heard' \in [Jobs -> BOOLEAN]
    BY <1>2, ToldTyped DEF Read
  <2> QED BY <1>2, <2>1 DEF Read, TypeOK
<1>3. ASSUME NEW j \in Jobs, Kill(j) PROVE TypeOK'
  <2>1. reported' \in [Jobs -> BOOLEAN] /\ heard' \in [Jobs -> BOOLEAN]
    BY <1>3, ToldTyped DEF Kill
  <2>2. status' \in [Jobs -> Statuses]
    BY <1>3 DEF Kill, TypeOK, Statuses, Live
  <2>3. work' \in [Jobs -> {"none", "going", "cancelled", "done", "over"}]
    <3>1. work \in [Jobs -> {"none", "going", "cancelled", "done", "over"}]
      BY DEF TypeOK
    <3>2. \/ work' = work
          \/ work' = [work EXCEPT ![j] = "cancelled"]
          \/ work' = [work EXCEPT ![j] = work[j]]
      BY <1>3 DEF Kill
    <3> QED BY <3>1, <3>2
  <2> QED BY <1>3, <2>1, <2>2, <2>3 DEF Kill, TypeOK
<1>4. wait \in [Waits -> Wait]
  BY DEF TypeOK, Wait
<1>5. ASSUME NEW j \in Jobs, NEW w \in Waits, Await(w, j) PROVE TypeOK'
  <2>1. \E p \in {"over", "pending"} : wait' = [wait EXCEPT ![w] = [job |-> j, phase |-> p]]
    BY <1>5 DEF Await
  <2>2. \A p \in {"over", "pending"} : [job |-> j, phase |-> p] \in Wait
    BY DEF Wait
  <2>3. wait' \in [Waits -> Wait]
    BY <1>4, <2>1, <2>2
  <2>4. reported' \in [Jobs -> BOOLEAN] /\ heard' \in [Jobs -> BOOLEAN]
    <3>1. CASE UNCHANGED <<reported, heard>>
      BY <3>1 DEF TypeOK
    <3> QED BY <1>5, <3>1, ToldTyped DEF Await
  <2> QED BY <1>5, <2>3, <2>4 DEF Await, TypeOK, Wait
<1>6. ASSUME NEW w \in Waits, WaitTimesOut(w) \/ WaitAborts(w) \/ WaitReturns(w)
      PROVE  TypeOK'
  <2>1. wait[w] \in Wait
    BY <1>4
  <2>2. \A p \in {"timed out", "rejected", "over"} : [wait[w] EXCEPT !.phase = p] \in Wait
    BY <2>1 DEF Wait
  <2>3. \E p \in {"timed out", "rejected", "over"} :
          wait' = [wait EXCEPT ![w] = [wait[w] EXCEPT !.phase = p]]
    BY <1>6 DEF WaitTimesOut, WaitAborts, WaitReturns
  <2>4. wait' \in [Waits -> Wait]
    BY <1>4, <2>2, <2>3
  <2>5. reported' \in [Jobs -> BOOLEAN] /\ heard' \in [Jobs -> BOOLEAN]
    <3>1. \/ UNCHANGED <<reported, heard>>
          \/ /\ reported' = [reported EXCEPT ![wait[w].job] = TRUE]
             /\ heard' = [heard EXCEPT ![wait[w].job] = TRUE]
      BY <1>6 DEF WaitTimesOut, WaitAborts, WaitReturns, Told
    <3> QED BY <3>1 DEF TypeOK
  <2>6. UNCHANGED <<status, owner, store, work, owners, cleanup, service, notices>>
    BY <1>6 DEF WaitTimesOut, WaitAborts, WaitReturns
  <2> QED BY <2>4, <2>5, <2>6 DEF TypeOK, Wait
<1> QED BY <1>1, <1>2, <1>3, <1>5, <1>6

LEMMA DisposalTyped ==
  ASSUME TypeOK,
         \/ \E o \in Owners : OwnerDisposes(o) \/ OwnerDisposed(o)
         \/ ServiceDisposes \/ ServiceDisposed
  PROVE  TypeOK'
<1> USE DEF records, owners, history
<1>0. cleanup \in [Owners -> Cleanup]
  BY DEF TypeOK, Cleanup
<1>1. ASSUME NEW o \in Owners, OwnerDisposes(o) PROVE TypeOK'
  <2> DEFINE owned == IF cleanup[o].phase = "attached"
                        THEN {j \in store : owner[j] = o} ELSE {}
  <2>1. owned \in SUBSET Jobs
    BY DEF TypeOK
  <2>2. PICK throws \in SUBSET LiveOf(owned) : CancelForTeardown(owned, throws)
    BY <1>1 DEF OwnerDisposes
  <2>3. /\ cleanup' = [cleanup EXCEPT ![o] = [phase |-> "running", jobs |-> owned]]
        /\ agent' = [agent EXCEPT ![o] = "disposing"]
        /\ Keeps(o, {}) /\ UNCHANGED <<owner, store, spent, opened, service>>
    BY <1>1 DEF OwnerDisposes
  <2>4. [phase |-> "running", jobs |-> owned] \in Cleanup
    BY <2>1 DEF Cleanup
  <2>5. cleanup' \in [Owners -> Cleanup]
    BY <1>0, <2>3, <2>4
  <2>6. agent' \in [Owners -> Phases]
    BY <2>3 DEF TypeOK, Phases
  <2>8. /\ queued' \in [Owners -> SUBSET Jobs] /\ followups' \in [Owners -> SUBSET Jobs]
        /\ stranded' \in [Owners -> SUBSET Jobs]
    BY <2>3, KeepsEffect
  <2> HIDE DEF owned
  <2>7. /\ status' \in [Jobs -> Statuses] /\ reported' \in [Jobs -> BOOLEAN]
        /\ heard' \in [Jobs -> BOOLEAN] /\ notices' = notices
        /\ work' \in [Jobs -> {"none", "going", "cancelled", "done", "over"}]
        /\ wait' \in [Waits -> Wait]
    BY <2>1, <2>2, TeardownTyped
  <2> QED BY <2>3, <2>5, <2>6, <2>7, <2>8 DEF TypeOK, Wait, Cleanup, Phases
<1>2. ASSUME NEW o \in Owners, OwnerDisposed(o) PROVE TypeOK'
  <2>1. [phase |-> "none", jobs |-> {}] \in Cleanup
    BY DEF Cleanup
  <2>2. cleanup' \in [Owners -> Cleanup]
    BY <1>0, <1>2, <2>1 DEF OwnerDisposed
  <2>3. agent' \in [Owners -> Phases]
    BY <1>2 DEF OwnerDisposed, TypeOK, Phases
  <2> QED BY <1>2, <2>2, <2>3 DEF OwnerDisposed, TypeOK, Cleanup, Phases
<1>3. CASE ServiceDisposes
  <2>1. PICK throws \in SUBSET LiveOf(store) : CancelForTeardown(store, throws)
    BY <1>3 DEF ServiceDisposes
  <2>2. store \in SUBSET Jobs
    BY DEF TypeOK
  <2>3. /\ status' \in [Jobs -> Statuses] /\ reported' \in [Jobs -> BOOLEAN]
        /\ heard' \in [Jobs -> BOOLEAN] /\ notices' = notices
        /\ work' \in [Jobs -> {"none", "going", "cancelled", "done", "over"}]
        /\ wait' \in [Waits -> Wait]
    BY <2>1, <2>2, TeardownTyped
  <2>4. /\ service' = [phase |-> "draining", jobs |-> store]
        /\ UNCHANGED <<owner, store, agent, queued, followups, spent, opened, stranded, cleanup>>
    BY <1>3 DEF ServiceDisposes
  <2> QED BY <2>2, <2>3, <2>4 DEF TypeOK, Wait
<1>4. CASE ServiceDisposed
  <2>1. [phase |-> "none", jobs |-> {}] \in Cleanup
    BY DEF Cleanup
  <2>2. cleanup' \in [Owners -> Cleanup]
    BY <1>0, <1>4, <2>1 DEF ServiceDisposed
  <2> QED BY <1>4, <2>2 DEF ServiceDisposed, TypeOK, Cleanup
<1> QED BY <1>1, <1>2, <1>3, <1>4

LEMMA DriverTyped ==
  ASSUME TypeOK, NEW o \in Owners, Driver(o)
  PROVE  TypeOK'
<1>1. UNCHANGED Unrelated /\ agent' \in [Owners -> Phases]
  <2>1. agent \in [Owners -> Phases] /\ agent'[o] \in Phases
        /\ agent' = [agent EXCEPT ![o] = agent'[o]]
    BY DriverEffect DEF TypeOK, Phases
  <2> QED BY <2>1, DriverEffect
<1>2. /\ queued' \in [Owners -> SUBSET Jobs] /\ followups' \in [Owners -> SUBSET Jobs]
      /\ stranded' \in [Owners -> SUBSET Jobs]
  BY DriverEffect
<1>3. spent' \in [Owners -> Nat] /\ opened' \in [Owners -> Nat]
  <2>1. spent \in [Owners -> Nat] /\ opened \in [Owners -> Nat]
    BY DEF TypeOK
  <2> QED BY <2>1, DriverEffect
<1> QED BY <1>1, <1>2, <1>3 DEF TypeOK, Phases, Unrelated, records, history

LEMMA NextTyped ==
  ASSUME TypeOK, [Next]_vars
  PROVE  TypeOK'
<1>1. CASE UNCHANGED vars
  BY <1>1 DEF vars, records, owners, history, TypeOK
<1> QED BY <1>1, StartTyped, SettleTyped, CallTyped, DisposalTyped, DriverTyped DEF Next

\* Every reachable state is well typed.
THEOREM TypeCorrect == Spec => []TypeOK
  BY InitTyped, NextTyped, PTL DEF Spec

-----------------------------------------------------------------------------
(***************************************************************************)
(* The other conjuncts, action by action.                                  *)
(***************************************************************************)
\* Disjoint statuses, unfolded once.
LEMMA StatusFacts ==
  /\ Live = {"running", "stopping"} /\ Terminal = {"ended", "forced"}
  /\ \A s \in Live : s \notin Terminal /\ s # "none" /\ s # "ended"
  /\ "none" \notin Live \cup Terminal
  BY DEF Live, Terminal

\* A wait that keeps its outcome keeps the promise it carries.
Promised(j) ==
  \E w \in Waits : wait[w].job = j /\ wait[w].phase \in {"released", "timed out"}

LEMMA StartStep ==
  ASSUME Inductive, NEW j \in Jobs, NEW o \in Owners \cup {Nobody}, Start(j, o)
  PROVE  Working' /\ Registered' /\ Unannounced' /\ EndIsTold' /\ Budgeted'
<1>0. TypeOK /\ Working /\ Registered /\ Unannounced /\ EndIsTold /\ Budgeted
  BY DEF Inductive
<1>1. /\ UNCHANGED <<reported, wait, agent, queued, followups, spent, opened, stranded, service, notices, heard>>
      /\ Up /\ status[j] = "none"
  BY DEF Start, owners, history
<1>2. /\ o # Nobody => Alive(o) /\ cleanup'[o].phase = "attached"
      /\ \A p \in Owners : /\ p # o => cleanup'[p] = cleanup[p]
                           /\ cleanup'[p].jobs = cleanup[p].jobs
                           /\ Alive(p) /\ cleanup[p].phase = "attached" =>
                                cleanup'[p].phase = "attached"
  <2>1. cleanup \in [Owners -> Cleanup]
    BY <1>0 DEF TypeOK, Cleanup
  <2>2. CASE o = Nobody
    BY <2>2, NobodyAssumption DEF Start, EnsureCleanup
  <2>3. CASE o # Nobody
    <3>1. Alive(o) /\ cleanup' = [cleanup EXCEPT ![o].phase = "attached"]
      BY <2>3 DEF Start, EnsureCleanup
    <3>2. \A p \in Owners : p # o => cleanup'[p] = cleanup[p]
      BY <2>1, <3>1
    <3>3. cleanup'[o].phase = "attached" /\ cleanup'[o].jobs = cleanup[o].jobs
      BY <2>1, <2>3, <3>1 DEF Cleanup
    <3> QED BY <3>1, <3>2, <3>3
  <2> QED BY <2>2, <2>3
<1>3. CASE UNCHANGED <<status, owner, work, store>>
  <2>1. Working' /\ Unannounced' /\ EndIsTold' /\ Budgeted'
    BY <1>0, <1>1, <1>3 DEF Working, Unannounced, EndIsTold, Budgeted, Up, Alive
  <2>2. Registered'
    <3>1. \A k \in store : owner[k] # Nobody => owner[k] \in Owners
      BY <1>0 DEF TypeOK
    <3> QED BY <1>0, <1>1, <1>2, <1>3, <3>1 DEF Registered, Alive
  <2> QED BY <2>1, <2>2
<1>4. CASE /\ status' = [status EXCEPT ![j] = "running"]
           /\ owner' = [owner EXCEPT ![j] = o]
           /\ work' = [work EXCEPT ![j] = "going"]
           /\ store' = store \cup {j}
  <2>1. /\ status'[j] = "running" /\ owner'[j] = o /\ work'[j] = "going"
        /\ \A k \in Jobs \ {j} : /\ status'[k] = status[k] /\ owner'[k] = owner[k]
                                 /\ work'[k] = work[k]
    <3>1. status'[j] = "running" /\ \A k \in Jobs \ {j} : status'[k] = status[k]
      BY <1>0, <1>4 DEF TypeOK
    <3>2. owner'[j] = o /\ \A k \in Jobs \ {j} : owner'[k] = owner[k]
      BY <1>0, <1>4 DEF TypeOK
    <3>3. work'[j] = "going" /\ \A k \in Jobs \ {j} : work'[k] = work[k]
      BY <1>0, <1>4 DEF TypeOK
    <3> QED BY <3>1, <3>2, <3>3
  <2>2. Working'
    BY <1>0, <1>4, <2>1, StatusFacts DEF Working
  <2>3. Registered'
    <3>1. \A k \in store \ {j} : owner[k] # Nobody => owner[k] \in Owners
      BY <1>0 DEF TypeOK
    <3>2. \A k \in store \ {j} : owner'[k] = owner[k]
      BY <1>0, <2>1 DEF TypeOK
    <3>3. service.phase = "up"
      BY <1>1 DEF Up
    <3> QED BY <1>0, <1>1, <1>2, <1>4, <2>1, <3>1, <3>2, <3>3 DEF Registered, Alive
  <2>4. Unannounced'
    <3>1. (Up)' /\ (o # Nobody => Alive(o)')
      BY <1>0, <1>1, <1>2 DEF Up, Alive
    <3>2. notices[j] = 0 /\ (reported[j] => heard[j])
      BY <1>0, <1>1, StatusFacts DEF Unannounced
    <3>3. \A p \in Owners : Alive(p)' <=> Alive(p)
      BY <1>1 DEF Alive
    <3>4. Up
      BY <1>1
    <3> SUFFICES ASSUME NEW k \in Jobs, status'[k] \notin Terminal
                 PROVE  /\ notices'[k] = 0 /\ (reported'[k] => heard'[k])
                        /\ status'[k] \in Live
                             /\ (~(Up)' \/ (owner'[k] # Nobody /\ ~Alive(owner[k])'))
                             => reported'[k]
      BY DEF Unannounced
    <3>5. CASE k = j
      BY <1>0, <1>1, <2>1, <3>1, <3>2, <3>5
    <3>6. CASE k # j
      <4>1. owner[k] # Nobody => owner[k] \in Owners
        BY <1>0 DEF TypeOK
      <4> QED BY <1>0, <1>1, <2>1, <3>1, <3>3, <3>4, <3>6, <4>1 DEF Unannounced
    <3> QED BY <3>5, <3>6
  <2>5. EndIsTold'
    <3> SUFFICES ASSUME NEW k \in Jobs, owner'[k] # Nobody, status'[k] \in Terminal
                 PROVE  \/ notices'[k] = 1
                        \/ /\ notices'[k] = 0 /\ reported'[k]
                           /\ heard'[k] \/ Promised(k)'
      BY DEF EndIsTold, Promised
    <3>1. k # j
      BY <2>1, StatusFacts
    <3>2. owner[k] # Nobody /\ status[k] \in Terminal
      BY <2>1, <3>1
    <3> QED BY <1>0, <1>1, <3>2 DEF EndIsTold, Promised
  <2>6. Budgeted'
    BY <1>0, <1>1 DEF Budgeted
  <2> QED BY <2>2, <2>3, <2>4, <2>5, <2>6
<1> QED BY <1>3, <1>4 DEF Start

\* A report of one job by kill, read or wait.
LEMMA ToldEffect ==
  ASSUME TypeOK, NEW j \in Jobs, Told(j)
  PROVE  /\ reported'[j] /\ heard'[j]
         /\ \A k \in Jobs \ {j} : reported'[k] = reported[k] /\ heard'[k] = heard[k]
         /\ \A k \in Jobs : /\ reported[k] => reported'[k]
                            /\ heard[k] => heard'[k]
                            /\ (reported[k] => heard[k]) => (reported'[k] => heard'[k])
  BY DEF TypeOK, Told

\* Steps that change neither records but by a report or a cancel, nor owners.
LEMMA CallStep ==
  ASSUME Inductive,
         UNCHANGED <<owner, store, owners, cleanup, service, notices>>,
         \A j \in Jobs :
           /\ \/ UNCHANGED <<status[j], work[j]>>
              \/ /\ status[j] \in Live /\ status'[j] \in Live
                 /\ work'[j] \in {"going", "cancelled", "done"}
           /\ reported[j] => reported'[j]
           /\ heard[j] => heard'[j]
           /\ (reported[j] => heard[j]) => (reported'[j] => heard'[j])
           /\ status[j] \in Terminal /\ Promised(j) => Promised(j)' \/ heard'[j]
  PROVE  Working' /\ Registered' /\ Unannounced' /\ EndIsTold' /\ Budgeted'
<1> USE DEF Inductive, owners
<1>1. Working'
  BY StatusFacts DEF Working
<1>2. Registered' /\ Budgeted'
  BY DEF Registered, Budgeted, Alive
<1>3. Unannounced'
  BY StatusFacts DEF Unannounced, Up, Alive
<1>4. EndIsTold'
  BY StatusFacts DEF EndIsTold, Promised
<1> QED BY <1>1, <1>2, <1>3, <1>4

LEMMA CallsStep ==
  ASSUME Inductive,
         \/ \E j \in Jobs :
              \/ ProducerEnds(j) \/ Read(j) \/ Kill(j)
              \/ \E w \in Waits : Await(w, j)
         \/ \E w \in Waits : WaitTimesOut(w) \/ WaitAborts(w) \/ WaitReturns(w)
  PROVE  Working' /\ Registered' /\ Unannounced' /\ EndIsTold' /\ Budgeted'
<1> USE DEF records, owners, history
<1>0. TypeOK /\ wait \in [Waits -> Wait]
  BY DEF Inductive, TypeOK, Wait
<1>1. ASSUME NEW j \in Jobs, Read(j) \/ Kill(j)
      PROVE  Working' /\ Registered' /\ Unannounced' /\ EndIsTold' /\ Budgeted'
  <2>1. /\ UNCHANGED <<owner, store, owners, cleanup, service, notices, wait>>
        /\ Told(j)
    BY <1>1 DEF Read, Kill
  <2>2. \A k \in Jobs : Promised(k) => Promised(k)'
    BY <2>1 DEF Promised
  <2>3. \A k \in Jobs : \/ UNCHANGED <<status[k], work[k]>>
                        \/ /\ status[k] \in Live /\ status'[k] \in Live
                           /\ work'[k] \in {"going", "cancelled", "done"}
    <3>1. CASE UNCHANGED <<status, work>>
      BY <3>1
    <3>2. CASE /\ Kill(j) /\ status[j] \notin Terminal
               /\ status' = [status EXCEPT ![j] = "stopping"]
               /\ work' = [work EXCEPT ![j] = IF work[j] = "going" THEN "cancelled" ELSE work[j]]
      <4>1. status[j] \in Live
        <5>1. status[j] # "none"
          BY <3>2 DEF Kill, Inductive, Working
        <5>2. status[j] \in Statuses
          BY <1>0 DEF TypeOK
        <5> QED BY <3>2, <5>1, <5>2 DEF Statuses
      <4>2. work[j] \in {"going", "cancelled", "done"}
        BY <4>1 DEF Inductive, Working
      <4>3. /\ status'[j] = "stopping" /\ work'[j] \in {"going", "cancelled", "done"}
            /\ \A k \in Jobs \ {j} : status'[k] = status[k] /\ work'[k] = work[k]
        <5>1. status \in [Jobs -> Statuses] /\ DOMAIN work = Jobs
          BY <1>0 DEF TypeOK
        <5>2. status'[j] = "stopping" /\ \A k \in Jobs \ {j} : status'[k] = status[k]
          BY <3>2, <5>1
        <5>3. work'[j] \in {"going", "cancelled", "done"}
          BY <3>2, <4>2, <5>1
        <5>4. \A k \in Jobs \ {j} : work'[k] = work[k]
          BY <3>2, <5>1
        <5> QED BY <5>2, <5>3, <5>4
      <4> QED BY <4>1, <4>3, StatusFacts
    <3> QED BY <1>1, <3>1, <3>2 DEF Read, Kill
  <2> QED BY <1>0, <2>1, <2>2, <2>3, ToldEffect, CallStep
<1>2. ASSUME NEW j \in Jobs, ProducerEnds(j)
      PROVE  Working' /\ Registered' /\ Unannounced' /\ EndIsTold' /\ Budgeted'
  <2> USE DEF Inductive
  <2>0. DOMAIN work = Jobs
    BY <1>0 DEF TypeOK
  <2>1. /\ work[j] \in {"going", "cancelled"} /\ work'[j] = "done"
        /\ \A k \in Jobs \ {j} : work'[k] = work[k]
        /\ UNCHANGED <<status, owner, reported, store, wait, owners, cleanup, service, history>>
    BY <1>2, <2>0 DEF ProducerEnds
  <2>2. Working'
    BY <2>1 DEF Working
  <2>3. Registered' /\ Unannounced' /\ EndIsTold' /\ Budgeted'
    BY <2>1 DEF Registered, Unannounced, EndIsTold, Budgeted, Alive, Up
  <2> QED BY <2>2, <2>3
<1>3. ASSUME NEW w \in Waits, NEW j \in Jobs, Await(w, j)
      PROVE  Working' /\ Registered' /\ Unannounced' /\ EndIsTold' /\ Budgeted'
  <2>1. /\ UNCHANGED <<status, work, owner, store, owners, cleanup, service, notices>>
        /\ Told(j) \/ UNCHANGED <<reported, heard>>
        /\ wait[w].phase = "unused" /\ \A v \in Waits \ {w} : wait'[v] = wait[v]
    BY <1>0, <1>3 DEF Await
  <2>2. \A k \in Jobs : Promised(k) => Promised(k)'
    BY <2>1 DEF Promised
  <2> QED BY <1>0, <2>1, <2>2, ToldEffect, CallStep
<1>4. ASSUME NEW w \in Waits, WaitTimesOut(w) \/ WaitAborts(w)
      PROVE  Working' /\ Registered' /\ Unannounced' /\ EndIsTold' /\ Budgeted'
  <2>1. /\ UNCHANGED <<records, owners, cleanup, service, history>>
        /\ wait[w].phase = "pending" /\ \A v \in Waits \ {w} : wait'[v] = wait[v]
    BY <1>0, <1>4 DEF WaitTimesOut, WaitAborts
  <2>2. \A k \in Jobs : Promised(k) => Promised(k)'
    BY <2>1 DEF Promised
  <2> QED BY <1>0, <2>1, <2>2, CallStep
<1>5. ASSUME NEW w \in Waits, WaitReturns(w)
      PROVE  Working' /\ Registered' /\ Unannounced' /\ EndIsTold' /\ Budgeted'
  <2>1. /\ UNCHANGED <<status, work, owner, store, owners, cleanup, service, notices>>
        /\ \A v \in Waits \ {w} : wait'[v] = wait[v]
    BY <1>0, <1>5 DEF WaitReturns
  <2>2. CASE wait[w].phase # "rejected" /\ status[wait[w].job] \in Terminal /\ wait[w].job \in Jobs
    <3>1. Told(wait[w].job)
      BY <1>5, <2>2 DEF WaitReturns
    <3>2. \A k \in Jobs : Promised(k) => Promised(k)' \/ heard'[k]
      BY <1>0, <2>1, <2>2, <3>1, ToldEffect DEF Promised
    <3> QED BY <1>0, <2>1, <2>2, <3>1, <3>2, ToldEffect, CallStep
  <2>3. CASE wait[w].phase = "rejected" \/ status[wait[w].job] \notin Terminal
    <3>1. UNCHANGED <<reported, heard>>
      BY <1>5, <2>3 DEF WaitReturns
    <3>2. \A k \in Jobs : status[k] \in Terminal /\ Promised(k) => Promised(k)'
      BY <1>0, <2>1, <2>3 DEF Promised
    <3> QED BY <2>1, <3>1, <3>2, CallStep
  <2>4. CASE wait[w].job = Nobody
    <3>1. \A k \in Jobs : Promised(k) => Promised(k)'
      BY <1>0, <2>1, <2>4, NobodyAssumption DEF Promised
    <3>2. \A k \in Jobs : reported'[k] = reported[k] /\ heard'[k] = heard[k]
      <4>1. \/ UNCHANGED <<reported, heard>>
            \/ /\ reported' = [reported EXCEPT ![Nobody] = TRUE]
               /\ heard' = [heard EXCEPT ![Nobody] = TRUE]
        BY <1>5, <2>4 DEF WaitReturns, Told
      <4>2. DOMAIN reported = Jobs /\ DOMAIN heard = Jobs
        BY <1>0 DEF TypeOK
      <4> QED BY <4>1, <4>2, NobodyAssumption
    <3> QED BY <2>1, <3>1, <3>2, CallStep
  <2> QED BY <1>0, <2>2, <2>3, <2>4 DEF Wait
<1> QED BY <1>1, <1>2, <1>3, <1>4, <1>5

\* One owner keeps within its budget.
Frugal(o) ==
  /\ opened[o] <= spent[o] /\ spent[o] <= WakeBudget
  /\ agent[o] \in {"idle", "maintenance"} /\ queued[o] \ stranded[o] # {} =>
       spent[o] = WakeBudget
  /\ agent[o] = "retiring" => queued[o] \subseteq stranded[o]

LEMMA DeliverBudgeted ==
  ASSUME TypeOK, Budgeted, NEW j \in Jobs, owner[j] # Nobody, Deliver(j)
  PROVE  Budgeted'
<1>1. /\ queued \in [Owners -> SUBSET Jobs] /\ spent \in [Owners -> Nat]
      /\ stranded \in [Owners -> SUBSET Jobs]
      /\ opened \in [Owners -> Nat] /\ DOMAIN agent = Owners
  BY DEF TypeOK
<1>2. SUFFICES ASSUME NEW o \in Owners PROVE Frugal(o)'
  BY DEF Budgeted, Frugal
<1>3. /\ Frugal(o) /\ opened[o] \in Nat /\ spent[o] \in Nat /\ WakeBudget \in Nat
  BY <1>1, LimitAssumption DEF Budgeted, Frugal
<1>4. CASE o # owner[j]
  <2>1. UNCHANGED <<queued[o], spent[o], opened[o], agent[o], stranded[o]>>
    BY <1>1, <1>4, DeliverEffect
  <2> QED BY <1>3, <2>1 DEF Frugal
<1>5. CASE o = owner[j]
  <2>1. CASE agent[o] \in Unoccupied /\ spent[o] < WakeBudget
    <3>1. /\ spent'[o] = spent[o] + 1 /\ opened'[o] = opened[o] + 1
          /\ agent'[o] = WakeDriver(agent[o])
      BY <1>1, <1>5, <2>1, DeliverEffect
    <3>2. agent'[o] \in {"busy", "latched"}
      BY <3>1, WakePhase
    <3> QED BY <1>3, <2>1, <3>1, <3>2 DEF Frugal
  <2>2. CASE ~(agent[o] \in Unoccupied /\ spent[o] < WakeBudget)
    <3>1. /\ UNCHANGED <<spent, opened, agent>> /\ queued'[o] = queued[o] \cup {j}
          /\ \/ agent[o] # "retiring" /\ stranded'[o] = stranded[o]
             \/ stranded'[o] = stranded[o] \cup {j}
      BY <1>1, <1>5, <2>2, DeliverEffect
    <3>2. agent[o] \in {"idle", "maintenance"} => spent[o] = WakeBudget
      BY <1>3, <2>2 DEF Frugal, Unoccupied
    <3> QED BY <1>3, <3>1, <3>2 DEF Frugal
  <2> QED BY <2>1, <2>2
<1> QED BY <1>4, <1>5

LEMMA SettleStep ==
  ASSUME Inductive, NEW j \in Jobs, Settle(j)
  PROVE  Working' /\ Registered' /\ Unannounced' /\ EndIsTold' /\ Budgeted'
<1>0. TypeOK /\ Working /\ Registered /\ Unannounced /\ EndIsTold /\ Budgeted
  BY DEF Inductive
<1>1. /\ work[j] = "done" /\ work'[j] = "over" /\ \A k \in Jobs \ {j} : work'[k] = work[k]
      /\ UNCHANGED <<owner, store, cleanup, service, heard>>
  <2>1. DOMAIN work = Jobs
    BY <1>0 DEF TypeOK
  <2> QED BY <1>0, <2>1, SettleEffect
<1>2. CASE /\ status[j] \in Terminal
           /\ UNCHANGED <<status, reported, wait, agent, queued, followups, spent, opened, stranded, notices>>
  <2>1. Working'
    BY <1>0, <1>1, <1>2, StatusFacts DEF Working
  <2>2. Registered' /\ Budgeted'
    BY <1>0, <1>1, <1>2 DEF Registered, Budgeted, Alive
  <2>3. Unannounced' /\ EndIsTold'
    BY <1>0, <1>1, <1>2 DEF Unannounced, EndIsTold, Up, Alive
  <2> QED BY <2>1, <2>2, <2>3
<1>3. CASE status[j] \notin Terminal
  <2>1. /\ status' = [status EXCEPT ![j] = "ended"]
        /\ reported' = [reported EXCEPT ![j] = reported[j] \/ Waiters(j) # {}]
        /\ Release({j})
        /\ \/ /\ ~reported[j] /\ Waiters(j) = {} /\ owner[j] # Nobody /\ Up
              /\ Deliver(j)
           \/ /\ ~(~reported[j] /\ Waiters(j) = {} /\ owner[j] # Nobody /\ Up)
              /\ UNCHANGED <<agent, queued, followups, spent, opened, stranded, notices>>
    BY <1>0, <1>3, SettleEffect
  <2>2. status[j] \in Live
    <3>1. status[j] \in Statuses
      BY <1>0 DEF TypeOK
    <3>2. status[j] # "none"
      BY <1>0, <1>1 DEF Working
    <3> QED BY <1>3, <3>1, <3>2 DEF Statuses
  <2>3. status'[j] = "ended" /\ \A k \in Jobs \ {j} : status'[k] = status[k]
    BY <1>0, <2>1 DEF TypeOK
  <2>4. /\ reported'[j] = (reported[j] \/ Waiters(j) # {})
        /\ \A k \in Jobs \ {j} : reported'[k] = reported[k]
    BY <1>0, <2>1 DEF TypeOK
  <2>5. /\ notices[j] = 0 /\ (reported[j] => heard[j])
        /\ ~Up \/ (owner[j] # Nobody /\ ~Alive(owner[j])) => reported[j]
    BY <1>0, <1>3, <2>2 DEF Unannounced
  <2>6. \A k \in Jobs : Promised(k) => Promised(k)'
    BY <1>0, <2>1, ReleaseEffect DEF Promised
  <2>7. Waiters(j) # {} => Promised(j)'
    <3> SUFFICES ASSUME NEW w \in Waiters(j) PROVE Promised(j)'
      OBVIOUS
    <3>1. w \in Waits /\ wait[w].job = j /\ wait[w].phase \in {"pending", "timed out"}
      BY DEF Waiters, Counted
    <3>2. wait'[w].job = j /\ wait'[w].phase \in {"released", "timed out"}
      BY <1>0, <2>1, <3>1, ReleaseEffect
    <3> QED BY <3>1, <3>2 DEF Promised
  <2>8. Working'
    BY <1>0, <1>1, <2>3, StatusFacts DEF Working
  <2>9. /\ \A o \in Owners : Alive(o)' <=> Alive(o)
        /\ \A o \in Owners : agent[o] = "disposing" => agent'[o] = "disposing"
    <3>1. CASE UNCHANGED agent
      BY <3>1 DEF Alive
    <3>2. CASE owner[j] # Nobody /\ Deliver(j) /\ agent' # agent
      <4>1. /\ agent[owner[j]] \in Unoccupied
            /\ agent' = [agent EXCEPT ![owner[j]] = WakeDriver(agent[owner[j]])]
        BY <1>0, <3>2, DeliverEffect
      <4>2. \A o \in Owners :
              agent'[o] = agent[o] \/ (agent[o] \in Unoccupied /\ agent'[o] \in {"busy", "latched"})
        BY <1>0, <4>1, WakePhase DEF TypeOK
      <4> QED BY <4>2 DEF Alive, Drivers, Unoccupied
    <3> QED BY <2>1, <3>1, <3>2
  <2>10. \A k \in Jobs : owner[k] # Nobody => owner[k] \in Owners
    BY <1>0 DEF TypeOK
  <2>11. Registered'
    <3>1. store \subseteq Jobs
      BY <1>0 DEF TypeOK
    <3> QED BY <1>0, <1>1, <2>9, <2>10, <3>1 DEF Registered
  <2>12. \A k \in Jobs \ {j} : notices'[k] = notices[k]
    <3>1. CASE UNCHANGED notices
      BY <3>1
    <3>2. CASE owner[j] # Nobody /\ Deliver(j)
      <4>1. DOMAIN notices = Jobs
        BY <1>0 DEF TypeOK
      <4> QED BY <1>0, <3>2, <4>1, DeliverEffect
    <3> QED BY <2>1, <3>1, <3>2
  <2>13. Unannounced'
    <3> SUFFICES ASSUME NEW k \in Jobs, status'[k] \notin Terminal
                 PROVE  /\ notices'[k] = 0 /\ (reported'[k] => heard'[k])
                        /\ status'[k] \in Live
                             /\ (~(Up)' \/ (owner'[k] # Nobody /\ ~Alive(owner[k])'))
                             => reported'[k]
      BY DEF Unannounced
    <3>1. k # j
      BY <2>3, StatusFacts
    <3>2. Up <=> (Up)'
      BY <1>1 DEF Up
    <3>3. /\ notices[k] = 0 /\ (reported[k] => heard[k])
          /\ status[k] \in Live /\ (~Up \/ (owner[k] # Nobody /\ ~Alive(owner[k])))
               => reported[k]
      BY <1>0, <2>3, <3>1 DEF Unannounced
    <3> QED BY <1>1, <2>3, <2>4, <2>9, <2>10, <2>12, <3>1, <3>2, <3>3
  <2>14. EndIsTold'
    <3> SUFFICES ASSUME NEW k \in Jobs, owner'[k] # Nobody, status'[k] \in Terminal
                 PROVE  \/ notices'[k] = 1
                        \/ /\ notices'[k] = 0 /\ reported'[k]
                           /\ heard'[k] \/ Promised(k)'
      BY DEF EndIsTold, Promised
    <3>1. CASE k # j
      <4>1. \/ notices[k] = 1
            \/ notices[k] = 0 /\ reported[k] /\ (heard[k] \/ Promised(k))
        BY <1>0, <1>1, <2>3, <3>1 DEF EndIsTold, Promised
      <4> QED BY <1>1, <2>4, <2>6, <2>12, <3>1, <4>1
    <3>2. CASE k = j /\ ~reported[j] /\ Waiters(j) = {}
      <4>1. Deliver(j) /\ owner[j] # Nobody
        BY <1>1, <2>1, <2>5, <3>2
      <4>2. notices'[j] = 1
        <5>1. DOMAIN notices = Jobs
          BY <1>0 DEF TypeOK
        <5> QED BY <1>0, <2>5, <4>1, <5>1, DeliverEffect
      <4> QED BY <3>2, <4>2
    <3>3. CASE k = j /\ (reported[j] \/ Waiters(j) # {})
      BY <1>1, <2>1, <2>4, <2>5, <2>7, <3>3
    <3> QED BY <3>1, <3>2, <3>3
  <2>15. Budgeted'
    <3>1. CASE UNCHANGED <<agent, queued, followups, spent, opened, stranded>>
      BY <1>0, <3>1 DEF Budgeted
    <3> QED BY <1>0, <2>1, <3>1, DeliverBudgeted
  <2> QED BY <2>8, <2>11, <2>13, <2>14, <2>15
<1> QED BY <1>0, <1>2, <1>3, SettleEffect

\* What the cancellations of a teardown of the jobs S leave.
LEMMA TeardownStep ==
  ASSUME Inductive, NEW S \in SUBSET Jobs, NEW throws \in SUBSET LiveOf(S),
         CancelForTeardown(S, throws), UNCHANGED <<owner, store>>,
         \A j \in Jobs : ~(Up)' \/ (owner[j] # Nobody /\ ~Alive(owner[j])')
           => \/ ~Up \/ (owner[j] # Nobody /\ ~Alive(owner[j]))
              \/ j \in S \/ status[j] \notin Live
  PROVE  Working' /\ Unannounced' /\ EndIsTold'
<1>0. TypeOK /\ Working /\ Unannounced /\ EndIsTold
  BY DEF Inductive
<1>1. \A j \in Jobs :
        /\ notices'[j] = notices[j]
        /\ j \notin LiveOf(S) => UNCHANGED <<status[j], work[j], reported[j], heard[j]>>
        /\ j \in LiveOf(S) =>
             /\ reported'[j] /\ heard'[j]
             /\ \/ status'[j] = "forced" /\ work'[j] = work[j]
                \/ /\ status'[j] = "stopping"
                   /\ work'[j] = IF work[j] = "going" THEN "cancelled" ELSE work[j]
  BY <1>0, TeardownEffect
<1>2. \A j \in LiveOf(S) : j \in Jobs /\ status[j] \in Live /\ status[j] \notin Terminal
  BY StatusFacts DEF LiveOf
<1>3. Working'
  BY <1>0, <1>1, <1>2, StatusFacts DEF Working
<1>4. \A j \in Jobs : Promised(j) => Promised(j)'
  <2>1. Release(throws)
    BY DEF CancelForTeardown
  <2> QED BY <1>0, <2>1, ReleaseEffect DEF Promised
<1>5. \A j \in S : status[j] \in Live => j \in LiveOf(S)
  BY DEF LiveOf
<1>6. Unannounced'
  <2> SUFFICES ASSUME NEW j \in Jobs, status'[j] \notin Terminal
               PROVE  /\ notices'[j] = 0 /\ (reported'[j] => heard'[j])
                      /\ status'[j] \in Live
                           /\ (~(Up)' \/ (owner'[j] # Nobody /\ ~Alive(owner[j])'))
                           => reported'[j]
    BY DEF Unannounced
  <2>1. CASE j \in LiveOf(S)
    BY <1>0, <1>1, <1>2, <2>1 DEF Unannounced
  <2>2. CASE j \notin LiveOf(S)
    <3>1. /\ notices[j] = 0 /\ (reported[j] => heard[j])
          /\ status[j] \in Live /\ (~Up \/ (owner[j] # Nobody /\ ~Alive(owner[j])))
               => reported[j]
      BY <1>0, <1>1, <2>2 DEF Unannounced
    <3> QED BY <1>1, <1>5, <2>2, <3>1
  <2> QED BY <2>1, <2>2
<1>7. EndIsTold'
  <2> SUFFICES ASSUME NEW j \in Jobs, owner[j] # Nobody, status'[j] \in Terminal
               PROVE  \/ notices'[j] = 1
                      \/ /\ notices'[j] = 0 /\ reported'[j]
                         /\ heard'[j] \/ Promised(j)'
    BY DEF EndIsTold, Promised
  <2>1. CASE j \in LiveOf(S)
    <3>1. notices[j] = 0
      BY <1>0, <1>2, <2>1 DEF Unannounced
    <3> QED BY <1>1, <2>1, <3>1
  <2>2. CASE j \notin LiveOf(S)
    <3>1. \/ notices[j] = 1
          \/ notices[j] = 0 /\ reported[j] /\ (heard[j] \/ Promised(j))
      BY <1>0, <1>1, <2>2 DEF EndIsTold, Promised
    <3> QED BY <1>1, <1>4, <2>2, <3>1
  <2> QED BY <2>1, <2>2
<1> QED BY <1>3, <1>6, <1>7

LEMMA OwnerDisposesStep ==
  ASSUME Inductive, NEW o \in Owners, OwnerDisposes(o)
  PROVE  Working' /\ Registered' /\ Unannounced' /\ EndIsTold' /\ Budgeted'
<1>0. TypeOK /\ Working /\ Registered /\ Budgeted
  BY DEF Inductive
<1> DEFINE owned == IF cleanup[o].phase = "attached"
                      THEN {j \in store : owner[j] = o} ELSE {}
<1>1. PICK throws \in SUBSET LiveOf(owned) : CancelForTeardown(owned, throws)
  BY DEF OwnerDisposes
<1>2. /\ cleanup' = [cleanup EXCEPT ![o] = [phase |-> "running", jobs |-> owned]]
      /\ agent' = [agent EXCEPT ![o] = "disposing"] /\ Alive(o)
      /\ Keeps(o, {}) /\ UNCHANGED <<owner, store, spent, opened, service>>
  BY DEF OwnerDisposes
<1>3. /\ cleanup'[o].jobs = owned /\ agent'[o] = "disposing"
      /\ \A p \in Owners \ {o} : cleanup'[p] = cleanup[p] /\ agent'[p] = agent[p]
  <2>1. DOMAIN cleanup = Owners /\ DOMAIN agent = Owners
    BY <1>0 DEF TypeOK
  <2> QED BY <1>2, <2>1
<1>4. owned \in SUBSET Jobs /\ store \subseteq Jobs
  BY <1>0 DEF TypeOK
<1>5. \A j \in store : owner[j] = o => j \in owned
  BY <1>0, <1>2, NobodyAssumption DEF Registered, Alive, Drivers
<1>6. \A j \in Jobs : owner[j] # Nobody => owner[j] \in Owners
  BY <1>0 DEF TypeOK
<1>7. \A j \in Jobs : ~(Up)' \/ (owner[j] # Nobody /\ ~Alive(owner[j])')
        => \/ ~Up \/ (owner[j] # Nobody /\ ~Alive(owner[j]))
           \/ j \in owned \/ status[j] \notin Live
  <2> SUFFICES ASSUME NEW j \in Jobs, ~(Up)' \/ (owner[j] # Nobody /\ ~Alive(owner[j])'),
                      Up, owner[j] # Nobody => Alive(owner[j]), status[j] \in Live
               PROVE  j \in owned
    OBVIOUS
  <2>1. owner[j] # Nobody /\ ~Alive(owner[j])'
    BY <1>2 DEF Up
  <2>2. owner[j] = o
    BY <1>2, <1>3, <1>6, <2>1 DEF Alive
  <2>3. j \in store
    BY <1>0 DEF Working
  <2> QED BY <1>5, <2>2, <2>3
<1> HIDE DEF owned
<1>8. Working' /\ Unannounced' /\ EndIsTold'
  BY <1>1, <1>2, <1>4, <1>7, TeardownStep
<1>9. Registered'
  BY <1>0, <1>2, <1>3, <1>4, <1>5, <1>6 DEF Registered, Alive, Drivers
<1>10. Budgeted'
  <2>1. \A p \in Owners \ {o} : UNCHANGED <<queued[p], stranded[p]>>
    BY <1>0, <1>2, KeepsEffect
  <2> QED BY <1>0, <1>2, <1>3, <2>1 DEF Budgeted
<1> QED BY <1>8, <1>9, <1>10

LEMMA OwnerDisposedStep ==
  ASSUME Inductive, NEW o \in Owners, OwnerDisposed(o)
  PROVE  Working' /\ Registered' /\ Unannounced' /\ EndIsTold' /\ Budgeted'
<1>0. TypeOK /\ Working /\ Registered /\ Unannounced /\ EndIsTold /\ Budgeted
  BY DEF Inductive
<1>1. /\ agent[o] = "disposing" /\ Settled(cleanup[o].jobs)
      /\ store' = store \ cleanup[o].jobs
      /\ UNCHANGED <<status, owner, reported, work, wait, queued, followups, spent, opened,
                     stranded, service, notices, heard>>
  BY DEF OwnerDisposed, history
<1>2. /\ agent'[o] = "gone"
      /\ \A p \in Owners \ {o} : cleanup'[p] = cleanup[p] /\ agent'[p] = agent[p]
  <2>1. DOMAIN cleanup = Owners /\ DOMAIN agent = Owners
    BY <1>0 DEF TypeOK
  <2> QED BY <2>1 DEF OwnerDisposed
<1>3. \A j \in Jobs : owner[j] # Nobody => owner[j] \in Owners
  BY <1>0 DEF TypeOK
<1>4. store \subseteq Jobs
  BY <1>0 DEF TypeOK
<1>5. Working'
  BY <1>0, <1>1, StatusFacts DEF Working, Settled
<1>6. Registered'
  BY <1>0, <1>1, <1>2, <1>3, <1>4, NobodyAssumption DEF Registered, Alive, Drivers
<1>7. Unannounced'
  BY <1>0, <1>1, <1>2, <1>3 DEF Unannounced, Up, Alive, Drivers
<1>8. EndIsTold' /\ Budgeted'
  BY <1>0, <1>1, <1>2 DEF EndIsTold, Budgeted
<1> QED BY <1>5, <1>6, <1>7, <1>8

LEMMA ServiceStep ==
  ASSUME Inductive, ServiceDisposes \/ ServiceDisposed
  PROVE  Working' /\ Registered' /\ Unannounced' /\ EndIsTold' /\ Budgeted'
<1>0. TypeOK /\ Working /\ Registered /\ Unannounced /\ EndIsTold /\ Budgeted
  BY DEF Inductive
<1>1. CASE ServiceDisposes
  <2>1. PICK throws \in SUBSET LiveOf(store) : CancelForTeardown(store, throws)
    BY <1>1 DEF ServiceDisposes
  <2>2. /\ service' = [phase |-> "draining", jobs |-> store] /\ Up
        /\ UNCHANGED <<owner, store, agent, queued, followups, spent, opened, stranded, cleanup>>
    BY <1>1 DEF ServiceDisposes, owners
  <2>3. store \in SUBSET Jobs
    BY <1>0 DEF TypeOK
  <2>4. \A j \in Jobs : j \in store \/ status[j] \notin Live
    BY <1>0 DEF Working
  <2>5. Working' /\ Unannounced' /\ EndIsTold'
    BY <2>1, <2>2, <2>3, <2>4, TeardownStep
  <2>6. Registered' /\ Budgeted'
    BY <1>0, <2>2 DEF Registered, Budgeted, Alive
  <2> QED BY <2>5, <2>6
<1>2. CASE ServiceDisposed
  <2>1. /\ service.phase = "draining" /\ Settled(service.jobs)
        /\ service' = [phase |-> "closed", jobs |-> {}] /\ store' = {}
        /\ UNCHANGED <<status, owner, reported, work, wait, agent, queued, followups, spent, opened, stranded,
                       notices, heard>>
    BY <1>2 DEF ServiceDisposed, owners, history
  <2>2. \A j \in Jobs : status[j] \notin Live
    BY <1>0, <2>1, StatusFacts DEF Working, Registered, Settled
  <2>3. Working' /\ Unannounced'
    BY <1>0, <2>1, <2>2 DEF Working, Unannounced
  <2>4. Registered' /\ EndIsTold' /\ Budgeted'
    BY <1>0, <2>1 DEF Registered, EndIsTold, Budgeted
  <2> QED BY <2>3, <2>4
<1> QED BY <1>1, <1>2

LEMMA DriverBudgeted ==
  ASSUME TypeOK, Budgeted, NEW o \in Owners, Driver(o)
  PROVE  Budgeted'
<1>1. /\ DOMAIN agent = Owners /\ queued \in [Owners -> SUBSET Jobs]
      /\ stranded \in [Owners -> SUBSET Jobs] /\ DOMAIN spent = Owners
      /\ DOMAIN opened = Owners
  BY DEF TypeOK
<1>2. SUFFICES ASSUME NEW p \in Owners PROVE Frugal(p)'
  BY DEF Budgeted, Frugal
<1>3. Frugal(p) /\ WakeBudget \in Nat
  BY LimitAssumption DEF Budgeted, Frugal
<1>4. CASE p # o
  <2>1. UNCHANGED <<agent[p], queued[p], stranded[p], spent[p], opened[p]>>
    BY <1>1, <1>4, DriverEffect
  <2> QED BY <1>3, <2>1 DEF Frugal
<1>5. CASE p = o
  <2>1. CASE \/ Sends(o) \/ Maintains(o) \/ MaintenanceEnds(o) \/ LastLook(o) \/ Retires(o)
    <3>1. UNCHANGED <<queued, spent, opened, stranded>>
      BY <2>1 DEF Sends, Maintains, MaintenanceEnds, LastLook, Retires
    <3>2. CASE Sends(o) \/ LastLook(o)
      <4>1. \/ agent'[o] \in {"busy", "latched"}
            \/ agent'[o] = "retiring" /\ queued[o] = {}
        BY <1>1, <3>2, WakePhase DEF Sends, LastLook
      <4> QED BY <1>3, <1>5, <3>1, <4>1 DEF Frugal
    <3>3. CASE Maintains(o) \/ MaintenanceEnds(o) \/ Retires(o)
      BY <1>1, <1>3, <1>5, <3>1, <3>3 DEF Frugal, Maintains, MaintenanceEnds, Retires
    <3> QED BY <2>1, <3>2, <3>3
  <2>2. ASSUME NEW human \in BOOLEAN, NEW left \in SUBSET queued[o], Claims(o, human, left)
        PROVE  Frugal(o)'
    <3>1. /\ agent[o] = "busy" /\ UNCHANGED agent
          /\ spent' = [spent EXCEPT ![o] = IF human THEN 0 ELSE @]
          /\ opened' = [opened EXCEPT ![o] = IF human THEN 0 ELSE @]
      BY <2>2 DEF Claims, Refills
    <3>2. CASE human
      <4>1. spent'[o] = 0 /\ opened'[o] = 0
        BY <1>1, <3>1, <3>2
      <4> QED BY <1>3, <3>1, <4>1 DEF Frugal
    <3>3. CASE ~human
      <4>1. spent'[o] = spent[o] /\ opened'[o] = opened[o]
        BY <1>1, <3>1, <3>3
      <4> QED BY <1>3, <1>5, <3>1, <4>1 DEF Frugal
    <3> QED BY <3>2, <3>3
  <2>3. CASE Breaks(o)
    <3>1. /\ agent'[o] = "retiring" /\ stranded'[o] = queued[o]
          /\ UNCHANGED <<queued, spent, opened>>
      BY <1>1, <2>3 DEF Breaks
    <3> QED BY <1>3, <1>5, <3>1 DEF Frugal
  <2>4. CASE CancelClears(o)
    <3>1. queued'[o] = {} /\ UNCHANGED <<spent, opened>>
      BY <2>4, KeepsEffect DEF CancelClears
    <3> QED BY <1>3, <1>5, <3>1 DEF Frugal
  <2> QED BY <1>5, <2>1, <2>2, <2>3, <2>4 DEF Driver
<1> QED BY <1>4, <1>5

LEMMA DriverStep ==
  ASSUME Inductive, NEW o \in Owners, Driver(o)
  PROVE  Working' /\ Registered' /\ Unannounced' /\ EndIsTold' /\ Budgeted'
<1>0. TypeOK /\ Working /\ Registered /\ Unannounced /\ EndIsTold /\ Budgeted
  BY DEF Inductive
<1>1. UNCHANGED <<status, owner, reported, store, work, wait, cleanup, service, notices, heard>>
  BY <1>0, DriverEffect DEF Unrelated, records, history
<1>2. \A p \in Owners : /\ Alive(p)' <=> Alive(p)
                        /\ agent'[p] = "disposing" <=> agent[p] = "disposing"
  <2>1. /\ DOMAIN agent = Owners /\ agent[o] \in Drivers /\ agent'[o] \in Drivers
        /\ agent' = [agent EXCEPT ![o] = agent'[o]]
    BY <1>0, DriverEffect DEF TypeOK
  <2>2. \A p \in Owners \ {o} : agent'[p] = agent[p]
    BY <2>1
  <2> QED BY <2>1, <2>2 DEF Alive, Drivers
<1>3. \A j \in Jobs : owner[j] # Nobody => owner[j] \in Owners
  BY <1>0 DEF TypeOK
<1>4. Working' /\ EndIsTold'
  BY <1>0, <1>1 DEF Working, EndIsTold
<1>5. Registered' /\ Unannounced'
  <2>1. store \subseteq Jobs
    BY <1>0 DEF TypeOK
  <2>2. Registered'
    BY <1>0, <1>1, <1>2, <1>3, <2>1 DEF Registered
  <2>3. Unannounced'
    BY <1>0, <1>1, <1>2, <1>3 DEF Unannounced, Up
  <2> QED BY <2>2, <2>3
<1>6. Budgeted'
  BY <1>0, DriverBudgeted
<1> QED BY <1>4, <1>5, <1>6

-----------------------------------------------------------------------------
(***************************************************************************)
(* The theorems.                                                           *)
(***************************************************************************)
\* The inductive invariant of jobs, their notices and their teardowns.
THEOREM InductiveHolds == Spec => []Inductive
<1>1. Init => Inductive
  <2>1. Init => Working /\ Unannounced
    BY DEF Init, Working, Unannounced, Live, Terminal
  <2>2. Init => Registered
    BY DEF Init, Registered
  <2>3. Init => EndIsTold
    BY DEF Init, EndIsTold, Terminal
  <2>4. Init => Budgeted
    BY LimitAssumption DEF Init, Budgeted
  <2> QED BY InitTyped, <2>1, <2>2, <2>3, <2>4 DEF Inductive
<1>2. Inductive /\ [Next]_vars => Inductive'
  <2> SUFFICES ASSUME Inductive, [Next]_vars PROVE Inductive'
    OBVIOUS
  <2>1. TypeOK'
    BY NextTyped DEF Inductive
  <2>2. CASE UNCHANGED vars
    BY <2>1, <2>2 DEF vars, records, owners, history, Inductive, Working, Registered,
                      Unannounced, EndIsTold, Budgeted, Up, Alive
  <2>3. CASE Next
    BY <2>1, <2>3, StartStep, SettleStep, CallsStep, OwnerDisposesStep, OwnerDisposedStep,
       ServiceStep, DriverStep DEF Next, Inductive
  <2> QED BY <2>2, <2>3
<1> QED BY <1>1, <1>2, PTL DEF Spec

\* Whatever kills, waits, teardowns and settlements cross, the end of a job that
\* an agent owns is announced exactly once or has been told it otherwise.
THEOREM EndAlwaysTold == Spec => []EndIsTold
  BY InductiveHolds, PTL DEF Inductive

\* No owner that is gone, and no closed registry, leaves a record or work behind.
THEOREM NoOrphanEver == Spec => []NoOrphans
<1>1. Inductive => NoOrphans
  <2> SUFFICES ASSUME Inductive, NEW j \in Jobs,
                      \/ owner[j] \in Owners /\ agent[owner[j]] = "gone"
                      \/ service.phase = "closed"
               PROVE  j \notin store /\ (work[j] \in {"none", "over"} \/ status[j] = "forced")
    BY DEF NoOrphans
  <2>1. j \notin store
    BY NobodyAssumption DEF Inductive, Registered, Alive, Drivers
  <2>2. status[j] \notin Live /\ status[j] \in Statuses
    BY <2>1 DEF Inductive, Working, TypeOK
  <2> QED BY <2>1, <2>2 DEF Inductive, Working, Statuses, Terminal
<1> QED BY <1>1, InductiveHolds, PTL

\* Between two human inputs notices wake an owner at most maxConsecutiveWakes times,
\* and before that none rests with an owner between two activities, except one that a
\* turn broke off over, or that came behind a turn's last look.
THEOREM WokenAlwaysWithinBudget == Spec => []WokenWithinBudget
<1>1. Inductive => WokenWithinBudget
  <2> SUFFICES ASSUME Inductive, NEW o \in Owners
               PROVE  /\ opened[o] <= WakeBudget
                      /\ agent[o] \in {"idle", "maintenance"} /\ queued[o] \ stranded[o] # {} =>
                           spent[o] = WakeBudget
    BY DEF WokenWithinBudget
  <2>1. opened[o] \in Nat /\ spent[o] \in Nat /\ WakeBudget \in Nat
    BY LimitAssumption DEF Inductive, TypeOK
  <2> QED BY <2>1 DEF Inductive, Budgeted
<1> QED BY <1>1, InductiveHolds, PTL

\* No late settlement, kill or teardown ever replaces a job's first outcome.
THEOREM FirstOutcomeAlwaysStays == Spec => FirstOutcomeStays
<1> DEFINE Kept == \A j \in Jobs : status[j] \in Terminal => status'[j] = status[j]
<1>1. Inductive /\ [Next]_vars => [Kept]_vars
  <2> SUFFICES ASSUME Inductive, Next PROVE Kept
    OBVIOUS
  <2>0. TypeOK /\ DOMAIN status = Jobs
    BY DEF Inductive, TypeOK
  <2>1. CASE UNCHANGED status
    BY <2>1
  <2>2. ASSUME NEW j \in Jobs, NEW o \in Owners \cup {Nobody}, Start(j, o) PROVE Kept
    BY <2>0, <2>2, StatusFacts DEF Start
  <2>3. ASSUME NEW j \in Jobs, Settle(j) PROVE Kept
    BY <2>0, <2>3, SettleEffect
  <2>4. ASSUME NEW j \in Jobs, Kill(j) PROVE Kept
    BY <2>0, <2>4 DEF Kill
  <2>5. ASSUME NEW S \in SUBSET Jobs, NEW throws \in SUBSET LiveOf(S),
               CancelForTeardown(S, throws)
        PROVE  Kept
    BY <2>0, <2>5, TeardownEffect, StatusFacts DEF LiveOf
  <2>6. CASE ServiceDisposes \/ \E o \in Owners : OwnerDisposes(o)
    <3>1. \E S \in SUBSET store : \E throws \in SUBSET LiveOf(S) : CancelForTeardown(S, throws)
      BY <2>6 DEF ServiceDisposes, OwnerDisposes
    <3>2. store \subseteq Jobs
      BY <2>0 DEF TypeOK
    <3> QED BY <2>5, <3>1, <3>2
  <2>7. CASE \/ \E j \in Jobs : \/ ProducerEnds(j) \/ Read(j)
                               \/ \E w \in Waits : Await(w, j)
             \/ \E w \in Waits : WaitTimesOut(w) \/ WaitAborts(w) \/ WaitReturns(w)
             \/ \E o \in Owners : OwnerDisposed(o) \/ Driver(o)
             \/ ServiceDisposed
    <3>1. UNCHANGED status
      BY <2>0, <2>7, DriverEffect DEF ProducerEnds, Read, Await, WaitTimesOut, WaitAborts,
         WaitReturns, OwnerDisposed, ServiceDisposed, Unrelated, records
    <3> QED BY <3>1
  <2> QED BY <2>2, <2>3, <2>4, <2>6, <2>7 DEF Next
<1> QED BY <1>1, InductiveHolds, PTL DEF Spec, FirstOutcomeStays

\* No notice is ever delivered into the teardown of its owner or of the registry.
THEOREM TeardownAlwaysQuiet == Spec => TeardownIsQuiet
<1> DEFINE Quiet == \A j \in Jobs : notices'[j] > notices[j] =>
                      service'.phase = "up" /\ agent'[owner[j]] \in Drivers
<1>1. Inductive /\ [Next]_vars => [Quiet]_vars
  <2> SUFFICES ASSUME Inductive, Next PROVE Quiet
    OBVIOUS
  <2>0. TypeOK /\ notices \in [Jobs -> Nat]
    BY DEF Inductive, TypeOK
  <2>1. CASE UNCHANGED notices
    BY <2>0, <2>1
  <2>2. ASSUME NEW j \in Jobs, Settle(j), ~UNCHANGED notices PROVE Quiet
    <3>1. /\ ~reported[j] /\ owner[j] # Nobody /\ Up /\ Deliver(j)
          /\ status[j] \notin Terminal /\ service' = service /\ work[j] = "done"
      BY <2>0, <2>2, SettleEffect
    <3>2. status[j] \in Live
      <4>1. status[j] \in Statuses /\ status[j] # "none"
        BY <3>1 DEF Inductive, Working, TypeOK
      <4> QED BY <3>1, <4>1 DEF Statuses
    <3>3. Alive(owner[j])
      BY <3>1, <3>2 DEF Inductive, Unannounced
    <3>4. agent'[owner[j]] \in Drivers
      <4>1. DOMAIN agent = Owners
        BY <2>0 DEF TypeOK
      <4> QED BY <2>0, <3>1, <3>3, <4>1, DeliverEffect, WakePhase DEF Alive, Drivers
    <3>5. \A k \in Jobs \ {j} : notices'[k] = notices[k]
      BY <2>0, <3>1, DeliverEffect
    <3> QED BY <2>0, <3>1, <3>4, <3>5 DEF Up
  <2>3. CASE ServiceDisposes \/ \E o \in Owners : OwnerDisposes(o)
    BY <2>1, <2>3 DEF ServiceDisposes, OwnerDisposes, CancelForTeardown
  <2>4. ASSUME NEW j \in Jobs,
               \/ ProducerEnds(j) \/ Read(j) \/ Kill(j)
               \/ \E w \in Waits : Await(w, j)
               \/ \E o \in Owners \cup {Nobody} : Start(j, o)
        PROVE  Quiet
    <3>1. UNCHANGED notices
      BY <2>4 DEF ProducerEnds, Read, Kill, Await, Start, history
    <3> QED BY <2>1, <3>1
  <2>5. ASSUME NEW j \in Jobs, Settle(j) PROVE Quiet
    BY <2>1, <2>2, <2>5
  <2>6. CASE \/ \E w \in Waits : WaitTimesOut(w) \/ WaitAborts(w) \/ WaitReturns(w)
             \/ \E o \in Owners : OwnerDisposed(o) \/ Driver(o)
             \/ ServiceDisposed
    <3>1. UNCHANGED notices
      BY <2>0, <2>6, DriverEffect DEF WaitTimesOut, WaitAborts, WaitReturns, OwnerDisposed,
         ServiceDisposed, Unrelated, history
    <3> QED BY <2>1, <3>1
  <2> HIDE DEF Quiet
  <2> QED BY <2>3, <2>4, <2>5, <2>6 DEF Next
<1> QED BY <1>1, InductiveHolds, PTL DEF Spec, TeardownIsQuiet
=============================================================================
