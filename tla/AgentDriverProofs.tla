-------------------------- MODULE AgentDriverProofs --------------------------
(***************************************************************************)
(* Proofs about AgentDriver for every set of messages, callers, outcomes   *)
(* and causes, and every bound.                                            *)
(***************************************************************************)
EXTENDS AgentDriver, FiniteSetTheorems, SequenceTheorems, TLAPS

(***************************************************************************)
(* The events the driver itself appends, and what an append of one does to *)
(* the trace's type.                                                       *)
(***************************************************************************)
DriverEvents ==
  [type : {"turn/start", "turn/end"}, turn : Nat]
    \cup [type : StepEvents, turn : Nat, step : Nat]
    \cup [type : {"request/header"}]

LogTyped == trace \in Traces({}) /\ refused \subseteq EventTypes

\* The constructors of SessionLog build driver events.
LEMMA EventsTyped ==
  ASSUME NEW t \in Nat, NEW s \in Nat, NEW type \in StepEvents
  PROVE  /\ TurnStart(t) \in DriverEvents /\ TurnEnd(t) \in DriverEvents
         /\ StepEvent(type, t, s) \in DriverEvents
         /\ PlainEvent("request/header") \in DriverEvents
  BY DEF TurnStart, TurnEnd, StepEvent, PlainEvent, DriverEvents

\* The transition of the companion keeps a trace a trace.
LEMMA ApplyTyped ==
  ASSUME NEW tr \in Traces({}), NEW e \in DriverEvents
  PROVE  Apply(tr, e) \in Traces({}) /\ e.type \in EventTypes
<1> USE DEF DriverEvents
<1>1. tr.nextTurn + 1 \in Nat /\ tr.nextStep + 1 \in Nat
  BY DEF Traces
<1>2. CASE e.type = "turn/start"
  <2>1. e.turn \in Nat
    BY <1>2 DEF StepEvents
  <2>2. Apply(tr, e) = [tr EXCEPT !.openTurn = e.turn, !.nextStep = 1]
    BY <1>2 DEF Apply
  <2>3. [tr EXCEPT !.openTurn = e.turn, !.nextStep = 1] \in Traces({})
    BY <2>1 DEF Traces
  <2> QED BY <1>2, <2>2, <2>3 DEF EventTypes
<1>3. CASE e.type = "turn/end"
  <2>1. Apply(tr, e) = [tr EXCEPT !.openTurn = 0, !.nextTurn = tr.nextTurn + 1]
    BY <1>3 DEF Apply
  <2>2. [tr EXCEPT !.openTurn = 0, !.nextTurn = tr.nextTurn + 1] \in Traces({})
    BY <1>1 DEF Traces
  <2> QED BY <1>3, <2>1, <2>2 DEF EventTypes
<1>4. CASE e.type = "step/start"
  <2>1. e.step \in Nat
    BY <1>4
  <2>2. Apply(tr, e) = [tr EXCEPT !.openStep = e.step]
    BY <1>4 DEF Apply
  <2>3. [tr EXCEPT !.openStep = e.step] \in Traces({})
    BY <2>1 DEF Traces
  <2> QED BY <1>4, <2>2, <2>3 DEF EventTypes, StepEvents
<1>5. CASE e.type = "step/end"
  <2>1. Apply(tr, e) = [tr EXCEPT !.openStep = 0, !.nextStep = tr.nextStep + 1,
                                  !.pendingCalls = {}]
    BY <1>5 DEF Apply
  <2>2. [tr EXCEPT !.openStep = 0, !.nextStep = tr.nextStep + 1,
                   !.pendingCalls = {}] \in Traces({})
    BY <1>1 DEF Traces
  <2> QED BY <1>5, <2>1, <2>2 DEF EventTypes, StepEvents
<1>6. CASE e.type \in {"system/message", "assistant/message",
                      "assistant/attempt", "request/header"}
  BY <1>6 DEF Apply, EventTypes, StepEvents
<1> QED BY <1>2, <1>3, <1>4, <1>5, <1>6 DEF StepEvents

\* One, two or three appends in a row keep the log typed.
LEMMA CommitTyped ==
  ASSUME LogTyped, NEW e \in DriverEvents
  PROVE  /\ Commit(e) => LogTyped'
         /\ \A d \in DriverEvents :
              /\ Commit2(d, e) => LogTyped'
              /\ \A c \in DriverEvents : Commit3(c, d, e) => LogTyped'
  BY ApplyTyped DEF LogTyped, Commit, Commit2, Commit3

(***************************************************************************)
(* Type correctness, one step per action.                                  *)
(***************************************************************************)
LEMMA InitTyped == Init => TypeOK
<1>1. FreshTrace \in Traces({})
  BY DEF FreshTrace, Traces
<1>2. Init => /\ queuedAs \in [Messages -> Targets \cup {"unsent"}]
              /\ claimedIn \in [Messages -> Nat]
              /\ admittedIn \in [Messages -> Seq(Nat)]
  BY DEF Init
<1>3. Init => /\ phase \in {"idle", "maintenance", "running"}
              /\ pc \in {"idle", "maintaining"} \cup Awaits \cup Notifying \cup Publishing
              /\ abort \in AllCauses \cup {"none"}
              /\ target \in Targets /\ turnEnds \in Reasons
  BY DEF Init, Targets, Reasons
<1>4. Init => /\ nextTurn \in Seq(Messages) /\ nextStep \in Seq(Messages)
              /\ batch \in Seq(Messages)
              /\ trace \in Traces({}) /\ refused \subseteq EventTypes
  BY <1>1 DEF Init
<1>5. Init => wakeRequested \in BOOLEAN /\ owedWake \in BOOLEAN
  BY DEF Init
<1>6. Init => /\ turn \in Nat /\ step \in Nat /\ cancels \in Nat
              /\ discarded \subseteq Messages
              /\ sending \in {"none", "live", "afterAbort"}
              /\ disposal \in {"none", "draining", "done"}
  BY DEF Init
<1> QED BY <1>2, <1>3, <1>4, <1>5, <1>6 DEF TypeOK

LEMMA InsertTyped ==
  ASSUME TypeOK, NEW m \in Messages, NEW list \in Targets
  PROVE  InsertLast(list, m) \/ InsertFirst(list, m) =>
           /\ nextTurn' \in Seq(Messages) /\ nextStep' \in Seq(Messages)
           /\ queuedAs' \in [Messages -> Targets \cup {"unsent"}]
<1>1. queuedAs' = [queuedAs EXCEPT ![m] = list] =>
        queuedAs' \in [Messages -> Targets \cup {"unsent"}]
  BY DEF TypeOK
<1>2. /\ Append(nextTurn, m) \in Seq(Messages) /\ Append(nextStep, m) \in Seq(Messages)
      /\ <<m>> \o nextTurn \in Seq(Messages) /\ <<m>> \o nextStep \in Seq(Messages)
  BY DEF TypeOK
<1> QED BY <1>1, <1>2 DEF TypeOK, InsertLast, InsertFirst

LEMMA CutTyped ==
  ASSUME NEW list \in Seq(Messages), NEW i \in DOMAIN list
  PROVE  Cut(list, i) \in Seq(Messages)
  BY DEF Cut

LEMMA SendTyped ==
  ASSUME TypeOK, NEW m \in Messages, NEW to \in Targets, NEW wakeup \in BOOLEAN,
         Send(m, to, wakeup)
  PROVE  TypeOK'
  BY InsertTyped DEF TypeOK, Send, Targets, activity, position, ledger, log

LEMMA WakeTyped ==
  ASSUME TypeOK, NEW w \in BOOLEAN, WakeDriver(w)
  PROVE  /\ phase' \in {"idle", "maintenance", "running"}
         /\ pc' \in {"idle", "maintaining"} \cup Awaits \cup Notifying \cup Publishing
         /\ abort' \in AllCauses \cup {"none"}
         /\ wakeRequested' \in BOOLEAN
         /\ step' \in Nat
         /\ UNCHANGED <<turn, target, turnEnds, batch>>
<1>1. CASE phase = "idle"
  <2>1. StartDriver
    BY <1>1 DEF WakeDriver
  <2> QED BY <2>1 DEF StartDriver, Notifying
<1>2. CASE phase # "idle"
  <2>1. wakeRequested' \in BOOLEAN
    BY <1>2, Zenon DEF WakeDriver
  <2> QED BY <1>2, <2>1 DEF TypeOK, WakeDriver, position
<1> QED BY <1>1, <1>2

LEMMA CallerTyped ==
  ASSUME TypeOK, Caller PROVE TypeOK'
<1> USE DEF activity, position, inbox, ledger, log, calls
<1>1. ASSUME NEW m \in Messages, Followup(m) \/ Steer(m) \/ Inject(m) PROVE TypeOK'
  BY <1>1, SendTyped DEF Followup, Steer, Inject, Targets
<1>2. ASSUME NEW m \in Messages, NEW to \in Targets, Prepend(m, to) PROVE TypeOK'
  BY <1>2, InsertTyped DEF Prepend, TypeOK
<1>3. ASSUME NEW m \in Messages, Remove(m) PROVE TypeOK'
  BY <1>3, CutTyped DEF Remove, TypeOK
<1>4. ASSUME NEW m \in Messages, NEW n \in Messages, Replace(m, n) PROVE TypeOK'
  <2>1. \A list \in Seq(Messages) : \A i \in DOMAIN list :
          [list EXCEPT ![i] = n] \in Seq(Messages)
    OBVIOUS
  <2>2. nextTurn' \in Seq(Messages) /\ nextStep' \in Seq(Messages)
    BY <1>4, <2>1 DEF Replace, TypeOK
  <2>3. queuedAs' \in [Messages -> Targets \cup {"unsent"}]
    BY <1>4 DEF Replace, TypeOK
  <2> QED BY <1>4, <2>2, <2>3 DEF Replace, TypeOK
<1>5. ASSUME NEW cause \in AllCauses, NEW keepInbox \in BOOLEAN,
             CancelEffect(cause, keepInbox)
      PROVE  /\ nextTurn' \in Seq(Messages) /\ nextStep' \in Seq(Messages)
             /\ discarded' \subseteq Messages
             /\ wakeRequested' \in BOOLEAN
             /\ abort' \in AllCauses \cup {"none"}
  <2>1. Pending \subseteq Messages
    BY DEF Pending, Members, TypeOK
  <2>2. abort' \in AllCauses \cup {"none"}
    BY <1>5 DEF CancelEffect, TypeOK
  <2>3. CASE keepInbox
    BY <1>5, <2>2, <2>3 DEF CancelEffect, TypeOK
  <2>4. CASE ~keepInbox
    <3>1. nextTurn' = <<>> /\ nextStep' = <<>> /\ wakeRequested' = FALSE
          /\ discarded' = discarded \cup Pending
      BY <1>5, <2>4 DEF CancelEffect, Clear
    <3>2. discarded \subseteq Messages
      BY DEF TypeOK
    <3>3. <<>> \in Seq(Messages)
      OBVIOUS
    <3>4. discarded' \subseteq Messages
      BY <2>1, <3>1, <3>2
    <3>5. nextTurn' \in Seq(Messages) /\ nextStep' \in Seq(Messages)
      BY <3>1, <3>3
    <3>6. wakeRequested' \in BOOLEAN
      BY <3>1
    <3> QED BY <2>2, <3>4, <3>5, <3>6
  <2> QED BY <2>3, <2>4
<1>6. ASSUME NEW cause \in Causes, NEW keepInbox \in BOOLEAN, Cancel(cause, keepInbox)
      PROVE  TypeOK'
  <2>1. CancelEffect(cause, keepInbox) /\ cause \in AllCauses
    BY <1>6 DEF Cancel, AllCauses
  <2>2. /\ cancels' \in Nat
        /\ UNCHANGED <<sending, disposal, phase, pc, owedWake, turn, step, target,
                       turnEnds, batch, queuedAs, claimedIn, admittedIn, trace, refused>>
    BY <1>6, <2>1 DEF Cancel, CancelEffect, TypeOK
  <2> QED BY <1>5, <2>1, <2>2 DEF TypeOK
<1>7. ASSUME BeginMaintenance PROVE TypeOK'
  BY <1>7 DEF BeginMaintenance, TypeOK
<1>8. ASSUME Dispose PROVE TypeOK'
  BY <1>5, <1>8 DEF Dispose, CancelEffect, AllCauses, TypeOK
<1> QED
  BY <1>1, <1>2, <1>3, <1>4, <1>6, <1>7, <1>8 DEF Caller

\* Leaving turn(), with what it appends on the way out.
LEMMA LeaveTyped ==
  ASSUME TypeOK, NEW reason \in Reasons \ {"none"},
         NEW settlement \in StepEvents,
         LeaveBetweenSteps(reason) \/ LeaveInStep(reason)
           \/ SettleAndLeave(settlement, reason)
  PROVE  /\ LogTyped'
         /\ turnEnds' \in Reasons /\ pc' = "stopped"
         /\ UNCHANGED <<phase, abort, wakeRequested, owedWake, turn, step, target, batch>>
<1>1. LogTyped /\ turn \in Nat /\ step \in Nat
  BY DEF TypeOK, LogTyped
<1>2. /\ TurnEnd(turn) \in DriverEvents
      /\ StepEvent("step/end", turn, step) \in DriverEvents
      /\ StepEvent(settlement, turn, step) \in DriverEvents
  BY <1>1, EventsTyped DEF StepEvents
<1>3. LogTyped'
  BY <1>1, <1>2, CommitTyped DEF LeaveBetweenSteps, LeaveInStep, SettleAndLeave
<1>4. Leave(reason)
  BY DEF LeaveBetweenSteps, LeaveInStep, SettleAndLeave
<1> QED BY <1>3, <1>4 DEF Leave

LEMMA FinishTyped ==
  ASSUME TypeOK, FinishTurn
  PROVE  /\ LogTyped' /\ pc' = "closed"
         /\ UNCHANGED <<phase, abort, wakeRequested, owedWake, position>>
<1>1. LogTyped /\ TurnEnd(turn) \in DriverEvents
  BY EventsTyped DEF TypeOK, LogTyped, StepEvents
<1> QED BY <1>1, CommitTyped DEF FinishTurn

LEMMA ProposeTyped ==
  ASSUME TypeOK, ProposeNext, UNCHANGED calls
  PROVE  TypeOK'
<1>1. /\ nextStep' \in Seq(Messages) /\ nextTurn' \in Seq(Messages)
      /\ batch' \in Seq(Messages)
  <2>1. nextTurn # <<>> => /\ <<Head(nextTurn)>> \in Seq(Messages)
                           /\ Tail(nextTurn) \in Seq(Messages)
    BY DEF TypeOK
  <2>2. <<>> \in Seq(Messages)
    OBVIOUS
  <2>3. \A prompt \in Seq(Messages) : nextStep \o prompt \in Seq(Messages)
    BY DEF TypeOK
  <2> QED BY <2>1, <2>2, <2>3 DEF ProposeNext, Claim, TypeOK
<1>2. claimedIn' \in [Messages -> Nat]
  BY DEF ProposeNext, Claim, TypeOK
<1> QED BY <1>1, <1>2 DEF ProposeNext, TypeOK, Awaits, log, calls

\* What is left to check of a driver step that leaves the inbox, the ledger
\* and the callers alone.
LEMMA DriverStepTyped ==
  ASSUME TypeOK, UNCHANGED <<inbox, ledger, calls>>,
         LogTyped', pc' \in Awaits \cup Publishing \cup {"stopped"},
         turnEnds' \in Reasons, turn' \in Nat, step' \in Nat, target' \in Targets,
         batch' \in Seq(Messages),
         UNCHANGED <<phase, abort, wakeRequested, owedWake>>
  PROVE  TypeOK'
  BY DEF TypeOK, LogTyped, inbox, ledger, calls, Awaits

LEMMA DriverTyped ==
  ASSUME TypeOK, Driver PROVE TypeOK'
<1> USE DEF Reasons, StepEvents
<1>0. LogTyped /\ turn \in Nat /\ step \in Nat /\ target \in Targets
        /\ batch \in Seq(Messages) /\ turnEnds \in Reasons
  BY DEF TypeOK, LogTyped
<1>1. ASSUME TurnBegins PROVE TypeOK'
  <2>1. CASE abort # "none"
    BY <1>1, <2>1, <1>0, DriverStepTyped DEF TurnBegins, position, log, LogTyped
  <2>2. CASE abort = "none"
    <3>1. TurnStart(turn + 1) \in DriverEvents /\ turn + 1 \in Nat
      BY <1>0, EventsTyped
    <3>2. LogTyped'
      BY <1>0, <1>1, <2>2, <3>1, CommitTyped DEF TurnBegins
    <3> QED BY <1>0, <1>1, <2>2, <3>1, <3>2, DriverStepTyped
            DEF TurnBegins, Publishing, Targets
  <2> QED BY <2>1, <2>2
<1>2. ASSUME ProposeStep PROVE TypeOK'
  BY <1>0, <1>2, ProposeTyped, LeaveTyped, DriverStepTyped DEF ProposeStep
<1>3. ASSUME Assembled PROVE TypeOK'
  BY <1>0, <1>3, LeaveTyped, DriverStepTyped DEF Assembled, position, log, Awaits, LogTyped
<1>4. ASSUME Decided PROVE TypeOK'
  <2>1. ASSUME NEW entered \in Seq(Messages), NEW context \in BOOLEAN,
               Enter(entered, context)
        PROVE  TypeOK'
    <3>1. UNCHANGED <<inbox, ledger, calls>>
      BY <1>4 DEF Decided
    <3>2. CASE FinishTurn
      BY <1>0, <3>1, <3>2, FinishTyped, DriverStepTyped DEF position, Publishing
    <3>3. CASE LeaveBetweenSteps("completed")
      BY <1>0, <3>1, <3>3, LeaveTyped, DriverStepTyped
    <3>4. CASE /\ Commit(StepEvent("step/start", turn, step + 1))
               /\ step' = step + 1
               /\ batch' = entered
               /\ pc' = "preparing"
               /\ UNCHANGED <<phase, abort, wakeRequested, owedWake, turn, target,
                              turnEnds>>
      <4>1. step + 1 \in Nat /\ StepEvent("step/start", turn, step + 1) \in DriverEvents
        BY <1>0, EventsTyped
      <4>2. LogTyped'
        BY <1>0, <3>4, <4>1, CommitTyped
      <4> QED BY <1>0, <3>1, <3>4, <4>1, <4>2, DriverStepTyped DEF Awaits
    <3> QED BY <2>1, <3>2, <3>3, <3>4 DEF Enter
  <2>2. ASSUME NEW reason \in {"aborted", "error", "blocked"}, LeaveBetweenSteps(reason)
        PROVE TypeOK'
    BY <1>0, <1>4, <2>2, LeaveTyped, DriverStepTyped DEF Decided
  <2>3. \/ \E reason \in {"aborted", "error", "blocked"} : LeaveBetweenSteps(reason)
        \/ Enter(batch, FALSE) \/ Enter(<<>>, FALSE) \/ Enter(batch, TRUE)
    BY <1>4 DEF Decided
  <2>4. <<>> \in Seq(Messages) /\ TRUE \in BOOLEAN /\ FALSE \in BOOLEAN
    OBVIOUS
  <2> QED BY <1>0, <2>1, <2>2, <2>3, <2>4
<1>5. ASSUME Prepared PROVE TypeOK'
  <2>1. CASE LeaveInStep("aborted") \/ LeaveInStep("error")
    <3>1. UNCHANGED admittedIn
      BY <1>5, <2>1 DEF Prepared, LeaveInStep, Leave, Admit
    <3> QED BY <1>0, <1>5, <2>1, <3>1, LeaveTyped, DriverStepTyped
            DEF Prepared, ledger
  <2>2. CASE Admit /\ batch' = <<>>
    <3>1. LogTyped'
      BY <1>0, <2>2, EventsTyped, CommitTyped DEF Admit
    <3>2. admittedIn' \in [Messages -> Seq(Nat)]
      BY <1>0, <2>2 DEF Admit, TypeOK
    <3>3. batch' \in Seq(Messages) /\ pc' \in Awaits
      BY <2>2 DEF Admit, Awaits
    <3> QED BY <1>5, <2>2, <3>1, <3>2, <3>3 DEF Prepared, Admit, TypeOK, LogTyped, inbox, calls
  <2> QED BY <1>5, <2>1, <2>2 DEF Prepared
<1>6. ASSUME NEW stepEnd \in {"none", "completed", "max-tokens"}, StepReturns(stepEnd)
      PROVE  /\ turnEnds' \in Reasons /\ target' \in Targets
             /\ pc' \in Awaits \cup Publishing
             /\ UNCHANGED <<phase, abort, wakeRequested, owedWake, turn, step, batch>>
  BY <1>0, <1>6 DEF StepReturns, Targets, Awaits, Publishing
<1>7. ASSUME StreamEnds PROVE TypeOK'
  <2>1. \A type \in StepEvents : StepEvent(type, turn, step) \in DriverEvents
    BY <1>0, EventsTyped
  <2>2. CASE \/ LeaveInStep("aborted") \/ LeaveInStep("error")
             \/ \E type \in {"assistant/message", "assistant/attempt"},
                   reason \in {"aborted", "error"} : SettleAndLeave(type, reason)
    BY <1>0, <1>7, <2>2, LeaveTyped, DriverStepTyped DEF StreamEnds
  <2>3. CASE /\ \E type \in {"assistant/message", "assistant/attempt"} :
                  Commit(StepEvent(type, turn, step))
             /\ pc' \in {"recovering", "executing"}
             /\ UNCHANGED <<phase, abort, wakeRequested, owedWake, position>>
    <3>1. LogTyped'
      BY <1>0, <2>1, <2>3, CommitTyped
    <3> QED BY <1>0, <1>7, <2>3, <3>1, DriverStepTyped DEF StreamEnds, position, Awaits
  <2>4. CASE /\ \E stepEnd \in {"completed", "max-tokens"} : StepReturns(stepEnd)
             /\ Commit2(StepEvent("assistant/message", turn, step),
                        StepEvent("step/end", turn, step))
    <3>1. LogTyped'
      BY <1>0, <2>1, <2>4, CommitTyped
    <3> QED BY <1>0, <1>6, <1>7, <2>4, <3>1, DriverStepTyped DEF StreamEnds
  <2> QED BY <1>7, <2>2, <2>3, <2>4 DEF StreamEnds
<1>8. ASSUME Recovered PROVE TypeOK'
  BY <1>0, <1>8, LeaveTyped, DriverStepTyped DEF Recovered, position, log, Awaits, LogTyped
<1>9. ASSUME ToolsDone PROVE TypeOK'
  <2>1. CASE \E concluded \in BOOLEAN :
               /\ StepReturns(IF concluded THEN "completed" ELSE "none")
               /\ Commit(StepEvent("step/end", turn, step))
    <3>1. LogTyped'
      BY <1>0, <2>1, EventsTyped, CommitTyped
    <3> QED BY <1>0, <1>6, <1>9, <2>1, <3>1, DriverStepTyped DEF ToolsDone
  <2>2. CASE LeaveInStep(IF abort # "none" THEN "aborted" ELSE "error")
    BY <1>0, <1>9, <2>2, LeaveTyped, DriverStepTyped DEF ToolsDone
  <2> QED BY <1>9, <2>1, <2>2 DEF ToolsDone
<1>10. ASSUME Stopping PROVE TypeOK'
  BY <1>0, <1>10, LeaveTyped, FinishTyped, ProposeTyped, DriverStepTyped
     DEF Stopping, Publishing, position
<1>11. ASSUME LookForWork PROVE TypeOK'
  <2>1. UNCHANGED <<phase, owedWake, inbox, ledger, log, calls>>
    BY <1>11 DEF LookForWork
  <2>2. CASE HasPending
    <3>1. /\ abort' = "none" /\ wakeRequested' = FALSE /\ step' = 0 /\ pc' = "looping"
          /\ UNCHANGED <<turn, target, turnEnds, batch>>
      BY <1>11, <2>2 DEF LookForWork
    <3>2. step' \in Nat /\ pc' \in Awaits /\ wakeRequested' \in BOOLEAN
      BY <3>1 DEF Awaits
    <3> QED BY <2>1, <3>1, <3>2 DEF TypeOK, inbox, ledger, log, calls
  <2>3. CASE ~HasPending
    BY <1>11, <2>1, <2>3 DEF LookForWork, TypeOK, Awaits, position, inbox, ledger, log, calls
  <2> QED BY <2>2, <2>3
<1>12. ASSUME KickReturns PROVE TypeOK'
  <2>1. <<>> \in Seq(Messages)
    OBVIOUS
  <2>2. owedWake' \in BOOLEAN /\ wakeRequested' \in BOOLEAN
    BY <1>12, Zenon DEF KickReturns, TurnIdle, TypeOK
  <2> QED BY <1>12, <2>1, <2>2 DEF KickReturns, TurnIdle, TypeOK, Targets, inbox, ledger, log, calls
<1>13. ASSUME ReplayWake PROVE TypeOK'
  BY <1>13, WakeTyped DEF ReplayWake, TypeOK, position, inbox, ledger, log, calls
<1>14. ASSUME SendReturns PROVE TypeOK'
  BY <1>14, WakeTyped DEF SendReturns, TypeOK, inbox, ledger, log
<1>15. ASSUME EndMaintenance PROVE TypeOK'
  <2>1. CASE StartDriver
    BY <1>15, <2>1 DEF EndMaintenance, StartDriver, Notifying, TypeOK, inbox, ledger, log, calls
  <2>2. CASE ~StartDriver
    BY <1>15, <2>2 DEF EndMaintenance, TypeOK, position, inbox, ledger, log, calls
  <2> QED BY <2>1, <2>2
<1> QED
  BY <1>1, <1>2, <1>3, <1>4, <1>5, <1>7, <1>8, <1>9, <1>10, <1>11, <1>12, <1>13,
     <1>14, <1>15 DEF Driver

\* Every step keeps every variable in its type.
LEMMA NextTyped ==
  ASSUME TypeOK, [Next]_vars PROVE TypeOK'
<1>1. ASSUME NEW m \in Messages, AcceptContext(m) PROVE TypeOK'
  BY <1>1, InsertTyped
     DEF AcceptContext, TypeOK, Targets, activity, position, ledger, log, calls
<1>2. CASE WhenIdleResolves
  BY <1>2 DEF WhenIdleResolves, TypeOK, activity, position, inbox, ledger, log
<1>3. CASE UNCHANGED vars
  BY <1>3 DEF vars, TypeOK, activity, position, inbox, ledger, log, calls
<1> QED BY <1>1, <1>2, <1>3, CallerTyped, DriverTyped DEF Next

\* The agent never leaves the shapes of Phase, InboxState and the trace, for
\* any set of messages, callers, hook outcomes and cancellation causes.
THEOREM TypeCorrect == Spec => []TypeOK
  BY InitTyped, NextTyped, PTL DEF Spec

(***************************************************************************)
(* The latch.  It is set only by SendReturns and ReplayWake, behind        *)
(* maintenance or with the class send() captured; Places says that an      *)
(* "afterAbort" class still finds its activity aborted.                    *)
(***************************************************************************)
Latch == LatchOnlyWhenOwed /\ Places

\* What a driver step at an await may do to the activity without touching
\* the latch's condition.
LEMMA LatchKept ==
  ASSUME Latch, NoSend, UNCHANGED <<phase, abort, wakeRequested, sending>>,
         pc # "idle", pc' # "idle"
  PROVE  Latch'
  BY DEF Latch, LatchOnlyWhenOwed, Places, NoSend

\* Waking the driver with a captured class, or replaying a wake.
LEMMA LatchWake ==
  ASSUME Latch, NEW w \in BOOLEAN, WakeDriver(w), sending' = "none",
         w => phase # "idle" /\ abort # "none", phase \in {"idle", "maintenance", "running"}
  PROVE  Latch'
<1>1. CASE phase = "idle"
  <2>1. StartDriver
    BY <1>1 DEF WakeDriver
  <2> QED BY <2>1 DEF StartDriver, Latch, LatchOnlyWhenOwed, Places, NoSend
<1>2. CASE phase # "idle"
  <2>1. /\ UNCHANGED <<phase, pc, abort>>
        /\ wakeRequested' => wakeRequested \/ phase = "maintenance" \/ w
    BY <1>2, Zenon DEF WakeDriver
  <2> QED BY <1>2, <2>1 DEF Latch, LatchOnlyWhenOwed, Places, NoSend
<1> QED BY <1>1, <1>2

LEMMA LatchStep ==
  ASSUME TypeOK, Latch, [Next]_vars PROVE Latch'
<1> USE DEF Latch, LatchOnlyWhenOwed, Places, NoSend, activity, calls
<1>1. ASSUME NEW m \in Messages, Followup(m) \/ Steer(m) \/ Inject(m) PROVE Latch'
  BY <1>1 DEF Followup, Steer, Inject, Send, AppendAllowed
<1>2. ASSUME Driver PROVE Latch'
  <2>1. CASE TurnBegins \/ ProposeStep
    BY <1>2, <2>1 DEF TurnBegins, ProposeStep, ProposeNext, Publishing, Settles,
          LeaveBetweenSteps, Leave
  <2>2. CASE Assembled \/ Decided \/ Prepared \/ StreamEnds \/ Recovered \/ ToolsDone
               \/ Stopping
    BY <2>2, LatchKept
       DEF Assembled, Decided, Prepared, StreamEnds, Recovered, ToolsDone, Stopping,
           Settles, Enter, FinishTurn, Admit, StepReturns, ProposeNext,
           LeaveBetweenSteps, LeaveInStep, SettleAndLeave, Leave
  <2>3. CASE LookForWork
    BY <2>3 DEF LookForWork, Publishing
  <2>4. CASE KickReturns
    BY <2>4 DEF KickReturns, TurnIdle, Settles, Publishing
  <2>5. CASE ReplayWake
    <3>1. CASE HasPending
      BY <2>5, <3>1, LatchWake DEF ReplayWake, TypeOK
    <3>2. CASE ~HasPending
      BY <2>5, <3>2 DEF ReplayWake
    <3> QED BY <3>1, <3>2
  <2>6. CASE SendReturns
    BY <2>6, LatchWake DEF SendReturns, TypeOK
  <2>7. CASE EndMaintenance
    BY <2>7 DEF EndMaintenance, StartDriver, Settles, Publishing
  <2> QED BY <1>2, <2>1, <2>2, <2>3, <2>4, <2>5, <2>6, <2>7 DEF Driver
<1>3. ASSUME NEW cause \in AllCauses, NEW keepInbox \in BOOLEAN,
             CancelEffect(cause, keepInbox), UNCHANGED sending
      PROVE  Latch'
  BY <1>3, CausesAssumption DEF CancelEffect, AllCauses, Disposed
<1>4. ASSUME Caller PROVE Latch'
  <2>1. ASSUME NEW m \in Messages, NEW to \in Targets, Prepend(m, to) PROVE Latch'
    BY <2>1 DEF Prepend
  <2>2. ASSUME NEW m \in Messages, NEW n \in Messages, Remove(m) \/ Replace(m, n)
        PROVE  Latch'
    BY <2>2 DEF Remove, Replace
  <2>3. ASSUME NEW cause \in Causes, NEW keepInbox \in BOOLEAN, Cancel(cause, keepInbox)
        PROVE  Latch'
    BY <1>3, <2>3 DEF Cancel, AllCauses
  <2>4. CASE BeginMaintenance
    BY <2>4 DEF BeginMaintenance, Publishing
  <2>5. CASE Dispose
    BY <1>3, <2>5 DEF Dispose, AllCauses
  <2> QED BY <1>1, <1>4, <2>1, <2>2, <2>3, <2>4, <2>5 DEF Caller
<1>5. CASE (\E m \in Messages : AcceptContext(m)) \/ WhenIdleResolves \/ UNCHANGED vars
  BY <1>5 DEF AcceptContext, WhenIdleResolves, vars
<1> QED BY <1>2, <1>4, <1>5 DEF Next

\* A wake is latched only behind maintenance or an aborted turn, whatever the
\* order of sends, cancels, observers and driver steps.
THEOREM LatchOwed == Spec => []LatchOnlyWhenOwed
<1>1. Init => Latch
  BY DEF Init, Latch, LatchOnlyWhenOwed, Places, NoSend
<1>2. TypeOK /\ Latch /\ [Next]_vars => Latch'
  BY LatchStep
<1>3. Latch => LatchOnlyWhenOwed
  BY DEF Latch
<1> QED BY <1>1, <1>2, <1>3, TypeCorrect, PTL DEF Spec

(***************************************************************************)
(* The grammar.  LogPosition says where the trace stands at each place of  *)
(* the driver, so each append is the one the companion expects there.      *)
(***************************************************************************)
StandsAt(tr, openTurn, openStep, next) ==
  tr \in Traces({}) /\ tr.openTurn = openTurn /\ tr.openStep = openStep
    /\ tr.nextTurn = next

\* What each event does to a trace that stands where the driver appends it.
LEMMA StartTurnAt ==
  ASSUME NEW t \in Nat, NEW tr, StandsAt(tr, 0, 0, t)
  PROVE  /\ Accepts(tr, TurnStart(t))
         /\ StandsAt(Apply(tr, TurnStart(t)), t, 0, t)
         /\ Apply(tr, TurnStart(t)).nextStep = 1
  BY DEF StandsAt, Traces, Accepts, Apply, TurnStart, StepEvents

LEMMA EndTurnAt ==
  ASSUME NEW t \in Nat, NEW tr, StandsAt(tr, t, 0, t)
  PROVE  /\ Accepts(tr, TurnEnd(t))
         /\ StandsAt(Apply(tr, TurnEnd(t)), 0, 0, t + 1)
<1>1. Apply(tr, TurnEnd(t)) \in Traces({})
  BY ApplyTyped, EventsTyped DEF StandsAt, StepEvents
<1> QED BY <1>1 DEF StandsAt, Traces, Accepts, Apply, TurnEnd, StepEvents

LEMMA StartStepAt ==
  ASSUME NEW t \in Nat, NEW s \in Nat, NEW tr, StandsAt(tr, t, 0, t), tr.nextStep = s
  PROVE  /\ Accepts(tr, StepEvent("step/start", t, s))
         /\ StandsAt(Apply(tr, StepEvent("step/start", t, s)), t, s, t)
         /\ Apply(tr, StepEvent("step/start", t, s)).nextStep = s
  BY DEF StandsAt, Traces, Accepts, Apply, StepEvent, StepEvents, InOpenStep

LEMMA EndStepAt ==
  ASSUME NEW t \in Nat, NEW s \in Nat, NEW tr, StandsAt(tr, t, s, t), tr.nextStep = s
  PROVE  /\ Accepts(tr, StepEvent("step/end", t, s))
         /\ StandsAt(Apply(tr, StepEvent("step/end", t, s)), t, 0, t)
         /\ Apply(tr, StepEvent("step/end", t, s)).nextStep = s + 1
<1>1. Apply(tr, StepEvent("step/end", t, s)) \in Traces({})
  BY ApplyTyped, EventsTyped DEF StandsAt, StepEvents
<1> QED BY <1>1 DEF StandsAt, Traces, Accepts, Apply, StepEvent, StepEvents, InOpenStep

LEMMA InStepAt ==
  ASSUME NEW t \in Nat, NEW s \in Nat, NEW tr, StandsAt(tr, t, s, t),
         NEW type \in {"system/message", "assistant/message", "assistant/attempt"}
  PROVE  /\ Accepts(tr, StepEvent(type, t, s))
         /\ Apply(tr, StepEvent(type, t, s)) = tr
         /\ t # 0 => /\ Accepts(tr, PlainEvent("request/header"))
                     /\ Apply(tr, PlainEvent("request/header")) = tr
  BY DEF StandsAt, Traces, Accepts, Apply, StepEvent, PlainEvent, StepEvents, InOpenStep

\* Every way of leaving a step or the gap between two steps.
LEMMA LeaveAt ==
  ASSUME TypeOK, refused = {}, NEW reason
  PROVE  /\ StandsAt(trace, turn, 0, turn) =>
              (LeaveBetweenSteps(reason) \/ FinishTurn =>
                 refused' = {} /\ StandsAt(trace', 0, 0, turn + 1))
         /\ StandsAt(trace, turn, step, turn) /\ trace.nextStep = step =>
              /\ LeaveInStep(reason) \/ SettleAndLeave("assistant/message", reason)
                   \/ SettleAndLeave("assistant/attempt", reason) =>
                   refused' = {} /\ StandsAt(trace', 0, 0, turn + 1)
              /\ Commit(StepEvent("step/end", turn, step))
                   \/ Commit2(StepEvent("assistant/message", turn, step),
                              StepEvent("step/end", turn, step)) =>
                   /\ refused' = {} /\ StandsAt(trace', turn, 0, turn)
                   /\ trace'.nextStep = step + 1
<1>1. turn \in Nat /\ step \in Nat
  BY DEF TypeOK
<1>2. ASSUME StandsAt(trace, turn, 0, turn), LeaveBetweenSteps(reason) \/ FinishTurn
      PROVE  refused' = {} /\ StandsAt(trace', 0, 0, turn + 1)
  BY <1>1, <1>2, EndTurnAt DEF LeaveBetweenSteps, FinishTurn, Commit
<1>3. ASSUME StandsAt(trace, turn, step, turn), trace.nextStep = step
      PROVE  /\ LeaveInStep(reason) => refused' = {} /\ StandsAt(trace', 0, 0, turn + 1)
             /\ \A type \in {"assistant/message", "assistant/attempt"} :
                  SettleAndLeave(type, reason) =>
                    refused' = {} /\ StandsAt(trace', 0, 0, turn + 1)
             /\ Commit(StepEvent("step/end", turn, step))
                  \/ Commit2(StepEvent("assistant/message", turn, step),
                             StepEvent("step/end", turn, step)) =>
                  /\ refused' = {} /\ StandsAt(trace', turn, 0, turn)
                  /\ trace'.nextStep = step + 1
  <2> DEFINE ended == Apply(trace, StepEvent("step/end", turn, step))
  <2>1. /\ Accepts(trace, StepEvent("step/end", turn, step))
        /\ StandsAt(ended, turn, 0, turn) /\ ended.nextStep = step + 1
    BY <1>1, <1>3, EndStepAt
  <2>2. /\ Accepts(ended, TurnEnd(turn))
        /\ StandsAt(Apply(ended, TurnEnd(turn)), 0, 0, turn + 1)
    BY <1>1, <2>1, EndTurnAt
  <2>3. \A type \in {"assistant/message", "assistant/attempt"} :
          /\ Accepts(trace, StepEvent(type, turn, step))
          /\ Apply(trace, StepEvent(type, turn, step)) = trace
    BY <1>1, <1>3, InStepAt
  <2> HIDE DEF ended
  <2>4. LeaveInStep(reason) => refused' = {} /\ StandsAt(trace', 0, 0, turn + 1)
    BY <2>1, <2>2 DEF LeaveInStep, Commit2, ended
  <2>5. ASSUME NEW type \in {"assistant/message", "assistant/attempt"},
               SettleAndLeave(type, reason)
        PROVE  refused' = {} /\ StandsAt(trace', 0, 0, turn + 1)
    BY <2>1, <2>2, <2>3, <2>5 DEF SettleAndLeave, Commit3, ended
  <2>6. Commit(StepEvent("step/end", turn, step))
          \/ Commit2(StepEvent("assistant/message", turn, step),
                     StepEvent("step/end", turn, step)) =>
          refused' = {} /\ trace' = ended
    BY <2>1, <2>3 DEF Commit, Commit2, ended
  <2> QED BY <2>1, <2>4, <2>5, <2>6
<1> QED BY <1>2, <1>3

\* The three standings LogPosition distinguishes.
OutOfTurn    == refused = {} /\ StandsAt(trace, 0, 0, turn + 1)
BetweenSteps == /\ refused = {} /\ StandsAt(trace, turn, 0, turn)
                /\ trace.nextStep = step + 1 /\ turn # 0
WithinStep   == /\ refused = {} /\ StandsAt(trace, turn, step, turn)
                /\ trace.nextStep = step /\ turn # 0 /\ step # 0

LEMMA Standing ==
  ASSUME TypeOK
  PROVE  LogWellFormed /\ LogPosition <=>
           /\ pc \in InStep => WithinStep
           /\ pc \in InTurn => BetweenSteps
           /\ pc \notin InStep \cup InTurn => OutOfTurn
           /\ pc \in {"notified", "looping"} => step = 0
  BY DEF TypeOK, LogWellFormed, LogPosition, TraceAt, StandsAt, WithinStep, BetweenSteps,
         OutOfTurn, InStep, InTurn

LEMMA GrammarDriver ==
  ASSUME TypeOK, TypeOK', Places, LogWellFormed, LogPosition, Driver
  PROVE  LogWellFormed' /\ LogPosition'
<1> DEFINE Goal == /\ pc' \in InStep => WithinStep'
                   /\ pc' \in InTurn => BetweenSteps'
                   /\ pc' \notin InStep \cup InTurn => OutOfTurn'
                   /\ pc' \in {"notified", "looping"} => step' = 0
<1>1. SUFFICES Goal
  BY Standing DEF TypeOK, LogWellFormed, LogPosition, TraceAt, StandsAt, WithinStep,
     BetweenSteps, OutOfTurn, InStep, InTurn
<1>2. /\ pc \in InStep => WithinStep
      /\ pc \in InTurn => BetweenSteps
      /\ pc \notin InStep \cup InTurn => OutOfTurn
      /\ pc \in {"notified", "looping"} => step = 0
      /\ turn \in Nat /\ step \in Nat
  BY Standing DEF TypeOK
<1> USE DEF InStep, InTurn
<1>3. ASSUME pc' = "stopped", refused' = {}, StandsAt(trace', 0, 0, turn + 1),
             turn' = turn
      PROVE  Goal
  BY <1>3 DEF OutOfTurn
<1>4. ASSUME NEW reason, BetweenSteps, LeaveBetweenSteps(reason) PROVE Goal
  BY <1>3, <1>4, LeaveAt DEF BetweenSteps, LeaveBetweenSteps, Leave
<1>5. ASSUME BetweenSteps, FinishTurn PROVE Goal
  <2>1. refused' = {} /\ StandsAt(trace', 0, 0, turn + 1)
    BY <1>5, LeaveAt DEF BetweenSteps
  <2> QED BY <1>5, <2>1 DEF FinishTurn, OutOfTurn, position
<1>6. ASSUME NEW reason, WithinStep,
             LeaveInStep(reason) \/ SettleAndLeave("assistant/message", reason)
               \/ SettleAndLeave("assistant/attempt", reason)
      PROVE  Goal
  BY <1>3, <1>6, LeaveAt DEF WithinStep, LeaveInStep, SettleAndLeave, Leave
<1>7. ASSUME NEW ended, WithinStep, StepReturns(ended),
             Commit(StepEvent("step/end", turn, step))
               \/ Commit2(StepEvent("assistant/message", turn, step),
                          StepEvent("step/end", turn, step))
      PROVE  Goal
  <2>1. /\ refused' = {} /\ StandsAt(trace', turn, 0, turn)
        /\ trace'.nextStep = step + 1
    BY <1>7, LeaveAt DEF WithinStep
  <2>2. pc' \in {"stopping", "boundary"} /\ UNCHANGED <<turn, step>>
    BY <1>7 DEF StepReturns
  <2> QED BY <1>7, <2>1, <2>2 DEF BetweenSteps, WithinStep
<1>8. ASSUME BetweenSteps, UNCHANGED <<turn, step, trace, refused>>, pc' \in InTurn
      PROVE  Goal
  BY <1>8 DEF BetweenSteps, StandsAt
<1>9. ASSUME OutOfTurn, UNCHANGED <<turn, trace, refused>>,
             pc' \notin InStep \cup InTurn,
             pc' \in {"notified", "looping"} => step' = 0
      PROVE  Goal
  BY <1>9 DEF OutOfTurn, StandsAt
<1> HIDE DEF Goal
<1>10. CASE TurnBegins
  <2>1. OutOfTurn /\ step = 0
    BY <1>2, <1>10 DEF TurnBegins, Settles
  <2>2. CASE abort # "none"
    BY <1>9, <1>10, <2>1, <2>2 DEF TurnBegins, position, log
  <2>3. CASE abort = "none"
    <3>1. /\ trace' = Apply(trace, TurnStart(turn + 1)) /\ refused' = {}
          /\ StandsAt(trace', turn + 1, 0, turn + 1) /\ trace'.nextStep = 1
      BY <1>2, <1>10, <2>1, <2>3, StartTurnAt DEF TurnBegins, Commit, OutOfTurn
    <3>2. pc' = "boundary" /\ turn' = turn + 1 /\ step' = step
      BY <1>10, <2>3 DEF TurnBegins
    <3> QED BY <1>2, <2>1, <3>1, <3>2 DEF Goal, BetweenSteps
  <2> QED BY <2>2, <2>3
<1>11. CASE ProposeStep
  BY <1>2, <1>4, <1>8, <1>11 DEF ProposeStep, ProposeNext, log
<1>12. CASE Assembled
  BY <1>2, <1>4, <1>8, <1>12 DEF Assembled, Settles, position, log
<1>13. CASE Decided
  <2>1. BetweenSteps
    BY <1>2, <1>13 DEF Decided, Settles
  <2>2. ASSUME NEW entered, NEW context, Enter(entered, context) PROVE Goal
    <3>1. CASE Commit(StepEvent("step/start", turn, step + 1)) /\ step' = step + 1
                 /\ pc' = "preparing" /\ turn' = turn
      <4>1. /\ refused' = {} /\ StandsAt(trace', turn, step + 1, turn)
            /\ trace'.nextStep = step + 1
        BY <1>2, <2>1, <3>1, StartStepAt DEF BetweenSteps, Commit
      <4> QED BY <1>2, <2>1, <3>1, <4>1 DEF Goal, WithinStep, BetweenSteps
    <3> QED BY <1>4, <1>5, <2>1, <2>2, <3>1 DEF Enter
  <2> QED BY <1>4, <1>13, <2>1, <2>2 DEF Decided
<1>14. CASE Prepared
  <2>1. WithinStep
    BY <1>2, <1>14 DEF Prepared, Settles
  <2>2. CASE Admit
    <3>1. refused' = {} /\ trace' = trace
      BY <1>2, <2>1, <2>2, InStepAt DEF Admit, Commit2, WithinStep
    <3> QED BY <2>1, <2>2, <3>1 DEF Admit, Goal, WithinStep, StandsAt
  <2> QED BY <1>6, <1>14, <2>1, <2>2 DEF Prepared
<1>15. CASE StreamEnds
  <2>1. WithinStep
    BY <1>2, <1>15 DEF StreamEnds, Settles
  <2>2. ASSUME NEW type \in {"assistant/message", "assistant/attempt"},
               Commit(StepEvent(type, turn, step)), pc' \in {"recovering", "executing"},
               UNCHANGED position
        PROVE  Goal
    <3>1. refused' = {} /\ trace' = trace
      BY <1>2, <2>1, <2>2, InStepAt DEF Commit, WithinStep
    <3> QED BY <2>1, <2>2, <3>1 DEF position, Goal, WithinStep, StandsAt
  <2> QED BY <1>6, <1>7, <1>15, <2>1, <2>2 DEF StreamEnds
<1>16. CASE Recovered
  <2>1. WithinStep
    BY <1>2, <1>16 DEF Recovered, Settles
  <2>2. ASSUME pc' = "preparing", UNCHANGED <<position, log>> PROVE Goal
    BY <2>1, <2>2 DEF position, log, Goal, WithinStep, StandsAt
  <2> QED BY <1>6, <1>16, <2>1, <2>2 DEF Recovered
<1>17. CASE ToolsDone
  <2>1. WithinStep
    BY <1>2, <1>17 DEF ToolsDone, Settles
  <2> QED BY <1>6, <1>7, <1>17, <2>1 DEF ToolsDone
<1>18. CASE Stopping
  BY <1>2, <1>4, <1>5, <1>8, <1>18 DEF Stopping, Settles, ProposeNext, log
<1>19. CASE LookForWork \/ KickReturns
  BY <1>2, <1>9, <1>19 DEF LookForWork, KickReturns, TurnIdle, Settles, position, log
<1>20. CASE SendReturns \/ ReplayWake
  <2>1. ASSUME UNCHANGED <<pc, turn, step, trace, refused>> PROVE Goal
    BY <1>2, <2>1 DEF Goal, OutOfTurn, BetweenSteps, WithinStep, StandsAt
  <2>2. ASSUME NEW w, WakeDriver(w), UNCHANGED <<trace, refused>> PROVE Goal
    <3>1. CASE phase = "idle"
      <4>1. OutOfTurn /\ StartDriver
        BY <1>2, <2>2, <3>1 DEF Places, WakeDriver
      <4> QED BY <1>9, <2>2, <4>1 DEF StartDriver
    <3>2. CASE phase # "idle"
      BY <2>1, <2>2, <3>2 DEF WakeDriver, position
    <3> QED BY <3>1, <3>2
  <2> QED BY <1>20, <2>1, <2>2 DEF SendReturns, ReplayWake, position, log
<1>21. CASE EndMaintenance
  BY <1>2, <1>9, <1>21 DEF EndMaintenance, StartDriver, Settles, position, log
<1> QED BY <1>10, <1>11, <1>12, <1>13, <1>14, <1>15, <1>16, <1>17, <1>18, <1>19,
           <1>20, <1>21 DEF Driver

LEMMA GrammarStep ==
  ASSUME TypeOK, TypeOK', Places, LogWellFormed, LogPosition, [Next]_vars
  PROVE  LogWellFormed' /\ LogPosition'
<1>1. ASSUME UNCHANGED <<turn, step, trace, refused>>,
             \/ pc' = pc
             \/ /\ pc \notin InStep \cup InTurn
                /\ pc' \notin InStep \cup InTurn \cup {"notified", "looping"}
      PROVE  LogWellFormed' /\ LogPosition'
  BY <1>1 DEF LogWellFormed, LogPosition, TraceAt
<1> USE DEF activity, position, log
<1>2. CASE Driver
  BY <1>2, GrammarDriver
<1>3. CASE \E m \in Messages : Followup(m) \/ Steer(m) \/ Inject(m) \/ Remove(m)
  BY <1>1, <1>3 DEF Followup, Steer, Inject, Send, Remove
<1>4. CASE \/ \E m \in Messages, to \in Targets : Prepend(m, to)
           \/ \E m, n \in Messages : Replace(m, n)
  BY <1>1, <1>4 DEF Prepend, Replace
<1>5. CASE \/ \E cause \in Causes, keepInbox \in BOOLEAN : Cancel(cause, keepInbox)
           \/ Dispose
  BY <1>1, <1>5 DEF Cancel, Dispose, CancelEffect
<1>6. CASE BeginMaintenance
  BY <1>1, <1>6 DEF BeginMaintenance, Places, InStep, InTurn
<1>7. CASE \/ \E m \in Messages : AcceptContext(m)
           \/ WhenIdleResolves \/ UNCHANGED vars
  BY <1>1, <1>7 DEF AcceptContext, WhenIdleResolves, vars
<1> QED BY <1>2, <1>3, <1>4, <1>5, <1>6, <1>7 DEF Next, Caller

\* The inductive invariant of the driver: what the run checks as Inductive.
THEOREM InductiveHolds == Spec => []Inductive
<1>1. Init => Inductive
  <2>1. Init => LogWellFormed /\ LogPosition
    BY DEF Init, LogWellFormed, LogPosition, TraceAt, FreshTrace, InStep, InTurn
  <2>2. Init => LatchOnlyWhenOwed /\ Places
    BY DEF Init, LatchOnlyWhenOwed, Places, NoSend
  <2> QED BY <2>1, <2>2, InitTyped DEF Inductive
<1>2. Inductive /\ [Next]_vars => Inductive'
  BY NextTyped, LatchStep, GrammarStep DEF Inductive, Latch
<1> QED BY <1>1, <1>2, PTL DEF Spec

\* No event of the driver is ever refused by the session's grammar: turns and
\* steps nest, close once and number consecutively on every path of turn() and
\* step(), for any messages, hook outcomes, cancellations and bounds.
THEOREM LogAlwaysWellFormed == Spec => []LogWellFormed
  BY InductiveHolds, PTL DEF Inductive

-----------------------------------------------------------------------------
(***************************************************************************)
(* The input: what is sent is pending once, or claimed by one turn, or     *)
(* discarded, and is logged at most once.                                  *)
(***************************************************************************)
Distinct(list) == \A i, j \in DOMAIN list : list[i] = list[j] => i = j

\* The two lists of the inbox hold different messages, each in its own list.
Lists ==
  /\ Distinct(nextTurn) /\ Distinct(nextStep)
  /\ \A m \in Members(nextTurn) : queuedAs[m] = "next-turn"
  /\ \A m \in Members(nextStep) : queuedAs[m] = "next-step"

\* A message is pending exactly while it is neither claimed nor discarded.
Located ==
  \A m \in Messages :
    /\ m \in Pending <=> queuedAs[m] # "unsent" /\ claimedIn[m] = 0 /\ m \notin discarded
    /\ claimedIn[m] # 0 => queuedAs[m] # "unsent" /\ m \notin discarded
    /\ m \in discarded => queuedAs[m] # "unsent"

\* Where the driver stands when it claims, and what it has claimed so far.
Numbered ==
  /\ \A m \in Messages : claimedIn[m] <= turn
  /\ pc = "boundary" /\ target = "next-turn" => \A m \in Messages : claimedIn[m] # turn
  /\ pc = "stopping" => target = "next-step"

\* The batch of a step is this turn's and not admitted, until its first attempt.
BatchFits ==
  /\ pc \in {"assembling", "deciding", "preparing"} =>
       \A m \in Members(batch) : claimedIn[m] = turn /\ admittedIn[m] = <<>>
  /\ pc \in {"streaming", "recovering", "executing"} => batch = <<>>

InputInductive == Lists /\ Located /\ Numbered /\ BatchFits /\ OwnTurn /\ AdmittedOnce

-----------------------------------------------------------------------------
(***************************************************************************)
(* Lists without repetitions.                                              *)
(***************************************************************************)
LEMMA AppendList ==
  ASSUME NEW list \in Seq(Messages), NEW m \in Messages
  PROVE  /\ Members(Append(list, m)) = Members(list) \cup {m}
         /\ Distinct(list) /\ m \notin Members(list) => Distinct(Append(list, m))
<1> DEFINE new == Append(list, m)
<1>1. /\ DOMAIN list = 1 .. Len(list) /\ Len(list) \in Nat
      /\ DOMAIN new = 1 .. Len(list) + 1
      /\ new[Len(list) + 1] = m /\ \A i \in 1 .. Len(list) : new[i] = list[i]
  OBVIOUS
<1> HIDE DEF new
<1>2. Members(new) = Members(list) \cup {m}
  <2>1. Members(new) \subseteq Members(list) \cup {m}
    BY <1>1 DEF Members
  <2>2. m \in Members(new)
    BY <1>1 DEF Members
  <2>3. Members(list) \subseteq Members(new)
    BY <1>1 DEF Members
  <2> QED BY <2>1, <2>2, <2>3
<1>3. Distinct(list) /\ m \notin Members(list) => Distinct(new)
  BY <1>1 DEF Distinct, Members
<1> QED BY <1>2, <1>3 DEF new

LEMMA ConcatMembers ==
  ASSUME NEW s \in Seq(Messages), NEW t \in Seq(Messages)
  PROVE  Members(s \o t) = Members(s) \cup Members(t)
<1> DEFINE new == s \o t
<1>1. /\ DOMAIN s = 1 .. Len(s) /\ Len(s) \in Nat /\ DOMAIN t = 1 .. Len(t) /\ Len(t) \in Nat
      /\ DOMAIN new = 1 .. Len(s) + Len(t)
      /\ \A i \in 1 .. Len(s) + Len(t) : new[i] = IF i <= Len(s) THEN s[i] ELSE t[i - Len(s)]
  OBVIOUS
<1> HIDE DEF new
<1>2. Members(new) \subseteq Members(s) \cup Members(t)
  <2> SUFFICES ASSUME NEW i \in 1 .. Len(s) + Len(t)
               PROVE  new[i] \in Members(s) \cup Members(t)
    BY <1>1 DEF Members
  <2>1. CASE i <= Len(s)
    BY <1>1, <2>1 DEF Members
  <2>2. CASE i > Len(s)
    <3>1. i - Len(s) \in 1 .. Len(t)
      BY <1>1, <2>2
    <3> QED BY <1>1, <2>2, <3>1 DEF Members
  <2> QED BY <1>1, <2>1, <2>2
<1>3. Members(s) \subseteq Members(new)
  <2>1. \A i \in 1 .. Len(s) : i \in 1 .. Len(s) + Len(t) /\ new[i] = s[i]
    BY <1>1
  <2> QED BY <1>1, <2>1 DEF Members
<1>4. Members(t) \subseteq Members(new)
  <2>1. ASSUME NEW i \in 1 .. Len(t)
        PROVE  Len(s) + i \in 1 .. Len(s) + Len(t) /\ new[Len(s) + i] = t[i]
    <3>1. Len(s) + i \in 1 .. Len(s) + Len(t) /\ ~(Len(s) + i <= Len(s))
          /\ (Len(s) + i) - Len(s) = i
      BY <1>1
    <3> QED BY <1>1, <3>1
  <2> QED BY <1>1, <2>1 DEF Members
<1> QED BY <1>2, <1>3, <1>4 DEF new

LEMMA PrependList ==
  ASSUME NEW list \in Seq(Messages), NEW m \in Messages
  PROVE  /\ Members(<<m>> \o list) = Members(list) \cup {m}
         /\ Distinct(list) /\ m \notin Members(list) => Distinct(<<m>> \o list)
<1> DEFINE new == <<m>> \o list
<1>1. /\ DOMAIN list = 1 .. Len(list) /\ Len(list) \in Nat
      /\ DOMAIN new = 1 .. Len(list) + 1
      /\ new[1] = m /\ \A i \in 2 .. Len(list) + 1 : new[i] = list[i - 1]
  OBVIOUS
<1> HIDE DEF new
<1>2. Members(new) = Members(list) \cup {m}
  <2>1. Members(new) \subseteq Members(list) \cup {m}
    BY <1>1 DEF Members
  <2>2. m \in Members(new)
    BY <1>1 DEF Members
  <2>3. ASSUME NEW i \in 1 .. Len(list) PROVE list[i] \in Members(new)
    <3>1. i + 1 \in 2 .. Len(list) + 1 /\ i + 1 \in DOMAIN new /\ (i + 1) - 1 = i
      BY <1>1
    <3>2. new[i + 1] = list[i]
      BY <1>1, <3>1
    <3> QED BY <3>1, <3>2 DEF Members
  <2>4. Members(list) \subseteq Members(new)
    BY <1>1, <2>3 DEF Members
  <2> QED BY <2>1, <2>2, <2>4
<1>3. ASSUME Distinct(list), m \notin Members(list) PROVE Distinct(new)
  <2>1. \A i \in 2 .. Len(list) + 1 : i - 1 \in 1 .. Len(list) /\ new[i] # m
    BY <1>1, <1>3 DEF Members
  <2>2. ASSUME NEW i \in 2 .. Len(list) + 1, NEW j \in 2 .. Len(list) + 1, new[i] = new[j]
        PROVE  i = j
    <3>1. i - 1 \in DOMAIN list /\ j - 1 \in DOMAIN list /\ list[i - 1] = list[j - 1]
      BY <1>1, <2>1, <2>2
    <3>2. i - 1 = j - 1
      BY <1>3, <3>1 DEF Distinct
    <3> QED BY <1>1, <3>2
  <2>3. \A i \in DOMAIN new : i = 1 \/ i \in 2 .. Len(list) + 1
    BY <1>1
  <2> QED BY <1>1, <2>1, <2>2, <2>3 DEF Distinct
<1> QED BY <1>2, <1>3 DEF new

\* Cutting one element out of a list.
LEMMA CutList ==
  ASSUME NEW list \in Seq(Messages), NEW i \in DOMAIN list, Distinct(list)
  PROVE  /\ Members(Cut(list, i)) = Members(list) \ {list[i]}
         /\ Distinct(Cut(list, i))
<1> DEFINE new == Cut(list, i)
           n == Len(list)
<1>1. n \in Nat /\ i \in 1 .. n /\ DOMAIN list = 1 .. n
  OBVIOUS
<1>2. /\ DOMAIN new = 1 .. n - 1
      /\ \A j \in 1 .. n - 1 : new[j] = IF j < i THEN list[j] ELSE list[j + 1]
  <2> DEFINE s == SubSeq(list, 1, i - 1)
             t == SubSeq(list, i + 1, n)
  <2>1. /\ s \in Seq(Messages) /\ Len(s) = i - 1
        /\ \A j \in 1 .. i - 1 : s[j] = list[j]
    BY <1>1
  <2>2. /\ t \in Seq(Messages) /\ Len(t) = n - i
        /\ \A j \in 1 .. n - i : t[j] = list[i + j]
    <3>1. CASE i = n
      BY <1>1, <3>1
    <3>2. CASE i < n
      BY <1>1, <3>2
    <3> QED BY <1>1, <3>1, <3>2
  <2>3. new = s \o t
    BY DEF Cut
  <2> HIDE DEF s, t, n, new
  <2>4. Len(new) = (i - 1) + (n - i) /\ new \in Seq(Messages)
    BY <2>1, <2>2, <2>3
  <2>5. DOMAIN new = 1 .. n - 1
    BY <1>1, <2>4
  <2>6. ASSUME NEW j \in 1 .. n - 1 PROVE new[j] = IF j < i THEN list[j] ELSE list[j + 1]
    <3>1. CASE j < i
      <4>1. j \in 1 .. i - 1
        BY <1>1, <3>1
      <4>2. new[j] = s[j]
        BY <1>1, <2>1, <2>2, <2>3, <4>1
      <4> QED BY <2>1, <3>1, <4>1, <4>2
    <3>2. CASE ~(j < i)
      <4>1. j - (i - 1) \in 1 .. n - i /\ i + (j - (i - 1)) = j + 1 /\ ~(j <= i - 1)
        BY <1>1, <3>2
      <4>2. new[j] = t[j - (i - 1)]
        BY <1>1, <2>1, <2>2, <2>3, <4>1
      <4> QED BY <2>2, <3>2, <4>1, <4>2
    <3> QED BY <3>1, <3>2
  <2> QED BY <2>5, <2>6
<1> HIDE DEF new, n
<1>3. \A j \in 1 .. n - 1 :
        \E k \in 1 .. n : k # i /\ new[j] = list[k] /\ k = IF j < i THEN j ELSE j + 1
  BY <1>1, <1>2
<1>4. \A k \in 1 .. n : k # i => \E j \in 1 .. n - 1 : new[j] = list[k]
  <2> SUFFICES ASSUME NEW k \in 1 .. n, k # i PROVE \E j \in 1 .. n - 1 : new[j] = list[k]
    OBVIOUS
  <2>1. CASE k < i
    <3>1. k \in 1 .. n - 1
      BY <1>1, <2>1
    <3> QED BY <1>2, <2>1, <3>1
  <2>2. CASE k > i
    <3>1. k - 1 \in 1 .. n - 1 /\ ~(k - 1 < i) /\ (k - 1) + 1 = k
      BY <1>1, <2>2
    <3> QED BY <1>2, <3>1
  <2> QED BY <1>1, <2>1, <2>2
<1>5. Members(new) = Members(list) \ {list[i]}
  <2>1. ASSUME NEW j \in 1 .. n - 1 PROVE new[j] \in Members(list) \ {list[i]}
    <3>1. PICK k \in 1 .. n : k # i /\ new[j] = list[k]
      BY <1>3
    <3>2. list[k] # list[i]
      BY <1>1, <3>1 DEF Distinct
    <3> QED BY <1>1, <3>1, <3>2 DEF Members
  <2>2. ASSUME NEW k \in 1 .. n, list[k] # list[i] PROVE list[k] \in Members(new)
    <3>1. PICK j \in 1 .. n - 1 : new[j] = list[k]
      BY <1>4, <2>2
    <3> QED BY <1>2, <3>1 DEF Members
  <2>3. Members(new) \subseteq Members(list) \ {list[i]}
    BY <1>2, <2>1 DEF Members
  <2>4. Members(list) \ {list[i]} \subseteq Members(new)
    BY <1>1, <2>2 DEF Members
  <2> QED BY <2>3, <2>4
<1>6. Distinct(new)
  <2> SUFFICES ASSUME NEW j \in 1 .. n - 1, NEW k \in 1 .. n - 1, new[j] = new[k]
               PROVE  j = k
    BY <1>2 DEF Distinct
  <2>1. PICK p \in 1 .. n : new[j] = list[p] /\ p = IF j < i THEN j ELSE j + 1
    BY <1>3
  <2>2. PICK q \in 1 .. n : new[k] = list[q] /\ q = IF k < i THEN k ELSE k + 1
    BY <1>3
  <2>3. p = q
    BY <1>1, <2>1, <2>2 DEF Distinct
  <2> QED BY <1>1, <2>1, <2>2, <2>3
<1> QED BY <1>5, <1>6 DEF new

\* Putting a new message in the place of another.
LEMMA ReplaceList ==
  ASSUME NEW list \in Seq(Messages), NEW i \in DOMAIN list, NEW m \in Messages,
         Distinct(list), m \notin Members(list)
  PROVE  /\ Members([list EXCEPT ![i] = m]) = (Members(list) \ {list[i]}) \cup {m}
         /\ Distinct([list EXCEPT ![i] = m])
<1> DEFINE new == [list EXCEPT ![i] = m]
<1>1. DOMAIN new = DOMAIN list /\ new[i] = m /\ \A j \in DOMAIN list \ {i} : new[j] = list[j]
  OBVIOUS
<1> HIDE DEF new
<1>2. Members(new) = (Members(list) \ {list[i]}) \cup {m}
  <2>1. Members(new) \subseteq (Members(list) \ {list[i]}) \cup {m}
    BY <1>1 DEF Members, Distinct
  <2>2. (Members(list) \ {list[i]}) \cup {m} \subseteq Members(new)
    BY <1>1 DEF Members
  <2> QED BY <2>1, <2>2
<1>3. Distinct(new)
  BY <1>1 DEF Distinct, Members
<1> QED BY <1>2, <1>3 DEF new

\* Taking the first element.
LEMMA TailList ==
  ASSUME NEW list \in Seq(Messages), list # <<>>, Distinct(list)
  PROVE  /\ Head(list) \in Members(list)
         /\ Members(Tail(list)) = Members(list) \ {Head(list)}
         /\ Distinct(Tail(list))
<1> DEFINE new == Tail(list)
           n == Len(list)
<1>1. /\ n \in Nat \ {0} /\ DOMAIN list = 1 .. n /\ Head(list) = list[1] /\ 1 \in 1 .. n
      /\ DOMAIN new = 1 .. n - 1 /\ \A j \in 1 .. n - 1 : new[j] = list[j + 1]
  OBVIOUS
<1> HIDE DEF new, n
<1>2. Head(list) \in Members(list)
  BY <1>1 DEF Members
<1>3. \A j \in 1 .. n - 1 : j + 1 \in 1 .. n /\ j + 1 # 1
  BY <1>1
<1>4. Members(new) = Members(list) \ {Head(list)}
  <2>1. Members(new) \subseteq Members(list) \ {Head(list)}
    BY <1>1, <1>3 DEF Members, Distinct
  <2>2. ASSUME NEW k \in 1 .. n, k # 1 PROVE list[k] \in Members(new)
    <3>1. k - 1 \in 1 .. n - 1 /\ (k - 1) + 1 = k
      BY <1>1, <2>2
    <3> QED BY <1>1, <3>1 DEF Members
  <2>3. Members(list) \ {Head(list)} \subseteq Members(new)
    BY <1>1, <2>2 DEF Members
  <2> QED BY <2>1, <2>3
<1>5. Distinct(new)
  <2> SUFFICES ASSUME NEW j \in 1 .. n - 1, NEW k \in 1 .. n - 1, new[j] = new[k]
               PROVE  j = k
    BY <1>1 DEF Distinct
  <2>1. j + 1 = k + 1
    BY <1>1, <1>3 DEF Distinct
  <2> QED BY <2>1
<1> QED BY <1>2, <1>4, <1>5 DEF new

-----------------------------------------------------------------------------
(***************************************************************************)
(* The kinds of steps.                                                     *)
(***************************************************************************)
\* A step that leaves the inbox and the ledger alone: where the driver stands
\* next, and with which target and batch.
LEMMA QuietStep ==
  ASSUME InputInductive, UNCHANGED <<inbox, ledger>>, turn' = turn,
         pc' = "boundary" => target' = "next-step" \/ (pc = "boundary" /\ target' = target),
         pc' = "stopping" => target' = "next-step",
         pc' \in {"assembling", "deciding", "preparing"} =>
           \/ batch' = <<>>
           \/ pc \in {"assembling", "deciding", "preparing"} /\ batch' = batch,
         pc' \in {"streaming", "recovering", "executing"} => batch' = <<>>
  PROVE  InputInductive'
<1> USE DEF InputInductive, inbox, ledger
<1>1. Lists' /\ Located'
  BY DEF Lists, Located, Pending, Members, Distinct
<1>2. OwnTurn' /\ AdmittedOnce'
  BY DEF OwnTurn, AdmittedOnce
<1>3. Numbered'
  BY DEF Numbered, Targets
<1>4. BatchFits'
  <2>1. Members(<<>>) = {}
    BY DEF Members
  <2> QED BY <2>1 DEF BatchFits, Members
<1> QED BY <1>1, <1>2, <1>3, <1>4

\* A command on the inbox, which moves neither the driver nor the ledger.
LEMMA EditStep ==
  ASSUME InputInductive, UNCHANGED <<pc, turn, target, batch, ledger>>,
         Lists', Located',
         \A m \in Messages : claimedIn[m] # 0 => queuedAs'[m] = queuedAs[m]
  PROVE  InputInductive'
<1> USE DEF InputInductive, ledger
<1>1. OwnTurn'
  BY DEF OwnTurn
<1>2. AdmittedOnce'
  BY DEF AdmittedOnce, Located
<1>3. Numbered' /\ BatchFits'
  BY DEF Numbered, BatchFits, Members
<1> QED BY <1>1, <1>2, <1>3

\* A fresh message enters one list, at either end.
LEMMA InsertStep ==
  ASSUME TypeOK, InputInductive, NEW m \in Messages, NEW to \in Targets, Fresh(m),
         InsertLast(to, m) \/ InsertFirst(to, m),
         UNCHANGED <<pc, turn, target, batch, ledger, discarded>>
  PROVE  InputInductive'
<1>1. /\ nextTurn \in Seq(Messages) /\ nextStep \in Seq(Messages)
      /\ queuedAs \in [Messages -> Targets \cup {"unsent"}]
  BY DEF TypeOK
<1>2. Lists /\ Located
  BY DEF InputInductive
<1>3. m \notin Pending /\ m \notin discarded /\ claimedIn[m] = 0
  BY <1>2 DEF Fresh, Located
<1>4. queuedAs' = [queuedAs EXCEPT ![m] = to]
  BY DEF InsertLast, InsertFirst
<1>5. /\ queuedAs'[m] = to
      /\ \A n \in Messages : n # m => queuedAs'[n] = queuedAs[n]
  BY <1>1, <1>4
<1>6. to \in {"next-turn", "next-step"}
  BY DEF Targets
<1>7. /\ Distinct(nextTurn') /\ Distinct(nextStep')
      /\ to = "next-turn" => /\ Members(nextTurn') = Members(nextTurn) \cup {m}
                             /\ nextStep' = nextStep
      /\ to = "next-step" => /\ Members(nextStep') = Members(nextStep) \cup {m}
                             /\ nextTurn' = nextTurn
  <2>1. m \notin Members(nextTurn) /\ m \notin Members(nextStep)
    BY <1>3 DEF Pending
  <2>2. CASE InsertLast(to, m)
    BY <1>1, <1>2, <1>6, <2>1, <2>2, AppendList DEF InsertLast, Lists
  <2>3. CASE InsertFirst(to, m)
    BY <1>1, <1>2, <1>6, <2>1, <2>3, PrependList DEF InsertFirst, Lists
  <2> QED BY <2>2, <2>3
<1>8. Members(nextTurn) \subseteq Messages /\ Members(nextStep) \subseteq Messages
  BY <1>1 DEF Members
<1>9. Pending' = Pending \cup {m}
  BY <1>6, <1>7 DEF Pending, Members
<1>10. Lists'
  <2>1. \A n \in Members(nextTurn') : queuedAs'[n] = "next-turn"
    BY <1>2, <1>3, <1>5, <1>6, <1>7, <1>8 DEF Lists, Pending
  <2>2. \A n \in Members(nextStep') : queuedAs'[n] = "next-step"
    BY <1>2, <1>3, <1>5, <1>6, <1>7, <1>8 DEF Lists, Pending
  <2>3. (\A n \in Members(nextTurn) : queuedAs[n] = "next-turn")' /\
        (\A n \in Members(nextStep) : queuedAs[n] = "next-step")'
    BY <2>1, <2>2 DEF Members
  <2> QED BY <1>7, <2>3 DEF Lists, Distinct
<1>11. Located'
  BY <1>2, <1>3, <1>5, <1>6, <1>9 DEF Located, ledger
<1>12. \A n \in Messages : claimedIn[n] # 0 => queuedAs'[n] = queuedAs[n]
  BY <1>3, <1>5
<1> QED BY <1>10, <1>11, <1>12, EditStep DEF InputInductive

\* A pending message is removed.
LEMMA RemoveStep ==
  ASSUME TypeOK, InputInductive, NEW m \in Messages, Remove(m)
  PROVE  InputInductive'
<1>1. nextTurn \in Seq(Messages) /\ nextStep \in Seq(Messages)
  BY DEF TypeOK
<1>2. Lists /\ Located
  BY DEF InputInductive
<1>3. /\ UNCHANGED <<pc, turn, target, batch, ledger, queuedAs>>
      /\ discarded' = discarded \cup {m}
  BY DEF Remove, activity, position
<1>4. /\ Distinct(nextTurn') /\ Distinct(nextStep') /\ m \in Pending
      /\ \/ Members(nextTurn') = Members(nextTurn) \ {m} /\ nextStep' = nextStep
            /\ m \notin Members(nextStep)
         \/ Members(nextStep') = Members(nextStep) \ {m} /\ nextTurn' = nextTurn
            /\ m \notin Members(nextTurn)
  <2>1. CASE \E i \in DOMAIN nextTurn : /\ nextTurn[i] = m
                                       /\ nextTurn' = Cut(nextTurn, i)
                                       /\ UNCHANGED nextStep
    <3>1. m \in Members(nextTurn)
      BY <2>1 DEF Members
    <3>2. m \notin Members(nextStep)
      BY <1>2, <3>1 DEF Lists
    <3>3. Distinct(nextTurn') /\ Members(nextTurn') = Members(nextTurn) \ {m}
      BY <1>1, <1>2, <2>1, CutList DEF Lists
    <3> QED BY <1>2, <2>1, <3>1, <3>2, <3>3 DEF Lists, Pending
  <2>2. CASE \E i \in DOMAIN nextStep : /\ nextStep[i] = m
                                       /\ nextStep' = Cut(nextStep, i)
                                       /\ UNCHANGED nextTurn
    <3>1. m \in Members(nextStep)
      BY <2>2 DEF Members
    <3>2. m \notin Members(nextTurn)
      BY <1>2, <3>1 DEF Lists
    <3>3. Distinct(nextStep') /\ Members(nextStep') = Members(nextStep) \ {m}
      BY <1>1, <1>2, <2>2, CutList DEF Lists
    <3> QED BY <1>2, <2>2, <3>1, <3>2, <3>3 DEF Lists, Pending
  <2> QED BY <2>1, <2>2 DEF Remove
<1>5. Pending' = Pending \ {m}
  BY <1>4 DEF Pending, Members
<1>6. Lists'
  <2>1. /\ Members(nextTurn') \subseteq Members(nextTurn)
        /\ Members(nextStep') \subseteq Members(nextStep)
    BY <1>4
  <2>2. (\A n \in Members(nextTurn) : queuedAs[n] = "next-turn")' /\
        (\A n \in Members(nextStep) : queuedAs[n] = "next-step")'
    BY <1>2, <1>3, <2>1 DEF Lists, Members
  <2> QED BY <1>4, <2>2 DEF Lists, Distinct
<1>7. Located'
  BY <1>2, <1>3, <1>4, <1>5 DEF Located, ledger
<1> QED BY <1>3, <1>6, <1>7, EditStep

\* A pending message gives its place to a fresh one.
LEMMA ReplaceStep ==
  ASSUME TypeOK, InputInductive, NEW m \in Messages, NEW n \in Messages, Replace(m, n)
  PROVE  InputInductive'
<1>1. /\ nextTurn \in Seq(Messages) /\ nextStep \in Seq(Messages)
      /\ queuedAs \in [Messages -> Targets \cup {"unsent"}]
  BY DEF TypeOK
<1>2. Lists /\ Located
  BY DEF InputInductive
<1>3. /\ UNCHANGED <<pc, turn, target, batch, ledger>>
      /\ discarded' = discarded \cup {m}
      /\ queuedAs' = [queuedAs EXCEPT ![n] = queuedAs[m]]
      /\ Fresh(n)
  BY DEF Replace, activity, position
<1>4. n \notin Pending /\ n \notin discarded /\ claimedIn[n] = 0
  BY <1>2, <1>3 DEF Fresh, Located
<1>5. /\ queuedAs'[n] = queuedAs[m]
      /\ \A k \in Messages : k # n => queuedAs'[k] = queuedAs[k]
  BY <1>1, <1>3
<1>6. /\ Distinct(nextTurn') /\ Distinct(nextStep') /\ m \in Pending
      /\ \/ /\ Members(nextTurn') = (Members(nextTurn) \ {m}) \cup {n}
            /\ nextStep' = nextStep
            /\ m \notin Members(nextStep) /\ queuedAs[m] = "next-turn"
         \/ /\ Members(nextStep') = (Members(nextStep) \ {m}) \cup {n}
            /\ nextTurn' = nextTurn
            /\ m \notin Members(nextTurn) /\ queuedAs[m] = "next-step"
  <2>1. CASE \E i \in DOMAIN nextTurn : /\ nextTurn[i] = m
                                       /\ nextTurn' = [nextTurn EXCEPT ![i] = n]
                                       /\ UNCHANGED nextStep
    <3>1. m \in Members(nextTurn)
      BY <2>1 DEF Members
    <3>2. m \notin Members(nextStep) /\ queuedAs[m] = "next-turn"
      BY <1>2, <3>1 DEF Lists
    <3>3. PICK i \in DOMAIN nextTurn : nextTurn[i] = m /\ nextTurn' = [nextTurn EXCEPT ![i] = n]
      BY <2>1
    <3>4. Distinct(nextTurn) /\ n \notin Members(nextTurn)
      BY <1>2, <1>4 DEF Lists, Pending
    <3>5. Distinct(nextTurn') /\ Members(nextTurn') = (Members(nextTurn) \ {m}) \cup {n}
      <4>1. /\ Members([nextTurn EXCEPT ![i] = n]) = (Members(nextTurn) \ {nextTurn[i]}) \cup {n}
            /\ Distinct([nextTurn EXCEPT ![i] = n])
        BY <1>1, <3>3, <3>4, ReplaceList
      <4> QED BY <3>3, <4>1
    <3> QED BY <1>2, <2>1, <3>1, <3>2, <3>5 DEF Lists, Pending
  <2>2. CASE \E i \in DOMAIN nextStep : /\ nextStep[i] = m
                                       /\ nextStep' = [nextStep EXCEPT ![i] = n]
                                       /\ UNCHANGED nextTurn
    <3>1. m \in Members(nextStep)
      BY <2>2 DEF Members
    <3>2. m \notin Members(nextTurn) /\ queuedAs[m] = "next-step"
      BY <1>2, <3>1 DEF Lists
    <3>3. PICK i \in DOMAIN nextStep : nextStep[i] = m /\ nextStep' = [nextStep EXCEPT ![i] = n]
      BY <2>2
    <3>4. Distinct(nextStep) /\ n \notin Members(nextStep)
      BY <1>2, <1>4 DEF Lists, Pending
    <3>5. Distinct(nextStep') /\ Members(nextStep') = (Members(nextStep) \ {m}) \cup {n}
      <4>1. /\ Members([nextStep EXCEPT ![i] = n]) = (Members(nextStep) \ {nextStep[i]}) \cup {n}
            /\ Distinct([nextStep EXCEPT ![i] = n])
        BY <1>1, <3>3, <3>4, ReplaceList
      <4> QED BY <3>3, <4>1
    <3> QED BY <1>2, <2>2, <3>1, <3>2, <3>5 DEF Lists, Pending
  <2> QED BY <2>1, <2>2 DEF Replace
<1>7. Pending' = (Pending \ {m}) \cup {n}
  BY <1>6 DEF Pending, Members
<1>8. Members(nextTurn) \subseteq Messages /\ Members(nextStep) \subseteq Messages
  BY <1>1 DEF Members
<1>9. Lists'
  <2>1. \A k \in Members(nextTurn') : queuedAs'[k] = "next-turn"
    BY <1>2, <1>4, <1>5, <1>6, <1>8 DEF Lists, Pending
  <2>2. \A k \in Members(nextStep') : queuedAs'[k] = "next-step"
    BY <1>2, <1>4, <1>5, <1>6, <1>8 DEF Lists, Pending
  <2>3. (\A k \in Members(nextTurn) : queuedAs[k] = "next-turn")' /\
        (\A k \in Members(nextStep) : queuedAs[k] = "next-step")'
    BY <2>1, <2>2 DEF Members
  <2> QED BY <1>6, <2>3 DEF Lists, Distinct
<1>10. queuedAs[m] # "unsent" /\ claimedIn[m] = 0
  BY <1>2, <1>6 DEF Located
<1>11. Located'
  BY <1>2, <1>3, <1>4, <1>5, <1>6, <1>7, <1>10 DEF Located, ledger
<1>12. \A k \in Messages : claimedIn[k] # 0 => queuedAs'[k] = queuedAs[k]
  BY <1>4, <1>5
<1> QED BY <1>3, <1>9, <1>11, <1>12, EditStep

\* A cancellation discards everything pending, or nothing.
LEMMA CancelStep ==
  ASSUME TypeOK, InputInductive, NEW cause, NEW keepInbox, CancelEffect(cause, keepInbox)
  PROVE  InputInductive'
<1>1. UNCHANGED <<pc, turn, target, batch, ledger, queuedAs>>
  BY DEF CancelEffect, position
<1>2. Lists /\ Located
  BY DEF InputInductive
<1>3. CASE UNCHANGED <<nextTurn, nextStep, discarded>>
  <2>1. Lists' /\ Located'
    BY <1>1, <1>2, <1>3 DEF Lists, Located, Pending, Members, Distinct, ledger
  <2> QED BY <1>1, <2>1, EditStep
<1>4. CASE Clear
  <2>1. nextTurn' = <<>> /\ nextStep' = <<>> /\ discarded' = discarded \cup Pending
    BY <1>4 DEF Clear
  <2>2. Members(nextTurn)' = {} /\ Members(nextStep)' = {}
    BY <2>1 DEF Members
  <2>3. Lists'
    BY <2>1, <2>2 DEF Lists, Distinct
  <2>4. Pending' = {}
    BY <2>2 DEF Pending
  <2>5. Located'
    BY <1>1, <1>2, <2>1, <2>4 DEF Located, ledger
  <2> QED BY <1>1, <2>3, <2>5, EditStep
<1> QED BY <1>3, <1>4 DEF CancelEffect

\* The claim: all next-step input, and one prompt when the boundary opens a turn.
LEMMA ClaimStep ==
  ASSUME TypeOK, InputInductive, ProposeNext, turn # 0,
         target = "next-turn" => pc = "boundary"
  PROVE  InputInductive'
<1> DEFINE prompt == IF target = "next-turn" /\ nextTurn # <<>>
                       THEN <<Head(nextTurn)>> ELSE <<>>
           taken  == nextStep \o prompt
           Took   == Members(taken)
<1>1. /\ nextTurn \in Seq(Messages) /\ nextStep \in Seq(Messages) /\ turn \in Nat
      /\ claimedIn \in [Messages -> Nat]
  BY DEF TypeOK
<1>2. Lists /\ Located /\ Numbered /\ OwnTurn /\ AdmittedOnce
  BY DEF InputInductive
<1>3. /\ nextStep' = <<>>
      /\ nextTurn' = IF prompt = <<>> THEN nextTurn ELSE Tail(nextTurn)
      /\ batch' = taken
      /\ claimedIn' = [m \in Messages |-> IF m \in Took THEN turn ELSE claimedIn[m]]
      /\ pc' = "assembling"
      /\ UNCHANGED <<turn, target, queuedAs, discarded, admittedIn>>
  BY DEF ProposeNext, Claim
<1>4. PICK heads \in SUBSET Messages :
        /\ Took = Members(nextStep) \cup heads
        /\ heads \subseteq Members(nextTurn)
        /\ \A m, n \in heads : m = n
        /\ heads # {} => pc = "boundary" /\ target = "next-turn"
        /\ Members(nextTurn') = Members(nextTurn) \ heads
        /\ Distinct(nextTurn')
  <2>1. CASE target = "next-turn" /\ nextTurn # <<>>
    <3>1. /\ prompt = <<Head(nextTurn)>> /\ prompt # <<>>
          /\ Head(nextTurn) \in Messages /\ <<Head(nextTurn)>> \in Seq(Messages)
      BY <1>1, <2>1
    <3>2. Members(<<Head(nextTurn)>>) = {Head(nextTurn)}
      BY DEF Members
    <3>3. Took = Members(nextStep) \cup {Head(nextTurn)}
      <4>1. Members(nextStep \o <<Head(nextTurn)>>)
              = Members(nextStep) \cup Members(<<Head(nextTurn)>>)
        BY <1>1, <3>1, ConcatMembers
      <4> QED BY <3>1, <3>2, <4>1
    <3>4. nextTurn' = Tail(nextTurn)
      BY <1>3, <3>1
    <3>5. /\ Head(nextTurn) \in Members(nextTurn)
          /\ Members(Tail(nextTurn)) = Members(nextTurn) \ {Head(nextTurn)}
          /\ Distinct(Tail(nextTurn))
      BY <1>1, <1>2, <2>1, TailList DEF Lists
    <3> HIDE DEF Took
    <3> QED BY <2>1, <3>1, <3>3, <3>4, <3>5
  <2>2. CASE ~(target = "next-turn" /\ nextTurn # <<>>)
    <3>1. prompt = <<>>
      BY <2>2
    <3>2. Took = Members(nextStep) \cup {}
      <4>1. taken = nextStep
        BY <1>1, <3>1
      <4> QED BY <4>1
    <3>3. nextTurn' = nextTurn
      BY <1>3, <3>1
    <3> HIDE DEF Took
    <3>4. Members(nextTurn') = Members(nextTurn) \ {} /\ Distinct(nextTurn')
      BY <1>2, <3>3 DEF Lists
    <3> HIDE DEF prompt
    <3>5. WITNESS {} \in SUBSET Messages
    <3> QED BY <3>2, <3>4
  <2> QED BY <2>1, <2>2
<1> HIDE DEF prompt, taken, Took
<1>5. PICK T \in SUBSET Messages : T = Took
  <2>1. Members(nextStep) \subseteq Messages
    BY <1>1 DEF Members
  <2> QED BY <1>4, <2>1
<1>6. \A m \in Messages : claimedIn'[m] = IF m \in T THEN turn ELSE claimedIn[m]
  BY <1>3, <1>5
<1>7. /\ T \subseteq Pending
      /\ \A m \in T : claimedIn[m] = 0 /\ m \notin discarded /\ queuedAs[m] # "unsent"
  BY <1>2, <1>4, <1>5 DEF Pending, Located
<1>8. Members(nextStep') = {}
  BY <1>3 DEF Members
<1>9. Members(nextTurn') = Members(nextTurn) \ T
  <2>1. Members(nextTurn) \cap Members(nextStep) = {}
    BY <1>2 DEF Lists
  <2> QED BY <1>4, <1>5, <2>1
<1>10. Pending' = Pending \ T
  <2>1. Pending' = Members(nextTurn')
    BY <1>8 DEF Pending, Members
  <2>2. Members(nextStep) \subseteq T
    BY <1>4, <1>5
  <2> QED BY <1>9, <2>1, <2>2 DEF Pending
<1>11. Lists'
  <2>1. (\A m \in Members(nextTurn) : queuedAs[m] = "next-turn")' /\
        (\A m \in Members(nextStep) : queuedAs[m] = "next-step")'
    BY <1>2, <1>3, <1>8, <1>9 DEF Lists, Members
  <2>2. Distinct(nextTurn')
    BY <1>4
  <2>3. Distinct(nextStep')
    BY <1>3 DEF Distinct
  <2> QED BY <2>1, <2>2, <2>3 DEF Lists, Distinct
<1>12. Located'
  BY <1>2, <1>3, <1>6, <1>7, <1>10 DEF Located
<1>13. Numbered'
  BY <1>1, <1>2, <1>3, <1>6 DEF Numbered
<1>14. AdmittedOnce'
  <2>1. \A m \in T : admittedIn[m] = <<>>
    BY <1>2, <1>7 DEF AdmittedOnce
  <2> QED BY <1>2, <1>3, <1>6, <1>7, <2>1 DEF AdmittedOnce
<1>15. BatchFits'
  <2>1. Members(batch') = T
    BY <1>3, <1>5 DEF Took
  <2>2. \A m \in T : claimedIn'[m] = turn' /\ admittedIn'[m] = <<>>
    BY <1>2, <1>3, <1>6, <1>7 DEF AdmittedOnce
  <2> QED BY <1>3, <2>1, <2>2 DEF BatchFits, Members
<1>16. OwnTurn'
  <2> SUFFICES ASSUME NEW m \in Messages, NEW n \in Messages, m # n,
                      queuedAs[m] = "next-turn", queuedAs[n] = "next-turn",
                      claimedIn'[m] # 0
               PROVE  claimedIn'[m] # claimedIn'[n]
    BY <1>3 DEF OwnTurn
  <2>1. m \notin Members(nextStep) /\ n \notin Members(nextStep)
    BY <1>2 DEF Lists
  <2>2. CASE m \notin T /\ n \notin T
    BY <1>2, <1>6, <2>2 DEF OwnTurn
  <2>3. CASE m \in T \/ n \in T
    <3>1. ~(m \in T /\ n \in T)
      BY <1>4, <1>5, <2>1
    <3>2. \A k \in Messages : claimedIn[k] # turn
      BY <1>2, <1>4, <1>5, <2>1, <2>3 DEF Numbered
    <3> QED BY <1>6, <2>3, <3>1, <3>2
  <2> QED BY <2>2, <2>3
<1> QED BY <1>11, <1>12, <1>13, <1>14, <1>15, <1>16 DEF InputInductive

\* The first attempt of a step logs its batch.
LEMMA AdmitStep ==
  ASSUME TypeOK, InputInductive, pc = "preparing", Admit, batch' = <<>>,
         UNCHANGED <<inbox, claimedIn>>, turn # 0
  PROVE  InputInductive'
<1>1. admittedIn \in [Messages -> Seq(Nat)] /\ turn \in Nat
  BY DEF TypeOK
<1>2. Lists /\ Located /\ Numbered /\ OwnTurn /\ AdmittedOnce /\ BatchFits
  BY DEF InputInductive
<1>3. /\ pc' = "streaming" /\ UNCHANGED <<turn, target, inbox, claimedIn>>
      /\ admittedIn' = [m \in Messages |->
                          IF m \in Members(batch) THEN Append(admittedIn[m], turn)
                                                 ELSE admittedIn[m]]
  BY DEF Admit
<1>4. \A m \in Messages : \/ admittedIn'[m] = admittedIn[m]
                          \/ admittedIn'[m] = <<claimedIn[m]>> /\ claimedIn[m] # 0
  <2> SUFFICES ASSUME NEW m \in Messages, m \in Members(batch)
               PROVE  admittedIn'[m] = <<claimedIn[m]>> /\ claimedIn[m] # 0
    BY <1>3
  <2>1. claimedIn[m] = turn /\ admittedIn[m] = <<>>
    BY <1>2 DEF BatchFits
  <2>2. Append(<<>>, turn) = <<turn>>
    BY <1>1
  <2> QED BY <1>3, <2>1, <2>2
<1>5. Lists' /\ Located'
  BY <1>2, <1>3 DEF Lists, Located, Pending, Members, Distinct, inbox
<1>6. OwnTurn' /\ Numbered'
  BY <1>2, <1>3 DEF OwnTurn, Numbered, inbox
<1>7. AdmittedOnce'
  BY <1>2, <1>3, <1>4 DEF AdmittedOnce, inbox
<1>8. BatchFits'
  BY <1>3 DEF BatchFits
<1> QED BY <1>5, <1>6, <1>7, <1>8 DEF InputInductive

-----------------------------------------------------------------------------
(***************************************************************************)
(* One step of the system.                                                 *)
(***************************************************************************)
\* Opening a turn: its number has claimed nothing yet.
LEMMA TurnStep ==
  ASSUME TypeOK, InputInductive, TurnBegins
  PROVE  InputInductive'
<1>1. UNCHANGED <<inbox, ledger>>
  BY DEF TurnBegins
<1>2. CASE pc' = "stopped" /\ UNCHANGED position
  BY <1>1, <1>2, QuietStep DEF position
<1>3. CASE turn' = turn + 1 /\ target' = "next-turn" /\ pc' = "boundary"
  <2> USE DEF InputInductive, inbox, ledger
  <2>1. turn \in Nat /\ claimedIn \in [Messages -> Nat]
    BY DEF TypeOK
  <2>2. Lists' /\ Located' /\ OwnTurn' /\ AdmittedOnce'
    BY <1>1 DEF Lists, Located, OwnTurn, AdmittedOnce, Pending, Members, Distinct
  <2>3. \A m \in Messages : claimedIn[m] <= turn + 1 /\ claimedIn[m] # turn + 1
    BY <2>1 DEF Numbered
  <2>4. Numbered' /\ BatchFits'
    BY <1>1, <1>3, <2>3 DEF Numbered, BatchFits
  <2> QED BY <2>2, <2>4
<1> QED BY <1>2, <1>3 DEF TurnBegins

LEMMA InputDriver ==
  ASSUME TypeOK, LogPosition, InputInductive, Driver
  PROVE  InputInductive'
<1> USE DEF position
<1>1. /\ pc = "stopping" => target = "next-step"
      /\ pc \in {"streaming", "recovering", "executing"} => batch = <<>>
      /\ target \in {"next-turn", "next-step"}
  BY DEF InputInductive, Numbered, BatchFits, TypeOK, Targets
<1>2. ASSUME NEW reason,
             \/ LeaveBetweenSteps(reason) \/ LeaveInStep(reason)
             \/ SettleAndLeave("assistant/message", reason)
             \/ SettleAndLeave("assistant/attempt", reason),
             UNCHANGED <<inbox, ledger>>
      PROVE  InputInductive'
  <2>1. pc' = "stopped" /\ UNCHANGED <<turn, target, batch>>
    BY <1>2 DEF LeaveBetweenSteps, LeaveInStep, SettleAndLeave, Leave
  <2> QED BY <1>2, <2>1, QuietStep
<1>3. ASSUME FinishTurn, UNCHANGED <<inbox, ledger>> PROVE InputInductive'
  BY <1>3, QuietStep DEF FinishTurn
<1>4. ASSUME NEW ended, StepReturns(ended), UNCHANGED <<inbox, ledger>>
      PROVE  InputInductive'
  BY <1>4, QuietStep DEF StepReturns
<1>5. ASSUME NEW w, WakeDriver(w), UNCHANGED <<inbox, ledger>> PROVE InputInductive'
  BY <1>1, <1>5, QuietStep DEF WakeDriver, StartDriver
<1>6. CASE TurnBegins
  BY <1>6, TurnStep
<1>7. CASE ProposeStep
  <2>1. CASE LeaveBetweenSteps("aborted") /\ UNCHANGED <<inbox, ledger>>
    BY <1>2, <2>1
  <2>2. CASE ProposeNext
    <3>1. pc = "boundary" /\ turn # 0
      BY <1>7 DEF ProposeStep, LogPosition, InTurn
    <3> QED BY <2>2, <3>1, ClaimStep
  <2> QED BY <1>7, <2>1, <2>2 DEF ProposeStep
<1>8. CASE Assembled
  <2>1. UNCHANGED <<inbox, ledger>> /\ pc = "assembling"
    BY <1>8 DEF Assembled, Settles
  <2> QED BY <1>2, <1>8, <2>1, QuietStep DEF Assembled
<1>9. CASE Decided
  <2>1. UNCHANGED <<inbox, ledger>> /\ pc = "deciding"
    BY <1>9 DEF Decided, Settles
  <2>2. ASSUME NEW entered, NEW context, Enter(entered, context),
               entered \in {batch, <<>>}
        PROVE  InputInductive'
    <3>1. CASE FinishTurn \/ LeaveBetweenSteps("completed")
      BY <1>2, <1>3, <2>1, <3>1
    <3>2. CASE batch' = entered /\ pc' = "preparing" /\ UNCHANGED <<turn, target>>
      BY <2>1, <2>2, <3>2, QuietStep
    <3> QED BY <2>2, <3>1, <3>2 DEF Enter
  <2> QED BY <1>2, <1>9, <2>1, <2>2 DEF Decided
<1>10. CASE Prepared
  <2>1. pc = "preparing" /\ UNCHANGED <<inbox, claimedIn>> /\ turn # 0
    BY <1>10 DEF Prepared, Settles, LogPosition, InStep
  <2>2. CASE Admit /\ batch' = <<>>
    BY <2>1, <2>2, AdmitStep
  <2>3. CASE (LeaveInStep("aborted") \/ LeaveInStep("error")) /\ UNCHANGED admittedIn
    BY <1>2, <2>1, <2>3 DEF ledger
  <2> QED BY <1>10, <2>2, <2>3 DEF Prepared
<1>11. CASE StreamEnds
  <2>1. UNCHANGED <<inbox, ledger>> /\ pc = "streaming"
    BY <1>11 DEF StreamEnds, Settles
  <2>2. CASE pc' \in {"recovering", "executing"} /\ UNCHANGED position
    BY <1>1, <2>1, <2>2, QuietStep
  <2> QED BY <1>2, <1>4, <1>11, <2>1, <2>2 DEF StreamEnds
<1>12. CASE Recovered
  <2>1. UNCHANGED <<inbox, ledger>> /\ pc = "recovering"
    BY <1>12 DEF Recovered, Settles
  <2>2. CASE pc' = "preparing" /\ UNCHANGED position
    BY <1>1, <2>1, <2>2, QuietStep
  <2> QED BY <1>2, <1>12, <2>1, <2>2 DEF Recovered
<1>13. CASE ToolsDone
  <2>1. UNCHANGED <<inbox, ledger>>
    BY <1>13 DEF ToolsDone
  <2> QED BY <1>2, <1>4, <1>13, <2>1 DEF ToolsDone
<1>14. CASE Stopping
  <2>1. CASE ProposeNext
    <3>1. pc = "stopping" /\ turn # 0
      BY <1>14 DEF Stopping, Settles, LogPosition, InTurn
    <3> QED BY <1>1, <2>1, <3>1, ClaimStep
  <2> QED BY <1>2, <1>3, <1>14, <2>1 DEF Stopping
<1>15. CASE LookForWork
  BY <1>15, QuietStep DEF LookForWork
<1>16. CASE KickReturns
  BY <1>16, QuietStep DEF KickReturns, TurnIdle
<1>17. CASE ReplayWake
  <2>1. CASE WakeDriver(FALSE)
    BY <1>5, <1>17, <2>1 DEF ReplayWake
  <2>2. CASE UNCHANGED <<pc, position>>
    BY <1>1, <1>17, <2>2, QuietStep DEF ReplayWake
  <2> QED BY <1>17, <2>1, <2>2 DEF ReplayWake
<1>18. CASE SendReturns
  BY <1>5, <1>18 DEF SendReturns, ledger
<1>19. CASE EndMaintenance
  BY <1>19, QuietStep DEF EndMaintenance, StartDriver
<1> QED BY <1>6, <1>7, <1>8, <1>9, <1>10, <1>11, <1>12, <1>13, <1>14, <1>15, <1>16,
           <1>17, <1>18, <1>19 DEF Driver

LEMMA InputCaller ==
  ASSUME TypeOK, InputInductive,
         Caller \/ (\E m \in Messages : AcceptContext(m)) \/ WhenIdleResolves
           \/ UNCHANGED vars
  PROVE  InputInductive'
<1> USE DEF activity, position
<1>1. ASSUME NEW m \in Messages, NEW to \in Targets, NEW wakeup, Send(m, to, wakeup)
      PROVE  InputInductive'
  <2>1. PICK list \in Targets : InsertLast(list, m)
    BY <1>1 DEF Send, Targets
  <2>2. Fresh(m) /\ UNCHANGED <<pc, turn, target, batch, ledger, discarded>>
    BY <1>1 DEF Send
  <2> QED BY <2>1, <2>2, InsertStep
<1>2. ASSUME NEW m \in Messages, Followup(m) \/ Steer(m) \/ Inject(m)
      PROVE  InputInductive'
  BY <1>1, <1>2 DEF Followup, Steer, Inject, Targets
<1>3. ASSUME NEW m \in Messages, NEW to \in Targets, Prepend(m, to)
      PROVE  InputInductive'
  BY <1>3, InsertStep DEF Prepend
<1>4. ASSUME NEW m \in Messages, AcceptContext(m) PROVE InputInductive'
  BY <1>4, InsertStep DEF AcceptContext, Targets
<1>5. ASSUME NEW m \in Messages, Remove(m) PROVE InputInductive'
  BY <1>5, RemoveStep
<1>6. ASSUME NEW m \in Messages, NEW n \in Messages, Replace(m, n) PROVE InputInductive'
  BY <1>6, ReplaceStep
<1>7. ASSUME NEW cause \in Causes, NEW keepInbox \in BOOLEAN, Cancel(cause, keepInbox)
      PROVE  InputInductive'
  BY <1>7, CancelStep DEF Cancel
<1>8. ASSUME UNCHANGED <<pc, position, inbox, ledger>> PROVE InputInductive'
  BY <1>8, QuietStep DEF InputInductive, Numbered, BatchFits
<1>9. CASE BeginMaintenance
  BY <1>9, QuietStep DEF BeginMaintenance
<1>10. CASE Dispose
  BY <1>8, <1>10, CancelStep DEF Dispose
<1>11. CASE WhenIdleResolves \/ UNCHANGED vars
  BY <1>8, <1>11 DEF WhenIdleResolves, vars
<1> QED BY <1>2, <1>3, <1>4, <1>5, <1>6, <1>7, <1>9, <1>10, <1>11 DEF Caller

-----------------------------------------------------------------------------
(***************************************************************************)
(* What the invariant says of the input.                                   *)
(***************************************************************************)
\* A message stands at one place of a list of different messages, or at none.
LEMMA CountList ==
  ASSUME NEW list \in Seq(Messages), Distinct(list), NEW m
  PROVE  Cardinality({i \in DOMAIN list : list[i] = m})
           = (IF m \in Members(list) THEN 1 ELSE 0)
<1>1. CASE m \in Members(list)
  <2>1. PICK i \in DOMAIN list : list[i] = m
    BY <1>1 DEF Members
  <2>2. {j \in DOMAIN list : list[j] = m} = {i}
    BY <2>1 DEF Distinct
  <2> QED BY <1>1, <2>2, FS_Singleton
<1>2. CASE m \notin Members(list)
  <2>1. {j \in DOMAIN list : list[j] = m} = {}
    BY <1>2 DEF Members
  <2> QED BY <1>2, <2>1, FS_EmptySet
<1> QED BY <1>1, <1>2

LEMMA ConservedFollows ==
  ASSUME TypeOK, InputInductive
  PROVE  Conserved
<1> SUFFICES ASSUME NEW m \in Messages
             PROVE  Occurrences(m) + (IF claimedIn[m] # 0 THEN 1 ELSE 0)
                                   + (IF m \in discarded THEN 1 ELSE 0)
                      = (IF queuedAs[m] = "unsent" THEN 0 ELSE 1)
  BY DEF Conserved
<1>1. nextTurn \in Seq(Messages) /\ nextStep \in Seq(Messages)
  BY DEF TypeOK
<1>2. Lists /\ Located
  BY DEF InputInductive
<1>3. ~(m \in Members(nextTurn) /\ m \in Members(nextStep))
  BY <1>2 DEF Lists
<1>4. Occurrences(m) = (IF m \in Members(nextTurn) THEN 1 ELSE 0)
                         + (IF m \in Members(nextStep) THEN 1 ELSE 0)
  BY <1>1, <1>2, CountList DEF Occurrences, Lists
<1>5. Occurrences(m) = (IF m \in Pending THEN 1 ELSE 0)
  BY <1>3, <1>4 DEF Pending
<1>6. /\ m \in Pending <=> queuedAs[m] # "unsent" /\ claimedIn[m] = 0 /\ m \notin discarded
      /\ claimedIn[m] # 0 => queuedAs[m] # "unsent" /\ m \notin discarded
      /\ m \in discarded => queuedAs[m] # "unsent"
  BY <1>2 DEF Located
<1> QED BY <1>5, <1>6

\* The invariant of the input: where each message is, and in which turn.
THEOREM InputInductiveHolds == Spec => []InputInductive
<1>1. Init => InputInductive
  <2> SUFFICES ASSUME Init PROVE InputInductive
    OBVIOUS
  <2>1. Members(nextTurn) = {} /\ Members(nextStep) = {} /\ Pending = {}
    BY DEF Init, Members, Pending
  <2>2. Lists
    BY <2>1 DEF Init, Lists, Distinct
  <2>3. Located /\ OwnTurn /\ AdmittedOnce
    BY <2>1 DEF Init, Located, OwnTurn, AdmittedOnce
  <2>4. Numbered /\ BatchFits
    BY DEF Init, Numbered, BatchFits
  <2> QED BY <2>2, <2>3, <2>4 DEF InputInductive
<1>2. InputInductive /\ Inductive /\ [Next]_vars => InputInductive'
  BY InputDriver, InputCaller DEF Next, Inductive
<1> QED BY <1>1, <1>2, InductiveHolds, PTL DEF Spec

\* The durable inbox neither loses nor duplicates input, a turn takes one prompt
\* at most, and a message is logged once, by the turn that claimed it, through
\* any inbox edits, cancellations, retries and disposals.
THEOREM InputAlwaysAccounted == Spec => []InputAccounted
<1>1. Inductive /\ InputInductive => InputAccounted
  BY ConservedFollows DEF Inductive, InputInductive, InputAccounted
<1> QED BY <1>1, InductiveHolds, InputInductiveHolds, PTL

\* An aborted turn neither logs the input of its step nor sends a request:
\* cancel() takes effect at every await before the admission.
THEOREM AbortNeverCommits == Spec => AbortCommitsNothing
<1> DEFINE Safe == abort # "none" =>
                     /\ admittedIn' = admittedIn
                     /\ ~(pc # "streaming" /\ pc' = "streaming")
<1> USE DEF activity, position, ledger, calls
<1>1. ASSUME Driver PROVE Safe
  <2>1. CASE Prepared
    BY <2>1 DEF Prepared, LeaveInStep, Leave
  <2>2. CASE TurnBegins \/ ProposeStep \/ Assembled
    BY <2>2 DEF TurnBegins, ProposeStep, Assembled, LeaveBetweenSteps, Leave
  <2>3. CASE Decided \/ Stopping
    BY <2>3 DEF Decided, Stopping, LeaveBetweenSteps, Leave
  <2>4. CASE StreamEnds \/ Recovered
    BY <2>4 DEF StreamEnds, Recovered, Settles, LeaveInStep, SettleAndLeave, Leave
  <2>5. CASE ToolsDone
    BY <2>5 DEF ToolsDone, LeaveInStep, Leave, StepReturns
  <2>6. CASE LookForWork \/ KickReturns \/ EndMaintenance
    BY <2>6 DEF LookForWork, KickReturns, TurnIdle, EndMaintenance, StartDriver
  <2>7. CASE ReplayWake \/ SendReturns
    BY <2>7 DEF ReplayWake, SendReturns, WakeDriver, StartDriver
  <2> QED BY <1>1, <2>1, <2>2, <2>3, <2>4, <2>5, <2>6, <2>7 DEF Driver
<1>2. ASSUME Caller PROVE Safe
  BY <1>2 DEF Caller, Followup, Steer, Inject, Send, Prepend, Remove, Replace, Cancel,
     CancelEffect, BeginMaintenance, Dispose
<1>3. ASSUME (\E m \in Messages : AcceptContext(m)) \/ WhenIdleResolves \/ UNCHANGED vars
      PROVE  Safe
  BY <1>3 DEF AcceptContext, WhenIdleResolves, vars
<1>4. [Next]_vars => [Safe]_vars
  BY <1>1, <1>2, <1>3 DEF Next
<1> QED BY <1>4, PTL DEF Spec, AbortCommitsNothing

\* A driver starts for a wake or for a latched one, never for parked work alone.
THEOREM ParkedAlwaysParked == Spec => ParkedStaysParked
<1> DEFINE Owed == (phase # "running" /\ phase' = "running") =>
                     wakeRequested \/ owedWake \/ ~NoSend
<1> USE DEF activity
<1>1. ASSUME Driver PROVE Owed
  <2>1. CASE EndMaintenance \/ ReplayWake \/ SendReturns
    BY <2>1 DEF EndMaintenance, ReplayWake, SendReturns
  <2>2. CASE TurnBegins \/ ProposeStep \/ Assembled \/ Stopping
    BY <2>2 DEF TurnBegins, ProposeStep, ProposeNext, Assembled, Stopping, FinishTurn,
       LeaveBetweenSteps, Leave
  <2>3. CASE Decided
    BY <2>3 DEF Decided, Enter, FinishTurn, LeaveBetweenSteps, Leave
  <2>4. CASE Prepared \/ Recovered
    BY <2>4 DEF Prepared, Recovered, Admit, LeaveInStep, Leave
  <2>5. CASE StreamEnds
    BY <2>5 DEF StreamEnds, LeaveInStep, SettleAndLeave, Leave, StepReturns
  <2>6. CASE ToolsDone \/ LookForWork \/ KickReturns
    BY <2>6 DEF ToolsDone, LookForWork, KickReturns, TurnIdle, LeaveInStep, Leave,
       StepReturns
  <2> QED BY <1>1, <2>1, <2>2, <2>3, <2>4, <2>5, <2>6 DEF Driver
<1>2. ASSUME Caller PROVE Owed
  BY <1>2 DEF Caller, Followup, Steer, Inject, Send, Prepend, Remove, Replace, Cancel,
     CancelEffect, BeginMaintenance, Dispose
<1>3. ASSUME (\E m \in Messages : AcceptContext(m)) \/ WhenIdleResolves \/ UNCHANGED vars
      PROVE  Owed
  BY <1>3 DEF AcceptContext, WhenIdleResolves, vars
<1>4. [Next]_vars => [Owed]_vars
  BY <1>1, <1>2, <1>3 DEF Next
<1> QED BY <1>4, PTL DEF Spec, ParkedStaysParked
=============================================================================
