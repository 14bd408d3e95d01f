----------------------------- MODULE AgentDriver -----------------------------
(***************************************************************************)
(* ReactLoopAgent: the driver that owns one agent, its durable inbox and   *)
(* its turns and steps (packages/core/agent-loop/src/agent.ts, inbox.ts    *)
(* and the teardown of index.ts).                                          *)
(*                                                                         *)
(* JavaScript runs one synchronous stretch of code at a time, so an action *)
(* is the code from one place where other code may run to the next.  pc    *)
(* names that place.  There are three kinds:                               *)
(*   - an await of the driver: any caller may act before it settles;       *)
(*   - a status or inbox notification: its synchronous listeners may call  *)
(*     any public method, nothing else runs;                               *)
(*   - the publication of a session append: its listeners may call any     *)
(*     method too, but an append made there is refused.                    *)
(***************************************************************************)
EXTENDS SessionLog

CONSTANTS
  Messages,   \* identities of user messages, each submitted at most once
  Callers,    \* the public methods this instance's callers use
  Outcomes,   \* how hooks, models and tools may answer in this instance
  Causes,     \* cancellation causes callers pass, apart from "disposed"
  MaxStep,    \* bound: tool calls ask for another step only below this one
  MaxCancels  \* bound: how often cancel is called

ASSUME BoundsAssumption == MaxStep \in Nat \ {0} /\ MaxCancels \in Nat
ASSUME CausesAssumption == "none" \notin Causes /\ "disposed" \notin Causes

Disposed  == "disposed"
AllCauses == Causes \cup {Disposed}
Targets   == {"next-turn", "next-step"}

VARIABLES
  phase,         \* "idle", "maintenance" or "running"
  pc,            \* where the driver stands
  abort,         \* reason of the phase's abort signal, "none" while it is live
  wakeRequested, \* the phase's latch: replay a wake when the activity ends
  owedWake,      \* the latch kick() captured, while its idle listeners run
  turn,          \* lastTurn of an idle phase, turn of a running one
  step,          \* step of the running phase
  target,        \* what the next claim takes
  turnEnds,      \* the turn outcome decided so far, "none" while undecided
  batch,         \* messages admitted by the step's first request attempt
  nextTurn,      \* inbox: prompts awaiting individual turns
  nextStep,      \* inbox: input awaiting the next step boundary
  queuedAs,      \* the list each message entered, "unsent" before
  claimedIn,     \* the turn named by the message's claimed event, 0 before
  discarded,     \* messages named by a discarded event
  admittedIn,    \* turns whose steps logged the message as user/message
  trace,         \* the session-invariant companion's trace of the log
  refused,       \* types of the events the companion would have refused
  sending,       \* a waking send() whose splice observers run: its captured
                 \* class, "live" or "afterAbort"; "none" outside send()
  cancels,       \* how many cancel calls were made
  disposal       \* "none", "draining" (awaiting whenIdle) or "done"

activity == <<phase, pc, abort, wakeRequested, owedWake>>
position == <<turn, step, target, turnEnds, batch>>
inbox    == <<nextTurn, nextStep, queuedAs, discarded>>
ledger   == <<claimedIn, admittedIn>>
log      == <<trace, refused>>
calls    == <<sending, cancels, disposal>>
vars     == <<activity, position, inbox, ledger, log, calls>>

-----------------------------------------------------------------------------
(***************************************************************************)
(* Where other code may run.                                               *)
(***************************************************************************)
Awaits == {"assembling", "deciding", "preparing", "streaming", "recovering",
           "executing", "stopping", "looping", "drained", "stopped"}

\* Listeners of agent/status = "running", before kick() opens the turn.
Notifying == {"notified"}

\* Listeners of agent/inbox/inserted, before a waking send() wakes the driver:
\* they may call any method, but nothing else moves.
NoSend == sending = "none"

\* Listeners of a session append: turn/start or step/end at the loop head,
\* turn/end before the driver looks for more work.
Publishing == {"boundary", "closed"}

\* An append made while another append is being published is refused.
AppendAllowed == pc \notin Publishing

\* While kick()'s idle listeners or send()'s observers run, no await settles.
Settles(p) == pc = p /\ ~owedWake /\ NoSend

Members(list) == {list[i] : i \in DOMAIN list}
Pending == Members(nextTurn) \cup Members(nextStep)
HasPending == nextTurn # <<>> \/ nextStep # <<>>

(***************************************************************************)
(* Session appends.  The companion's verdict on each event is recorded.    *)
(***************************************************************************)
Commit(e) ==
  /\ trace' = Apply(trace, e)
  /\ refused' = IF Accepts(trace, e) THEN refused ELSE refused \cup {e.type}

Commit2(d, e) ==
  LET mid == Apply(trace, d)
  IN /\ trace' = Apply(mid, e)
     /\ refused' = refused \cup (IF Accepts(trace, d) THEN {} ELSE {d.type})
                           \cup (IF Accepts(mid, e) THEN {} ELSE {e.type})

Commit3(c, d, e) ==
  LET mid == Apply(trace, c)
      late == Apply(mid, d)
  IN /\ trace' = Apply(late, e)
     /\ refused' = refused \cup (IF Accepts(trace, c) THEN {} ELSE {c.type})
                           \cup (IF Accepts(mid, d) THEN {} ELSE {d.type})
                           \cup (IF Accepts(late, e) THEN {} ELSE {e.type})

-----------------------------------------------------------------------------
(***************************************************************************)
(* Inbox commands.  Each is one durable splice followed by its events.     *)
(***************************************************************************)
Fresh(m) == queuedAs[m] = "unsent"

InsertLast(list, m) ==
  /\ nextTurn' = IF list = "next-turn" THEN Append(nextTurn, m) ELSE nextTurn
  /\ nextStep' = IF list = "next-step" THEN Append(nextStep, m) ELSE nextStep
  /\ queuedAs' = [queuedAs EXCEPT ![m] = list]

InsertFirst(list, m) ==
  /\ nextTurn' = IF list = "next-turn" THEN <<m>> \o nextTurn ELSE nextTurn
  /\ nextStep' = IF list = "next-step" THEN <<m>> \o nextStep ELSE nextStep
  /\ queuedAs' = [queuedAs EXCEPT ![m] = list]

Cut(list, i) == SubSeq(list, 1, i - 1) \o SubSeq(list, i + 1, Len(list))

\* Mutant of Clear: only the list of prompts is emptied.
ClearPromptsOnly ==
  /\ nextTurn' = <<>>
  /\ UNCHANGED nextStep
  /\ discarded' = discarded \cup Pending

Clear ==
  /\ nextTurn' = <<>>
  /\ nextStep' = <<>>
  /\ discarded' = discarded \cup Pending

(***************************************************************************)
(* Start one driver, or latch the wake behind maintenance or an aborted    *)
(* activity.  Disposal never latches; a live driver claims queued work     *)
(* itself.  (Leaves position alone but for the fresh phase's step.)        *)
(***************************************************************************)
StartDriver ==
  /\ phase' = "running"
  /\ pc' = "notified"
  /\ abort' = "none"
  /\ wakeRequested' = FALSE
  /\ step' = 0
  /\ UNCHANGED <<turn, target, turnEnds, batch>>

\* Mutant of WakeDriver: a live driver latches the wake as well.
WakeDriverAlwaysLatches(wakeAfterAbort) ==
  \/ phase = "idle" /\ StartDriver
  \/ /\ phase # "idle"
     /\ wakeRequested' = (wakeRequested \/ abort # Disposed)
     /\ UNCHANGED <<phase, pc, abort, position>>

WakeDriver(wakeAfterAbort) ==
  \/ /\ phase = "idle"
     /\ StartDriver
  \/ /\ phase # "idle"
     /\ wakeRequested' = \/ wakeRequested
                         \/ /\ abort # Disposed
                            /\ phase = "maintenance" \/ wakeAfterAbort
     /\ UNCHANGED <<phase, pc, abort, position>>

(***************************************************************************)
(* send(): waking input cannot join an aborted activity, so it is queued   *)
(* for the next turn instead.  The class is captured before the insertion: *)
(* what the splice observers call cannot change it.  (Observers that make  *)
(* a waking send of their own are left out: sending is one deep.)          *)
(***************************************************************************)
Send(m, to, wakeup) ==
  LET wakingAfterAbort == wakeup /\ phase # "idle" /\ abort # "none"
  IN /\ Fresh(m)
     /\ AppendAllowed
     /\ disposal # "done"
     /\ wakeup => NoSend
     /\ InsertLast(IF wakingAfterAbort THEN "next-turn" ELSE to, m)
     /\ sending' = CASE ~wakeup         -> sending
                     [] wakingAfterAbort -> "afterAbort"
                     [] OTHER            -> "live"
     /\ UNCHANGED <<activity, position, discarded, ledger, log, cancels, disposal>>

SendReturns ==
  /\ ~NoSend
  /\ sending' = "none"
  /\ WakeDriver(sending = "afterAbort")
  /\ UNCHANGED <<owedWake, inbox, ledger, log, cancels, disposal>>

Followup(m) == "followup" \in Callers /\ Send(m, "next-turn", TRUE)
Steer(m)    == "steer" \in Callers /\ Send(m, "next-step", TRUE)
Inject(m)   == "inject" \in Callers /\ Send(m, "next-step", FALSE)

Prepend(m, to) ==
  /\ "prepend" \in Callers
  /\ Fresh(m) /\ AppendAllowed /\ disposal # "done"
  /\ InsertFirst(to, m)
  /\ UNCHANGED <<activity, position, discarded, ledger, log, calls>>

Remove(m) ==
  /\ "remove" \in Callers
  /\ AppendAllowed /\ disposal # "done"
  /\ \/ \E i \in DOMAIN nextTurn : /\ nextTurn[i] = m
                                  /\ nextTurn' = Cut(nextTurn, i)
                                  /\ UNCHANGED nextStep
     \/ \E i \in DOMAIN nextStep : /\ nextStep[i] = m
                                  /\ nextStep' = Cut(nextStep, i)
                                  /\ UNCHANGED nextTurn
  /\ discarded' = discarded \cup {m}
  /\ UNCHANGED <<activity, position, queuedAs, ledger, log, calls>>

Replace(m, n) ==
  /\ "replace" \in Callers
  /\ Fresh(n) /\ AppendAllowed /\ disposal # "done"
  /\ \/ \E i \in DOMAIN nextTurn : /\ nextTurn[i] = m
                                  /\ nextTurn' = [nextTurn EXCEPT ![i] = n]
                                  /\ UNCHANGED nextStep
     \/ \E i \in DOMAIN nextStep : /\ nextStep[i] = m
                                  /\ nextStep' = [nextStep EXCEPT ![i] = n]
                                  /\ UNCHANGED nextTurn
  /\ queuedAs' = [queuedAs EXCEPT ![n] = queuedAs[m]]
  /\ discarded' = discarded \cup {m}
  /\ UNCHANGED <<activity, position, ledger, log, calls>>

(***************************************************************************)
(* cancel(): clear the inbox and the latch unless keepInbox, then abort    *)
(* the active signal; the first cause wins.  Clearing a non-empty inbox    *)
(* from an append listener throws before the abort, which changes nothing. *)
(***************************************************************************)
CancelEffect(cause, keepInbox) ==
  /\ IF keepInbox
       THEN UNCHANGED <<nextTurn, nextStep, discarded, wakeRequested>>
       ELSE /\ AppendAllowed \/ ~HasPending
            /\ Clear
            /\ wakeRequested' = FALSE
  /\ abort' = IF phase # "idle" /\ abort = "none" THEN cause ELSE abort
  /\ UNCHANGED <<phase, pc, owedWake, position, queuedAs, ledger, log>>

Cancel(cause, keepInbox) ==
  /\ "cancel" \in Callers
  /\ disposal # "done"
  /\ cancels < MaxCancels
  /\ cancels' = cancels + 1
  /\ CancelEffect(cause, keepInbox)
  /\ UNCHANGED <<sending, disposal>>

(***************************************************************************)
(* runMaintenance(): one job from the true idle phase.  Its end replays a  *)
(* latched wake unless disposal aborted it.                                *)
(***************************************************************************)
BeginMaintenance ==
  /\ "maintain" \in Callers
  /\ phase = "idle"
  /\ disposal # "done"
  /\ phase' = "maintenance"
  /\ pc' = "maintaining"
  /\ abort' = "none"
  /\ wakeRequested' = FALSE
  /\ UNCHANGED <<owedWake, position, inbox, ledger, log, calls>>

\* Mutant of EndMaintenance: pending work alone starts a driver.
EndMaintenanceUnlatched ==
  /\ Settles("maintaining")
  /\ IF abort # Disposed /\ HasPending
       THEN StartDriver
       ELSE /\ phase' = "idle" /\ pc' = "idle" /\ abort' = "none"
            /\ wakeRequested' = FALSE
            /\ UNCHANGED position
  /\ UNCHANGED <<owedWake, inbox, ledger, log, calls>>

EndMaintenance ==
  /\ Settles("maintaining")
  /\ IF abort # Disposed /\ wakeRequested /\ HasPending
       THEN StartDriver
       ELSE /\ phase' = "idle"
            /\ pc' = "idle"
            /\ abort' = "none"
            /\ wakeRequested' = FALSE
            /\ UNCHANGED position
  /\ UNCHANGED <<owedWake, inbox, ledger, log, calls>>

(***************************************************************************)
(* The handle's dispose(): a disposed-cause cancel, then whenIdle(), then  *)
(* the registries drop the agent.  When cancel throws the failure is       *)
(* collected and the teardown goes on without waiting for the driver.      *)
(***************************************************************************)
Dispose ==
  /\ "dispose" \in Callers
  /\ disposal = "none"
  /\ IF AppendAllowed \/ ~HasPending
       THEN /\ CancelEffect(Disposed, FALSE)
            /\ disposal' = "draining"
       ELSE /\ disposal' = "done"
            /\ UNCHANGED <<activity, position, inbox, ledger, log>>
  /\ UNCHANGED <<sending, cancels>>

\* whenIdle() follows replacement activities: it resolves while none is active.
WhenIdleResolves ==
  /\ disposal = "draining"
  /\ Settles("idle")
  /\ disposal' = "done"
  /\ UNCHANGED <<activity, position, inbox, ledger, log, sending, cancels>>

-----------------------------------------------------------------------------
(***************************************************************************)
(* How turn() is left.  A throw or an early return goes to "stopped"; the  *)
(* ordinary end looks for more work once turn/end is published.            *)
(***************************************************************************)
Leave(reason) ==
  /\ turnEnds' = reason
  /\ pc' = "stopped"
  /\ UNCHANGED <<phase, abort, wakeRequested, owedWake, turn, step, target, batch>>

LeaveBetweenSteps(reason) == Leave(reason) /\ Commit(TurnEnd(turn))

LeaveInStep(reason) ==
  Leave(reason) /\ Commit2(StepEvent("step/end", turn, step), TurnEnd(turn))

SettleAndLeave(settlement, reason) ==
  /\ Leave(reason)
  /\ Commit3(StepEvent(settlement, turn, step),
             StepEvent("step/end", turn, step), TurnEnd(turn))

FinishTurn ==
  /\ pc' = "closed"
  /\ Commit(TurnEnd(turn))
  /\ UNCHANGED <<phase, abort, wakeRequested, owedWake, position>>

(***************************************************************************)
(* turn(): open one turn before claiming its first proposed step.          *)
(***************************************************************************)
TurnBegins ==
  /\ (pc = "notified" /\ NoSend) \/ Settles("looping")
  /\ IF abort # "none"
       THEN /\ pc' = "stopped"
            /\ UNCHANGED <<position, log>>
       ELSE /\ Commit(TurnStart(turn + 1))
            /\ turn' = turn + 1
            /\ target' = "next-turn"
            /\ turnEnds' = "none"
            /\ pc' = "boundary"
            /\ UNCHANGED <<step, batch>>
  /\ UNCHANGED <<phase, abort, wakeRequested, owedWake, inbox, ledger, calls>>

(***************************************************************************)
(* The head of turn()'s loop, and claim(): all next-step input, then one   *)
(* queued prompt when the boundary opens a turn.                           *)
(***************************************************************************)
\* Mutant of Claim: a turn takes every queued prompt.
ClaimEveryPrompt ==
  LET prompts == IF target = "next-turn" THEN nextTurn ELSE <<>>
      taken   == nextStep \o prompts
  IN /\ nextStep' = <<>>
     /\ nextTurn' = IF target = "next-turn" THEN <<>> ELSE nextTurn
     /\ batch' = taken
     /\ claimedIn' = [m \in Messages |->
                        IF m \in Members(taken) THEN turn ELSE claimedIn[m]]

Claim ==
  LET prompt == IF target = "next-turn" /\ nextTurn # <<>>
                  THEN <<Head(nextTurn)>> ELSE <<>>
      taken  == nextStep \o prompt
  IN /\ nextStep' = <<>>
     /\ nextTurn' = IF prompt = <<>> THEN nextTurn ELSE Tail(nextTurn)
     /\ batch' = taken
     /\ claimedIn' = [m \in Messages |->
                        IF m \in Members(taken) THEN turn ELSE claimedIn[m]]

ProposeNext ==
  /\ Claim
  /\ pc' = "assembling"
  /\ UNCHANGED <<phase, abort, wakeRequested, owedWake, turn, step, target,
                 turnEnds, queuedAs, discarded, admittedIn, log>>

ProposeStep ==
  /\ pc = "boundary"
  /\ \/ /\ abort # "none"
        /\ LeaveBetweenSteps("aborted")
        /\ UNCHANGED <<inbox, ledger>>
     \/ abort = "none" /\ ProposeNext
  /\ UNCHANGED calls

(***************************************************************************)
(* preStep()'s two awaits: the prompt assembly and the pre-step waterfall. *)
(***************************************************************************)
Assembled ==
  /\ Settles("assembling")
  /\ \/ abort # "none" /\ LeaveBetweenSteps("aborted")
     \/ abort = "none" /\ "throws" \in Outcomes /\ LeaveBetweenSteps("error")
     \/ /\ abort = "none"
        /\ pc' = "deciding"
        /\ UNCHANGED <<phase, abort, wakeRequested, owedWake, position, log>>
  /\ UNCHANGED <<inbox, ledger, calls>>

(***************************************************************************)
(* The waterfall enters the batch unchanged, rewritten to nothing, or with *)
(* a runtime-context message of its own.                                   *)
(***************************************************************************)
Enter(entered, context) ==
  LET empty == entered = <<>> /\ ~context
  IN \/ turnEnds # "none" /\ empty /\ FinishTurn
     \/ turnEnds = "none" /\ step = 0 /\ empty /\ LeaveBetweenSteps("completed")
     \/ /\ ~empty \/ (turnEnds = "none" /\ step # 0)
        /\ Commit(StepEvent("step/start", turn, step + 1))
        /\ step' = step + 1
        /\ batch' = entered
        /\ pc' = "preparing"
        /\ UNCHANGED <<phase, abort, wakeRequested, owedWake, turn, target, turnEnds>>

Decided ==
  /\ Settles("deciding")
  /\ \/ abort # "none" /\ LeaveBetweenSteps("aborted")
     \/ abort = "none" /\ "throws" \in Outcomes /\ LeaveBetweenSteps("error")
     \/ abort = "none" /\ "rejects" \in Outcomes /\ LeaveBetweenSteps("blocked")
     \/ /\ abort = "none"
        /\ \/ Enter(batch, FALSE)
           \/ "rewrites" \in Outcomes /\ Enter(<<>>, FALSE)
           \/ "context" \in Outcomes /\ Enter(batch, TRUE)
  /\ UNCHANGED <<inbox, ledger, calls>>

(***************************************************************************)
(* step(): the awaits of prepareRequest(), then the synchronous admission  *)
(* of prompt, users and header on the first attempt.                       *)
(***************************************************************************)
Admit ==
  /\ Commit2(StepEvent("system/message", turn, step), PlainEvent("request/header"))
  /\ admittedIn' = [m \in Messages |->
                      IF m \in Members(batch) THEN Append(admittedIn[m], turn)
                                             ELSE admittedIn[m]]
  /\ pc' = "streaming"
  /\ UNCHANGED <<phase, abort, wakeRequested, owedWake, turn, step, target, turnEnds>>

\* Mutant of Prepared: a retry admits the batch of the first attempt again.
PreparedKeepsBatch ==
  /\ Settles("preparing")
  /\ \/ abort # "none" /\ LeaveInStep("aborted") /\ UNCHANGED admittedIn
     \/ abort = "none" /\ Admit /\ UNCHANGED batch
  /\ UNCHANGED <<inbox, claimedIn, calls>>

\* Mutant of Prepared: the abort is not looked at after the last await.
PreparedUnchecked ==
  /\ Settles("preparing")
  /\ Admit /\ batch' = <<>>
  /\ UNCHANGED <<inbox, claimedIn, calls>>

Prepared ==
  /\ Settles("preparing")
  /\ \/ abort # "none" /\ LeaveInStep("aborted") /\ UNCHANGED admittedIn
     \/ /\ abort = "none" /\ "throws" \in Outcomes
        /\ LeaveInStep("error") /\ UNCHANGED admittedIn
     \/ abort = "none" /\ Admit /\ batch' = <<>>
  /\ UNCHANGED <<inbox, claimedIn, calls>>

(***************************************************************************)
(* What step() returns, the step/end append, and where the loop goes on.   *)
(* max-tokens is sticky.                                                   *)
(***************************************************************************)
StepReturns(stepEnd) ==
  LET ended == IF turnEnds = "max-tokens" THEN turnEnds ELSE stepEnd
  IN /\ turnEnds' = ended
     /\ target' = "next-step"
     /\ pc' = IF ended # "none" /\ nextStep = <<>> /\ abort = "none"
                THEN "stopping" ELSE "boundary"
     /\ UNCHANGED <<phase, abort, wakeRequested, owedWake, turn, step, batch>>

(***************************************************************************)
(* The model stream settles: cut short by the abort (with a delivered      *)
(* prefix, without one, or before it started), failed, or answered.        *)
(***************************************************************************)
StreamEnds ==
  /\ Settles("streaming")
  /\ \/ /\ abort # "none"
        /\ \/ SettleAndLeave("assistant/message", "aborted")
           \/ SettleAndLeave("assistant/attempt", "aborted")
           \/ LeaveInStep("aborted")
     \/ /\ abort = "none" /\ "throws" \in Outcomes
        /\ \/ SettleAndLeave("assistant/attempt", "error")
           \/ LeaveInStep("error")
     \/ /\ abort = "none" /\ "fails" \in Outcomes
        /\ Commit(StepEvent("assistant/attempt", turn, step))
        /\ pc' = "recovering"
        /\ UNCHANGED <<phase, abort, wakeRequested, owedWake, position>>
     \/ /\ abort = "none" /\ "tools" \in Outcomes
        /\ Commit(StepEvent("assistant/message", turn, step))
        /\ pc' = "executing"
        /\ UNCHANGED <<phase, abort, wakeRequested, owedWake, position>>
     \/ /\ abort = "none"
        /\ \E stepEnd \in {"completed"} \cup ({"max-tokens"} \cap Outcomes) :
             StepReturns(stepEnd)
        /\ Commit2(StepEvent("assistant/message", turn, step),
                   StepEvent("step/end", turn, step))
  /\ UNCHANGED <<inbox, ledger, calls>>

(***************************************************************************)
(* The request-error waterfall: a retry prepares a new attempt in the same *)
(* step, anything else is terminal.                                        *)
(***************************************************************************)
Recovered ==
  /\ Settles("recovering")
  /\ \/ abort # "none" /\ LeaveInStep("aborted")
     \/ abort = "none" /\ LeaveInStep("error")
     \/ /\ abort = "none" /\ "retries" \in Outcomes
        /\ pc' = "preparing"
        /\ UNCHANGED <<phase, abort, wakeRequested, owedWake, position, log>>
  /\ UNCHANGED <<inbox, ledger, calls>>

(***************************************************************************)
(* executeToolCalls(): a committed result's context joins the next step's  *)
(* input; the batch drains also under an abort, or the scheduler throws.   *)
(***************************************************************************)
AcceptContext(m) ==
  /\ Settles("executing")
  /\ "context" \in Outcomes
  /\ Fresh(m)
  /\ InsertLast("next-step", m)
  /\ UNCHANGED <<activity, position, discarded, ledger, log, calls>>

ToolsDone ==
  /\ Settles("executing")
  /\ \/ \E concluded \in BOOLEAN :
          /\ concluded \/ step < MaxStep
          /\ StepReturns(IF concluded THEN "completed" ELSE "none")
          /\ Commit(StepEvent("step/end", turn, step))
     \/ /\ "throws" \in Outcomes
        /\ LeaveInStep(IF abort # "none" THEN "aborted" ELSE "error")
  /\ UNCHANGED <<inbox, ledger, calls>>

(***************************************************************************)
(* The turn-stopping hook, after which the inbox is read again.            *)
(***************************************************************************)
Stopping ==
  /\ Settles("stopping")
  /\ \/ /\ \/ abort # "none" /\ LeaveBetweenSteps("aborted")
           \/ abort = "none" /\ "throws" \in Outcomes /\ LeaveBetweenSteps("error")
           \/ abort = "none" /\ nextStep = <<>> /\ FinishTurn
        /\ UNCHANGED <<inbox, ledger>>
     \/ abort = "none" /\ nextStep # <<>> /\ ProposeNext
  /\ UNCHANGED calls

(***************************************************************************)
(* The end of turn(): pending work gets a fresh controller and another     *)
(* turn, whose latch starts empty.                                         *)
(***************************************************************************)
\* Mutant of LookForWork: one turn answers one wake.
LookForNoWork ==
  /\ pc = "closed" /\ pc' = "drained"
  /\ UNCHANGED <<phase, abort, wakeRequested, owedWake, position, inbox, ledger, log, calls>>

\* Mutant of LookForWork: the next turn goes on counting steps.
LookForWorkKeepsStep ==
  /\ pc = "closed"
  /\ IF HasPending
       THEN abort' = "none" /\ wakeRequested' = FALSE /\ pc' = "looping"
       ELSE pc' = "drained" /\ UNCHANGED <<abort, wakeRequested>>
  /\ UNCHANGED <<phase, owedWake, position, inbox, ledger, log, calls>>

LookForWork ==
  /\ pc = "closed"
  /\ IF HasPending
       THEN /\ abort' = "none"
            /\ wakeRequested' = FALSE
            /\ step' = 0
            /\ pc' = "looping"
            /\ UNCHANGED <<turn, target, turnEnds, batch>>
       ELSE /\ pc' = "drained"
            /\ UNCHANGED <<abort, wakeRequested, position>>
  /\ UNCHANGED <<phase, owedWake, inbox, ledger, log, calls>>

(***************************************************************************)
(* kick()'s finally: the phase turns idle and tells its listeners; a latch *)
(* captured before that is replayed after them if work is pending.         *)
(***************************************************************************)
TurnIdle(owed) ==
  /\ phase' = "idle"
  /\ pc' = "idle"
  /\ owedWake' = owed
  /\ abort' = "none"
  /\ wakeRequested' = FALSE
  /\ step' = 0
  /\ target' = "next-turn"
  /\ turnEnds' = "none"
  /\ batch' = <<>>
  /\ UNCHANGED <<turn, inbox, ledger, log, calls>>

\* Mutants of KickReturns: the latch is dropped with the phase; the phase is
\* not released when turn() throws or a disposal aborts it.
KickDropsLatch == (Settles("drained") \/ Settles("stopped")) /\ TurnIdle(FALSE)
KickWithoutFinally == Settles("drained") /\ TurnIdle(wakeRequested)
KickWithoutDisposal ==
  /\ abort # Disposed
  /\ Settles("drained") \/ Settles("stopped")
  /\ TurnIdle(wakeRequested)

KickReturns ==
  /\ Settles("drained") \/ Settles("stopped")
  /\ TurnIdle(wakeRequested)

ReplayWake ==
  /\ owedWake /\ NoSend
  /\ pc \notin Notifying \cup Publishing
  /\ owedWake' = FALSE
  /\ IF HasPending
       THEN WakeDriver(FALSE)
       ELSE UNCHANGED <<phase, pc, abort, wakeRequested, position>>
  /\ UNCHANGED <<inbox, ledger, log, calls>>

-----------------------------------------------------------------------------
Init ==
  /\ phase = "idle" /\ pc = "idle" /\ abort = "none"
  /\ wakeRequested = FALSE /\ owedWake = FALSE
  /\ turn = 0 /\ step = 0 /\ target = "next-turn" /\ turnEnds = "none"
  /\ batch = <<>>
  /\ nextTurn = <<>> /\ nextStep = <<>>
  /\ queuedAs = [m \in Messages |-> "unsent"]
  /\ claimedIn = [m \in Messages |-> 0]
  /\ discarded = {}
  /\ admittedIn = [m \in Messages |-> <<>>]
  /\ trace = FreshTrace /\ refused = {}
  /\ sending = "none" /\ cancels = 0 /\ disposal = "none"

Driver ==
  \/ TurnBegins \/ ProposeStep \/ Assembled \/ Decided \/ Prepared \/ StreamEnds
  \/ Recovered \/ ToolsDone \/ Stopping \/ LookForWork \/ KickReturns \/ ReplayWake
  \/ SendReturns \/ EndMaintenance

Caller ==
  \/ \E m \in Messages : Followup(m) \/ Steer(m) \/ Inject(m) \/ Remove(m)
  \/ \E m \in Messages, to \in Targets : Prepend(m, to)
  \/ \E m, n \in Messages : Replace(m, n)
  \/ \E cause \in Causes, keepInbox \in BOOLEAN : Cancel(cause, keepInbox)
  \/ BeginMaintenance
  \/ Dispose

Next ==
  \/ Driver
  \/ \E m \in Messages : AcceptContext(m)
  \/ Caller
  \/ WhenIdleResolves

Spec == Init /\ [][Next]_vars

(***************************************************************************)
(* The event loop runs every ready continuation, and what the driver       *)
(* awaits (assembly, hooks, model, tools, a maintenance job) settles: the  *)
(* driver sets no timeout of its own on any of them.  Request-error hooks  *)
(* give up some time: the retry plugin has a finite maxRetries in its      *)
(* normal mode (llm/llm-retry/src/index.ts:223).  Callers owe nothing.     *)
(***************************************************************************)
Fairness ==
  /\ WF_vars(Driver) /\ WF_vars(WhenIdleResolves)
  /\ SF_vars(Recovered /\ pc' # "preparing")

LiveSpec == Spec /\ Fairness

-----------------------------------------------------------------------------
(***************************************************************************)
(* Properties.                                                             *)
(***************************************************************************)
Reasons == {"none", "completed", "max-tokens", "blocked", "aborted", "error"}

\* Every variable stays in its type (the shapes Phase and InboxState declare).
TypeOK ==
  /\ phase \in {"idle", "maintenance", "running"}
  /\ pc \in {"idle", "maintaining"} \cup Awaits \cup Notifying \cup Publishing
  /\ abort \in AllCauses \cup {"none"}
  /\ wakeRequested \in BOOLEAN /\ owedWake \in BOOLEAN
  /\ turn \in Nat /\ step \in Nat
  /\ target \in Targets /\ turnEnds \in Reasons
  /\ batch \in Seq(Messages)
  /\ nextTurn \in Seq(Messages) /\ nextStep \in Seq(Messages)
  /\ queuedAs \in [Messages -> Targets \cup {"unsent"}]
  /\ claimedIn \in [Messages -> Nat]
  /\ discarded \subseteq Messages
  /\ admittedIn \in [Messages -> Seq(Nat)]
  /\ trace \in Traces({}) /\ refused \subseteq EventTypes
  /\ sending \in {"none", "live", "afterAbort"}
  /\ cancels \in Nat /\ disposal \in {"none", "draining", "done"}

(***************************************************************************)
(* The log grammar (session/src/invariant.ts): whatever callers, hooks and *)
(* streams do between the driver's awaits, no event it appends is out of   *)
(* place: turns and steps nest, close once and number consecutively across *)
(* aborts, rejections, retries and replayed drivers.                       *)
(***************************************************************************)
LogWellFormed == refused = {}

(***************************************************************************)
(* "Live drivers need no latch, disposal never latches": a latch set on an *)
(* idle or live phase would start a turn nobody asked for when the         *)
(* activity ends.                                                          *)
(***************************************************************************)
LatchOnlyWhenOwed ==
  wakeRequested => \/ phase = "maintenance"
                   \/ phase = "running" /\ abort # "none"

(***************************************************************************)
(* The inductive strengthening of the two properties above: the places of  *)
(* the driver, the class a waking send captured, and the trace of the log  *)
(* agree with each other at every place other code can run.                *)
(***************************************************************************)
InStep    == {"preparing", "streaming", "recovering", "executing"}
InTurn    == {"boundary", "assembling", "deciding", "stopping"}

Places ==
  /\ phase = "idle" <=> pc = "idle"
  /\ pc \in Publishing => NoSend
  /\ sending = "afterAbort" => phase # "idle" /\ abort # "none"

TraceAt(openTurn, openStep, next) ==
  /\ trace.openTurn = openTurn /\ trace.openStep = openStep
  /\ trace.nextTurn = next

LogPosition ==
  /\ pc \in InStep => /\ TraceAt(turn, step, turn) /\ trace.nextStep = step
                     /\ turn # 0 /\ step # 0
  /\ pc \in InTurn => /\ TraceAt(turn, 0, turn) /\ trace.nextStep = step + 1
                     /\ turn # 0
  /\ pc \notin InStep \cup InTurn => TraceAt(0, 0, turn + 1)
  /\ pc \in {"notified", "looping"} => step = 0

Inductive == TypeOK /\ LatchOnlyWhenOwed /\ LogWellFormed /\ Places /\ LogPosition

(***************************************************************************)
(* "The item becomes the sole ordinary message of its own turn": no turn   *)
(* claims two messages that were queued for a turn of their own.           *)
(***************************************************************************)
OwnTurn ==
  \A m, n \in Messages :
    (/\ m # n
     /\ queuedAs[m] = "next-turn" /\ queuedAs[n] = "next-turn"
     /\ claimedIn[m] # 0) => claimedIn[m] # claimedIn[n]

(***************************************************************************)
(* A retry repeats neither the claim nor the admission: the log carries a  *)
(* user message at most once, in the turn that claimed it, and never one   *)
(* that was discarded from the inbox.                                      *)
(***************************************************************************)
AdmittedOnce ==
  \A m \in Messages :
    /\ admittedIn[m] \in {<<>>, <<claimedIn[m]>>}
    /\ admittedIn[m] # <<>> => claimedIn[m] # 0
    /\ m \in discarded => claimedIn[m] = 0

(***************************************************************************)
(* The durable inbox neither loses nor duplicates input: a submitted       *)
(* message is pending at exactly one position, or claimed, or discarded.   *)
(***************************************************************************)
Occurrences(m) ==
  Cardinality({i \in DOMAIN nextTurn : nextTurn[i] = m})
  + Cardinality({i \in DOMAIN nextStep : nextStep[i] = m})

Conserved ==
  \A m \in Messages :
    Occurrences(m) + (IF claimedIn[m] # 0 THEN 1 ELSE 0)
                   + (IF m \in discarded THEN 1 ELSE 0)
      = (IF queuedAs[m] = "unsent" THEN 0 ELSE 1)

\* Input is accounted for through the inbox, the claim and the log.
InputAccounted == Conserved /\ OwnTurn /\ AdmittedOnce

(***************************************************************************)
(* Cancellation before the request is prepared commits none of the step's  *)
(* input, and an aborted turn sends no further request.                    *)
(***************************************************************************)
AbortCommitsNothing ==
  [][abort # "none" => admittedIn' = admittedIn /\ ~(pc # "streaming" /\ pc' = "streaming")]_vars

(***************************************************************************)
(* Work queued before an abort with keepInbox stays parked: once a driver  *)
(* has ended, only a wake or a latched wake starts the next one.  A driver *)
(* that starts in the step that ends another activity owes it to a latch.  *)
(***************************************************************************)
ParkedStaysParked ==
  [][ (phase # "running" /\ phase' = "running") =>
        wakeRequested \/ owedWake \/ ~NoSend ]_vars

(***************************************************************************)
(* A wake latched behind an aborted activity or a maintenance job opens a  *)
(* turn once that activity converges, unless the inbox is emptied or a     *)
(* further cancel or the disposal intervenes.                              *)
(***************************************************************************)
LatchedWakeRuns ==
  \A n \in 0 .. Cardinality(Messages), c \in 0 .. MaxCancels :
    (wakeRequested /\ disposal = "none" /\ turn = n /\ cancels = c)
      ~> (turn > n \/ ~HasPending \/ cancels > c \/ disposal # "none")

(***************************************************************************)
(* Cancellation converges: the aborted activity ends, whatever its callers *)
(* go on to do ("a whenIdle() waiter registered before a pre-step cancel   *)
(* resolves").                                                             *)
(***************************************************************************)
CancelConverges == (phase # "idle" /\ abort # "none") ~> abort = "none"

(***************************************************************************)
(* Disposal reaches the detachment of the agent, unless somebody starts    *)
(* another maintenance job each time the agent comes to rest.              *)
(***************************************************************************)
DisposalEnds ==
  (disposal = "draining") ~> (disposal = "done" \/ phase = "maintenance")

(***************************************************************************)
(* "Live drivers claim queued work themselves": input pending before the   *)
(* driver's last look at the inbox is eventually claimed or withdrawn,     *)
(* unless an abort, a rejection or a failure takes the driver to its exit. *)
(***************************************************************************)
LiveDriverServes ==
  \A m \in Messages :
    (m \in Pending /\ phase = "running" /\ abort = "none" /\ pc \notin {"drained", "stopped"})
      ~> (m \notin Pending \/ abort # "none" \/ pc = "stopped")

\* No wake is lost: neither one a live driver should serve, nor a latched one.
WakesServed == LiveDriverServes /\ LatchedWakeRuns

\* What was cancelled converges, and a disposal gets to the detachment.
ActivitiesEnd == CancelConverges /\ DisposalEnds

(***************************************************************************)
(* What the comments promise and a run refutes.                            *)
(***************************************************************************)
\* agent.ts:192: "disposal never latches, so teardown waits on no model turn".
TeardownWaitsOnNoTurn ==
  [][(disposal = "draining" /\ phase = "idle" /\ owedWake /\ NoSend) => phase' # "running"]_vars

=============================================================================
