--------------------------- MODULE SessionRecovery ---------------------------
(***************************************************************************)
(* One persisted session across process crashes: the turns a live agent    *)
(* appends to its log (core/agent-loop), the checkpoints that hold back    *)
(* model requests and tool bodies until the log before them is durable     *)
(* (session-checkpoint-policy), and the repair with which the next process *)
(* closes an interrupted turn (core/session/src/repair.ts, resumeWith).    *)
(*                                                                         *)
(* The turn and the step of the live driver are those its log has open, so *)
(* they are read off the log.  A step with several calls runs them side by *)
(* side; ToolCalls models the scheduler itself.                            *)
(***************************************************************************)
EXTENDS SessionLog, SequencesExt

CONSTANTS
  Messages,     \* prompts a user may send
  MaxTurn,      \* bound: turns of the session
  MaxStep,      \* bound: steps of a turn
  MaxCalls,     \* bound: tool calls of one assistant message
  MaxCrashes,   \* bound: process deaths
  Failures      \* may live work fail: rejected steps, failed checkpoints and
                \* streams, aborted tools

ASSUME RecoveryAssumption ==
  /\ MaxTurn \in Nat /\ MaxStep \in Nat /\ MaxCalls \in Nat /\ MaxCrashes \in Nat
  /\ Failures \in BOOLEAN

Calls == 1 .. MaxCalls

VARIABLES
  pc,       \* where the process stands; "down" when none owns the session
  log,      \* the events of the live session, or of the file when down
  trace,    \* the grammar's reading of log
  stored,   \* how many of them a write acknowledged as durable
  mark,     \* the log length the pending checkpoint waits for
  batch,    \* the messages claimed for the proposed step
  tool,     \* per call of the open step: how far it is
  crashes,  \* process deaths so far
  sent,     \* history: the log prefix behind each dispatched model request
  ran       \* history: <<turn, step, call>> of each tool body entered

effects == <<sent, ran>>
vars == <<pc, log, trace, stored, mark, batch, tool, crashes, effects>>

-----------------------------------------------------------------------------
(***************************************************************************)
(* Events beside those of SessionLog, and what is folded from a log.       *)
(***************************************************************************)
Inserted(m) == [type |-> "agent/inbox/spliced", message |-> m, op |-> "insert"]
Claimed(m)  == [type |-> "agent/inbox/spliced", message |-> m, op |-> "claim"]
UserMessage(m) == [type |-> "user/message", message |-> m]
AssistantMessage(t, s, calls) ==
  [type |-> "assistant/message", turn |-> t, step |-> s, calls |-> calls]

Trace(events) ==
  LET read[i \in 0 .. Len(events)] ==
        IF i = 0 THEN FreshTrace ELSE Apply(read[i - 1], events[i])
  IN read[Len(events)]

\* The next-turn inbox the projection rebuilds from a log, splice by splice.
Splice(queue, e) ==
  CASE e.type = "agent/inbox/spliced" /\ e.op = "insert" -> Append(queue, e.message)
    [] e.type = "agent/inbox/spliced" /\ e.op = "claim"  -> RemoveFirst(queue, e.message)
    [] OTHER -> queue

Queue(events) ==
  LET left[i \in 0 .. Len(events)] ==
        IF i = 0 THEN <<>> ELSE Splice(left[i - 1], events[i])
  IN left[Len(events)]

-----------------------------------------------------------------------------
(***************************************************************************)
(* interruptedTurnClosers(): the scan keeps the open turn and step and, in *)
(* transcript order, the requested calls without a result; a call is       *)
(* marked once a tool/call event recorded its start.                       *)
(***************************************************************************)
NothingOpen == [turn |-> 0, step |-> 0, pending |-> <<>>, started |-> {}]

\* Mutant of ScanEvent: a result does not settle its call.
ScanKeepsAnswered(open, e) ==
  CASE e.type = "turn/start" -> [NothingOpen EXCEPT !.turn = e.turn]
    [] e.type = "turn/end"   -> NothingOpen
    [] e.type = "step/start" -> [open EXCEPT !.step = e.step]
    [] e.type = "step/end"   -> [NothingOpen EXCEPT !.turn = open.turn]
    [] e.type = "assistant/message" ->
         [open EXCEPT !.pending = @ \o [i \in 1 .. e.calls |-> i]]
    [] e.type = "tool/call"  -> [open EXCEPT !.started = @ \cup {e.call}]
    [] OTHER -> open

ScanEvent(open, e) ==
  CASE e.type = "turn/start" -> [NothingOpen EXCEPT !.turn = e.turn]
    [] e.type = "turn/end"   -> NothingOpen
    [] e.type = "step/start" -> [open EXCEPT !.step = e.step]
    [] e.type = "step/end"   -> [NothingOpen EXCEPT !.turn = open.turn]
    [] e.type = "assistant/message" ->
         [open EXCEPT !.pending = @ \o [i \in 1 .. e.calls |-> i]]
    [] e.type = "tool/call"  -> [open EXCEPT !.started = @ \cup {e.call}]
    [] e.type = "tool/result" -> [open EXCEPT !.pending = RemoveFirst(@, e.call)]
    [] OTHER -> open

Scan(events) ==
  LET scan[i \in 0 .. Len(events)] ==
        IF i = 0 THEN NothingOpen ELSE ScanEvent(scan[i - 1], events[i])
  IN scan[Len(events)]

\* Mutants of Closers: the open step is left open; a call that was never
\* started gets no result.
ClosersWithoutStep(events) ==
  LET open == Scan(events)
      Result(c) == ToolResult(open.turn, open.step, c, c \notin open.started)
  IN IF open.turn = 0 THEN <<>>
     ELSE [i \in DOMAIN open.pending |-> Result(open.pending[i])] \o <<TurnEnd(open.turn)>>

ClosersOfStarted(events) ==
  LET open == Scan(events)
      left == SelectSeq(open.pending, LAMBDA c : c \in open.started)
      Result(c) == ToolResult(open.turn, open.step, c, FALSE)
  IN IF open.turn = 0 THEN <<>>
     ELSE [i \in DOMAIN left |-> Result(left[i])]
          \o (IF open.step = 0 THEN <<>>
              ELSE <<StepEvent("step/end", open.turn, open.step)>>)
          \o <<TurnEnd(open.turn)>>

Closers(events) ==
  LET open == Scan(events)
      Result(c) == ToolResult(open.turn, open.step, c, c \notin open.started)
  IN IF open.turn = 0 THEN <<>>
     ELSE [i \in DOMAIN open.pending |-> Result(open.pending[i])]
          \o (IF open.step = 0 THEN <<>>
              ELSE <<StepEvent("step/end", open.turn, open.step)>>)
          \o <<TurnEnd(open.turn)>>

-----------------------------------------------------------------------------
Live == pc \notin {"down", "repairing"}
Turn == trace.openTurn
Step == trace.openStep
NoCalls == [c \in Calls |-> "none"]

\* Session.append(): the event is live at once and durable some time later.
Log(events) ==
  /\ log' = log \o events
  /\ trace' = Trace(log')

TurnCloses == <<TurnEnd(Turn)>>
StepCloses == <<StepEvent("step/end", Turn, Step)>>

\* The driver's turn ends; its claimed batch and its calls are gone.
ToIdle ==
  /\ pc' = "idle" /\ mark' = 0 /\ batch' = <<>> /\ tool' = NoCalls

\* Wait for the log, the given events included, to be durable.
Checkpoint(place, events) ==
  /\ pc' = place
  /\ Log(events)
  /\ mark' = Len(log) + Len(events)

Durable == stored >= mark

(***************************************************************************)
(* The mounted backend's write-behind drains its whole buffer.  The step   *)
(* stands where the batch is captured: what is appended until the write is *)
(* acknowledged follows it, and a crash before that is a crash without it. *)
(***************************************************************************)
Persist ==
  /\ Live /\ stored < Len(log)
  /\ stored' = Len(log)
  /\ UNCHANGED <<pc, log, trace, mark, batch, tool, crashes, effects>>

-----------------------------------------------------------------------------
(***************************************************************************)
(* The live agent.                                                         *)
(***************************************************************************)
Send(m) ==
  /\ Live
  /\ \A i \in DOMAIN log : log[i] # Inserted(m)
  /\ Log(<<Inserted(m)>>)
  /\ UNCHANGED <<pc, stored, mark, batch, tool, crashes, effects>>

\* turn() opens the turn and claims one prompt; agent/pre-step flushes both.
StartTurn ==
  /\ pc = "idle" /\ Queue(log) # <<>>
  /\ trace.nextTurn <= MaxTurn
  /\ LET m == Head(Queue(log))
     IN /\ Checkpoint("pre-step", <<TurnStart(trace.nextTurn), Claimed(m)>>)
        /\ batch' = <<m>>
  /\ UNCHANGED <<stored, tool, crashes, effects>>

EnterStep ==
  /\ pc = "pre-step" /\ Durable
  /\ pc' = "preparing"
  /\ Log(<<StepEvent("step/start", Turn, trace.nextStep)>>)
  /\ UNCHANGED <<stored, mark, batch, tool, crashes, effects>>

\* The decision rejects the step, or its checkpoint failed the turn.
StepRefused ==
  /\ pc = "pre-step" /\ Failures
  /\ Log(TurnCloses)
  /\ ToIdle
  /\ UNCHANGED <<stored, crashes, effects>>

\* The step appends its input and the request; llm/stream flushes them.
LogRequest ==
  /\ pc = "preparing"
  /\ Checkpoint("requesting",
                [i \in DOMAIN batch |-> UserMessage(batch[i])] \o <<PlainEvent("request/header")>>)
  /\ batch' = <<>>
  /\ UNCHANGED <<stored, tool, crashes, effects>>

\* Mutant of SendRequest: the adapter is called without the flush.
SendUnflushed ==
  /\ pc = "requesting"
  /\ pc' = "streaming"
  /\ sent' = sent \cup {SubSeq(log, 1, mark)}
  /\ UNCHANGED <<log, trace, stored, mark, batch, tool, crashes, ran>>

SendRequest ==
  /\ pc = "requesting" /\ Durable
  /\ pc' = "streaming"
  /\ sent' = sent \cup {SubSeq(log, 1, mark)}
  /\ UNCHANGED <<log, trace, stored, mark, batch, tool, crashes, ran>>

\* Preparation, checkpoint or stream fails: the step and the turn are closed.
StepFails ==
  /\ pc \in {"preparing", "requesting", "streaming"} /\ Failures
  /\ Log(StepCloses \o TurnCloses)
  /\ ToIdle
  /\ UNCHANGED <<stored, crashes, effects>>

Answer(n) ==
  /\ pc = "streaming"
  /\ pc' = "tools"
  /\ Log(<<AssistantMessage(Turn, Step, n)>>)
  /\ tool' = [c \in Calls |-> IF c <= n THEN "planned" ELSE "none"]
  /\ UNCHANGED <<stored, mark, batch, crashes, effects>>

\* The step's work is done: another step flushes first, or the turn ends.
StepEnds ==
  /\ pc = "tools"
  /\ \A c \in Calls : tool[c] \in {"none", "committed"}
  /\ \/ /\ trace.nextStep <= MaxStep
        /\ Checkpoint("pre-step", StepCloses)
        /\ tool' = NoCalls
        /\ UNCHANGED batch
     \/ /\ Log(StepCloses \o TurnCloses)
        /\ ToIdle
  /\ UNCHANGED <<stored, crashes, effects>>

-----------------------------------------------------------------------------
(***************************************************************************)
(* Tool calls.  A call's checkpoint waits at least for its own tool/call.  *)
(***************************************************************************)
ToolTo(c, stage) == tool' = [tool EXCEPT ![c] = stage]

Recorded(c) ==
  \E i \in 1 .. stored : log[i] = ToolCall(Turn, Step, c)

StartCall(c) ==
  /\ pc = "tools" /\ tool[c] = "planned"
  /\ \A d \in 1 .. c - 1 : tool[d] # "planned"
  /\ Log(<<ToolCall(Turn, Step, c)>>)
  /\ ToolTo(c, "flushing")
  /\ UNCHANGED <<pc, stored, mark, batch, crashes, effects>>

\* Mutant of RunBody: the tool runs while its call is still buffered.
RunUnflushed(c) ==
  /\ pc = "tools" /\ tool[c] = "flushing"
  /\ ToolTo(c, "body")
  /\ ran' = ran \cup {<<Turn, Step, c>>}
  /\ UNCHANGED <<pc, log, trace, stored, mark, batch, crashes, sent>>

RunBody(c) ==
  /\ pc = "tools" /\ tool[c] = "flushing" /\ Recorded(c)
  /\ ToolTo(c, "body")
  /\ ran' = ran \cup {<<Turn, Step, c>>}
  /\ UNCHANGED <<pc, log, trace, stored, mark, batch, crashes, sent>>

\* The body returns; or its flush failed, or it was aborted while it flushed.
ToolSettles(c) ==
  /\ pc = "tools"
  /\ tool[c] = "body" \/ (tool[c] = "flushing" /\ Failures)
  /\ ToolTo(c, "settled")
  /\ UNCHANGED <<pc, log, trace, stored, mark, batch, crashes, effects>>

CommitResult(c) ==
  /\ pc = "tools" /\ tool[c] = "settled"
  /\ \A d \in 1 .. c - 1 : tool[d] = "committed"
  /\ Log(<<ToolResult(Turn, Step, c, FALSE)>>)
  /\ ToolTo(c, "committed")
  /\ UNCHANGED <<pc, stored, mark, batch, crashes, effects>>

\* An abort answers at once the calls that were not started.
SkipCalls ==
  LET left == {c \in Calls : tool[c] = "planned"}
      Skipped(i) ==
        LET c == Min(left) + ((i - 1) \div 2)
        IN IF i % 2 = 1 THEN ToolCall(Turn, Step, c)
           ELSE ToolResult(Turn, Step, c, FALSE)
  IN /\ pc = "tools" /\ left # {} /\ Failures
     /\ \A c \in Calls \ left : tool[c] \in {"none", "committed"}
     /\ Log([i \in 1 .. 2 * Cardinality(left) |-> Skipped(i)])
     /\ tool' = [c \in Calls |-> IF c \in left THEN "committed" ELSE tool[c]]
     /\ UNCHANGED <<pc, stored, mark, batch, crashes, effects>>

-----------------------------------------------------------------------------
\* Mutant of Crash: an acknowledged batch is still in the page cache only.
CrashLosesBatch ==
  /\ pc # "down" /\ crashes < MaxCrashes
  /\ \E k \in 0 .. Len(log) :
       /\ log' = SubSeq(log, 1, k)
       /\ trace' = Trace(log')
       /\ stored' = k
  /\ pc' = "down" /\ mark' = 0 /\ batch' = <<>> /\ tool' = NoCalls
  /\ crashes' = crashes + 1
  /\ UNCHANGED effects

(***************************************************************************)
(* The process dies.  What was acknowledged survives; of the rest, the     *)
(* file may hold any prefix a write in flight had reached.                 *)
(***************************************************************************)
Crash ==
  /\ pc # "down" /\ crashes < MaxCrashes
  /\ LET written == IF pc = "repairing" THEN log \o Closers(log) ELSE log
     IN \E k \in stored .. Len(written) :
          /\ log' = SubSeq(written, 1, k)
          /\ trace' = Trace(log')
          /\ stored' = k
  /\ pc' = "down" /\ mark' = 0 /\ batch' = <<>> /\ tool' = NoCalls
  /\ crashes' = crashes + 1
  /\ UNCHANGED effects

\* resumeWith(): ownership is taken and the valid log read; closers, if any,
\* are appended as an ordinary batch before the agent is published.
Resume ==
  /\ pc = "down"
  /\ pc' = IF Closers(log) = <<>> THEN "idle" ELSE "repairing"
  /\ UNCHANGED <<log, trace, stored, mark, batch, tool, crashes, effects>>

RepairReturns ==
  /\ pc = "repairing"
  /\ pc' = "idle"
  /\ Log(Closers(log))
  /\ stored' = Len(log')
  /\ UNCHANGED <<mark, batch, tool, crashes, effects>>

\* The append rejects, its bytes rolled back: the resume fails.
RepairRejects ==
  /\ pc = "repairing"
  /\ pc' = "down"
  /\ UNCHANGED <<log, trace, stored, mark, batch, tool, crashes, effects>>

-----------------------------------------------------------------------------
Init ==
  /\ pc = "idle" /\ log = <<>> /\ trace = FreshTrace /\ stored = 0 /\ mark = 0
  /\ batch = <<>> /\ tool = NoCalls
  /\ crashes = 0 /\ sent = {} /\ ran = {}

Agent ==
  \/ StartTurn \/ EnterStep \/ StepRefused \/ LogRequest \/ SendRequest
  \/ StepFails \/ StepEnds
  \/ \E n \in 0 .. MaxCalls : Answer(n)

ToolRuns ==
  \/ \E c \in Calls :
       StartCall(c) \/ RunBody(c) \/ ToolSettles(c) \/ CommitResult(c)
  \/ SkipCalls

Next ==
  \/ \E m \in Messages : Send(m)
  \/ Agent \/ ToolRuns \/ Persist
  \/ Crash \/ Resume \/ RepairReturns \/ RepairRejects

Spec == Init /\ [][Next]_vars
-----------------------------------------------------------------------------
(***************************************************************************)
(* Properties.                                                             *)
(***************************************************************************)
Places == {"down", "repairing", "idle", "pre-step", "preparing", "requesting",
           "streaming", "tools"}
Stages == {"none", "planned", "flushing", "body", "settled", "committed"}

\* The events of a recorded session.
Events ==
  [type : {"agent/inbox/spliced"}, message : Messages, op : {"insert", "claim"}]
  \cup [type : {"user/message"}, message : Messages]
  \cup [type : {"request/header"}]
  \cup [type : {"turn/start", "turn/end"}, turn : Nat]
  \cup [type : {"step/start", "step/end"}, turn : Nat, step : Nat]
  \cup [type : {"assistant/message"}, turn : Nat, step : Nat, calls : Nat]
  \cup [type : {"tool/call"}, turn : Nat, step : Nat, call : Nat]
  \cup [type : {"tool/result"}, turn : Nat, step : Nat, call : Nat,
         notStarted : BOOLEAN]

\* Every variable stays in its type; nothing is durable that was never logged.
TypeOK ==
  /\ pc \in Places
  /\ log \in Seq(Events) /\ trace \in Traces(Nat)
  /\ stored \in 0 .. Len(log) /\ mark \in 0 .. Len(log)
  /\ batch \in Seq(Messages)
  /\ tool \in [Calls -> Stages]
  /\ crashes \in 0 .. MaxCrashes
  /\ sent \subseteq Seq(Events) /\ ran \subseteq Nat \X Nat \X Calls

(***************************************************************************)
(* "The model request is flushed before the adapter stream is constructed":*)
(* whatever crashes follow, the whole log prefix a model was asked with    *)
(* stays at the start of the log, so no later turn is numbered or built as *)
(* if the request had never been made.                                     *)
(***************************************************************************)
RequestDurable == \A prefix \in sent : IsPrefix(prefix, log)

(***************************************************************************)
(* "A recorded call is durable before any external side effect": a call    *)
(* whose body ran keeps its tool/call event across crashes, and recovery   *)
(* never tells the model that it was not started and may be retried.       *)
(***************************************************************************)
RanIsRecorded ==
  \A r \in ran :
    /\ \E i \in DOMAIN log : log[i] = ToolCall(r[1], r[2], r[3])
    /\ \A i \in DOMAIN log : log[i] # ToolResult(r[1], r[2], r[3], TRUE)

(***************************************************************************)
(* The log, recovered parts included, is one the session grammar accepts   *)
(* event by event, and a session that came to rest has no open turn: the   *)
(* closers fit wherever the crash cut the log.                             *)
(***************************************************************************)
Accepted(events) ==
  \A i \in 1 .. Len(events) :
    Accepts(Trace(SubSeq(events, 1, i - 1)), events[i])

LogAccepted == Accepted(log) /\ (pc = "idle" => Turn = 0)

(***************************************************************************)
(* Nothing is done outside on the strength of a record that a crash could  *)
(* still take back: neither a model request nor a tool body.               *)
(***************************************************************************)
CheckpointsHold == RequestDurable /\ RanIsRecorded

(***************************************************************************)
(* The transcript a resumed session sends to the provider has no dangling  *)
(* call: at rest, every call of every assistant message has one result.    *)
(***************************************************************************)
CallsAnswered ==
  pc = "idle" =>
    \A i \in DOMAIN log : log[i].type = "assistant/message" =>
      \A c \in 1 .. log[i].calls :
        Cardinality({j \in DOMAIN log :
          /\ log[j].type = "tool/result" /\ log[j].call = c
          /\ log[j].turn = log[i].turn /\ log[j].step = log[i].step}) = 1

(***************************************************************************)
(* A crash between the closers is repaired like any other: from every      *)
(* prefix of a repair, the next one writes exactly the rest, so the log    *)
(* never depends on how often the repair was interrupted.                  *)
(***************************************************************************)
RepairContinues ==
  LET closers == Closers(log)
  IN pc \in {"down", "repairing"} => \A k \in 0 .. Len(closers) :
       Closers(log \o SubSeq(closers, 1, k)) = SubSeq(closers, k + 1, Len(closers))

(***************************************************************************)
(* The closers fit the cut, wherever it is and however often it is made.   *)
(***************************************************************************)
RepairFits == LogAccepted /\ RepairContinues

(***************************************************************************)
(* Writes, crashes and repairs of the model stay within the promise of the *)
(* persistence seam, the one the storage handles implement (JsonlHandle).  *)
(***************************************************************************)
Seam == INSTANCE DurableLog WITH accepted <- log, promised <- stored

DurabilityKept == Seam!Spec

=============================================================================
