----------------------------- MODULE SessionLog -----------------------------
(***************************************************************************)
(* The relational grammar of the session event log: the trace the          *)
(* session-invariant companion keeps beside a live log, the events it      *)
(* accepts, and the transition each accepted event makes.                  *)
(*                                                                         *)
(* An event is a record with the fields the grammar reads.  0 stands for   *)
(* the null of openTurn and openStep; turn and step numbers start at 1.    *)
(* Sequence numbers are the positions of the log and are not repeated in   *)
(* the trace.                                                              *)
(***************************************************************************)
EXTENDS Naturals, Sequences, FiniteSets

(***************************************************************************)
(* Events, by the constructor the loop appends them with.                  *)
(***************************************************************************)
TurnStart(t) == [type |-> "turn/start", turn |-> t]
TurnEnd(t)   == [type |-> "turn/end", turn |-> t]

StepEvents == {"step/start", "step/end", "system/message",
               "assistant/message", "assistant/attempt"}

StepEvent(type, t, s) == [type |-> type, turn |-> t, step |-> s]

(***************************************************************************)
(* user/message is unconstrained; request/header and request/context only  *)
(* have to lie inside some open turn.                                      *)
(***************************************************************************)
PlainEvent(type) == [type |-> type]

ToolCall(t, s, c) == [type |-> "tool/call", turn |-> t, step |-> s, call |-> c]

(***************************************************************************)
(* A result is synthetic when crash recovery writes it for a call whose    *)
(* start was never recorded (error code TOOL_NOT_STARTED).                 *)
(***************************************************************************)
ToolResult(t, s, c, notStarted) ==
  [type |-> "tool/result", turn |-> t, step |-> s, call |-> c,
   notStarted |-> notStarted]

-----------------------------------------------------------------------------

EventTypes ==
  StepEvents \cup {"turn/start", "turn/end", "tool/call", "tool/result",
                  "user/message", "request/header", "request/context"}

\* The traces over a set of tool call identities.
Traces(calls) == [openTurn : Nat, openStep : Nat, nextTurn : Nat, nextStep : Nat,
                  pendingCalls : SUBSET calls]

FreshTrace == [openTurn |-> 0, openStep |-> 0, nextTurn |-> 1, nextStep |-> 1,
               pendingCalls |-> {}]

InOpenStep(trace, e) == trace.openTurn = e.turn /\ trace.openStep = e.step

(***************************************************************************)
(* Whether the companion lets event e be appended after a log with this    *)
(* trace.  A refused event vetoes the append before the log changes.       *)
(***************************************************************************)
Accepts(trace, e) ==
  /\ e.type = "turn/start" => /\ trace.openTurn = 0
                              /\ e.turn = trace.nextTurn
  /\ e.type = "turn/end"   => /\ trace.openTurn = e.turn
                              /\ trace.openStep = 0
  /\ e.type = "step/start" => /\ trace.openTurn = e.turn
                              /\ trace.openStep = 0
                              /\ e.step = trace.nextStep
  /\ e.type \in (StepEvents \ {"step/start"}) \cup {"tool/call", "tool/result"}
       => InOpenStep(trace, e)
  /\ e.type = "tool/result" => e.call \in trace.pendingCalls \/ e.notStarted
  /\ e.type \in {"request/header", "request/context"} => trace.openTurn # 0

(***************************************************************************)
(* The committed trace after event e.                                      *)
(***************************************************************************)
Apply(trace, e) ==
  CASE e.type = "turn/start" ->
         [trace EXCEPT !.openTurn = e.turn, !.nextStep = 1]
    [] e.type = "turn/end" ->
         [trace EXCEPT !.openTurn = 0, !.nextTurn = @ + 1]
    [] e.type = "step/start" ->
         [trace EXCEPT !.openStep = e.step]
    [] e.type = "step/end" ->
         [trace EXCEPT !.openStep = 0, !.nextStep = @ + 1, !.pendingCalls = {}]
    [] e.type = "tool/call" ->
         [trace EXCEPT !.pendingCalls = @ \cup {e.call}]
    [] e.type = "tool/result" ->
         [trace EXCEPT !.pendingCalls = @ \ {e.call}]
    [] OTHER -> trace

=============================================================================
