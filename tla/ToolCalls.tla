------------------------------ MODULE ToolCalls ------------------------------
(***************************************************************************)
(* executeToolCalls(): the scheduler of one step's tool calls              *)
(* (core/agent-loop/src/tool-calls.ts) over the staged execution of the    *)
(* tool registry (core/tools/src/index.ts).                                *)
(*                                                                         *)
(* Calls are numbered 1 .. N in model order.  Gates and commits run in     *)
(* that order; only dispatched calls overlap.  place names the await, or   *)
(* the synchronous stretch, at which the scheduler stands.                 *)
(***************************************************************************)
EXTENDS Naturals, Sequences, FiniteSets

CONSTANTS
  N,            \* how many calls the assistant message carries
  MaxParallel,  \* the config's maxParallelToolCalls
  Faults        \* which of "rejects" (scheduler failures), "errors", "shortcuts"
                \* (a tools/execute wrapper answers for the body) may happen

ASSUME SizeAssumption == N \in Nat \ {0} /\ MaxParallel \in Nat \ {0}

Calls == 1 .. N
Modes == {"parallel", "exclusive"}

VARIABLES
  place,        \* "classify", "fill", "gate", "commit", "race", "draining", "done", "failed"
  next,         \* calls consumed by earlier groups
  mode,         \* the current group's concurrency mode
  nextToStart,  \* calls whose start completed
  committed,    \* calls whose result is committed, in model order
  aborted,      \* the scheduler's own view of the abort signal
  failure,      \* a scheduler failure was recorded
  inFlight,     \* calls whose dispatch promise was not yet taken from the race
  signal,       \* the step's abort signal
  stage,        \* how far each call is
  startedAs,    \* the mode each call was classified as when it started
  outcome,      \* what each call's slot holds
  invoked,      \* calls whose body was entered
  results       \* the calls of the tool/result events, in log order

group == <<next, mode, nextToStart, committed>>
flags == <<aborted, failure, signal>>
work  == <<inFlight, stage, startedAs, outcome, invoked>>
vars  == <<place, group, flags, work, results>>

-----------------------------------------------------------------------------
\* The last call the current group may start.
GroupEnd == IF mode = "parallel" THEN N ELSE next + 1

Active(c)  == stage[c] \in {"wrapping", "body"}
Settled(c) == stage[c] \in {"slot", "final", "committed", "lost"}
Filled(c)  == stage[c] \in {"slot", "final"}

\* A result the caller's cancellation replaces, by whether the body started.
Cancelled(c) == IF c \in invoked THEN "aborted" ELSE "before-dispatch"

Slot(c, s, o) ==
  /\ stage' = [stage EXCEPT ![c] = s]
  /\ outcome' = [outcome EXCEPT ![c] = o]

-----------------------------------------------------------------------------
(***************************************************************************)
(* The next group starts with the first unconsumed call, classified now:   *)
(* an exclusive call is a barrier of its own.                              *)
(***************************************************************************)
Classify ==
  /\ place = "classify"
  /\ IF next = N
       THEN place' = "done" /\ UNCHANGED <<group, aborted>>
       ELSE /\ mode' \in Modes
            /\ nextToStart' = next /\ committed' = next
            /\ aborted' = signal
            /\ place' = "fill"
            /\ UNCHANGED next
  /\ UNCHANGED <<failure, signal, work, results>>

(***************************************************************************)
(* fillPool(): start the next call if the abort, the pool and its current  *)
(* classification let it; otherwise wait for the race or end the group.    *)
(***************************************************************************)
Stopped == aborted \/ signal
HasRoom == ~Stopped /\ nextToStart < GroupEnd /\ Cardinality(inFlight) < MaxParallel

StartCall(c, as) ==
  /\ stage' = [stage EXCEPT ![c] = "gate"]
  /\ startedAs' = [startedAs EXCEPT ![c] = as]
  /\ place' = "gate"
  /\ UNCHANGED <<group, inFlight, outcome, invoked, results>>

\* Every call that was not started gets its call and result events at once.
SkipRest ==
  LET left == {c \in Calls : c > nextToStart}
  IN /\ stage' = [c \in Calls |-> IF c \in left THEN "skipped" ELSE stage[c]]
     /\ outcome' = [c \in Calls |-> IF c \in left THEN "before-dispatch" ELSE outcome[c]]
     /\ results' = results \o [i \in 1 .. N - nextToStart |-> nextToStart + i]
     /\ place' = "done"
     /\ UNCHANGED <<group, inFlight, startedAs, invoked>>

GroupEnds ==
  IF Stopped THEN SkipRest
  ELSE /\ next' = nextToStart
       /\ place' = "classify"
       /\ UNCHANGED <<mode, nextToStart, committed, work, results>>

\* Mutant of Fill: the classification is not read again for later calls.
FillStale ==
  /\ place = "fill" /\ ~failure
  /\ aborted' = Stopped
  /\ IF HasRoom
       THEN \E as \in Modes : StartCall(nextToStart + 1, as)
       ELSE IF inFlight # {}
              THEN place' = "race" /\ UNCHANGED <<group, work, results>>
              ELSE GroupEnds
  /\ UNCHANGED <<failure, signal>>

\* Mutant of Fill: an abort is seen only at the start of a group.
FillDeaf ==
  /\ place = "fill" /\ ~failure
  /\ IF ~aborted /\ nextToStart < GroupEnd /\ Cardinality(inFlight) < MaxParallel
       THEN StartCall(nextToStart + 1, mode)
       ELSE IF inFlight # {}
              THEN place' = "race" /\ UNCHANGED <<group, work, results>>
              ELSE GroupEnds
  /\ UNCHANGED flags

Fill ==
  /\ place = "fill" /\ ~failure
  /\ aborted' = Stopped
  /\ \/ HasRoom /\ StartCall(nextToStart + 1, mode)
     \/ /\ ~HasRoom \/ (mode = "parallel" /\ nextToStart > next)
        /\ IF inFlight # {}
             THEN place' = "race" /\ UNCHANGED <<group, work, results>>
             ELSE GroupEnds
  /\ UNCHANGED <<failure, signal>>

\* A recorded failure leaves for the drain at the scheduler's next check.
FailureSeen ==
  /\ place = "fill" /\ failure
  /\ place' = "draining"
  /\ UNCHANGED <<group, flags, work, results>>

(***************************************************************************)
(* prepare(): the ordered gate decides whether the call is dispatched, or  *)
(* already has a result.  A failure recorded meanwhile stops the dispatch. *)
(***************************************************************************)
GateReturns ==
  LET c == nextToStart + 1
  IN /\ place = "gate"
     /\ IF failure
          THEN /\ Slot(c, "lost", "none")
               /\ place' = "draining"
               /\ UNCHANGED <<nextToStart, inFlight>>
          ELSE /\ \/ /\ ~signal
                     /\ Slot(c, "wrapping", "none")
                     /\ inFlight' = inFlight \cup {c}
                  \/ /\ signal \/ "errors" \in Faults
                     /\ Slot(c, "slot", "before-dispatch")
                     /\ UNCHANGED inFlight
                  \/ /\ "errors" \in Faults
                     /\ Slot(c, "slot", "error") \/ Slot(c, "final", "error")
                     /\ UNCHANGED inFlight
               /\ nextToStart' = c
               /\ place' = "commit"
     /\ UNCHANGED <<next, mode, committed, flags, startedAs, invoked, results>>

GateRejects ==
  /\ place = "gate" /\ "rejects" \in Faults
  /\ Slot(nextToStart + 1, "lost", "none")
  /\ failure' = TRUE
  /\ place' = "draining"
  /\ UNCHANGED <<group, aborted, signal, inFlight, startedAs, invoked, results>>

(***************************************************************************)
(* dispatch(): the tools/execute wrappers, then the body unless the signal *)
(* was aborted meanwhile.                                                  *)
(***************************************************************************)
EnterBody(c) ==
  /\ stage[c] = "wrapping"
  /\ ~signal
  /\ stage' = [stage EXCEPT ![c] = "body"]
  /\ invoked' = invoked \cup {c}
  /\ UNCHANGED <<place, group, flags, inFlight, startedAs, outcome, results>>

\* The wrappers answer without the body: aborted, failed or short-circuited.
BodySkipped(c) ==
  /\ stage[c] = "wrapping"
  /\ \/ signal /\ Slot(c, "slot", "before-dispatch")
     \/ "errors" \in Faults /\ (Slot(c, "slot", "error") \/ Slot(c, "final", "error"))
     \/ "shortcuts" \in Faults /\ Slot(c, "slot", IF signal THEN Cancelled(c) ELSE "ok")
  /\ UNCHANGED <<place, group, flags, inFlight, startedAs, invoked, results>>

BodyReturns(c) ==
  /\ stage[c] = "body"
  /\ \/ Slot(c, "slot", IF signal THEN "aborted" ELSE "ok")
     \/ "errors" \in Faults /\ (Slot(c, "slot", "error") \/ Slot(c, "final", "error"))
  /\ UNCHANGED <<place, group, flags, inFlight, startedAs, invoked, results>>

\* The dispatch promise rejects: a scheduler failure, with no slot.
DispatchRejects(c) ==
  /\ "rejects" \in Faults
  /\ Active(c)
  /\ Slot(c, "lost", "none")
  /\ failure' = TRUE
  /\ UNCHANGED <<place, group, aborted, signal, inFlight, startedAs, invoked, results>>

(***************************************************************************)
(* Promise.race over the pool, and the ordered commit of contiguous slots. *)
(* post-execute may still fail a result, or find the signal aborted.       *)
(***************************************************************************)
\* Mutant of Race: a rejected dispatch is never taken from the pool.
RaceFilledOnly ==
  /\ place = "race"
  /\ \E c \in inFlight : Filled(c) /\ inFlight' = inFlight \ {c}
  /\ place' = IF failure THEN "draining" ELSE "commit"
  /\ UNCHANGED <<group, flags, stage, startedAs, outcome, invoked, results>>

Race ==
  /\ place = "race"
  /\ \E c \in inFlight : Settled(c) /\ inFlight' = inFlight \ {c}
  /\ place' = IF failure THEN "draining" ELSE "commit"
  /\ UNCHANGED <<group, flags, stage, startedAs, outcome, invoked, results>>

Finalized(c) ==
  CASE stage[c] = "final"              -> {outcome[c]}
    [] signal /\ outcome[c] = "ok"     -> {Cancelled(c)}
    [] OTHER                           -> {outcome[c]}

\* Mutant of CommitNext: any filled slot is committed, in settlement order.
CommitAny ==
  /\ place = "commit"
  /\ \E c \in Calls :
       /\ Filled(c)
       /\ stage' = [stage EXCEPT ![c] = "committed"]
       /\ results' = Append(results, c)
  /\ committed' = committed + 1
  /\ UNCHANGED <<place, next, mode, nextToStart, flags, inFlight, startedAs, outcome, invoked>>

\* Mutant of CommitNext: cancellation names every result alike.
CommitCancelled ==
  LET c == committed + 1
  IN /\ place = "commit" /\ c <= GroupEnd /\ Filled(c)
     /\ Slot(c, "committed", IF signal THEN "before-dispatch" ELSE outcome[c])
     /\ results' = Append(results, c)
     /\ committed' = c
     /\ UNCHANGED <<place, next, mode, nextToStart, flags, inFlight, startedAs, invoked>>

CommitNext ==
  LET c == committed + 1
  IN /\ place = "commit"
     /\ c <= GroupEnd /\ Filled(c)
     /\ \E o \in Finalized(c) \cup (IF stage[c] = "slot" THEN {"error"} \cap Faults ELSE {}) :
          Slot(c, "committed", o)
     /\ results' = Append(results, c)
     /\ committed' = c
     /\ UNCHANGED <<place, next, mode, nextToStart, flags, inFlight, startedAs, invoked>>

CommitStops ==
  /\ place = "commit"
  /\ committed < GroupEnd => ~Filled(committed + 1)
  /\ place' = "fill"
  /\ UNCHANGED <<group, flags, work, results>>

CommitRejects ==
  /\ place = "commit" /\ "rejects" \in Faults
  /\ committed < GroupEnd /\ Filled(committed + 1)
  /\ failure' = TRUE
  /\ place' = "draining"
  /\ UNCHANGED <<group, aborted, signal, work, results>>

\* Mutant of Drained: the failure is rethrown at once.
DrainedAtOnce ==
  /\ place = "draining"
  /\ place' = "failed"
  /\ UNCHANGED <<group, flags, work, results>>

\* Promise.allSettled over the pool, then the first failure is rethrown.
Drained ==
  /\ place = "draining"
  /\ \A c \in inFlight : Settled(c)
  /\ place' = "failed"
  /\ UNCHANGED <<group, flags, work, results>>

\* Any code may abort the step's signal, once.
Abort ==
  /\ ~signal /\ place \notin {"done", "failed"}
  /\ signal' = TRUE
  /\ UNCHANGED <<place, group, aborted, failure, work, results>>

-----------------------------------------------------------------------------
Init ==
  /\ place = "classify" /\ next = 0 /\ mode = "parallel"
  /\ nextToStart = 0 /\ committed = 0
  /\ aborted = FALSE /\ failure = FALSE /\ signal = FALSE
  /\ inFlight = {} /\ invoked = {}
  /\ stage = [c \in Calls |-> "planned"]
  /\ startedAs = [c \in Calls |-> "none"]
  /\ outcome = [c \in Calls |-> "none"]
  /\ results = <<>>

Scheduler ==
  \/ Classify \/ Fill \/ FailureSeen \/ GateReturns \/ GateRejects
  \/ Race \/ CommitNext \/ CommitStops \/ CommitRejects \/ Drained

Tool(c) == EnterBody(c) \/ BodySkipped(c) \/ BodyReturns(c) \/ DispatchRejects(c)

Next == Scheduler \/ (\E c \in Calls : Tool(c)) \/ Abort

Spec == Init /\ [][Next]_vars

\* Gates, wrappers, bodies and post-execute hooks settle: the scheduler itself
\* has no timeout and "cancellation never abandons the body".
Fairness == WF_vars(Scheduler) /\ \A c \in Calls : WF_vars(Tool(c))

LiveSpec == Spec /\ Fairness
-----------------------------------------------------------------------------
(***************************************************************************)
(* Properties.                                                             *)
(***************************************************************************)
Places == {"classify", "fill", "gate", "commit", "race", "draining", "done", "failed"}
Stages == {"planned", "gate", "wrapping", "body", "slot", "final", "lost",
           "committed", "skipped"}
Outcome == {"none", "ok", "error", "aborted", "before-dispatch"}

\* Every variable stays in its type (runGroup's locals and the Slot shape).
TypeOK ==
  /\ place \in Places /\ mode \in Modes
  /\ next \in 0 .. N /\ nextToStart \in 0 .. N /\ committed \in 0 .. N
  /\ aborted \in BOOLEAN /\ failure \in BOOLEAN /\ signal \in BOOLEAN
  /\ inFlight \subseteq Calls /\ invoked \subseteq Calls
  /\ stage \in [Calls -> Stages]
  /\ startedAs \in [Calls -> Modes \cup {"none"}]
  /\ outcome \in [Calls -> Outcome]
  /\ results \in Seq(Calls)

(***************************************************************************)
(* "Exclusive calls form barriers, parallel calls use a bounded rolling    *)
(* pool": the calls in dispatch are one call that was classified exclusive *)
(* or a pool of parallel ones, whatever the registry says of them by then. *)
(***************************************************************************)
BoundedOverlap ==
  LET active == {c \in Calls : Active(c)}
  IN  \/ Cardinality(active) <= 1
      \/ /\ Cardinality(active) <= MaxParallel
         /\ \A c \in active : startedAs[c] = "parallel"

(***************************************************************************)
(* "Results remain model-ordered and replay stays valid": the log answers  *)
(* the calls in the order of the assistant message although they settle in *)
(* any order and some are skipped; when the batch returns, aborted or not, *)
(* every call has its one result.                                          *)
(***************************************************************************)
AnsweredInOrder ==
  /\ \A i \in DOMAIN results : results[i] = i
  /\ place = "done" => Len(results) = N

(***************************************************************************)
(* A committed result's code tells the truth about the body: one aborted   *)
(* before dispatch never entered it, one aborted or successful did (unless *)
(* a wrapper answers for the body).                                        *)
(***************************************************************************)
CodesTruthful ==
  \A c \in Calls : stage[c] \in {"committed", "skipped"} =>
    /\ outcome[c] = "before-dispatch" => c \notin invoked
    /\ outcome[c] = "aborted" => c \in invoked
    /\ outcome[c] = "ok" => c \in invoked \/ "shortcuts" \in Faults

\* "Abort stops starts": once the signal is aborted no further call reaches its
\* gate, and none that is past it enters its body.
AbortStartsNothing ==
  [][signal => /\ invoked' = invoked
               /\ \A c \in Calls : stage[c] = "planned" => stage'[c] # "gate"]_vars

\* The scheduler returns and rethrows only after every started body settled.
QuiescentEnd == place \in {"done", "failed"} => \A c \in Calls : ~Active(c)

\* The batch leaves a complete, ordered answer and nothing running behind it.
BatchAnswered == AnsweredInOrder /\ QuiescentEnd

\* The batch ends, whatever fails or aborts, provided what it awaits settles.
Ends == <>(place \in {"done", "failed"})

=============================================================================
