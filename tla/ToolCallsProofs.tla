--------------------------- MODULE ToolCallsProofs ---------------------------
(***************************************************************************)
(* Proofs about ToolCalls for any number of calls, any pool and any faults.*)
(***************************************************************************)
EXTENDS ToolCalls, FiniteSetTheorems, SequenceTheorems, TLAPS

(***************************************************************************)
(* The inductive invariant.                                                *)
(***************************************************************************)
\* The cursors of a group follow each other.
Cursors ==
  /\ next <= committed /\ committed <= nextToStart /\ nextToStart <= GroupEnd
  /\ place = "classify" => nextToStart = next
  /\ place \notin {"classify", "done"} => next < N
  /\ place = "gate" => nextToStart < GroupEnd

\* Where the calls behind the started ones may be.
Unstarted(c) ==
  IF place = "gate" /\ c = nextToStart + 1 THEN {"gate"}
  ELSE IF place = "done" THEN {"skipped"}
  ELSE IF place \in {"draining", "failed"} THEN {"planned", "lost"}
  ELSE {"planned"}

\* How far a call is, by the cursors.
Staged ==
  \A c \in Calls :
    /\ c <= committed => stage[c] = "committed"
    /\ committed < c /\ c <= nextToStart =>
         stage[c] \in {"wrapping", "body", "slot", "final", "lost"}
    /\ nextToStart < c => stage[c] \in Unstarted(c)
    /\ stage[c] = "lost" => failure

\* The pool holds every call in dispatch, of one mode and of one group.
Pool ==
  /\ \A c \in inFlight : next < c /\ c <= nextToStart
  /\ \A c \in Calls : Active(c) => c \in inFlight
  /\ \A c \in Calls : next < c /\ c <= nextToStart => startedAs[c] = mode
  /\ place = "gate" => startedAs[nextToStart + 1] = mode
  /\ Cardinality(inFlight) <= MaxParallel
  /\ place = "gate" => Cardinality(inFlight) < MaxParallel

\* What the scheduler waits for.
Waiting ==
  /\ place \in {"classify", "done"} => inFlight = {}
  /\ place = "failed" => \A c \in Calls : ~Active(c)
  /\ place = "fill" /\ committed < nextToStart => committed + 1 \in inFlight \/ failure

Answered ==
  /\ \A i \in DOMAIN results : results[i] = i
  /\ Len(results) = IF place = "done" THEN N ELSE committed

\* What an outcome may say of the body.
CodeFits(c) ==
  /\ outcome[c] = "before-dispatch" => c \notin invoked
  /\ outcome[c] = "aborted" => c \in invoked
  /\ outcome[c] = "ok" => c \in invoked \/ "shortcuts" \in Faults

Codes ==
  \A c \in Calls :
    /\ stage[c] \in {"planned", "gate", "wrapping", "skipped"} => c \notin invoked
    /\ stage[c] = "body" => c \in invoked
    /\ stage[c] \in {"slot", "final", "committed", "skipped"} => CodeFits(c)

Inductive == TypeOK /\ Cursors /\ Staged /\ Pool /\ Waiting /\ Answered /\ Codes

-----------------------------------------------------------------------------
(***************************************************************************)
(* Lemmas.                                                                 *)
(***************************************************************************)
LEMMA SlotEffect ==
  ASSUME TypeOK, NEW c \in Calls, NEW s \in Stages, NEW o \in Outcome, Slot(c, s, o)
  PROVE  /\ stage' \in [Calls -> Stages] /\ outcome' \in [Calls -> Outcome]
         /\ stage'[c] = s /\ outcome'[c] = o
         /\ \A d \in Calls \ {c} : stage'[d] = stage[d] /\ outcome'[d] = outcome[d]
<1>1. stage \in [Calls -> Stages] /\ outcome \in [Calls -> Outcome]
  BY DEF TypeOK
<1> QED BY <1>1 DEF Slot

LEMMA PoolFinite ==
  ASSUME TypeOK
  PROVE  IsFiniteSet(inFlight) /\ Cardinality(inFlight) \in Nat
<1>1. IsFiniteSet(Calls)
  BY SizeAssumption, FS_Interval DEF Calls
<1>2. IsFiniteSet(inFlight)
  BY <1>1, FS_Subset DEF TypeOK
<1> QED BY <1>2, FS_CardinalityType

LEMMA AppendEffect ==
  ASSUME TypeOK, Answered, place # "done", committed < N, results' = Append(results, committed + 1)
  PROVE  /\ results' \in Seq(Calls) /\ Len(results') = committed + 1
         /\ \A i \in DOMAIN results' : results'[i] = i
<1>1. results \in Seq(Calls) /\ Len(results) = committed /\ committed + 1 \in Calls
  BY SizeAssumption DEF TypeOK, Answered, Calls
<1>2. results' \in Seq(Calls) /\ Len(results') = committed + 1
  BY <1>1
<1>3. \A i \in 1 .. committed : results'[i] = i
  BY <1>1 DEF Answered
<1>4. results'[committed + 1] = committed + 1
  BY <1>1
<1>5. DOMAIN results' = 1 .. committed + 1
  BY <1>2
<1> QED BY <1>1, <1>2, <1>3, <1>4, <1>5 DEF TypeOK

\* A tool's own step changes one active call, and nothing the group is at.
LEMMA ToolStep ==
  ASSUME Inductive, NEW c \in Calls, Tool(c)
  PROVE  Inductive'
<1>0. TypeOK /\ Cursors /\ Staged /\ Pool /\ Waiting /\ Answered /\ Codes
  BY DEF Inductive
<1>1. Active(c)
  BY DEF Tool, EnterBody, BodySkipped, BodyReturns, DispatchRejects, Active
<1>2. UNCHANGED <<place, group, aborted, signal, inFlight, startedAs, results>>
  BY DEF Tool, EnterBody, BodySkipped, BodyReturns, DispatchRejects, flags
<1>3. /\ stage' \in [Calls -> Stages] /\ outcome' \in [Calls -> Outcome]
      /\ invoked' \subseteq Calls /\ failure' \in BOOLEAN
      /\ stage'[c] \in {"body", "slot", "final", "lost"}
      /\ \A d \in Calls \ {c} : stage'[d] = stage[d] /\ outcome'[d] = outcome[d]
      /\ failure => failure'
      /\ stage'[c] = "lost" => failure'
      /\ \A d \in Calls \ {c} : d \in invoked' <=> d \in invoked
      /\ stage'[c] = "body" => c \in invoked'
      /\ stage'[c] \in {"slot", "final"} => CodeFits(c)'
  <2>1. CASE EnterBody(c)
    <3>1. stage \in [Calls -> Stages] /\ invoked \subseteq Calls /\ failure \in BOOLEAN
          /\ outcome \in [Calls -> Outcome]
      BY <1>0 DEF TypeOK
    <3>2. /\ stage' = [stage EXCEPT ![c] = "body"] /\ invoked' = invoked \cup {c}
          /\ UNCHANGED <<failure, outcome>>
      BY <2>1 DEF EnterBody, flags
    <3> QED BY <3>1, <3>2 DEF Stages
  <2>2. CASE BodySkipped(c)
    <3>1. /\ UNCHANGED <<failure, invoked>> /\ c \notin invoked
          /\ \E s \in {"slot", "final"}, o \in Outcome :
               /\ Slot(c, s, o)
               /\ o \in {"before-dispatch", "error"} \/ (o = "ok" /\ "shortcuts" \in Faults)
      BY <1>0, <2>2 DEF BodySkipped, flags, Codes, Outcome, Cancelled
    <3>2. PICK s \in {"slot", "final"}, o \in Outcome :
            /\ Slot(c, s, o)
            /\ o \in {"before-dispatch", "error"} \/ (o = "ok" /\ "shortcuts" \in Faults)
      BY <3>1
    <3>3. s \in Stages
      BY DEF Stages
    <3>4. /\ stage' \in [Calls -> Stages] /\ outcome' \in [Calls -> Outcome]
          /\ stage'[c] = s /\ outcome'[c] = o
          /\ \A d \in Calls \ {c} : stage'[d] = stage[d] /\ outcome'[d] = outcome[d]
      BY <1>0, <3>2, <3>3, SlotEffect
    <3>5. CodeFits(c)'
      BY <3>1, <3>2, <3>4 DEF CodeFits
    <3>6. invoked \subseteq Calls /\ failure \in BOOLEAN
      BY <1>0 DEF TypeOK
    <3> QED BY <3>1, <3>4, <3>5, <3>6
  <2>3. CASE BodyReturns(c)
    <3>1. /\ UNCHANGED <<failure, invoked>> /\ c \in invoked
          /\ \E s \in {"slot", "final"}, o \in {"aborted", "ok", "error"} : Slot(c, s, o)
      BY <1>0, <2>3 DEF BodyReturns, flags, Codes
    <3>2. PICK s \in {"slot", "final"}, o \in {"aborted", "ok", "error"} : Slot(c, s, o)
      BY <3>1
    <3>3. s \in Stages /\ o \in Outcome
      BY DEF Stages, Outcome
    <3>4. /\ stage' \in [Calls -> Stages] /\ outcome' \in [Calls -> Outcome]
          /\ stage'[c] = s /\ outcome'[c] = o
          /\ \A d \in Calls \ {c} : stage'[d] = stage[d] /\ outcome'[d] = outcome[d]
      BY <1>0, <3>2, <3>3, SlotEffect
    <3>5. CodeFits(c)'
      BY <3>1, <3>2, <3>4 DEF CodeFits
    <3>6. invoked \subseteq Calls /\ failure \in BOOLEAN
      BY <1>0 DEF TypeOK
    <3> QED BY <3>1, <3>4, <3>5, <3>6
  <2>4. CASE DispatchRejects(c)
    <3>1. Slot(c, "lost", "none") /\ failure' = TRUE /\ UNCHANGED invoked
      BY <2>4 DEF DispatchRejects
    <3>2. "lost" \in Stages /\ "none" \in Outcome
      BY DEF Stages, Outcome
    <3>3. /\ stage' \in [Calls -> Stages] /\ outcome' \in [Calls -> Outcome]
          /\ stage'[c] = "lost"
          /\ \A d \in Calls \ {c} : stage'[d] = stage[d] /\ outcome'[d] = outcome[d]
      BY <1>0, <3>1, <3>2, SlotEffect
    <3>4. invoked \subseteq Calls
      BY <1>0 DEF TypeOK
    <3> QED BY <3>1, <3>3, <3>4
  <2> QED BY <2>1, <2>2, <2>3, <2>4 DEF Tool
<1>4. TypeOK'
  BY <1>0, <1>2, <1>3 DEF TypeOK, group
<1>5. committed < c /\ c <= nextToStart
  <2>1. c \in inFlight /\ next \in 0 .. N /\ committed \in 0 .. N /\ nextToStart \in 0 .. N /\ c \in 1 .. N
    BY <1>0, <1>1 DEF Pool, TypeOK, Calls
  <2>2. c <= nextToStart
    BY <1>0, <2>1 DEF Pool
  <2>3. ~(c <= committed)
    BY <1>0, <1>1 DEF Staged, Active
  <2> QED BY <2>1, <2>2, <2>3
<1>6. Cursors'
  BY <1>0, <1>2 DEF Cursors, group, GroupEnd
<1>7. Staged'
  <2>1. \A d \in Calls : Unstarted(d)' = Unstarted(d)
    BY <1>2 DEF Unstarted, group
  <2>2. c \in 1 .. N /\ committed \in 0 .. N /\ nextToStart \in 0 .. N
    BY <1>0 DEF TypeOK, Calls
  <2>3. committed' = committed /\ nextToStart' = nextToStart
    BY <1>2 DEF group
  <2> QED BY <1>0, <1>3, <1>5, <2>1, <2>2, <2>3 DEF Staged
<1>8. Pool'
  BY <1>0, <1>1, <1>2, <1>3 DEF Pool, Active, group
<1>9. Waiting'
  BY <1>0, <1>1, <1>2, <1>3 DEF Waiting, Active, group
<1>10. Answered'
  BY <1>0, <1>2 DEF Answered, group
<1>11. Codes'
  BY <1>0, <1>3 DEF Codes, CodeFits
<1> QED BY <1>4, <1>6, <1>7, <1>8, <1>9, <1>10, <1>11 DEF Inductive

-----------------------------------------------------------------------------
(***************************************************************************)
(* The scheduler's steps.                                                  *)
(***************************************************************************)
\* The cursors are numbers, and a call is one of them.
LEMMA Numbers ==
  ASSUME TypeOK
  PROVE  /\ N \in Nat \ {0} /\ MaxParallel \in Nat \ {0} /\ Calls = 1 .. N
         /\ next \in 0 .. N /\ committed \in 0 .. N /\ nextToStart \in 0 .. N
         /\ mode \in Modes /\ GroupEnd \in Nat
  BY SizeAssumption DEF TypeOK, Calls, GroupEnd

LEMMA ClassifyStep ==
  ASSUME Inductive, Classify
  PROVE  Inductive'
<1>0. TypeOK /\ Cursors /\ Staged /\ Pool /\ Waiting /\ Answered /\ Codes
  BY DEF Inductive
<1>1. /\ N \in Nat \ {0} /\ Calls = 1 .. N
      /\ next \in 0 .. N /\ committed \in 0 .. N /\ nextToStart \in 0 .. N
  BY <1>0, Numbers
<1>2. place = "classify" /\ next = nextToStart /\ committed = next /\ inFlight = {}
  BY <1>0, <1>1 DEF Classify, Cursors, Waiting
<1>3. UNCHANGED <<failure, signal, inFlight, stage, startedAs, outcome, invoked, results, next>>
  BY DEF Classify, work, group
<1>4. CASE next = N
  <2>1. place' = "done" /\ UNCHANGED <<mode, nextToStart, committed, aborted>>
    BY <1>4 DEF Classify, group
  <2>2. TypeOK'
    BY <1>0, <1>3, <2>1 DEF TypeOK, Places
  <2>3. Cursors'
    BY <1>0, <1>1, <1>2, <1>3, <1>4, <2>1 DEF Cursors, GroupEnd
  <2>4. Staged'
    <3>1. committed = N /\ nextToStart = N /\ committed' = N /\ nextToStart' = N
          /\ stage' = stage /\ failure' = failure
      BY <1>2, <1>3, <1>4, <2>1
    <3>2. \A c \in Calls : c <= N /\ ~(N < c)
      BY <1>1
    <3> QED BY <1>0, <3>1, <3>2 DEF Staged
  <2>5. Pool' /\ Waiting'
    BY <1>0, <1>2, <1>3, <2>1 DEF Pool, Waiting, Active
  <2>6. Answered' /\ Codes'
    BY <1>0, <1>2, <1>3, <1>4, <2>1 DEF Answered, Codes, CodeFits
  <2> QED BY <2>2, <2>3, <2>4, <2>5, <2>6 DEF Inductive
<1>5. CASE next # N
  <2>1. /\ place' = "fill" /\ mode' \in Modes /\ nextToStart' = next /\ committed' = next
        /\ aborted' = signal
    BY <1>5 DEF Classify
  <2>2. TypeOK'
    BY <1>0, <1>3, <2>1 DEF TypeOK, Places
  <2>3. Cursors'
    BY <1>0, <1>1, <1>2, <1>3, <1>5, <2>1 DEF Cursors, GroupEnd
  <2>4. Staged'
    BY <1>0, <1>1, <1>2, <1>3, <2>1 DEF Staged, Unstarted
  <2>5. Pool' /\ Waiting'
    BY <1>0, <1>1, <1>2, <1>3, <2>1 DEF Pool, Waiting, Active
  <2>6. Answered' /\ Codes'
    BY <1>0, <1>2, <1>3, <2>1 DEF Answered, Codes, CodeFits
  <2> QED BY <2>2, <2>3, <2>4, <2>5, <2>6 DEF Inductive
<1> QED BY <1>4, <1>5

\* The next call of the group goes to its gate.
LEMMA StartStep ==
  ASSUME Inductive, Fill, HasRoom, StartCall(nextToStart + 1, mode)
  PROVE  Inductive'
<1>0. TypeOK /\ Cursors /\ Staged /\ Pool /\ Waiting /\ Answered /\ Codes
  BY DEF Inductive
<1>1. /\ N \in Nat \ {0} /\ Calls = 1 .. N /\ mode \in Modes
      /\ next \in 0 .. N /\ committed \in 0 .. N /\ nextToStart \in 0 .. N /\ GroupEnd \in Nat
  BY <1>0, Numbers
<1>2. /\ place = "fill" /\ place' = "gate" /\ aborted' = Stopped
      /\ UNCHANGED <<next, mode, nextToStart, committed, inFlight, outcome, invoked, results,
                     failure, signal>>
      /\ stage' = [stage EXCEPT ![nextToStart + 1] = "gate"]
      /\ startedAs' = [startedAs EXCEPT ![nextToStart + 1] = mode]
  BY DEF Fill, StartCall, group
<1>3. nextToStart < GroupEnd /\ Cardinality(inFlight) < MaxParallel
  BY DEF HasRoom
<1>4. next < N /\ nextToStart + 1 \in Calls
  BY <1>0, <1>1, <1>2, <1>3 DEF Cursors, GroupEnd
<1>5. /\ stage' \in [Calls -> Stages] /\ startedAs' \in [Calls -> Modes \cup {"none"}]
      /\ stage'[nextToStart + 1] = "gate" /\ startedAs'[nextToStart + 1] = mode
      /\ \A c \in Calls \ {nextToStart + 1} :
           stage'[c] = stage[c] /\ startedAs'[c] = startedAs[c]
  <2>1. stage \in [Calls -> Stages] /\ startedAs \in [Calls -> Modes \cup {"none"}]
    BY <1>0 DEF TypeOK
  <2> QED BY <1>1, <1>2, <1>4, <2>1 DEF Stages
<1>6. aborted' \in BOOLEAN
  BY <1>0, <1>2 DEF TypeOK, Stopped
<1>7. TypeOK'
  BY <1>0, <1>2, <1>5, <1>6 DEF TypeOK, Places
<1>8. Cursors'
  BY <1>0, <1>2, <1>3, <1>4 DEF Cursors, GroupEnd
<1>9. Staged'
  <2>1. stage[nextToStart + 1] = "planned"
    BY <1>0, <1>1, <1>2, <1>4 DEF Staged, Unstarted
  <2> QED BY <1>0, <1>1, <1>2, <1>4, <1>5, <2>1 DEF Staged, Unstarted, Cursors
<1>10. Pool'
  BY <1>0, <1>1, <1>2, <1>3, <1>5 DEF Pool, Active
<1>11. Waiting' /\ Answered'
  BY <1>0, <1>2 DEF Waiting, Answered
<1>12. Codes'
  <2>1. stage[nextToStart + 1] = "planned"
    BY <1>0, <1>1, <1>2, <1>4 DEF Staged, Unstarted
  <2> QED BY <1>0, <1>2, <1>4, <1>5, <2>1 DEF Codes, CodeFits
<1> QED BY <1>7, <1>8, <1>9, <1>10, <1>11, <1>12 DEF Inductive

\* The group ends with an empty pool: every call it started is committed.
LEMMA GroupComplete ==
  ASSUME Inductive, place = "fill", ~failure, inFlight = {}
  PROVE  committed = nextToStart
<1>1. TypeOK /\ Cursors /\ Waiting
  BY DEF Inductive
<1>2. committed \in 0 .. N /\ nextToStart \in 0 .. N /\ committed <= nextToStart
  BY <1>1 DEF TypeOK, Cursors
<1> QED BY <1>1, <1>2, SizeAssumption DEF Waiting

LEMMA SkipStep ==
  ASSUME Inductive, Fill, inFlight = {}, SkipRest
  PROVE  Inductive'
<1>0. TypeOK /\ Cursors /\ Staged /\ Pool /\ Waiting /\ Answered /\ Codes
  BY DEF Inductive
<1>1. /\ N \in Nat \ {0} /\ Calls = 1 .. N /\ mode \in Modes
      /\ next \in 0 .. N /\ committed \in 0 .. N /\ nextToStart \in 0 .. N /\ GroupEnd \in Nat
  BY <1>0, Numbers
<1>2. /\ place = "fill" /\ ~failure /\ place' = "done" /\ aborted' = Stopped
      /\ UNCHANGED <<next, mode, nextToStart, committed, inFlight, startedAs, invoked,
                     failure, signal>>
  BY DEF Fill, SkipRest, group
<1>3. /\ stage' = [c \in Calls |-> IF c > nextToStart THEN "skipped" ELSE stage[c]]
      /\ outcome' = [c \in Calls |-> IF c > nextToStart THEN "before-dispatch" ELSE outcome[c]]
  BY DEF SkipRest
<1>4. committed = nextToStart
  BY <1>2, GroupComplete
<1>5. results' \in Seq(Calls) /\ Len(results') = N /\ \A i \in DOMAIN results' : results'[i] = i
  <2> DEFINE rest == [i \in 1 .. N - nextToStart |-> nextToStart + i]
  <2>1. results \in Seq(Calls) /\ Len(results) = nextToStart
    BY <1>0, <1>2, <1>4 DEF TypeOK, Answered
  <2>2. rest \in Seq(Calls) /\ Len(rest) = N - nextToStart
    <3>1. rest \in [1 .. N - nextToStart -> Calls] /\ N - nextToStart \in Nat
      BY <1>1
    <3> QED BY <3>1
  <2>3. results' = results \o rest
    BY DEF SkipRest
  <2> HIDE DEF rest
  <2>4. /\ results' \in Seq(Calls) /\ Len(results') = nextToStart + (N - nextToStart)
        /\ \A i \in 1 .. nextToStart + (N - nextToStart) :
             results'[i] = IF i <= nextToStart THEN results[i] ELSE rest[i - nextToStart]
    BY <2>1, <2>2, <2>3, ConcatProperties
  <2>5. Len(results') = N
    BY <1>1, <2>4
  <2>6. DOMAIN results' = 1 .. N
    BY <2>4, <2>5
  <2>7. DOMAIN results = 1 .. nextToStart
    BY <2>1
  <2>8. ASSUME NEW i \in 1 .. N PROVE results'[i] = i
    <3>1. CASE i <= nextToStart
      BY <1>0, <1>1, <2>4, <2>7, <3>1 DEF Answered
    <3>2. CASE i > nextToStart
      <4>1. i - nextToStart \in 1 .. N - nextToStart
        BY <1>1, <3>2
      <4>2. rest[i - nextToStart] = nextToStart + (i - nextToStart)
        BY <4>1 DEF rest
      <4> QED BY <1>1, <2>4, <3>2, <4>2
    <3> QED BY <1>1, <3>1, <3>2
  <2> QED BY <2>4, <2>5, <2>6, <2>8
<1>6. stage' \in [Calls -> Stages] /\ outcome' \in [Calls -> Outcome] /\ aborted' \in BOOLEAN
  BY <1>0, <1>2, <1>3 DEF TypeOK, Stages, Outcome, Stopped
<1>7. TypeOK'
  BY <1>0, <1>2, <1>5, <1>6 DEF TypeOK, Places
<1>8. Cursors'
  BY <1>0, <1>2 DEF Cursors, GroupEnd
<1>9. Staged'
  BY <1>0, <1>1, <1>2, <1>3 DEF Staged, Unstarted
<1>10. Pool' /\ Waiting'
  <2>1. \A c \in Calls : Active(c)' => Active(c)
    BY <1>3 DEF Active
  <2> QED BY <1>0, <1>2, <2>1 DEF Pool, Waiting
<1>11. Answered'
  BY <1>2, <1>5 DEF Answered
<1>12. Codes'
  <2>1. \A c \in Calls : c > nextToStart => c \notin invoked
    BY <1>0, <1>1, <1>2 DEF Staged, Unstarted, Codes
  <2> QED BY <1>0, <1>2, <1>3, <2>1 DEF Codes, CodeFits
<1> QED BY <1>7, <1>8, <1>9, <1>10, <1>11, <1>12 DEF Inductive

LEMMA FillStep ==
  ASSUME Inductive, Fill
  PROVE  Inductive'
<1>0. TypeOK /\ Cursors /\ Staged /\ Pool /\ Waiting /\ Answered /\ Codes
  BY DEF Inductive
<1>1. /\ place = "fill" /\ ~failure /\ aborted' = Stopped /\ UNCHANGED <<failure, signal>>
      /\ aborted' \in BOOLEAN
  BY <1>0 DEF Fill, TypeOK, Stopped
<1>2. CASE HasRoom /\ StartCall(nextToStart + 1, mode)
  BY <1>2, StartStep
<1>3. CASE place' = "race" /\ UNCHANGED <<group, work, results>>
  <2>1. TypeOK'
    BY <1>0, <1>1, <1>3 DEF TypeOK, Places, group, work
  <2>2. Cursors' /\ Answered' /\ Codes'
    BY <1>0, <1>1, <1>3 DEF Cursors, GroupEnd, Answered, Codes, CodeFits, group, work
  <2>3. Staged' /\ Pool' /\ Waiting'
    BY <1>0, <1>1, <1>3 DEF Staged, Unstarted, Pool, Waiting, Active, group, work
  <2> QED BY <2>1, <2>2, <2>3 DEF Inductive
<1>4. CASE inFlight = {} /\ SkipRest
  BY <1>4, SkipStep
<1>5. CASE /\ inFlight = {} /\ next' = nextToStart /\ place' = "classify"
           /\ UNCHANGED <<mode, nextToStart, committed, work, results>>
  <2>1. committed = nextToStart
    BY <1>1, <1>5, GroupComplete
  <2>2. /\ N \in Nat \ {0} /\ Calls = 1 .. N /\ mode \in Modes
        /\ next \in 0 .. N /\ committed \in 0 .. N /\ nextToStart \in 0 .. N
    BY <1>0, Numbers
  <2>3. TypeOK'
    BY <1>0, <1>1, <1>5 DEF TypeOK, Places, work
  <2>4. Cursors'
    BY <1>5, <2>1, <2>2 DEF Cursors, GroupEnd, Modes
  <2>5. Answered' /\ Codes'
    BY <1>0, <1>1, <1>5 DEF Answered, Codes, CodeFits, work
  <2>6. Staged'
    BY <1>0, <1>1, <1>5 DEF Staged, Unstarted, work
  <2>7. Pool' /\ Waiting'
    BY <1>0, <1>1, <1>5, <2>2 DEF Pool, Waiting, Active, work
  <2> QED BY <2>3, <2>4, <2>5, <2>6, <2>7 DEF Inductive
<1> QED BY <1>2, <1>3, <1>4, <1>5 DEF Fill, GroupEnds

LEMMA FailureSeenStep ==
  ASSUME Inductive, FailureSeen
  PROVE  Inductive'
<1>0. TypeOK /\ Cursors /\ Staged /\ Pool /\ Waiting /\ Answered /\ Codes
  BY DEF Inductive
<1>1. place = "fill" /\ place' = "draining" /\ UNCHANGED <<group, flags, work, results>>
  BY DEF FailureSeen
<1>2. TypeOK'
  BY <1>0, <1>1 DEF TypeOK, Places, group, flags, work
<1>3. Cursors' /\ Answered' /\ Codes'
  BY <1>0, <1>1 DEF Cursors, GroupEnd, Answered, Codes, CodeFits, group, work
<1>4. Staged'
  BY <1>0, <1>1 DEF Staged, Unstarted, group, flags, work
<1>5. Pool' /\ Waiting'
  BY <1>0, <1>1 DEF Pool, Waiting, Active, group, work
<1> QED BY <1>2, <1>3, <1>4, <1>5 DEF Inductive

\* What the gate's call may become, by where the scheduler goes next.
LEMMA GateEffect ==
  ASSUME Inductive, GateReturns
  PROVE  LET c == nextToStart + 1 IN
         /\ stage' \in [Calls -> Stages] /\ outcome' \in [Calls -> Outcome]
         /\ \A d \in Calls \ {c} : stage'[d] = stage[d] /\ outcome'[d] = outcome[d]
         /\ \/ /\ failure /\ place' = "draining" /\ stage'[c] = "lost"
               /\ nextToStart' = nextToStart /\ inFlight' = inFlight
            \/ /\ place' = "commit" /\ nextToStart' = c
               /\ stage'[c] = "wrapping" /\ inFlight' = inFlight \cup {c}
            \/ /\ place' = "commit" /\ nextToStart' = c
               /\ stage'[c] \in {"slot", "final"} /\ inFlight' = inFlight
               /\ outcome'[c] \in {"before-dispatch", "error"}
<1> DEFINE c == nextToStart + 1
<1>0. TypeOK /\ Cursors /\ place = "gate"
  BY DEF Inductive, GateReturns
<1>1. /\ Calls = 1 .. N /\ next \in 0 .. N /\ nextToStart \in 0 .. N /\ N \in Nat
  BY <1>0, Numbers
<1>2. c \in Calls
  BY <1>0, <1>1 DEF Cursors, GroupEnd
<1> HIDE DEF c
<1>3. ASSUME NEW s \in {"lost", "wrapping", "slot", "final"},
             NEW o \in {"none", "before-dispatch", "error"}, Slot(c, s, o)
      PROVE  /\ stage' \in [Calls -> Stages] /\ outcome' \in [Calls -> Outcome]
             /\ stage'[c] = s /\ outcome'[c] = o
             /\ \A d \in Calls \ {c} : stage'[d] = stage[d] /\ outcome'[d] = outcome[d]
  <2>1. s \in Stages /\ o \in Outcome
    BY DEF Stages, Outcome
  <2> QED BY <1>0, <1>2, <1>3, <2>1, SlotEffect
<1>4. CASE failure
  <2>1. Slot(c, "lost", "none") /\ place' = "draining" /\ UNCHANGED <<nextToStart, inFlight>>
    BY <1>4 DEF GateReturns, c
  <2> QED BY <1>3, <1>4, <2>1 DEF c
<1>5. CASE ~failure
  <2>1. place' = "commit" /\ nextToStart' = c
    BY <1>5 DEF GateReturns, c
  <2>2. \/ Slot(c, "wrapping", "none") /\ inFlight' = inFlight \cup {c}
        \/ Slot(c, "slot", "before-dispatch") /\ inFlight' = inFlight
        \/ Slot(c, "slot", "error") /\ inFlight' = inFlight
        \/ Slot(c, "final", "error") /\ inFlight' = inFlight
    BY <1>5 DEF GateReturns, c
  <2>3. CASE Slot(c, "wrapping", "none") /\ inFlight' = inFlight \cup {c}
    BY <1>3, <2>1, <2>3 DEF c
  <2>4. CASE Slot(c, "slot", "before-dispatch") /\ inFlight' = inFlight
    BY <1>3, <2>1, <2>4 DEF c
  <2>5. CASE Slot(c, "slot", "error") /\ inFlight' = inFlight
    BY <1>3, <2>1, <2>5 DEF c
  <2>6. CASE Slot(c, "final", "error") /\ inFlight' = inFlight
    BY <1>3, <2>1, <2>6 DEF c
  <2> QED BY <2>2, <2>3, <2>4, <2>5, <2>6
<1> QED BY <1>4, <1>5

LEMMA GateReturnsStep ==
  ASSUME Inductive, GateReturns
  PROVE  Inductive'
<1>0. TypeOK /\ Cursors /\ Staged /\ Pool /\ Waiting /\ Answered /\ Codes
  BY DEF Inductive
<1>1. /\ N \in Nat \ {0} /\ Calls = 1 .. N /\ MaxParallel \in Nat \ {0}
      /\ next \in 0 .. N /\ committed \in 0 .. N /\ nextToStart \in 0 .. N /\ GroupEnd \in Nat
  BY <1>0, Numbers
<1>2. /\ place = "gate"
      /\ UNCHANGED <<next, mode, committed, aborted, failure, signal, startedAs, invoked, results>>
  BY DEF GateReturns, flags
<1>a. PICK c \in Calls : c = nextToStart + 1
  BY <1>0, <1>1, <1>2 DEF Cursors, GroupEnd
<1>3. next < N /\ c = nextToStart + 1 /\ c <= GroupEnd
  BY <1>0, <1>1, <1>2, <1>a DEF Cursors, GroupEnd
<1>4. /\ stage' \in [Calls -> Stages] /\ outcome' \in [Calls -> Outcome]
      /\ \A d \in Calls \ {c} : stage'[d] = stage[d] /\ outcome'[d] = outcome[d]
  BY <1>3, GateEffect
<1>5. \/ /\ failure /\ place' = "draining" /\ stage'[c] = "lost"
         /\ nextToStart' = nextToStart /\ inFlight' = inFlight
      \/ /\ place' = "commit" /\ nextToStart' = c
         /\ stage'[c] = "wrapping" /\ inFlight' = inFlight \cup {c}
      \/ /\ place' = "commit" /\ nextToStart' = c
         /\ stage'[c] \in {"slot", "final"} /\ inFlight' = inFlight
         /\ outcome'[c] \in {"before-dispatch", "error"}
  BY <1>3, GateEffect
<1>6. stage[c] = "gate" /\ c \notin invoked /\ startedAs[c] = mode /\ c \notin inFlight
  <2>1. stage[c] = "gate"
    BY <1>0, <1>1, <1>2, <1>3 DEF Staged, Unstarted
  <2>2. c \notin inFlight
    BY <1>0, <1>1, <1>3 DEF Pool
  <2> QED BY <1>0, <1>2, <1>3, <2>1, <2>2 DEF Codes, Pool
<1>7. TypeOK'
  <2>1. nextToStart' \in 0 .. N
    BY <1>1, <1>3, <1>5
  <2>2. inFlight \subseteq Calls
    BY <1>0 DEF TypeOK
  <2>3. place' \in Places /\ inFlight' \subseteq Calls
    BY <1>5, <2>2 DEF Places
  <2> QED BY <1>0, <1>2, <1>4, <2>1, <2>3 DEF TypeOK
<1>8. Cursors'
  BY <1>0, <1>1, <1>2, <1>3, <1>5 DEF Cursors, GroupEnd
<1>9. Staged'
  <2>1. ASSUME NEW d \in Calls \ {c}, d <= nextToStart
        PROVE  /\ d <= committed => stage'[d] = "committed"
               /\ committed < d =>
                    stage'[d] \in {"wrapping", "body", "slot", "final", "lost"}
               /\ stage'[d] = "lost" => failure'
    BY <1>0, <1>2, <1>4, <2>1 DEF Staged
  <2>2. ASSUME NEW d \in Calls \ {c}, nextToStart < d
        PROVE  /\ stage'[d] = "planned" /\ ~(d <= committed) /\ ~(d <= nextToStart')
    <3>1. stage[d] = "planned"
      BY <1>0, <1>2, <1>3, <2>2 DEF Staged, Unstarted
    <3> QED BY <1>0, <1>1, <1>3, <1>4, <1>5, <2>2, <3>1 DEF Cursors
  <2>3. ~(c <= committed) /\ (nextToStart' = c \/ nextToStart' = nextToStart)
    BY <1>0, <1>1, <1>3, <1>5 DEF Cursors
  <2>4. \A d \in Calls : "planned" \in Unstarted(d)' \/ place' = "gate" \/ place' = "done"
    BY DEF Unstarted
  <2>5. nextToStart' = nextToStart => "lost" \in Unstarted(c)'
    BY <1>1, <1>3, <1>5 DEF Unstarted
  <2>6. place' # "gate" /\ place' # "done"
    BY <1>5
  <2>7. ASSUME NEW d \in Calls
        PROVE  /\ d <= committed' => stage'[d] = "committed"
               /\ committed' < d /\ d <= nextToStart' =>
                    stage'[d] \in {"wrapping", "body", "slot", "final", "lost"}
               /\ nextToStart' < d => stage'[d] \in Unstarted(d)'
               /\ stage'[d] = "lost" => failure'
    <3>1. CASE d = c
      BY <1>1, <1>2, <1>3, <1>5, <2>3, <2>5, <3>1
    <3>2. CASE d # c /\ d <= nextToStart
      BY <1>1, <1>2, <1>3, <2>1, <2>3, <3>2
    <3>3. CASE d # c /\ nextToStart < d
      BY <1>1, <1>2, <2>2, <2>4, <2>6, <3>3
    <3> QED BY <1>1, <3>1, <3>2, <3>3
  <2> QED BY <2>7 DEF Staged
<1>10. Pool'
  <2>1. inFlight' = inFlight \/ inFlight' = inFlight \cup {c}
    BY <1>5
  <2>2. Cardinality(inFlight') <= MaxParallel
    <3>1. IsFiniteSet(inFlight) /\ Cardinality(inFlight) \in Nat
      BY <1>0, PoolFinite
    <3>2. Cardinality(inFlight \cup {c}) = Cardinality(inFlight) + 1
      BY <1>6, <3>1, FS_AddElement
    <3>3. Cardinality(inFlight) < MaxParallel
      BY <1>0, <1>2 DEF Pool
    <3>4. CASE inFlight' = inFlight
      BY <1>1, <3>1, <3>3, <3>4
    <3>5. CASE inFlight' = inFlight \cup {c}
      BY <1>1, <3>1, <3>2, <3>3, <3>5
    <3> QED BY <2>1, <3>4, <3>5
  <2>3. next < c
    BY <1>0, <1>1, <1>3 DEF Cursors
  <2>4. \A d \in inFlight' : next < d /\ d <= nextToStart'
    <3>1. \A d \in inFlight : next < d /\ d <= nextToStart /\ d \in 1 .. N
      BY <1>0, <1>1 DEF Pool, TypeOK
    <3>2. nextToStart <= nextToStart' /\ nextToStart' \in Nat
      BY <1>1, <1>3, <1>5
    <3>3. \A d \in inFlight : d <= nextToStart'
      BY <1>1, <3>1, <3>2
    <3>4. c \in inFlight' => c <= nextToStart'
      BY <1>1, <1>3, <1>5, <1>6
    <3> QED BY <2>1, <2>3, <3>1, <3>3, <3>4
  <2>5. \A d \in Calls : Active(d)' => d \in inFlight'
    BY <1>0, <1>4, <1>5 DEF Pool, Active
  <2>6. \A d \in Calls : next < d /\ d <= nextToStart' => startedAs[d] = mode
    <3>1. \A d \in Calls : d <= nextToStart' => d = c \/ d <= nextToStart
      BY <1>1, <1>3, <1>5
    <3> QED BY <1>0, <1>6, <3>1 DEF Pool
  <2>7. place' # "gate"
    BY <1>5
  <2> QED BY <1>2, <2>2, <2>4, <2>5, <2>6, <2>7 DEF Pool
<1>11. Waiting'
  BY <1>5 DEF Waiting
<1>12. Answered'
  BY <1>0, <1>2, <1>5 DEF Answered
<1>13. Codes'
  <2>1. ASSUME NEW d \in Calls \ {c}
        PROVE  /\ stage'[d] \in {"planned", "gate", "wrapping", "skipped"} => d \notin invoked'
               /\ stage'[d] = "body" => d \in invoked'
               /\ stage'[d] \in {"slot", "final", "committed", "skipped"} => CodeFits(d)'
    BY <1>0, <1>2, <1>4 DEF Codes, CodeFits
  <2>2. /\ c \notin invoked' /\ stage'[c] # "body"
        /\ stage'[c] \in {"slot", "final", "committed", "skipped"} => CodeFits(c)'
    BY <1>2, <1>5, <1>6 DEF CodeFits
  <2> QED BY <2>1, <2>2 DEF Codes
<1> QED BY <1>7, <1>8, <1>9, <1>10, <1>11, <1>12, <1>13 DEF Inductive

LEMMA GateRejectsStep ==
  ASSUME Inductive, GateRejects
  PROVE  Inductive'
<1>0. TypeOK /\ Cursors /\ Staged /\ Pool /\ Waiting /\ Answered /\ Codes
  BY DEF Inductive
<1>1. /\ N \in Nat \ {0} /\ Calls = 1 .. N
      /\ next \in 0 .. N /\ committed \in 0 .. N /\ nextToStart \in 0 .. N /\ GroupEnd \in Nat
  BY <1>0, Numbers
<1>2. /\ place = "gate" /\ place' = "draining" /\ failure' = TRUE
      /\ UNCHANGED <<next, mode, nextToStart, committed, aborted, signal, inFlight,
                     startedAs, invoked, results>>
  BY DEF GateRejects, group
<1>3. PICK c \in Calls : c = nextToStart + 1
  BY <1>0, <1>1, <1>2 DEF Cursors, GroupEnd
<1>4. /\ stage' \in [Calls -> Stages] /\ outcome' \in [Calls -> Outcome]
      /\ stage'[c] = "lost"
      /\ \A d \in Calls \ {c} : stage'[d] = stage[d] /\ outcome'[d] = outcome[d]
  <2>1. Slot(c, "lost", "none")
    BY <1>3 DEF GateRejects
  <2>2. "lost" \in Stages /\ "none" \in Outcome
    BY DEF Stages, Outcome
  <2> QED BY <1>0, <2>1, <2>2, SlotEffect
<1>5. TypeOK'
  BY <1>0, <1>2, <1>4 DEF TypeOK, Places
<1>6. Cursors'
  BY <1>0, <1>2 DEF Cursors, GroupEnd
<1>7. Staged'
  <2>1. ~(c <= committed) /\ ~(c <= nextToStart)
    BY <1>0, <1>1, <1>3 DEF Cursors
  <2>2. \A d \in Calls \ {c} : nextToStart < d => stage[d] = "planned"
    BY <1>0, <1>2, <1>3 DEF Staged, Unstarted
  <2>3. \A d \in Calls : Unstarted(d)' = {"planned", "lost"}
    BY <1>2 DEF Unstarted
  <2> QED BY <1>0, <1>2, <1>4, <2>1, <2>2, <2>3 DEF Staged
<1>8. Pool' /\ Waiting'
  BY <1>0, <1>2, <1>4 DEF Pool, Waiting, Active
<1>9. Answered' /\ Codes'
  BY <1>0, <1>2, <1>4 DEF Answered, Codes, CodeFits
<1> QED BY <1>5, <1>6, <1>7, <1>8, <1>9 DEF Inductive

LEMMA RaceStep ==
  ASSUME Inductive, Race
  PROVE  Inductive'
<1>0. TypeOK /\ Cursors /\ Staged /\ Pool /\ Waiting /\ Answered /\ Codes
  BY DEF Inductive
<1>1. /\ place = "race" /\ place' \in {"draining", "commit"}
      /\ UNCHANGED <<group, flags, stage, startedAs, outcome, invoked, results>>
  BY DEF Race
<1>2. PICK c \in inFlight : Settled(c) /\ inFlight' = inFlight \ {c}
  BY DEF Race
<1>3. TypeOK'
  BY <1>0, <1>1, <1>2 DEF TypeOK, Places, group, flags
<1>4. Cursors' /\ Answered' /\ Codes'
  BY <1>0, <1>1 DEF Cursors, GroupEnd, Answered, Codes, CodeFits, group
<1>5. Staged'
  BY <1>0, <1>1 DEF Staged, Unstarted, group, flags
<1>6. Pool'
  <2>1. Cardinality(inFlight') <= MaxParallel
    <3>1. IsFiniteSet(inFlight) /\ Cardinality(inFlight) \in Nat
      BY <1>0, PoolFinite
    <3>2. IsFiniteSet(inFlight') /\ Cardinality(inFlight') \in Nat
          /\ Cardinality(inFlight') <= Cardinality(inFlight)
      BY <1>2, <3>1, FS_Subset, FS_CardinalityType
    <3>3. Cardinality(inFlight) <= MaxParallel /\ MaxParallel \in Nat
      BY <1>0, SizeAssumption DEF Pool
    <3> QED BY <3>1, <3>2, <3>3
  <2>2. ~Active(c)
    BY <1>2 DEF Active, Settled
  <2>3. \A d \in Calls : Active(d)' => d \in inFlight'
    BY <1>0, <1>1, <1>2, <2>2 DEF Pool, Active
  <2> QED BY <1>0, <1>1, <1>2, <2>1, <2>3 DEF Pool, group
<1>7. Waiting'
  BY <1>1 DEF Waiting
<1> QED BY <1>3, <1>4, <1>5, <1>6, <1>7 DEF Inductive

LEMMA CommitNextStep ==
  ASSUME Inductive, CommitNext
  PROVE  Inductive'
<1>0. TypeOK /\ Cursors /\ Staged /\ Pool /\ Waiting /\ Answered /\ Codes
  BY DEF Inductive
<1>1. /\ N \in Nat \ {0} /\ Calls = 1 .. N
      /\ next \in 0 .. N /\ committed \in 0 .. N /\ nextToStart \in 0 .. N /\ GroupEnd \in Nat
  BY <1>0, Numbers
<1>2. /\ place = "commit" /\ committed + 1 <= GroupEnd /\ Filled(committed + 1)
      /\ UNCHANGED <<place, next, mode, nextToStart, aborted, failure, signal, inFlight,
                     startedAs, invoked>>
      /\ results' = Append(results, committed + 1) /\ committed' = committed + 1
      /\ \E o \in Finalized(committed + 1)
                    \cup (IF stage[committed + 1] = "slot" THEN {"error"} \cap Faults ELSE {}) :
           Slot(committed + 1, "committed", o)
  BY DEF CommitNext, flags
<1>3. next < N
  BY <1>0, <1>2 DEF Cursors
<1>4. PICK c \in Calls : c = committed + 1
  BY <1>0, <1>1, <1>2, <1>3 DEF GroupEnd
<1>5. c <= nextToStart /\ Filled(c) /\ committed < N
  <2>1. ~(nextToStart < c)
    BY <1>0, <1>2, <1>4 DEF Staged, Unstarted, Filled
  <2> QED BY <1>1, <1>2, <1>4, <2>1
<1>6. PICK o \in Finalized(c) \cup {"error"} : Slot(c, "committed", o)
  BY <1>2, <1>4
<1>7. o \in Outcome /\ (o = "ok" \/ o = "before-dispatch" => o = outcome[c] \/ o = Cancelled(c))
      /\ (o = "aborted" => o = outcome[c] \/ o = Cancelled(c))
  <2>1. outcome[c] \in Outcome
    BY <1>0 DEF TypeOK
  <2>2. Cancelled(c) \in Outcome /\ "error" \in Outcome
    BY DEF Cancelled, Outcome
  <2>3. Finalized(c) \subseteq {outcome[c], Cancelled(c)}
    BY DEF Finalized
  <2> QED BY <1>6, <2>1, <2>2, <2>3
<1>8. /\ stage' \in [Calls -> Stages] /\ outcome' \in [Calls -> Outcome]
      /\ stage'[c] = "committed" /\ outcome'[c] = o
      /\ \A d \in Calls \ {c} : stage'[d] = stage[d] /\ outcome'[d] = outcome[d]
  <2>1. "committed" \in Stages
    BY DEF Stages
  <2> QED BY <1>0, <1>6, <1>7, <2>1, SlotEffect
<1>9. /\ results' \in Seq(Calls) /\ Len(results') = committed + 1
      /\ \A i \in DOMAIN results' : results'[i] = i
  BY <1>0, <1>2, <1>5, AppendEffect
<1>10. TypeOK'
  <2>1. committed' \in 0 .. N
    BY <1>1, <1>2, <1>5
  <2> QED BY <1>0, <1>2, <1>8, <1>9, <2>1 DEF TypeOK
<1>11. Cursors'
  BY <1>0, <1>1, <1>2, <1>4, <1>5 DEF Cursors, GroupEnd
<1>12. Staged'
  <2>1. \A d \in Calls : Unstarted(d)' = Unstarted(d)
    BY <1>2 DEF Unstarted
  <2>2. ASSUME NEW d \in Calls
        PROVE  /\ d <= committed' => d = c \/ d <= committed
               /\ committed' < d => d # c /\ committed < d
               /\ nextToStart < d => d # c
    BY <1>1, <1>2, <1>4, <1>5
  <2> QED BY <1>0, <1>2, <1>8, <2>1, <2>2 DEF Staged
<1>13. Pool'
  <2>1. \A d \in Calls : Active(d)' => Active(d)
    BY <1>8 DEF Active
  <2> QED BY <1>0, <1>2, <2>1 DEF Pool
<1>14. Waiting'
  BY <1>2 DEF Waiting
<1>15. Answered'
  BY <1>2, <1>9 DEF Answered
<1>16. Codes'
  <2>1. CodeFits(c) /\ invoked' = invoked
    BY <1>0, <1>2, <1>5 DEF Codes, Filled
  <2>2. CodeFits(c)'
    BY <1>7, <1>8, <2>1 DEF CodeFits, Cancelled
  <2>3. \A d \in Calls \ {c} : CodeFits(d)' = CodeFits(d)
    BY <1>8, <2>1 DEF CodeFits
  <2> QED BY <1>0, <1>8, <2>1, <2>2, <2>3 DEF Codes
<1> QED BY <1>10, <1>11, <1>12, <1>13, <1>14, <1>15, <1>16 DEF Inductive

LEMMA CommitStopsStep ==
  ASSUME Inductive, CommitStops
  PROVE  Inductive'
<1>0. TypeOK /\ Cursors /\ Staged /\ Pool /\ Waiting /\ Answered /\ Codes
  BY DEF Inductive
<1>1. /\ N \in Nat \ {0} /\ Calls = 1 .. N
      /\ committed \in 0 .. N /\ nextToStart \in 0 .. N /\ GroupEnd \in Nat
  BY <1>0, Numbers
<1>2. /\ place = "commit" /\ place' = "fill"
      /\ committed < GroupEnd => ~Filled(committed + 1)
      /\ UNCHANGED <<group, flags, work, results>>
  BY DEF CommitStops
<1>3. TypeOK'
  BY <1>0, <1>2 DEF TypeOK, Places, group, flags, work
<1>4. Cursors' /\ Answered' /\ Codes'
  BY <1>0, <1>2 DEF Cursors, GroupEnd, Answered, Codes, CodeFits, group, work
<1>5. Staged'
  BY <1>0, <1>2 DEF Staged, Unstarted, group, flags, work
<1>6. Pool'
  BY <1>0, <1>2 DEF Pool, Active, group, work
<1>7. Waiting'
  <2>1. ASSUME committed < nextToStart PROVE committed + 1 \in inFlight \/ failure
    <3>1. PICK c \in Calls : c = committed + 1
      BY <1>1, <2>1
    <3>2. committed < c /\ c <= nextToStart /\ committed < GroupEnd
      BY <1>0, <1>1, <2>1, <3>1 DEF Cursors
    <3>3. stage[c] \in {"wrapping", "body", "slot", "final", "lost"} /\ ~Filled(c)
      BY <1>0, <1>2, <3>1, <3>2 DEF Staged
    <3>4. Active(c) \/ failure
      BY <1>0, <3>3 DEF Staged, Active, Filled
    <3> QED BY <1>0, <3>1, <3>4 DEF Pool
  <2> QED BY <1>2, <2>1 DEF Waiting, group, flags, work
<1> QED BY <1>3, <1>4, <1>5, <1>6, <1>7 DEF Inductive

LEMMA CommitRejectsStep ==
  ASSUME Inductive, CommitRejects
  PROVE  Inductive'
<1>0. TypeOK /\ Cursors /\ Staged /\ Pool /\ Waiting /\ Answered /\ Codes
  BY DEF Inductive
<1>1. /\ place = "commit" /\ place' = "draining" /\ failure' = TRUE
      /\ UNCHANGED <<group, aborted, signal, work, results>>
  BY DEF CommitRejects
<1>2. TypeOK'
  BY <1>0, <1>1 DEF TypeOK, Places, group, work
<1>3. Cursors' /\ Answered' /\ Codes'
  BY <1>0, <1>1 DEF Cursors, GroupEnd, Answered, Codes, CodeFits, group, work
<1>4. Staged'
  BY <1>0, <1>1 DEF Staged, Unstarted, group, work
<1>5. Pool' /\ Waiting'
  BY <1>0, <1>1 DEF Pool, Waiting, Active, group, work
<1> QED BY <1>2, <1>3, <1>4, <1>5 DEF Inductive

LEMMA DrainedStep ==
  ASSUME Inductive, Drained
  PROVE  Inductive'
<1>0. TypeOK /\ Cursors /\ Staged /\ Pool /\ Waiting /\ Answered /\ Codes
  BY DEF Inductive
<1>1. /\ place = "draining" /\ place' = "failed" /\ \A c \in inFlight : Settled(c)
      /\ UNCHANGED <<group, flags, work, results>>
  BY DEF Drained
<1>2. TypeOK'
  BY <1>0, <1>1 DEF TypeOK, Places, group, flags, work
<1>3. Cursors' /\ Answered' /\ Codes'
  BY <1>0, <1>1 DEF Cursors, GroupEnd, Answered, Codes, CodeFits, group, work
<1>4. Staged'
  BY <1>0, <1>1 DEF Staged, Unstarted, group, flags, work
<1>5. Pool'
  BY <1>0, <1>1 DEF Pool, Active, group, work
<1>6. Waiting'
  BY <1>0, <1>1 DEF Pool, Waiting, Active, Settled, work
<1> QED BY <1>2, <1>3, <1>4, <1>5, <1>6 DEF Inductive

LEMMA AbortStep ==
  ASSUME Inductive, Abort
  PROVE  Inductive'
<1>0. TypeOK /\ Cursors /\ Staged /\ Pool /\ Waiting /\ Answered /\ Codes
  BY DEF Inductive
<1>1. signal' = TRUE /\ UNCHANGED <<place, group, aborted, failure, work, results>>
  BY DEF Abort
<1>2. TypeOK'
  BY <1>0, <1>1 DEF TypeOK, group, work
<1>3. Cursors' /\ Answered' /\ Codes'
  BY <1>0, <1>1 DEF Cursors, GroupEnd, Answered, Codes, CodeFits, group, work
<1>4. Staged'
  BY <1>0, <1>1 DEF Staged, Unstarted, group, work
<1>5. Pool' /\ Waiting'
  BY <1>0, <1>1 DEF Pool, Waiting, Active, group, work
<1> QED BY <1>2, <1>3, <1>4, <1>5 DEF Inductive

-----------------------------------------------------------------------------
(***************************************************************************)
(* The theorems.                                                           *)
(***************************************************************************)
LEMMA InitInductive ==
  ASSUME Init
  PROVE  Inductive
<1>1. N \in Nat \ {0} /\ MaxParallel \in Nat \ {0} /\ Calls = 1 .. N
  BY SizeAssumption DEF Calls
<1>2. TypeOK
  <2>1. next \in 0 .. N /\ nextToStart \in 0 .. N /\ committed \in 0 .. N
    BY <1>1 DEF Init
  <2>2. place \in Places /\ mode \in Modes /\ results \in Seq(Calls)
    BY DEF Init, Places, Modes
  <2>3. stage \in [Calls -> Stages] /\ outcome \in [Calls -> Outcome]
        /\ startedAs \in [Calls -> Modes \cup {"none"}]
    BY DEF Init, Stages, Outcome
  <2>4. aborted \in BOOLEAN /\ failure \in BOOLEAN /\ signal \in BOOLEAN
        /\ inFlight \subseteq Calls /\ invoked \subseteq Calls
    BY DEF Init
  <2> QED BY <2>1, <2>2, <2>3, <2>4 DEF TypeOK
<1>3. Cursors
  BY <1>1 DEF Init, Cursors, GroupEnd
<1>4. Staged
  BY <1>1 DEF Init, Staged, Unstarted
<1>5. Pool
  <2>1. Cardinality(inFlight) = 0
    BY FS_EmptySet DEF Init
  <2>2. 0 <= MaxParallel /\ (\A c \in Calls : ~(0 < c /\ c <= 0))
    BY <1>1
  <2> QED BY <2>1, <2>2 DEF Init, Pool, Active
<1>6. Waiting /\ Answered /\ Codes
  BY DEF Init, Waiting, Answered, Codes, CodeFits
<1> QED BY <1>2, <1>3, <1>4, <1>5, <1>6 DEF Inductive

\* Every step, and every stutter, preserves the inductive invariant.
LEMMA StepInductive ==
  ASSUME Inductive, [Next]_vars
  PROVE  Inductive'
<1>1. CASE Scheduler
  BY <1>1, ClassifyStep, FillStep, FailureSeenStep, GateReturnsStep, GateRejectsStep, RaceStep,
     CommitNextStep, CommitStopsStep, CommitRejectsStep, DrainedStep DEF Scheduler
<1>2. ASSUME NEW c \in Calls, Tool(c) PROVE Inductive'
  BY <1>2, ToolStep
<1>3. CASE Abort
  BY <1>3, AbortStep
<1>4. CASE UNCHANGED vars
  <2>0. TypeOK /\ Cursors /\ Staged /\ Pool /\ Waiting /\ Answered /\ Codes
    BY DEF Inductive
  <2>1. UNCHANGED <<place, group, flags, work, results>>
    BY <1>4 DEF vars
  <2>2. TypeOK'
    BY <2>0, <2>1 DEF TypeOK, group, flags, work
  <2>3. Cursors' /\ Answered' /\ Codes'
    BY <2>0, <2>1 DEF Cursors, GroupEnd, Answered, Codes, CodeFits, group, work
  <2>4. Staged'
    BY <2>0, <2>1 DEF Staged, Unstarted, group, flags, work
  <2>5. Pool' /\ Waiting'
    BY <2>0, <2>1 DEF Pool, Waiting, Active, group, flags, work
  <2> QED BY <2>2, <2>3, <2>4, <2>5 DEF Inductive
<1> QED BY <1>1, <1>2, <1>3, <1>4 DEF Next

\* The scheduler of any batch keeps the inductive invariant (runGroup's cursors,
\* pool and slots).
THEOREM InductiveHolds == Spec => []Inductive
<1>1. Init => Inductive
  BY InitInductive
<1>2. Inductive /\ [Next]_vars => Inductive'
  BY StepInductive
<1> QED BY <1>1, <1>2, PTL DEF Spec

\* Every variable stays in its type.
THEOREM TypeCorrect == Spec => []TypeOK
<1>1. Inductive => TypeOK
  BY DEF Inductive
<1> QED BY <1>1, InductiveHolds, PTL

LEMMA PoolIsBounded ==
  ASSUME Inductive
  PROVE  BoundedOverlap
<1> DEFINE active == {c \in Calls : Active(c)}
<1>0. TypeOK /\ Cursors /\ Staged /\ Pool
  BY DEF Inductive
<1>1. /\ N \in Nat \ {0} /\ MaxParallel \in Nat \ {0} /\ Calls = 1 .. N
      /\ next \in 0 .. N /\ nextToStart \in 0 .. N /\ mode \in Modes
  BY <1>0, Numbers
<1>2. IsFiniteSet(inFlight) /\ Cardinality(inFlight) \in Nat
      /\ Cardinality(inFlight) <= MaxParallel
  BY <1>0, PoolFinite DEF Pool
<1>3. active \subseteq inFlight
  BY <1>0 DEF Pool
<1>4. IsFiniteSet(active) /\ Cardinality(active) \in Nat
      /\ Cardinality(active) <= Cardinality(inFlight)
  BY <1>2, <1>3, FS_Subset, FS_CardinalityType
<1>5. \A c \in active : next < c /\ c <= nextToStart /\ startedAs[c] = mode
  <2>1. \A c \in active : c \in Calls /\ c \in inFlight
    BY <1>3
  <2> QED BY <1>0, <2>1 DEF Pool
<1>6. CASE mode = "parallel"
  <2>1. Cardinality(active) <= MaxParallel
    BY <1>1, <1>2, <1>4
  <2> QED BY <1>5, <1>6, <2>1 DEF BoundedOverlap
<1>7. CASE mode # "parallel"
  <2>1. nextToStart <= next + 1
    BY <1>0, <1>7 DEF Cursors, GroupEnd
  <2>2. active \subseteq {next + 1}
    <3>1. ASSUME NEW c \in active PROVE c = next + 1
      <4>1. c \in 1 .. N
        BY <1>1
      <4>2. next < c /\ c <= nextToStart
        BY <1>5
      <4> QED BY <1>1, <2>1, <4>1, <4>2
    <3> QED BY <3>1
  <2>3. IsFiniteSet({next + 1}) /\ Cardinality({next + 1}) = 1
    BY FS_Singleton
  <2>4. Cardinality(active) <= 1
    BY <2>2, <2>3, FS_Subset
  <2> QED BY <2>4 DEF BoundedOverlap
<1> QED BY <1>6, <1>7

\* "Exclusive calls form barriers, parallel calls use a bounded rolling pool",
\* for any batch, any pool and any faults.
THEOREM AlwaysBoundedOverlap == Spec => []BoundedOverlap
<1>1. Inductive => BoundedOverlap
  BY PoolIsBounded
<1> QED BY <1>1, InductiveHolds, PTL

\* The batch's answer is complete and in model order, and nothing runs behind it.
THEOREM AlwaysAnswered == Spec => []BatchAnswered
<1>1. Inductive => BatchAnswered
  <2> SUFFICES ASSUME Inductive PROVE BatchAnswered
    OBVIOUS
  <2>0. TypeOK /\ Staged /\ Pool /\ Waiting /\ Answered
    BY DEF Inductive
  <2>1. AnsweredInOrder
    BY <2>0 DEF Answered, AnsweredInOrder
  <2>2. QuiescentEnd
    BY <2>0 DEF QuiescentEnd, Pool, Waiting
  <2> QED BY <2>1, <2>2 DEF BatchAnswered
<1> QED BY <1>1, InductiveHolds, PTL

\* A result's code tells the truth about the tool's body.
THEOREM CodesAlwaysTruthful == Spec => []CodesTruthful
<1>1. Inductive => CodesTruthful
  BY DEF Inductive, Codes, CodeFits, CodesTruthful
<1> QED BY <1>1, InductiveHolds, PTL

LEMMA AbortedStep ==
  ASSUME Inductive, Next, signal
  PROVE  invoked' = invoked /\ \A c \in Calls : stage[c] = "planned" => stage'[c] # "gate"
<1>0. TypeOK
  BY DEF Inductive
<1>1. ASSUME UNCHANGED <<invoked, stage>>
      PROVE  invoked' = invoked /\ \A c \in Calls : stage[c] = "planned" => stage'[c] # "gate"
  BY <1>1
<1>2. ASSUME NEW c \in Calls, NEW s \in Stages \ {"gate"}, NEW o \in Outcome, Slot(c, s, o)
      PROVE  \A d \in Calls : stage[d] = "planned" => stage'[d] # "gate"
  BY <1>0, <1>2, SlotEffect
<1>3. CASE Classify \/ FailureSeen \/ Race \/ CommitStops \/ CommitRejects \/ Drained \/ Abort
  BY <1>1, <1>3 DEF Classify, FailureSeen, Race, CommitStops, CommitRejects, Drained, Abort, work
<1>4. CASE Fill
  <2>1. ~HasRoom
    BY DEF HasRoom, Stopped
  <2>2. \/ UNCHANGED <<invoked, stage>> \/ SkipRest
    BY <1>4, <2>1 DEF Fill, GroupEnds, work
  <2>3. CASE SkipRest
    <3>1. invoked' = invoked
          /\ stage' = [c \in Calls |-> IF c > nextToStart THEN "skipped" ELSE stage[c]]
      BY <2>3 DEF SkipRest
    <3> QED BY <3>1
  <2> QED BY <1>1, <2>2, <2>3
<1>5. CASE GateReturns
  <2>1. invoked' = invoked /\ place = "gate"
    BY <1>5 DEF GateReturns
  <2>2. nextToStart + 1 \in Calls
    <3>1. Cursors /\ N \in Nat /\ Calls = 1 .. N /\ next \in 0 .. N /\ nextToStart \in 0 .. N
      BY <1>0, Numbers DEF Inductive
    <3> QED BY <2>1, <3>1 DEF Cursors, GroupEnd
  <2>3. stage'[nextToStart + 1] # "gate"
    BY <1>5, GateEffect
  <2>4. \A d \in Calls \ {nextToStart + 1} : stage'[d] = stage[d]
    BY <1>5, GateEffect
  <2> QED BY <2>1, <2>3, <2>4
<1>6. CASE GateRejects
  <2>1. invoked' = invoked /\ Slot(nextToStart + 1, "lost", "none")
    BY <1>6 DEF GateRejects
  <2>2. stage' = [stage EXCEPT ![nextToStart + 1] = "lost"] /\ stage \in [Calls -> Stages]
    BY <1>0, <2>1 DEF Slot, TypeOK
  <2> QED BY <2>1, <2>2
<1>7. CASE CommitNext
  <2>1. invoked' = invoked /\ stage' = [stage EXCEPT ![committed + 1] = "committed"]
    BY <1>7 DEF CommitNext, Slot
  <2>2. stage \in [Calls -> Stages]
    BY <1>0 DEF TypeOK
  <2> QED BY <2>1, <2>2
<1>8. ASSUME NEW c \in Calls, Tool(c)
      PROVE  invoked' = invoked /\ \A d \in Calls : stage[d] = "planned" => stage'[d] # "gate"
  <2>1. ~EnterBody(c)
    BY DEF EnterBody
  <2>2. invoked' = invoked
    BY <1>8, <2>1 DEF Tool, BodySkipped, BodyReturns, DispatchRejects
  <2>3. \E s \in {"slot", "final", "lost"} : stage' = [stage EXCEPT ![c] = s]
    BY <1>8, <2>1 DEF Tool, BodySkipped, BodyReturns, DispatchRejects, Slot
  <2>4. stage \in [Calls -> Stages]
    BY <1>0 DEF TypeOK
  <2> QED BY <2>2, <2>3, <2>4
<1> QED BY <1>3, <1>4, <1>5, <1>6, <1>7, <1>8 DEF Next, Scheduler

\* "Abort stops starts", in every step of every batch.
THEOREM AbortNeverStarts == Spec => AbortStartsNothing
<1>1. Inductive /\ [Next]_vars =>
        [signal => /\ invoked' = invoked
                   /\ \A c \in Calls : stage[c] = "planned" => stage'[c] # "gate"]_vars
  BY AbortedStep
<1> QED BY <1>1, InductiveHolds, PTL DEF Spec, AbortStartsNothing
=============================================================================
