------------------------ MODULE SessionRecoveryProofs ------------------------
(***************************************************************************)
(* Theorems about SessionRecovery.                                         *)
(***************************************************************************)
EXTENDS SessionRecovery, SequenceTheorems, FiniteSetTheorems,
        WellFoundedInduction, TLAPS

-----------------------------------------------------------------------------
\* Induction over the naturals, for a set instead of a predicate.
LEMMA NatInd ==
  ASSUME NEW T, 0 \in T, \A n \in Nat : n \in T => n + 1 \in T
  PROVE  \A n \in Nat : n \in T
<1> DEFINE R == {ss \in Nat \X Nat : ss[1] < ss[2]}
           U == Nat \ T
<1>1. IsWellFoundedOn(R, Nat)
  BY NatLessThanWellFounded DEF OpToRel
<1>2. SUFFICES ASSUME U # {} PROVE FALSE
  OBVIOUS
<1>3. PICK x \in U : \A y \in U : ~(<<y, x>> \in R)
  <2> HIDE DEF R
  <2> QED BY <1>1, <1>2, WFMin
<1>4. x \in Nat /\ x # 0 /\ x - 1 \in Nat
  BY <1>3
<1>5. x - 1 \in T
  <2>1. SUFFICES ASSUME x - 1 \in U PROVE FALSE
    BY <1>4
  <2>2. <<x - 1, x>> \in R
    BY <1>4
  <2> QED BY <1>3, <2>1, <2>2
<1> QED BY <1>3, <1>4, <1>5

-----------------------------------------------------------------------------
(***************************************************************************)
(* The folds over a log: each exists, and an appended event is read last.  *)
(***************************************************************************)
TraceOver(s, n) ==
  CHOOSE read : read = [i \in 0 .. n |-> IF i = 0 THEN FreshTrace
                                         ELSE Apply(read[i - 1], s[i])]

IsTraceOver(read, s, n) ==
  read = [i \in 0 .. n |-> IF i = 0 THEN FreshTrace ELSE Apply(read[i - 1], s[i])]

LEMMA TraceExists ==
  ASSUME NEW s, NEW n \in Nat
  PROVE  IsTraceOver(TraceOver(s, n), s, n)
<1> DEFINE T == {k \in Nat : \E read : IsTraceOver(read, s, k)}
<1>1. 0 \in T
  <2>1. IsTraceOver([i \in 0 .. 0 |-> FreshTrace], s, 0)
    BY DEF IsTraceOver
  <2> QED BY <2>1
<1>2. ASSUME NEW k \in Nat, k \in T PROVE k + 1 \in T
  <2>1. PICK g : IsTraceOver(g, s, k)
    BY <1>2
  <2> DEFINE h == [i \in 0 .. k + 1 |-> IF i = k + 1 THEN Apply(g[k], s[k + 1]) ELSE g[i]]
  <2>2. \A i \in 0 .. k : h[i] = g[i]
    OBVIOUS
  <2>3. \A i \in 0 .. k + 1 :
          h[i] = IF i = 0 THEN FreshTrace ELSE Apply(h[i - 1], s[i])
    <3> SUFFICES ASSUME NEW i \in 0 .. k + 1
                 PROVE h[i] = IF i = 0 THEN FreshTrace ELSE Apply(h[i - 1], s[i])
      OBVIOUS
    <3>1. CASE i = k + 1
      <4>1. h[k] = g[k]
        BY <2>2
      <4>2. h[k + 1] = Apply(g[k], s[k + 1])
        OBVIOUS
      <4>3. i # 0 /\ i - 1 = k
        BY <3>1
      <4> QED BY <3>1, <4>1, <4>2, <4>3
    <3>2. CASE i \in 0 .. k
      <4>1. h[i] = g[i]
        BY <2>2, <3>2
      <4>2. g[i] = IF i = 0 THEN FreshTrace ELSE Apply(g[i - 1], s[i])
        BY <2>1, <3>2 DEF IsTraceOver
      <4>3. i # 0 => h[i - 1] = g[i - 1]
        BY <2>2, <3>2
      <4> QED BY <4>1, <4>2, <4>3
    <3> QED BY <3>1, <3>2
  <2>4. IsTraceOver(h, s, k + 1)
    BY <2>3 DEF IsTraceOver
  <2> QED BY <2>4
<1>3. n \in T
  BY <1>1, <1>2, NatInd
<1> QED BY <1>3 DEF TraceOver, IsTraceOver

LEMMA TraceEmpty == Trace(<<>>) = FreshTrace
<1>1. IsTraceOver(TraceOver(<<>>, 0), <<>>, 0)
  BY TraceExists
<1>2. Trace(<<>>) = TraceOver(<<>>, 0)[0]
  BY DEF Trace, TraceOver
<1> QED BY <1>1, <1>2 DEF IsTraceOver

LEMMA TraceAppend ==
  ASSUME NEW S, NEW s \in Seq(S), NEW e \in S
  PROVE  Trace(Append(s, e)) = Apply(Trace(s), e)
<1> DEFINE q == Append(s, e)
           n == Len(s)
           g == TraceOver(s, n)
           h == TraceOver(q, n + 1)
<1>1. n \in Nat /\ q \in Seq(S) /\ Len(q) = n + 1 /\ q[n + 1] = e
      /\ \A i \in 1 .. n : q[i] = s[i]
  OBVIOUS
<1>2. Trace(s) = g[n] /\ Trace(q) = h[n + 1]
  BY <1>1 DEF Trace, TraceOver
<1> HIDE DEF q, n
<1>3. IsTraceOver(g, s, n) /\ IsTraceOver(h, q, n + 1)
  BY <1>1, TraceExists
<1> HIDE DEF g, h
<1> DEFINE T == {k \in Nat : k <= n => h[k] = g[k]}
<1>4. 0 \in T
  BY <1>1, <1>3 DEF IsTraceOver
<1>5. ASSUME NEW k \in Nat, k \in T PROVE k + 1 \in T
  <2> SUFFICES ASSUME k + 1 <= n PROVE h[k + 1] = g[k + 1]
    OBVIOUS
  <2>1. h[k] = g[k] /\ k + 1 \in 1 .. n /\ k + 1 \in 0 .. n /\ k + 1 \in 0 .. n + 1
    BY <1>1, <1>5
  <2>2. h[k + 1] = Apply(h[k], q[k + 1])
    BY <1>3, <2>1, (k + 1) - 1 = k, k + 1 # 0 DEF IsTraceOver
  <2>3. g[k + 1] = Apply(g[k], s[k + 1])
    BY <1>3, <2>1, (k + 1) - 1 = k, k + 1 # 0 DEF IsTraceOver
  <2> QED BY <1>1, <2>1, <2>2, <2>3
<1>6. h[n] = g[n]
  <2> HIDE DEF T
  <2>1. \A k \in Nat : k \in T
    BY <1>4, <1>5, NatInd
  <2> QED BY <1>1, <2>1 DEF T
<1>7. h[n + 1] = Apply(h[n], q[n + 1])
  BY <1>1, <1>3, (n + 1) - 1 = n, n + 1 # 0, n + 1 \in 0 .. n + 1 DEF IsTraceOver
<1> QED BY <1>1, <1>2, <1>6, <1>7 DEF q

ScanOver(s, n) ==
  CHOOSE read : read = [i \in 0 .. n |-> IF i = 0 THEN NothingOpen
                                         ELSE ScanEvent(read[i - 1], s[i])]

IsScanOver(read, s, n) ==
  read = [i \in 0 .. n |-> IF i = 0 THEN NothingOpen ELSE ScanEvent(read[i - 1], s[i])]

LEMMA ScanExists ==
  ASSUME NEW s, NEW n \in Nat
  PROVE  IsScanOver(ScanOver(s, n), s, n)
<1> DEFINE T == {k \in Nat : \E read : IsScanOver(read, s, k)}
<1>1. 0 \in T
  <2>1. IsScanOver([i \in 0 .. 0 |-> NothingOpen], s, 0)
    BY DEF IsScanOver
  <2> QED BY <2>1
<1>2. ASSUME NEW k \in Nat, k \in T PROVE k + 1 \in T
  <2>1. PICK g : IsScanOver(g, s, k)
    BY <1>2
  <2> DEFINE h == [i \in 0 .. k + 1 |-> IF i = k + 1 THEN ScanEvent(g[k], s[k + 1]) ELSE g[i]]
  <2>2. \A i \in 0 .. k : h[i] = g[i]
    OBVIOUS
  <2>3. \A i \in 0 .. k + 1 :
          h[i] = IF i = 0 THEN NothingOpen ELSE ScanEvent(h[i - 1], s[i])
    <3> SUFFICES ASSUME NEW i \in 0 .. k + 1
                 PROVE h[i] = IF i = 0 THEN NothingOpen ELSE ScanEvent(h[i - 1], s[i])
      OBVIOUS
    <3>1. CASE i = k + 1
      <4>1. h[k] = g[k]
        BY <2>2
      <4>2. h[k + 1] = ScanEvent(g[k], s[k + 1])
        OBVIOUS
      <4>3. i # 0 /\ i - 1 = k
        BY <3>1
      <4> QED BY <3>1, <4>1, <4>2, <4>3
    <3>2. CASE i \in 0 .. k
      <4>1. h[i] = g[i]
        BY <2>2, <3>2
      <4>2. g[i] = IF i = 0 THEN NothingOpen ELSE ScanEvent(g[i - 1], s[i])
        BY <2>1, <3>2 DEF IsScanOver
      <4>3. i # 0 => h[i - 1] = g[i - 1]
        BY <2>2, <3>2
      <4> QED BY <4>1, <4>2, <4>3
    <3> QED BY <3>1, <3>2
  <2>4. IsScanOver(h, s, k + 1)
    BY <2>3 DEF IsScanOver
  <2> QED BY <2>4
<1>3. n \in T
  BY <1>1, <1>2, NatInd
<1> QED BY <1>3 DEF ScanOver, IsScanOver

LEMMA ScanEmpty == Scan(<<>>) = NothingOpen
<1>1. IsScanOver(ScanOver(<<>>, 0), <<>>, 0)
  BY ScanExists
<1>2. Scan(<<>>) = ScanOver(<<>>, 0)[0]
  BY DEF Scan, ScanOver
<1> QED BY <1>1, <1>2 DEF IsScanOver

LEMMA ScanAppend ==
  ASSUME NEW S, NEW s \in Seq(S), NEW e \in S
  PROVE  Scan(Append(s, e)) = ScanEvent(Scan(s), e)
<1> DEFINE q == Append(s, e)
           n == Len(s)
           g == ScanOver(s, n)
           h == ScanOver(q, n + 1)
<1>1. n \in Nat /\ q \in Seq(S) /\ Len(q) = n + 1 /\ q[n + 1] = e
      /\ \A i \in 1 .. n : q[i] = s[i]
  OBVIOUS
<1>2. Scan(s) = g[n] /\ Scan(q) = h[n + 1]
  BY <1>1 DEF Scan, ScanOver
<1> HIDE DEF q, n
<1>3. IsScanOver(g, s, n) /\ IsScanOver(h, q, n + 1)
  BY <1>1, ScanExists
<1> HIDE DEF g, h
<1> DEFINE T == {k \in Nat : k <= n => h[k] = g[k]}
<1>4. 0 \in T
  BY <1>1, <1>3 DEF IsScanOver
<1>5. ASSUME NEW k \in Nat, k \in T PROVE k + 1 \in T
  <2> SUFFICES ASSUME k + 1 <= n PROVE h[k + 1] = g[k + 1]
    OBVIOUS
  <2>1. h[k] = g[k] /\ k + 1 \in 1 .. n /\ k + 1 \in 0 .. n /\ k + 1 \in 0 .. n + 1
    BY <1>1, <1>5
  <2>2. h[k + 1] = ScanEvent(h[k], q[k + 1])
    BY <1>3, <2>1, (k + 1) - 1 = k, k + 1 # 0 DEF IsScanOver
  <2>3. g[k + 1] = ScanEvent(g[k], s[k + 1])
    BY <1>3, <2>1, (k + 1) - 1 = k, k + 1 # 0 DEF IsScanOver
  <2> QED BY <1>1, <2>1, <2>2, <2>3
<1>6. h[n] = g[n]
  <2> HIDE DEF T
  <2>1. \A k \in Nat : k \in T
    BY <1>4, <1>5, NatInd
  <2> QED BY <1>1, <2>1 DEF T
<1>7. h[n + 1] = ScanEvent(h[n], q[n + 1])
  BY <1>1, <1>3, (n + 1) - 1 = n, n + 1 # 0, n + 1 \in 0 .. n + 1 DEF IsScanOver
<1> QED BY <1>1, <1>2, <1>6, <1>7 DEF q

QueueOver(s, n) ==
  CHOOSE read : read = [i \in 0 .. n |-> IF i = 0 THEN <<>>
                                         ELSE Splice(read[i - 1], s[i])]

IsQueueOver(read, s, n) ==
  read = [i \in 0 .. n |-> IF i = 0 THEN <<>> ELSE Splice(read[i - 1], s[i])]

LEMMA QueueExists ==
  ASSUME NEW s, NEW n \in Nat
  PROVE  IsQueueOver(QueueOver(s, n), s, n)
<1> DEFINE T == {k \in Nat : \E read : IsQueueOver(read, s, k)}
<1>1. 0 \in T
  <2>1. IsQueueOver([i \in 0 .. 0 |-> <<>>], s, 0)
    BY DEF IsQueueOver
  <2> QED BY <2>1
<1>2. ASSUME NEW k \in Nat, k \in T PROVE k + 1 \in T
  <2>1. PICK g : IsQueueOver(g, s, k)
    BY <1>2
  <2> DEFINE h == [i \in 0 .. k + 1 |-> IF i = k + 1 THEN Splice(g[k], s[k + 1]) ELSE g[i]]
  <2>2. \A i \in 0 .. k : h[i] = g[i]
    OBVIOUS
  <2>3. \A i \in 0 .. k + 1 :
          h[i] = IF i = 0 THEN <<>> ELSE Splice(h[i - 1], s[i])
    <3> SUFFICES ASSUME NEW i \in 0 .. k + 1
                 PROVE h[i] = IF i = 0 THEN <<>> ELSE Splice(h[i - 1], s[i])
      OBVIOUS
    <3>1. CASE i = k + 1
      <4>1. h[k] = g[k]
        BY <2>2
      <4>2. h[k + 1] = Splice(g[k], s[k + 1])
        OBVIOUS
      <4>3. i # 0 /\ i - 1 = k
        BY <3>1
      <4> QED BY <3>1, <4>1, <4>2, <4>3
    <3>2. CASE i \in 0 .. k
      <4>1. h[i] = g[i]
        BY <2>2, <3>2
      <4>2. g[i] = IF i = 0 THEN <<>> ELSE Splice(g[i - 1], s[i])
        BY <2>1, <3>2 DEF IsQueueOver
      <4>3. i # 0 => h[i - 1] = g[i - 1]
        BY <2>2, <3>2
      <4> QED BY <4>1, <4>2, <4>3
    <3> QED BY <3>1, <3>2
  <2>4. IsQueueOver(h, s, k + 1)
    BY <2>3 DEF IsQueueOver
  <2> QED BY <2>4
<1>3. n \in T
  BY <1>1, <1>2, NatInd
<1> QED BY <1>3 DEF QueueOver, IsQueueOver

LEMMA QueueEmpty == Queue(<<>>) = <<>>
<1>1. IsQueueOver(QueueOver(<<>>, 0), <<>>, 0)
  BY QueueExists
<1>2. Queue(<<>>) = QueueOver(<<>>, 0)[0]
  BY DEF Queue, QueueOver
<1> QED BY <1>1, <1>2 DEF IsQueueOver

LEMMA QueueAppend ==
  ASSUME NEW S, NEW s \in Seq(S), NEW e \in S
  PROVE  Queue(Append(s, e)) = Splice(Queue(s), e)
<1> DEFINE q == Append(s, e)
           n == Len(s)
           g == QueueOver(s, n)
           h == QueueOver(q, n + 1)
<1>1. n \in Nat /\ q \in Seq(S) /\ Len(q) = n + 1 /\ q[n + 1] = e
      /\ \A i \in 1 .. n : q[i] = s[i]
  OBVIOUS
<1>2. Queue(s) = g[n] /\ Queue(q) = h[n + 1]
  BY <1>1 DEF Queue, QueueOver
<1> HIDE DEF q, n
<1>3. IsQueueOver(g, s, n) /\ IsQueueOver(h, q, n + 1)
  BY <1>1, QueueExists
<1> HIDE DEF g, h
<1> DEFINE T == {k \in Nat : k <= n => h[k] = g[k]}
<1>4. 0 \in T
  BY <1>1, <1>3 DEF IsQueueOver
<1>5. ASSUME NEW k \in Nat, k \in T PROVE k + 1 \in T
  <2> SUFFICES ASSUME k + 1 <= n PROVE h[k + 1] = g[k + 1]
    OBVIOUS
  <2>1. h[k] = g[k] /\ k + 1 \in 1 .. n /\ k + 1 \in 0 .. n /\ k + 1 \in 0 .. n + 1
    BY <1>1, <1>5
  <2>2. h[k + 1] = Splice(h[k], q[k + 1])
    BY <1>3, <2>1, (k + 1) - 1 = k, k + 1 # 0 DEF IsQueueOver
  <2>3. g[k + 1] = Splice(g[k], s[k + 1])
    BY <1>3, <2>1, (k + 1) - 1 = k, k + 1 # 0 DEF IsQueueOver
  <2> QED BY <1>1, <2>1, <2>2, <2>3
<1>6. h[n] = g[n]
  <2> HIDE DEF T
  <2>1. \A k \in Nat : k \in T
    BY <1>4, <1>5, NatInd
  <2> QED BY <1>1, <2>1 DEF T
<1>7. h[n + 1] = Splice(h[n], q[n + 1])
  BY <1>1, <1>3, (n + 1) - 1 = n, n + 1 # 0, n + 1 \in 0 .. n + 1 DEF IsQueueOver
<1> QED BY <1>1, <1>2, <1>6, <1>7 DEF q

-----------------------------------------------------------------------------
(***************************************************************************)
(* The inductive invariant.  A crash may cut the log anywhere, so what is  *)
(* needed of the log is required of each of its prefixes s.  In the step   *)
(* that s has open, the calls 1 .. hi were requested, in this order, and   *)
(* the calls 1 .. lo have their results.                                   *)
(***************************************************************************)
Numbers(T) ==
  /\ T \in Traces(Nat)
  /\ T.nextTurn >= 1 /\ T.nextStep >= 1
  /\ T.openTurn \in {0, T.nextTurn} /\ T.openStep \in {0, T.nextStep}
  /\ T.openTurn = 0 => T.openStep = 0

Window(T, lo, hi) ==
  /\ lo \in Nat /\ hi \in Nat /\ lo <= hi
  /\ T.openStep = 0 => hi = 0

OpenCalls == [turn : Nat, step : Nat, pending : Seq(Nat), started : SUBSET Nat]

\* The scan of the repair and the trace of the grammar agree.
Agree(T, open, lo, hi) ==
  /\ open \in OpenCalls
  /\ open.turn = T.openTurn /\ open.step = T.openStep
  /\ open.pending = [i \in 1 .. hi - lo |-> lo + i]
  /\ open.started \subseteq 1 .. hi
  /\ T.pendingCalls = {c \in open.started : lo < c}

CallEvents == {"assistant/message", "tool/call", "tool/result"}

\* The step of an event is the open one or an earlier one.
Located(T, e) ==
  /\ e.turn \in Nat /\ e.step \in Nat /\ e.turn >= 1 /\ e.step >= 1
  /\ \/ e.turn < T.nextTurn
     \/ /\ e.turn = T.openTurn
        /\ e.step < T.nextStep \/ e.step = T.openStep

IsResult(e, t, s, c) ==
  e.type = "tool/result" /\ e.turn = t /\ e.step = s /\ e.call = c

AllLocated(s, T) ==
  \A i \in 1 .. Len(s) : s[i].type \in CallEvents => Located(T, s[i])

\* Every call requested before the open step has its result.
Requested(s, T, hi) ==
  \A i \in 1 .. Len(s) : s[i].type = "assistant/message" =>
    IF InOpenStep(T, s[i]) THEN s[i].calls = hi
    ELSE \A c \in 1 .. s[i].calls :
           \E j \in 1 .. Len(s) : IsResult(s[j], s[i].turn, s[i].step, c)

Answered(s, T, lo) ==
  /\ \A c \in 1 .. lo :
       \E j \in 1 .. Len(s) : IsResult(s[j], T.openTurn, T.openStep, c)
  /\ \A j \in 1 .. Len(s) :
       s[j].type = "tool/result" /\ InOpenStep(T, s[j]) => s[j].call \in 1 .. lo

AnsweredOnce(s) ==
  \A i, j \in 1 .. Len(s) :
    s[i].type = "tool/result" /\ IsResult(s[j], s[i].turn, s[i].step, s[i].call)
      => i = j

StartsKnown(s, T, open) ==
  \A i \in 1 .. Len(s) :
    s[i].type = "tool/call" /\ InOpenStep(T, s[i]) => s[i].call \in open.started

\* A recorded start is never answered as if there had been none.
NeverBoth(s) ==
  \A i, j \in 1 .. Len(s) :
    s[i].type = "tool/call" /\ IsResult(s[j], s[i].turn, s[i].step, s[i].call)
      => ~s[j].notStarted

RegularAt(s, lo, hi) ==
  /\ Numbers(Trace(s)) /\ Window(Trace(s), lo, hi) /\ Agree(Trace(s), Scan(s), lo, hi)
  /\ Accepted(s) /\ AllLocated(s, Trace(s))
  /\ Requested(s, Trace(s), hi) /\ Answered(s, Trace(s), lo) /\ AnsweredOnce(s)
  /\ StartsKnown(s, Trace(s), Scan(s)) /\ NeverBoth(s)

Regular(s) == \E lo, hi \in Nat : RegularAt(s, lo, hi)

\* Wherever a crash cuts the log.
Cuttable(s) == \A k \in 0 .. Len(s) : Regular(SubSeq(s, 1, k))

\* The live process stands where its log says.
Unanswered(s) ==
  \A i \in 1 .. Len(s) :
    s[i].type = "assistant/message" => ~InOpenStep(Trace(s), s[i])

ToolAt(c, lo, hi) ==
  /\ tool[c] = "none" <=> hi < c
  /\ tool[c] = "committed" <=> c <= lo
  /\ tool[c] = "planned" => c \notin Scan(log).started
  /\ tool[c] \in {"flushing", "body", "settled"} => c \in Scan(log).started

Standing(lo, hi) ==
  /\ pc = "idle" => Turn = 0
  /\ pc = "pre-step" => Turn # 0 /\ Step = 0
  /\ pc \in {"preparing", "requesting", "streaming"} =>
       Step # 0 /\ hi = 0 /\ Unanswered(log)
  /\ pc = "tools" => Step # 0 /\ hi <= MaxCalls /\ \A c \in Calls : ToolAt(c, lo, hi)

Kept ==
  /\ \A prefix \in sent : \E k \in 0 .. stored : prefix = SubSeq(log, 1, k)
  /\ \A r \in ran : \E i \in 1 .. stored : log[i] = ToolCall(r[1], r[2], r[3])

Inductive ==
  /\ TypeOK
  /\ trace = Trace(log)
  /\ Len(batch) <= 1
  /\ Cuttable(log)
  /\ \E lo, hi \in Nat : RegularAt(log, lo, hi) /\ Standing(lo, hi)
  /\ Kept

-----------------------------------------------------------------------------
(***************************************************************************)
(* One more event.                                                         *)
(***************************************************************************)
LEMMA AppendFacts ==
  ASSUME NEW S, NEW s \in Seq(S), NEW e \in S, NEW q, q = Append(s, e)
  PROVE  /\ q \in Seq(S) /\ Len(s) \in Nat /\ Len(q) = Len(s) + 1
         /\ q[Len(s) + 1] = e
         /\ \A i \in 1 .. Len(s) : i \in 1 .. Len(q) /\ q[i] = s[i]
         /\ \A i \in 1 .. Len(q) :
              (i \in 1 .. Len(s) /\ q[i] = s[i]) \/ (i = Len(s) + 1 /\ q[i] = e)
  OBVIOUS

LEMMA PrefixOfAppend ==
  ASSUME NEW S, NEW s \in Seq(S), NEW e \in S
  PROVE  /\ \A k \in 0 .. Len(s) : SubSeq(Append(s, e), 1, k) = SubSeq(s, 1, k)
         /\ SubSeq(Append(s, e), 1, Len(s) + 1) = Append(s, e)
         /\ SubSeq(s, 1, Len(s)) = s
<1>1. ASSUME NEW k \in 0 .. Len(s)
      PROVE  SubSeq(Append(s, e), 1, k) = SubSeq(s, 1, k)
  OBVIOUS
<1> QED BY <1>1

LEMMA AcceptedAppend ==
  ASSUME NEW s \in Seq(Events), NEW e \in Events, Accepted(s), Accepts(Trace(s), e)
  PROVE  Accepted(Append(s, e))
<1> DEFINE q == Append(s, e)
<1>1. /\ Len(s) \in Nat /\ Len(q) = Len(s) + 1
      /\ \A i \in 1 .. Len(q) :
           (i \in 1 .. Len(s) /\ q[i] = s[i]) \/ (i = Len(s) + 1 /\ q[i] = e)
  BY AppendFacts
<1>2. /\ \A k \in 0 .. Len(s) : SubSeq(q, 1, k) = SubSeq(s, 1, k)
      /\ SubSeq(s, 1, Len(s)) = s
  BY PrefixOfAppend
<1> HIDE DEF q
<1> SUFFICES ASSUME NEW i \in 1 .. Len(q)
             PROVE  Accepts(Trace(SubSeq(q, 1, i - 1)), q[i])
  BY DEF Accepted, q
<1>3. CASE i \in 1 .. Len(s) /\ q[i] = s[i]
  <2>1. SubSeq(q, 1, i - 1) = SubSeq(s, 1, i - 1)
    BY <1>1, <1>2, <1>3
  <2> QED BY <1>3, <2>1 DEF Accepted
<1>4. CASE i = Len(s) + 1 /\ q[i] = e
  <2>1. SubSeq(q, 1, i - 1) = s
    <3>1. i - 1 = Len(s) /\ Len(s) \in 0 .. Len(s)
      BY <1>1, <1>4
    <3> QED BY <1>2, <3>1
  <2> QED BY <1>4, <2>1
<1> QED BY <1>1, <1>3, <1>4

LEMMA AppendNeutral ==
  ASSUME NEW s \in Seq(Events), NEW e \in Events, NEW lo \in Nat, NEW hi \in Nat,
         RegularAt(s, lo, hi),
         e.type \in {"agent/inbox/spliced", "user/message", "request/header"},
         e.type = "request/header" => Trace(s).openTurn # 0
  PROVE  /\ RegularAt(Append(s, e), lo, hi)
         /\ Trace(Append(s, e)) = Trace(s) /\ Scan(Append(s, e)) = Scan(s)
<1> DEFINE q == Append(s, e)
           T == Trace(s)
           open == Scan(s)
<1>1. /\ q \in Seq(Events) /\ Len(s) \in Nat /\ Len(q) = Len(s) + 1
      /\ \A i \in 1 .. Len(s) : i \in 1 .. Len(q) /\ q[i] = s[i]
      /\ \A i \in 1 .. Len(q) :
           (i \in 1 .. Len(s) /\ q[i] = s[i]) \/ (i = Len(s) + 1 /\ q[i] = e)
  BY AppendFacts
<1>2. Trace(q) = T /\ Scan(q) = open
  BY TraceAppend, ScanAppend DEF Apply, ScanEvent
<1>3. Accepted(q)
  BY AcceptedAppend DEF RegularAt, Accepts, StepEvents
<1> HIDE DEF q, T, open
<1>4. /\ Numbers(T) /\ Window(T, lo, hi) /\ Agree(T, open, lo, hi) /\ AllLocated(s, T)
      /\ Requested(s, T, hi) /\ Answered(s, T, lo) /\ AnsweredOnce(s)
      /\ StartsKnown(s, T, open) /\ NeverBoth(s)
  BY DEF RegularAt, T, open
<1>5. AllLocated(q, T)
  BY <1>1, <1>4 DEF AllLocated, CallEvents
<1>6. Requested(q, T, hi)
  <2> SUFFICES ASSUME NEW i \in 1 .. Len(q), q[i].type = "assistant/message"
               PROVE  IF InOpenStep(T, q[i]) THEN q[i].calls = hi
                      ELSE \A c \in 1 .. q[i].calls : \E j \in 1 .. Len(q) :
                             IsResult(q[j], q[i].turn, q[i].step, c)
    BY DEF Requested
  <2>1. i \in 1 .. Len(s) /\ q[i] = s[i]
    BY <1>1
  <2> QED BY <1>1, <1>4, <2>1 DEF Requested
<1>7. Answered(q, T, lo)
  BY <1>1, <1>4 DEF Answered
<1>8. AnsweredOnce(q)
  BY <1>1, <1>4 DEF AnsweredOnce, IsResult
<1>9. StartsKnown(q, T, open)
  BY <1>1, <1>4 DEF StartsKnown
<1>10. NeverBoth(q)
  BY <1>1, <1>4 DEF NeverBoth, IsResult
<1> QED BY <1>2, <1>3, <1>4, <1>5, <1>6, <1>7, <1>8, <1>9, <1>10 DEF RegularAt, q, T, open

\* A turn or a step begins or ends.
LEMMA AppendBoundary ==
  ASSUME NEW s \in Seq(Events), NEW e \in Events, NEW n \in Nat,
         RegularAt(s, n, n), e.type \notin CallEvents, Accepts(Trace(s), e),
         NEW T, T = Apply(Trace(s), e), Numbers(T),
         \A x : Located(Trace(s), x) => Located(T, x) /\ ~InOpenStep(T, x),
         Agree(T, ScanEvent(Scan(s), e), 0, 0)
  PROVE  RegularAt(Append(s, e), 0, 0)
<1> DEFINE q == Append(s, e)
           Old == Trace(s)
           open == ScanEvent(Scan(s), e)
<1>1. /\ q \in Seq(Events) /\ Len(s) \in Nat /\ Len(q) = Len(s) + 1
      /\ \A i \in 1 .. Len(s) : i \in 1 .. Len(q) /\ q[i] = s[i]
      /\ \A i \in 1 .. Len(q) :
           (i \in 1 .. Len(s) /\ q[i] = s[i]) \/ (i = Len(s) + 1 /\ q[i] = e)
  BY AppendFacts
<1>2. Trace(q) = T /\ Scan(q) = open
  BY TraceAppend, ScanAppend
<1>3. Accepted(q)
  BY AcceptedAppend DEF RegularAt
<1>4. /\ Numbers(Old) /\ Window(Old, n, n) /\ AllLocated(s, Old)
      /\ Requested(s, Old, n) /\ Answered(s, Old, n) /\ AnsweredOnce(s) /\ NeverBoth(s)
  BY DEF RegularAt
<1>5. \A x : Located(Old, x) => Located(T, x) /\ ~InOpenStep(T, x)
  OBVIOUS
<1>6. Agree(T, open, 0, 0)
  OBVIOUS
<1> HIDE DEF q, Old, open
<1>7. \A i \in 1 .. Len(q) : q[i].type \in CallEvents =>
        /\ i \in 1 .. Len(s) /\ q[i] = s[i]
        /\ Located(T, q[i]) /\ ~InOpenStep(T, q[i])
  BY <1>1, <1>4, <1>5 DEF AllLocated
<1>8. Window(T, 0, 0)
  BY DEF Window
<1>9. AllLocated(q, T)
  BY <1>7 DEF AllLocated
<1>10. Requested(q, T, 0)
  <2> SUFFICES ASSUME NEW i \in 1 .. Len(q), q[i].type = "assistant/message",
                      NEW c \in 1 .. q[i].calls, ~InOpenStep(T, q[i])
               PROVE  \E j \in 1 .. Len(q) : IsResult(q[j], q[i].turn, q[i].step, c)
    BY <1>7 DEF Requested, CallEvents
  <2>1. i \in 1 .. Len(s) /\ q[i] = s[i] /\ c \in 1 .. s[i].calls
    BY <1>7 DEF CallEvents
  <2>2. \E j \in 1 .. Len(s) : IsResult(s[j], s[i].turn, s[i].step, c)
    <3>1. CASE InOpenStep(Old, s[i])
      <4>1. c \in 1 .. n
        BY <1>4, <2>1, <3>1 DEF Requested
      <4> QED BY <1>4, <3>1, <4>1 DEF Answered, InOpenStep
    <3>2. CASE ~InOpenStep(Old, s[i])
      BY <1>4, <2>1, <3>2 DEF Requested
    <3> QED BY <3>1, <3>2
  <2> QED BY <1>1, <2>1, <2>2
<1>11. Answered(q, T, 0)
  BY <1>7 DEF Answered, CallEvents
<1>12. AnsweredOnce(q)
  BY <1>4, <1>7 DEF AnsweredOnce, IsResult, CallEvents
<1>13. StartsKnown(q, T, open)
  BY <1>7 DEF StartsKnown, CallEvents
<1>14. NeverBoth(q)
  BY <1>4, <1>7 DEF NeverBoth, IsResult, CallEvents
<1> QED BY <1>2, <1>3, <1>6, <1>8, <1>9, <1>10, <1>11, <1>12, <1>13, <1>14
        DEF RegularAt, q

LEMMA NothingIsOpen ==
  /\ NothingOpen \in OpenCalls /\ NothingOpen.turn = 0 /\ NothingOpen.step = 0
  /\ NothingOpen.pending = <<>> /\ NothingOpen.started = {}
  BY DEF NothingOpen, OpenCalls

LEMMA NoneWanted == [i \in 1 .. 0 - 0 |-> 0 + i] = <<>>
  OBVIOUS

LEMMA AppendTurnStart ==
  ASSUME NEW s \in Seq(Events), NEW lo \in Nat, NEW hi \in Nat, RegularAt(s, lo, hi),
         Trace(s).openTurn = 0, NEW e, e = TurnStart(Trace(s).nextTurn)
  PROVE  /\ e \in Events /\ RegularAt(Append(s, e), 0, 0)
         /\ Trace(Append(s, e)).openTurn # 0 /\ Trace(Append(s, e)).openStep = 0
<1> DEFINE T == Trace(s)
<1>1. Numbers(T) /\ lo = 0 /\ hi = 0 /\ Agree(T, Scan(s), lo, hi)
  BY DEF RegularAt, Window, Numbers
<1>1a. T.pendingCalls = {} /\ T.openTurn = 0 /\ T.openStep = 0
  BY <1>1 DEF Agree, Numbers
<1>2. e \in Events /\ e.type = "turn/start" /\ e.turn = T.nextTurn
  BY <1>1 DEF TurnStart, Events, Numbers, Traces
<1>3. Accepts(T, e)
  BY <1>2 DEF Accepts, StepEvents
<1>4. Apply(T, e) = [T EXCEPT !.openTurn = T.nextTurn, !.nextStep = 1]
  BY <1>2 DEF Apply
<1>5. PICK U : U = Apply(T, e)
  OBVIOUS
<1> HIDE DEF T
<1>6. /\ U \in Traces(Nat) /\ U.openTurn = T.nextTurn /\ U.openStep = 0
      /\ U.nextTurn = T.nextTurn /\ U.nextStep = 1 /\ U.pendingCalls = T.pendingCalls
  <2>1. PICK V : V = [T EXCEPT !.openTurn = T.nextTurn]
    OBVIOUS
  <2>2. /\ V \in Traces(Nat) /\ V.openTurn = T.nextTurn /\ V.openStep = 0
        /\ V.nextTurn = T.nextTurn /\ V.pendingCalls = T.pendingCalls
    BY <1>1, <1>1a, <2>1 DEF Numbers, Traces
  <2>3. U = [V EXCEPT !.nextStep = 1]
    BY <1>4, <1>5, <2>1
  <2> QED BY <2>2, <2>3 DEF Traces
<1>7. Numbers(U)
  BY <1>1, <1>6 DEF Numbers
<1>8. \A x : Located(T, x) => Located(U, x) /\ ~InOpenStep(U, x)
  BY <1>1, <1>1a, <1>6 DEF Located, InOpenStep, Numbers, Traces
<1>9. Agree(U, ScanEvent(Scan(s), e), 0, 0)
  <2>1. ScanEvent(Scan(s), e) = [NothingOpen EXCEPT !.turn = e.turn]
    BY <1>2 DEF ScanEvent
  <2>2. PICK o : o = ScanEvent(Scan(s), e)
    OBVIOUS
  <2>3. e.turn \in Nat /\ e.turn = T.nextTurn
    BY <1>1, <1>2 DEF Numbers, Traces
  <2>4. /\ o \in OpenCalls /\ o.turn = T.nextTurn /\ o.step = 0 /\ o.pending = <<>>
        /\ o.started = {}
    BY <2>1, <2>2, <2>3, NothingIsOpen DEF OpenCalls
  <2> QED BY <1>1a, <1>6, <2>2, <2>4, NoneWanted DEF Agree
<1>10. Trace(Append(s, e)) = U /\ U.openTurn # 0
  BY <1>1, <1>2, <1>5, <1>6, TraceAppend DEF T, Numbers
<1> QED BY <1>1, <1>2, <1>3, <1>5, <1>6, <1>7, <1>8, <1>9, <1>10, AppendBoundary DEF T, CallEvents

LEMMA AppendTurnEnd ==
  ASSUME NEW s \in Seq(Events), NEW lo \in Nat, NEW hi \in Nat, RegularAt(s, lo, hi),
         Trace(s).openTurn # 0, Trace(s).openStep = 0,
         NEW e, e = TurnEnd(Trace(s).openTurn)
  PROVE  /\ e \in Events /\ RegularAt(Append(s, e), 0, 0)
         /\ Trace(Append(s, e)).openTurn = 0
<1> DEFINE T == Trace(s)
<1>1. Numbers(T) /\ lo = 0 /\ hi = 0 /\ Agree(T, Scan(s), lo, hi)
  BY DEF RegularAt, Window
<1>2. e \in Events /\ e.type = "turn/end" /\ e.turn = T.openTurn
  BY <1>1 DEF TurnEnd, Events, Numbers, Traces
<1>3. Accepts(T, e)
  BY <1>2 DEF Accepts, StepEvents
<1>3a. PICK n \in Nat : n = T.nextTurn + 1
  BY <1>1 DEF Numbers, Traces
<1>3b. T.pendingCalls = {}
  BY <1>1 DEF Agree
<1>4. Apply(T, e) = [T EXCEPT !.openTurn = 0, !.nextTurn = n]
  BY <1>2, <1>3a DEF Apply
<1>5. PICK U : U = Apply(T, e)
  OBVIOUS
<1>6. T.openTurn = T.nextTurn /\ T.openStep = 0
  BY <1>1 DEF Numbers
<1> HIDE DEF T
<1>7. /\ U \in Traces(Nat) /\ U.openTurn = 0 /\ U.openStep = 0
      /\ U.nextTurn = n /\ U.nextStep = T.nextStep
      /\ U.pendingCalls = T.pendingCalls
  BY <1>1, <1>4, <1>5, <1>6 DEF Numbers, Traces
<1>8. Numbers(U)
  BY <1>1, <1>3a, <1>7 DEF Numbers, Traces
<1>9. \A x : Located(T, x) => Located(U, x) /\ ~InOpenStep(U, x)
  BY <1>1, <1>6, <1>3a, <1>7 DEF Located, InOpenStep, Numbers, Traces
<1>10. Agree(U, ScanEvent(Scan(s), e), 0, 0)
  <2>1. ScanEvent(Scan(s), e) = NothingOpen
    BY <1>2 DEF ScanEvent
  <2> QED BY <1>3b, <1>7, <2>1, NoneWanted DEF Agree, NothingOpen, OpenCalls
<1>11. Trace(Append(s, e)) = U
  BY <1>2, <1>5, TraceAppend DEF T
<1> QED BY <1>1, <1>2, <1>3, <1>5, <1>7, <1>8, <1>9, <1>10, <1>11, AppendBoundary
        DEF T, CallEvents

LEMMA AppendStepStart ==
  ASSUME NEW s \in Seq(Events), NEW lo \in Nat, NEW hi \in Nat, RegularAt(s, lo, hi),
         Trace(s).openTurn # 0, Trace(s).openStep = 0,
         NEW e, e = StepEvent("step/start", Trace(s).openTurn, Trace(s).nextStep)
  PROVE  /\ e \in Events /\ RegularAt(Append(s, e), 0, 0)
         /\ Trace(Append(s, e)).openStep # 0 /\ Unanswered(Append(s, e))
<1> DEFINE T == Trace(s)
<1>1. Numbers(T) /\ lo = 0 /\ hi = 0 /\ Agree(T, Scan(s), lo, hi)
  BY DEF RegularAt, Window
<1>2. e \in Events /\ e.type = "step/start" /\ e.turn = T.openTurn /\ e.step = T.nextStep
  BY <1>1 DEF StepEvent, Events, Numbers, Traces
<1>3. Accepts(T, e)
  BY <1>2 DEF Accepts, StepEvents
<1>3b. T.pendingCalls = {} /\ Scan(s).started = {}
  BY <1>1 DEF Agree
<1>4. Apply(T, e) = [T EXCEPT !.openStep = T.nextStep]
  BY <1>2 DEF Apply
<1>5. PICK U : U = Apply(T, e)
  OBVIOUS
<1>6. T.openTurn = T.nextTurn /\ T.openTurn # 0 /\ T.openStep = 0
  BY <1>1 DEF Numbers
<1> HIDE DEF T
<1>7. /\ U \in Traces(Nat) /\ U.openTurn = T.openTurn /\ U.openStep = T.nextStep
      /\ U.nextTurn = T.nextTurn /\ U.nextStep = T.nextStep
      /\ U.pendingCalls = T.pendingCalls
  BY <1>1, <1>4, <1>5 DEF Numbers, Traces
<1>8. Numbers(U)
  BY <1>1, <1>6, <1>7 DEF Numbers, Traces
<1>9. \A x : Located(T, x) => Located(U, x) /\ ~InOpenStep(U, x)
  BY <1>1, <1>6, <1>7 DEF Located, InOpenStep, Numbers, Traces
<1>10. Agree(U, ScanEvent(Scan(s), e), 0, 0)
  <2>1. ScanEvent(Scan(s), e) = [Scan(s) EXCEPT !.step = e.step]
    BY <1>2 DEF ScanEvent
  <2>2. PICK o : o = ScanEvent(Scan(s), e)
    OBVIOUS
  <2>3. e.step \in Nat /\ e.step = T.nextStep
    BY <1>1, <1>2 DEF Numbers, Traces
  <2>4. Scan(s) \in OpenCalls /\ Scan(s).turn = T.openTurn /\ Scan(s).pending = <<>>
    BY <1>1, NoneWanted DEF Agree
  <2>5. /\ o \in OpenCalls /\ o.turn = T.openTurn /\ o.step = T.nextStep
        /\ o.pending = <<>> /\ o.started = {}
    BY <1>3b, <2>1, <2>2, <2>3, <2>4 DEF OpenCalls
  <2> QED BY <1>3b, <1>7, <2>2, <2>5, NoneWanted DEF Agree
<1>11. Trace(Append(s, e)) = U /\ U.openStep # 0
  BY <1>1, <1>2, <1>5, <1>7, TraceAppend DEF T, Numbers, Traces
<1>12. Unanswered(Append(s, e))
  <2>1. \A i \in 1 .. Len(s) : s[i].type = "assistant/message" => ~InOpenStep(U, s[i])
    BY <1>9 DEF RegularAt, AllLocated, CallEvents, T
  <2>2. \A i \in 1 .. Len(Append(s, e)) :
          (i \in 1 .. Len(s) /\ Append(s, e)[i] = s[i]) \/ Append(s, e)[i] = e
    BY <1>2, AppendFacts
  <2> QED BY <1>2, <1>11, <2>1, <2>2 DEF Unanswered
<1> QED BY <1>1, <1>2, <1>3, <1>5, <1>8, <1>9, <1>10, <1>11, <1>12, AppendBoundary
        DEF T, CallEvents

\* A step ends once its calls have their results.
LEMMA AppendStepEnd ==
  ASSUME NEW s \in Seq(Events), NEW n \in Nat, RegularAt(s, n, n),
         Trace(s).openStep # 0,
         NEW e, e = StepEvent("step/end", Trace(s).openTurn, Trace(s).openStep)
  PROVE  /\ e \in Events /\ RegularAt(Append(s, e), 0, 0)
         /\ Trace(Append(s, e)).openTurn = Trace(s).openTurn
         /\ Trace(Append(s, e)).openStep = 0
<1> DEFINE T == Trace(s)
<1>1. Numbers(T) /\ Agree(T, Scan(s), n, n)
  BY DEF RegularAt
<1>2. e \in Events /\ e.type = "step/end" /\ e.turn = T.openTurn /\ e.step = T.openStep
  BY <1>1 DEF StepEvent, Events, Numbers, Traces
<1>3. Accepts(T, e)
  BY <1>2 DEF Accepts, StepEvents, InOpenStep
<1>3a. PICK m \in Nat : m = T.nextStep + 1
  BY <1>1 DEF Numbers, Traces
<1>4. Apply(T, e) = [T EXCEPT !.openStep = 0, !.nextStep = m, !.pendingCalls = {}]
  BY <1>2, <1>3a DEF Apply
<1>5. PICK U : U = Apply(T, e)
  OBVIOUS
<1>6. T.openStep = T.nextStep /\ T.openTurn = T.nextTurn
  BY <1>1 DEF Numbers
<1> HIDE DEF T
<1>7. /\ U \in Traces(Nat) /\ U.openTurn = T.openTurn /\ U.openStep = 0
      /\ U.nextTurn = T.nextTurn /\ U.nextStep = m
      /\ U.pendingCalls = {}
  <2>1. PICK V : V = [T EXCEPT !.openStep = 0, !.nextStep = m]
    OBVIOUS
  <2>2. /\ V \in Traces(Nat) /\ V.openTurn = T.openTurn /\ V.openStep = 0
        /\ V.nextTurn = T.nextTurn /\ V.nextStep = m
    BY <1>1, <2>1 DEF Numbers, Traces
  <2>3. U = [V EXCEPT !.pendingCalls = {}]
    BY <1>4, <1>5, <2>1
  <2> QED BY <2>2, <2>3 DEF Traces
<1>8. Numbers(U)
  BY <1>1, <1>6, <1>3a, <1>7 DEF Numbers, Traces
<1>9. \A x : Located(T, x) => Located(U, x) /\ ~InOpenStep(U, x)
  BY <1>1, <1>6, <1>3a, <1>7 DEF Located, InOpenStep, Numbers, Traces
<1>10. Agree(U, ScanEvent(Scan(s), e), 0, 0)
  <2>1. ScanEvent(Scan(s), e) = [NothingOpen EXCEPT !.turn = Scan(s).turn]
    BY <1>2 DEF ScanEvent
  <2>2. PICK o : o = ScanEvent(Scan(s), e)
    OBVIOUS
  <2>3. Scan(s).turn = T.openTurn /\ Scan(s).turn \in Nat
    BY <1>1 DEF Agree, OpenCalls
  <2>4. /\ o \in OpenCalls /\ o.turn = T.openTurn /\ o.step = 0 /\ o.pending = <<>>
        /\ o.started = {}
    BY <2>1, <2>2, <2>3, NothingIsOpen DEF OpenCalls
  <2> QED BY <1>7, <2>2, <2>4, NoneWanted DEF Agree
<1>11. Trace(Append(s, e)) = U
  BY <1>2, <1>5, TraceAppend DEF T
<1> QED BY <1>1, <1>2, <1>3, <1>5, <1>7, <1>8, <1>9, <1>10, <1>11, AppendBoundary
        DEF T, CallEvents

-----------------------------------------------------------------------------
(***************************************************************************)
(* The events of calls.                                                    *)
(***************************************************************************)
Wanted(lo, hi) == [i \in 1 .. hi - lo |-> lo + i]

LEMMA WantedFacts ==
  ASSUME NEW lo \in Nat, NEW hi \in Nat, lo <= hi
  PROVE  /\ Wanted(lo, hi) \in Seq(Nat) /\ Len(Wanted(lo, hi)) = hi - lo
         /\ \A i \in 1 .. hi - lo : Wanted(lo, hi)[i] = lo + i
<1>1. hi - lo \in Nat
  OBVIOUS
<1>2. Wanted(lo, hi) \in [1 .. hi - lo -> Nat]
  BY <1>1 DEF Wanted
<1> QED BY <1>1, <1>2 DEF Wanted

\* A result of the first of them settles it.
LEMMA RemoveFirstWanted ==
  ASSUME NEW lo \in Nat, NEW hi \in Nat, lo < hi
  PROVE  RemoveFirst(Wanted(lo, hi), lo + 1) = Wanted(lo + 1, hi)
<1> DEFINE p == Wanted(lo, hi)
           w == Wanted(lo + 1, hi)
           I == {i \in 1 .. Len(p) : p[i] = lo + 1}
<1>1. /\ p \in Seq(Nat) /\ Len(p) = hi - lo /\ hi - lo \in Nat
      /\ \A i \in 1 .. hi - lo : p[i] = lo + i
  BY WantedFacts
<1>2. /\ w \in Seq(Nat) /\ Len(w) = hi - (lo + 1)
      /\ \A i \in 1 .. hi - (lo + 1) : w[i] = lo + 1 + i
  BY WantedFacts
<1> HIDE DEF p, w
<1>3. I = {1}
  BY <1>1
<1>4. Min(I) = 1
  BY <1>3 DEF Min
<1>5. RemoveFirst(p, lo + 1) = RemoveAt(p, Min(I))
  BY <1>3 DEF RemoveFirst, SelectInSeq
<1>6. RemoveAt(p, 1) = SubSeq(p, 1, 0) \o SubSeq(p, 2, Len(p))
  BY DEF RemoveAt
<1>7. SubSeq(p, 1, 0) = <<>>
  BY <1>1
<1>8. /\ SubSeq(p, 2, Len(p)) \in Seq(Nat) /\ Len(SubSeq(p, 2, Len(p))) = hi - lo - 1
      /\ \A i \in 1 .. hi - lo - 1 : SubSeq(p, 2, Len(p))[i] = p[i + 1]
  BY <1>1
<1>9. SubSeq(p, 2, Len(p)) = w
  BY <1>1, <1>2, <1>8, SeqEqual
<1>10. <<>> \o w = w
  BY <1>2
<1>11. RemoveFirst(p, lo + 1) = w
  BY <1>4, <1>5, <1>6, <1>7, <1>9, <1>10
<1> QED BY <1>11 DEF p, w

LEMMA AppendAssistant ==
  ASSUME NEW s \in Seq(Events), RegularAt(s, 0, 0), Unanswered(s),
         Trace(s).openStep # 0, NEW n \in Nat,
         NEW e, e = AssistantMessage(Trace(s).openTurn, Trace(s).openStep, n)
  PROVE  /\ e \in Events /\ RegularAt(Append(s, e), 0, n)
         /\ Trace(Append(s, e)) = Trace(s) /\ Scan(Append(s, e)).started = {}
<1> DEFINE q == Append(s, e)
           T == Trace(s)
           old == Scan(s)
           open == ScanEvent(old, e)
<1>1. /\ Numbers(T) /\ Window(T, 0, 0) /\ Agree(T, old, 0, 0) /\ AllLocated(s, T)
      /\ Requested(s, T, 0) /\ Answered(s, T, 0) /\ AnsweredOnce(s)
      /\ StartsKnown(s, T, old) /\ NeverBoth(s) /\ Accepted(s)
  BY DEF RegularAt
<1>2. /\ e \in Events /\ e.type = "assistant/message" /\ e.turn = T.openTurn
      /\ e.step = T.openStep /\ e.calls = n
  BY <1>1 DEF AssistantMessage, Events, Numbers, Traces
<1>3. /\ q \in Seq(Events) /\ Len(s) \in Nat /\ Len(q) = Len(s) + 1 /\ q[Len(s) + 1] = e
      /\ \A i \in 1 .. Len(s) : i \in 1 .. Len(q) /\ q[i] = s[i]
      /\ \A i \in 1 .. Len(q) :
           (i \in 1 .. Len(s) /\ q[i] = s[i]) \/ (i = Len(s) + 1 /\ q[i] = e)
  BY <1>2, AppendFacts
<1>4. Trace(q) = T /\ Scan(q) = open
  BY <1>2, TraceAppend, ScanAppend DEF Apply
<1>5. Accepted(q)
  BY <1>1, <1>2, AcceptedAppend DEF Accepts, StepEvents, InOpenStep
<1>6. \A i \in 1 .. Len(s) : s[i].type = "assistant/message" => ~InOpenStep(T, s[i])
  BY DEF Unanswered
<1>7. T.openStep # 0
  OBVIOUS
<1>8. Agree(T, open, 0, n) /\ open.started = {}
  <2>1. open = [old EXCEPT !.pending = old.pending \o [i \in 1 .. n |-> i]]
    BY <1>2 DEF ScanEvent
  <2>2. old \in OpenCalls /\ old.pending = <<>> /\ old.started = {}
    BY <1>1, NoneWanted DEF Agree
  <2>3. [i \in 1 .. n |-> i] = Wanted(0, n)
    <3>1. n - 0 = n /\ \A i \in 1 .. n : 0 + i = i
      OBVIOUS
    <3> QED BY <3>1 DEF Wanted
  <2>4. PICK w : w = Wanted(0, n)
    OBVIOUS
  <2>5. w \in Seq(Nat)
    BY <2>4, WantedFacts
  <2>6. old.pending \o [i \in 1 .. n |-> i] = w
    BY <2>2, <2>3, <2>4, <2>5
  <2>7. PICK o : o = open
    OBVIOUS
  <2>8. /\ o \in OpenCalls /\ o.turn = old.turn /\ o.step = old.step /\ o.pending = w
        /\ o.started = {}
    BY <2>1, <2>2, <2>5, <2>6, <2>7 DEF OpenCalls
  <2> QED BY <1>1, <2>4, <2>7, <2>8 DEF Agree, Wanted
<1> HIDE DEF q, T, old, open
<1>9. Window(T, 0, n)
  BY <1>1, <1>7 DEF Window
<1>10. AllLocated(q, T)
  <2>1. Located(T, e)
    BY <1>1, <1>2, <1>7 DEF Located, Numbers, Traces
  <2> QED BY <1>1, <1>3, <2>1 DEF AllLocated
<1>11. Requested(q, T, n)
  <2> SUFFICES ASSUME NEW i \in 1 .. Len(q), q[i].type = "assistant/message"
               PROVE  IF InOpenStep(T, q[i]) THEN q[i].calls = n
                      ELSE \A c \in 1 .. q[i].calls : \E j \in 1 .. Len(q) :
                             IsResult(q[j], q[i].turn, q[i].step, c)
    BY DEF Requested
  <2>1. CASE i \in 1 .. Len(s) /\ q[i] = s[i]
    <3>1. ~InOpenStep(T, q[i])
      BY <1>6, <2>1
    <3>2. \A c \in 1 .. s[i].calls : \E j \in 1 .. Len(s) :
            IsResult(s[j], s[i].turn, s[i].step, c)
      BY <1>1, <2>1, <3>1 DEF Requested
    <3> QED BY <1>3, <2>1, <3>1, <3>2
  <2>2. CASE q[i] = e
    BY <1>2, <2>2 DEF InOpenStep
  <2> QED BY <1>3, <2>1, <2>2
<1>12. Answered(q, T, 0)
  BY <1>1, <1>2, <1>3 DEF Answered
<1>13. AnsweredOnce(q)
  BY <1>1, <1>2, <1>3 DEF AnsweredOnce, IsResult
<1>14. StartsKnown(q, T, open)
  <2>1. open.started = old.started
    BY <1>1, <1>8 DEF Agree, OpenCalls
  <2> QED BY <1>1, <1>2, <1>3, <2>1 DEF StartsKnown
<1>15. NeverBoth(q)
  BY <1>1, <1>2, <1>3 DEF NeverBoth, IsResult
<1> QED BY <1>1, <1>2, <1>4, <1>5, <1>8, <1>9, <1>10, <1>11, <1>12, <1>13, <1>14, <1>15
        DEF RegularAt, q, T

LEMMA AppendCall ==
  ASSUME NEW s \in Seq(Events), NEW lo \in Nat, NEW hi \in Nat, RegularAt(s, lo, hi),
         NEW c \in Nat, lo < c, c <= hi,
         NEW e, e = ToolCall(Trace(s).openTurn, Trace(s).openStep, c)
  PROVE  /\ e \in Events /\ RegularAt(Append(s, e), lo, hi)
         /\ Trace(Append(s, e)).openTurn = Trace(s).openTurn
         /\ Trace(Append(s, e)).openStep = Trace(s).openStep
         /\ Scan(Append(s, e)).started = Scan(s).started \cup {c}
<1> DEFINE q == Append(s, e)
           T == Trace(s)
           U == Apply(T, e)
           old == Scan(s)
           open == ScanEvent(old, e)
<1>1. /\ Numbers(T) /\ Window(T, lo, hi) /\ Agree(T, old, lo, hi) /\ AllLocated(s, T)
      /\ Requested(s, T, hi) /\ Answered(s, T, lo) /\ AnsweredOnce(s)
      /\ StartsKnown(s, T, old) /\ NeverBoth(s) /\ Accepted(s)
  BY DEF RegularAt
<1>2. T.openStep # 0
  BY <1>1 DEF Window
<1>3. /\ e \in Events /\ e.type = "tool/call" /\ e.turn = T.openTurn
      /\ e.step = T.openStep /\ e.call = c
  BY <1>1 DEF ToolCall, Events, Numbers, Traces
<1>4. /\ q \in Seq(Events) /\ Len(s) \in Nat /\ Len(q) = Len(s) + 1
      /\ \A i \in 1 .. Len(s) : i \in 1 .. Len(q) /\ q[i] = s[i]
      /\ \A i \in 1 .. Len(q) :
           (i \in 1 .. Len(s) /\ q[i] = s[i]) \/ (i = Len(s) + 1 /\ q[i] = e)
  BY <1>3, AppendFacts
<1>5. Trace(q) = U /\ Scan(q) = open
  BY <1>3, TraceAppend, ScanAppend
<1>6. Accepted(q)
  BY <1>1, <1>3, AcceptedAppend DEF Accepts, StepEvents, InOpenStep
<1>7. U = [T EXCEPT !.pendingCalls = T.pendingCalls \cup {c}]
  BY <1>3 DEF Apply
<1>8. open = [old EXCEPT !.started = old.started \cup {c}]
  BY <1>3 DEF ScanEvent
<1> HIDE DEF q, T, U, old, open
<1>9. /\ U \in Traces(Nat) /\ U.openTurn = T.openTurn /\ U.openStep = T.openStep
      /\ U.nextTurn = T.nextTurn /\ U.nextStep = T.nextStep
      /\ U.pendingCalls = T.pendingCalls \cup {c}
  BY <1>1, <1>7 DEF Numbers, Traces
<1>10. Numbers(U) /\ Window(U, lo, hi)
  BY <1>1, <1>9 DEF Numbers, Window
<1>11. /\ open \in OpenCalls /\ open.turn = old.turn /\ open.step = old.step
       /\ open.pending = old.pending /\ open.started = old.started \cup {c}
  BY <1>1, <1>8 DEF Agree, OpenCalls
<1>12. Agree(U, open, lo, hi)
  BY <1>1, <1>9, <1>11 DEF Agree
<1>13. \A x : (Located(T, x) <=> Located(U, x)) /\ (InOpenStep(T, x) <=> InOpenStep(U, x))
  BY <1>9 DEF Located, InOpenStep
<1>14. AllLocated(q, U)
  <2>1. Located(U, e)
    BY <1>1, <1>2, <1>3, <1>9 DEF Located, Numbers, Traces
  <2> QED BY <1>1, <1>4, <1>13, <2>1 DEF AllLocated
<1>15. Requested(q, U, hi)
  <2> SUFFICES ASSUME NEW i \in 1 .. Len(q), q[i].type = "assistant/message"
               PROVE  IF InOpenStep(U, q[i]) THEN q[i].calls = hi
                      ELSE \A d \in 1 .. q[i].calls : \E j \in 1 .. Len(q) :
                             IsResult(q[j], q[i].turn, q[i].step, d)
    BY DEF Requested
  <2>1. i \in 1 .. Len(s) /\ q[i] = s[i]
    BY <1>3, <1>4
  <2> QED BY <1>1, <1>4, <1>13, <2>1 DEF Requested
<1>16. Answered(q, U, lo)
  BY <1>1, <1>3, <1>4, <1>9, <1>13 DEF Answered
<1>17. AnsweredOnce(q)
  BY <1>1, <1>3, <1>4 DEF AnsweredOnce, IsResult
<1>18. StartsKnown(q, U, open)
  BY <1>1, <1>3, <1>4, <1>11, <1>13 DEF StartsKnown
<1>19. NeverBoth(q)
  <2> SUFFICES ASSUME NEW i \in 1 .. Len(q), NEW j \in 1 .. Len(q), q[i].type = "tool/call",
                      IsResult(q[j], q[i].turn, q[i].step, q[i].call)
               PROVE  ~q[j].notStarted
    BY DEF NeverBoth
  <2>1. j \in 1 .. Len(s) /\ q[j] = s[j]
    BY <1>3, <1>4 DEF IsResult
  <2>2. CASE i \in 1 .. Len(s) /\ q[i] = s[i]
    BY <1>1, <2>1, <2>2 DEF NeverBoth
  <2>3. CASE q[i] = e
    <3>1. s[j].type = "tool/result" /\ InOpenStep(T, s[j]) /\ s[j].call = c
      BY <1>3, <2>1, <2>3 DEF IsResult, InOpenStep
    <3>2. c \in 1 .. lo
      BY <1>1, <2>1, <3>1 DEF Answered
    <3> QED BY <3>2
  <2> QED BY <1>4, <2>2, <2>3
<1> QED BY <1>3, <1>5, <1>6, <1>9, <1>10, <1>11, <1>12, <1>14, <1>15, <1>16, <1>17, <1>18, <1>19
        DEF RegularAt, q, old, T

LEMMA AppendResult ==
  ASSUME NEW s \in Seq(Events), NEW lo \in Nat, NEW hi \in Nat, RegularAt(s, lo, hi),
         lo < hi, NEW c \in Nat, c = lo + 1, NEW b \in BOOLEAN,
         b <=> c \notin Scan(s).started,
         NEW e, e = ToolResult(Trace(s).openTurn, Trace(s).openStep, c, b)
  PROVE  /\ e \in Events /\ RegularAt(Append(s, e), c, hi)
         /\ Trace(Append(s, e)).openTurn = Trace(s).openTurn
         /\ Trace(Append(s, e)).openStep = Trace(s).openStep
         /\ Scan(Append(s, e)).started = Scan(s).started
<1> DEFINE q == Append(s, e)
           T == Trace(s)
           U == Apply(T, e)
           old == Scan(s)
           open == ScanEvent(old, e)
<1>1. /\ Numbers(T) /\ Window(T, lo, hi) /\ Agree(T, old, lo, hi) /\ AllLocated(s, T)
      /\ Requested(s, T, hi) /\ Answered(s, T, lo) /\ AnsweredOnce(s)
      /\ StartsKnown(s, T, old) /\ NeverBoth(s) /\ Accepted(s)
  BY DEF RegularAt
<1>2. T.openStep # 0
  BY <1>1 DEF Window
<1>3. /\ e \in Events /\ e.type = "tool/result" /\ e.turn = T.openTurn
      /\ e.step = T.openStep /\ e.call = c /\ e.notStarted = b
  BY <1>1 DEF ToolResult, Events, Numbers, Traces
<1>4. /\ q \in Seq(Events) /\ Len(s) \in Nat /\ Len(q) = Len(s) + 1 /\ q[Len(s) + 1] = e
      /\ \A i \in 1 .. Len(s) : i \in 1 .. Len(q) /\ q[i] = s[i]
      /\ \A i \in 1 .. Len(q) :
           (i \in 1 .. Len(s) /\ q[i] = s[i]) \/ (i = Len(s) + 1 /\ q[i] = e)
  BY <1>3, AppendFacts
<1>5. Trace(q) = U /\ Scan(q) = open
  BY <1>3, TraceAppend, ScanAppend
<1>6. b <=> c \notin old.started
  OBVIOUS
<1>7. Accepted(q)
  <2>1. c \in T.pendingCalls \/ b
    BY <1>1, <1>6 DEF Agree
  <2> QED BY <1>1, <1>3, <2>1, AcceptedAppend DEF Accepts, StepEvents, InOpenStep
<1>8. U = [T EXCEPT !.pendingCalls = T.pendingCalls \ {c}]
  BY <1>3 DEF Apply
<1>9. open = [old EXCEPT !.pending = RemoveFirst(old.pending, c)]
  BY <1>3 DEF ScanEvent
<1> HIDE DEF q, T, U, old, open
<1>10. /\ U \in Traces(Nat) /\ U.openTurn = T.openTurn /\ U.openStep = T.openStep
       /\ U.nextTurn = T.nextTurn /\ U.nextStep = T.nextStep
       /\ U.pendingCalls = T.pendingCalls \ {c}
  BY <1>1, <1>8 DEF Numbers, Traces
<1>11. Numbers(U) /\ Window(U, c, hi)
  BY <1>1, <1>10 DEF Numbers, Window
<1>12. /\ open \in OpenCalls /\ open.turn = old.turn /\ open.step = old.step
       /\ open.pending = Wanted(c, hi) /\ open.started = old.started
  <2>1. old.pending = Wanted(lo, hi) /\ old \in OpenCalls
    BY <1>1 DEF Agree, Wanted
  <2>2. PICK w : w = Wanted(c, hi)
    OBVIOUS
  <2>3. w \in Seq(Nat)
    <3>1. c <= hi
      OBVIOUS
    <3> QED BY <2>2, <3>1, WantedFacts
  <2>4. RemoveFirst(old.pending, c) = w
    BY <2>1, <2>2, RemoveFirstWanted
  <2> QED BY <1>9, <2>1, <2>2, <2>3, <2>4 DEF OpenCalls
<1>13. Agree(U, open, c, hi)
  BY <1>1, <1>10, <1>12 DEF Agree, Wanted
<1>14. \A x : (Located(T, x) <=> Located(U, x)) /\ (InOpenStep(T, x) <=> InOpenStep(U, x))
  BY <1>10 DEF Located, InOpenStep
<1>15. AllLocated(q, U)
  <2>1. Located(U, e)
    BY <1>1, <1>2, <1>3, <1>10 DEF Located, Numbers, Traces
  <2> QED BY <1>1, <1>4, <1>14, <2>1 DEF AllLocated
<1>16. Requested(q, U, hi)
  <2> SUFFICES ASSUME NEW i \in 1 .. Len(q), q[i].type = "assistant/message"
               PROVE  IF InOpenStep(U, q[i]) THEN q[i].calls = hi
                      ELSE \A d \in 1 .. q[i].calls : \E j \in 1 .. Len(q) :
                             IsResult(q[j], q[i].turn, q[i].step, d)
    BY DEF Requested
  <2>1. i \in 1 .. Len(s) /\ q[i] = s[i]
    BY <1>3, <1>4
  <2> QED BY <1>1, <1>4, <1>14, <2>1 DEF Requested
<1>17. Answered(q, U, c)
  <2>1. ASSUME NEW d \in 1 .. c
        PROVE  \E j \in 1 .. Len(q) : IsResult(q[j], U.openTurn, U.openStep, d)
    <3>1. CASE d \in 1 .. lo
      BY <1>1, <1>4, <1>10, <3>1 DEF Answered
    <3>2. CASE d = c
      BY <1>3, <1>4, <1>10, <3>2 DEF IsResult
    <3> QED BY <3>1, <3>2
  <2>2. ASSUME NEW j \in 1 .. Len(q), q[j].type = "tool/result", InOpenStep(U, q[j])
        PROVE  q[j].call \in 1 .. c
    <3>1. CASE j \in 1 .. Len(s) /\ q[j] = s[j]
      <4>1. s[j].call \in 1 .. lo
        BY <1>1, <1>14, <2>2, <3>1 DEF Answered
      <4> QED BY <3>1, <4>1
    <3>2. CASE q[j] = e
      BY <1>3, <3>2
    <3> QED BY <1>4, <3>1, <3>2
  <2> QED BY <2>1, <2>2 DEF Answered
<1>18. AnsweredOnce(q)
  <2>1. ASSUME NEW i \in 1 .. Len(s), s[i].type = "tool/result", s[i].turn = T.openTurn,
               s[i].step = T.openStep, s[i].call = c
        PROVE  FALSE
    <3>1. s[i].call \in 1 .. lo
      BY <1>1, <2>1 DEF Answered, InOpenStep
    <3> QED BY <2>1, <3>1
  <2> QED BY <1>1, <1>3, <1>4, <2>1 DEF AnsweredOnce, IsResult
<1>19. StartsKnown(q, U, open)
  BY <1>1, <1>3, <1>4, <1>12, <1>14 DEF StartsKnown
<1>20. NeverBoth(q)
  <2> SUFFICES ASSUME NEW i \in 1 .. Len(q), NEW j \in 1 .. Len(q), q[i].type = "tool/call",
                      IsResult(q[j], q[i].turn, q[i].step, q[i].call)
               PROVE  ~q[j].notStarted
    BY DEF NeverBoth
  <2>1. i \in 1 .. Len(s) /\ q[i] = s[i]
    BY <1>3, <1>4
  <2>2. CASE j \in 1 .. Len(s) /\ q[j] = s[j]
    BY <1>1, <2>1, <2>2 DEF NeverBoth
  <2>3. CASE q[j] = e
    <3>1. InOpenStep(T, s[i]) /\ s[i].call = c
      BY <1>3, <2>1, <2>3 DEF IsResult, InOpenStep
    <3>2. c \in old.started
      BY <1>1, <2>1, <3>1 DEF StartsKnown
    <3> QED BY <1>3, <1>6, <2>3, <3>2
  <2> QED BY <1>4, <2>2, <2>3
<1> QED BY <1>3, <1>5, <1>7, <1>10, <1>11, <1>12, <1>13, <1>15, <1>16, <1>17, <1>18, <1>19, <1>20
        DEF RegularAt, q, old, T

-----------------------------------------------------------------------------
(***************************************************************************)
(* Prefixes.                                                               *)
(***************************************************************************)
LEMMA EmptyRegular == RegularAt(<<>>, 0, 0) /\ Cuttable(<<>>)
<1>1. Numbers(FreshTrace)
  BY DEF Numbers, FreshTrace, Traces
<1>2. Agree(FreshTrace, NothingOpen, 0, 0)
  BY NothingIsOpen, NoneWanted DEF Agree, FreshTrace
<1>3. RegularAt(<<>>, 0, 0)
  BY <1>1, <1>2, TraceEmpty, ScanEmpty
     DEF RegularAt, Window, Accepted, AllLocated, Requested, Answered, AnsweredOnce,
         StartsKnown, NeverBoth
<1>4. \A k \in 0 .. Len(<<>>) : SubSeq(<<>>, 1, k) = <<>>
  OBVIOUS
<1> QED BY <1>3, <1>4 DEF Cuttable, Regular

LEMMA CuttableAppend ==
  ASSUME NEW s \in Seq(Events), NEW e \in Events, Cuttable(s), Regular(Append(s, e))
  PROVE  Cuttable(Append(s, e))
<1> SUFFICES ASSUME NEW k \in 0 .. Len(Append(s, e))
             PROVE  Regular(SubSeq(Append(s, e), 1, k))
  BY DEF Cuttable
<1>1. Len(s) \in Nat /\ Len(Append(s, e)) = Len(s) + 1
  BY AppendFacts
<1>2. CASE k \in 0 .. Len(s)
  BY <1>2, PrefixOfAppend DEF Cuttable
<1>3. CASE k = Len(s) + 1
  BY <1>3, PrefixOfAppend
<1> QED BY <1>1, <1>2, <1>3

LEMMA CuttableCut ==
  ASSUME NEW s \in Seq(Events), Cuttable(s), NEW k \in 0 .. Len(s)
  PROVE  /\ SubSeq(s, 1, k) \in Seq(Events) /\ Len(SubSeq(s, 1, k)) = k
         /\ Cuttable(SubSeq(s, 1, k)) /\ Regular(SubSeq(s, 1, k))
         /\ \A j \in 0 .. k : SubSeq(SubSeq(s, 1, k), 1, j) = SubSeq(s, 1, j)
         /\ \A i \in 1 .. k : SubSeq(s, 1, k)[i] = s[i]
<1>1. /\ SubSeq(s, 1, k) \in Seq(Events) /\ Len(SubSeq(s, 1, k)) = k
      /\ \A i \in 1 .. k : SubSeq(s, 1, k)[i] = s[i]
  OBVIOUS
<1>2. ASSUME NEW j \in 0 .. k PROVE SubSeq(SubSeq(s, 1, k), 1, j) = SubSeq(s, 1, j)
  OBVIOUS
<1>3. PICK t : t = SubSeq(s, 1, k)
  OBVIOUS
<1>4. Cuttable(t)
  <2> SUFFICES ASSUME NEW j \in 0 .. Len(t) PROVE Regular(SubSeq(t, 1, j))
    BY DEF Cuttable
  <2>1. j \in 0 .. k /\ j \in 0 .. Len(s)
    BY <1>1, <1>3
  <2> QED BY <1>2, <1>3, <2>1 DEF Cuttable
<1>5. Regular(t)
  BY <1>3 DEF Cuttable
<1> QED BY <1>1, <1>2, <1>3, <1>4, <1>5

LEMMA WholeLog ==
  ASSUME NEW s \in Seq(Events), Cuttable(s)
  PROVE  Regular(s)
<1>1. Len(s) \in 0 .. Len(s) /\ SubSeq(s, 1, Len(s)) = s
  OBVIOUS
<1> QED BY <1>1 DEF Cuttable

-----------------------------------------------------------------------------
(***************************************************************************)
(* The repair writes one closer after the other, and each leaves a log     *)
(* whose closers are the rest.                                             *)
(***************************************************************************)
Outcomes(T, started, lo, hi) ==
  [i \in 1 .. hi - lo |-> ToolResult(T.openTurn, T.openStep, lo + i, lo + i \notin started)]

Ends(T) ==
  IF T.openStep = 0 THEN <<TurnEnd(T.openTurn)>>
  ELSE <<StepEvent("step/end", T.openTurn, T.openStep), TurnEnd(T.openTurn)>>

LEMMA OutcomeFacts ==
  ASSUME NEW T, Numbers(T), NEW started, NEW lo \in Nat, NEW hi \in Nat, lo <= hi
  PROVE  /\ Outcomes(T, started, lo, hi) \in Seq(Events)
         /\ Len(Outcomes(T, started, lo, hi)) = hi - lo
         /\ \A i \in 1 .. hi - lo : Outcomes(T, started, lo, hi)[i]
              = ToolResult(T.openTurn, T.openStep, lo + i, lo + i \notin started)
         /\ Ends(T) \in Seq(Events)
<1>1. hi - lo \in Nat
  OBVIOUS
<1>2. ASSUME NEW i \in 1 .. hi - lo
      PROVE  ToolResult(T.openTurn, T.openStep, lo + i, lo + i \notin started) \in Events
  <2>1. PICK c \in Nat : c = lo + i
    OBVIOUS
  <2>2. PICK b \in BOOLEAN : b = (c \notin started)
    OBVIOUS
  <2>3. ToolResult(T.openTurn, T.openStep, c, b) \in Events
    BY DEF ToolResult, Events, Numbers, Traces
  <2> QED BY <2>1, <2>2, <2>3
<1>3. TurnEnd(T.openTurn) \in Events /\ StepEvent("step/end", T.openTurn, T.openStep) \in Events
  BY DEF TurnEnd, StepEvent, Events, Numbers, Traces
<1>4. Outcomes(T, started, lo, hi) \in [1 .. hi - lo -> Events]
  BY <1>2 DEF Outcomes
<1> QED BY <1>1, <1>3, <1>4 DEF Outcomes, Ends

LEMMA OneElement ==
  ASSUME NEW S, NEW a \in S
  PROVE  <<a>> \in Seq(S) /\ Len(<<a>>) = 1
OBVIOUS

LEMMA AppendPair ==
  ASSUME NEW S, NEW o \in Seq(S), NEW a \in S, NEW b \in S
  PROVE  /\ o \o <<a>> = Append(o, a)
         /\ o \o <<a, b>> = Append(Append(o, a), b)
         /\ o \o <<a>> \in Seq(S) /\ o \o <<a, b>> \in Seq(S)
<1>1. o \o <<a>> = Append(o, a) /\ o \o <<a>> \in Seq(S)
  OBVIOUS
<1>2. o \o <<a, b>> = Append(Append(o, a), b) /\ o \o <<a, b>> \in Seq(S)
  OBVIOUS
<1> QED BY <1>1, <1>2

LEMMA CloserForm ==
  ASSUME NEW s \in Seq(Events), NEW lo \in Nat, NEW hi \in Nat, RegularAt(s, lo, hi)
  PROVE  /\ Trace(s).openTurn = 0 => Closers(s) = <<>>
         /\ Trace(s).openTurn # 0 =>
              Closers(s) = Outcomes(Trace(s), Scan(s).started, lo, hi) \o Ends(Trace(s))
         /\ Closers(s) \in Seq(Events)
<1> DEFINE T == Trace(s)
           open == Scan(s)
           Result(c) == ToolResult(T.openTurn, T.openStep, c, c \notin open.started)
           given == [i \in DOMAIN open.pending |-> Result(open.pending[i])]
           outcomes == Outcomes(T, open.started, lo, hi)
<1>1. Numbers(T) /\ lo <= hi /\ open.turn = T.openTurn /\ open.step = T.openStep
      /\ open.pending = Wanted(lo, hi)
  BY DEF RegularAt, Window, Agree, Wanted
<1>2. T.openTurn = 0 => Closers(s) = <<>>
  BY <1>1 DEF Closers
<1>3. given = outcomes
  <2>1. DOMAIN open.pending = 1 .. hi - lo
    BY <1>1 DEF Wanted
  <2>2. \A i \in 1 .. hi - lo : open.pending[i] = lo + i
    BY <1>1 DEF Wanted
  <2> QED BY <2>1, <2>2 DEF Outcomes
<1>4. T.openTurn # 0 =>
        Closers(s) = outcomes
          \o (IF T.openStep = 0 THEN <<>> ELSE <<StepEvent("step/end", T.openTurn, T.openStep)>>)
          \o <<TurnEnd(T.openTurn)>>
  <2> SUFFICES ASSUME T.openTurn # 0
               PROVE  Closers(s) = outcomes
          \o (IF T.openStep = 0 THEN <<>> ELSE <<StepEvent("step/end", T.openTurn, T.openStep)>>)
          \o <<TurnEnd(T.openTurn)>>
    OBVIOUS
  <2>1. Closers(s) = [i \in DOMAIN open.pending |->
                        ToolResult(open.turn, open.step, open.pending[i],
                                   open.pending[i] \notin open.started)]
          \o (IF open.step = 0 THEN <<>> ELSE <<StepEvent("step/end", open.turn, open.step)>>)
          \o <<TurnEnd(open.turn)>>
    BY <1>1 DEF Closers
  <2> QED BY <1>1, <1>3, <2>1
<1>5. /\ outcomes \in Seq(Events) /\ Ends(T) \in Seq(Events)
  BY <1>1, OutcomeFacts
<1>6. TurnEnd(T.openTurn) \in Events /\ StepEvent("step/end", T.openTurn, T.openStep) \in Events
  BY <1>1 DEF TurnEnd, StepEvent, Events, Numbers, Traces
<1> HIDE DEF T, outcomes
<1>7. T.openTurn # 0 => Closers(s) = outcomes \o Ends(T)
  <2>1. CASE T.openStep = 0
    <3>1. (outcomes \o <<>>) \o <<TurnEnd(T.openTurn)>> = outcomes \o <<TurnEnd(T.openTurn)>>
      <4>1. outcomes \o <<>> = outcomes
        BY <1>5
      <4> QED BY <4>1
    <3> QED BY <1>4, <2>1, <3>1 DEF Ends
  <2>2. CASE T.openStep # 0
    <3>1. PICK a \in Events : a = StepEvent("step/end", T.openTurn, T.openStep)
      BY <1>6
    <3>2. PICK b \in Events : b = TurnEnd(T.openTurn)
      BY <1>6
    <3>3. PICK o \in Seq(Events) : o = outcomes
      BY <1>5
    <3>4. (o \o <<a>>) \o <<b>> = o \o <<a, b>>
      <4>1. PICK q : q = o \o <<a>>
        OBVIOUS
      <4>2. q \in Seq(Events) /\ q = Append(o, a)
        BY <4>1, AppendPair
      <4>3. q \o <<b>> = Append(q, b)
        BY <4>2, AppendPair
      <4>4. o \o <<a, b>> = Append(q, b)
        BY <4>2, AppendPair
      <4> QED BY <4>1, <4>3, <4>4
    <3>5. Ends(T) = <<a, b>>
      BY <2>2, <3>1, <3>2 DEF Ends
    <3> QED BY <1>4, <2>2, <3>1, <3>2, <3>3, <3>4, <3>5
  <2> QED BY <2>1, <2>2
<1>8. Closers(s) \in Seq(Events)
  <2>1. outcomes \o Ends(T) \in Seq(Events)
    BY <1>5
  <2>2. <<>> \in Seq(Events)
    OBVIOUS
  <2>3. CASE T.openTurn = 0
    <3>1. Closers(s) = <<>>
      BY <1>2, <2>3 DEF T
    <3> QED BY <2>2, <3>1
  <2>4. CASE T.openTurn # 0
    <3>1. Closers(s) = outcomes \o Ends(T)
      BY <1>7, <2>4
    <3> QED BY <2>1, <3>1
  <2> QED BY <2>3, <2>4
<1> QED BY <1>2, <1>7, <1>8 DEF T, outcomes

LEMMA CloserStep ==
  ASSUME NEW s \in Seq(Events), Regular(s), Trace(s).openTurn # 0
  PROVE  \E e \in Events : /\ Regular(Append(s, e))
                           /\ Closers(s) = <<e>> \o Closers(Append(s, e))
<1> DEFINE T == Trace(s)
           started == Scan(s).started
<1>1. PICK lo \in Nat, hi \in Nat : RegularAt(s, lo, hi)
  BY DEF Regular
<1>2. Numbers(T) /\ Window(T, lo, hi)
  BY <1>1 DEF RegularAt
<1>3. Closers(s) = Outcomes(T, started, lo, hi) \o Ends(T)
  BY <1>1, CloserForm
<1>4. CASE lo < hi
  <2>1. PICK c \in Nat : c = lo + 1
    OBVIOUS
  <2>2. PICK b \in BOOLEAN : b <=> c \notin started
    OBVIOUS
  <2> DEFINE e == ToolResult(T.openTurn, T.openStep, c, b)
             q == Append(s, e)
  <2>3. e \in Events /\ RegularAt(q, c, hi) /\ Scan(q).started = started
    BY <1>1, <1>4, <2>1, <2>2, AppendResult
  <2>4. /\ Trace(q).openTurn = T.openTurn /\ Trace(q).openStep = T.openStep
    BY <1>1, <1>4, <2>1, <2>2, AppendResult
  <2>5. q \in Seq(Events)
    BY <2>3
  <2>6. Closers(q) = Outcomes(Trace(q), started, c, hi) \o Ends(Trace(q))
    BY <2>3, <2>4, <2>5, CloserForm
  <2>7. /\ Outcomes(Trace(q), started, c, hi) = Outcomes(T, started, c, hi)
        /\ Ends(Trace(q)) = Ends(T)
    BY <2>4 DEF Outcomes, Ends
  <2>8. Outcomes(T, started, lo, hi) = <<e>> \o Outcomes(T, started, c, hi)
    <3> DEFINE a == Outcomes(T, started, lo, hi)
               r == Outcomes(T, started, c, hi)
    <3>1. /\ a \in Seq(Events) /\ Len(a) = hi - lo
          /\ \A i \in 1 .. hi - lo :
               a[i] = ToolResult(T.openTurn, T.openStep, lo + i, lo + i \notin started)
      BY <1>2, <1>4, OutcomeFacts
    <3>2. /\ r \in Seq(Events) /\ Len(r) = hi - c
          /\ \A i \in 1 .. hi - c :
               r[i] = ToolResult(T.openTurn, T.openStep, c + i, c + i \notin started)
      <4>1. c <= hi
        BY <1>4, <2>1
      <4> QED BY <1>2, <4>1, OutcomeFacts
    <3>3. a[1] = e
      <4>1. 1 \in 1 .. hi - lo /\ lo + 1 = c
        BY <1>4, <2>1
      <4> QED BY <2>2, <3>1, <4>1
    <3>4. \A i \in 1 .. hi - c : a[i + 1] = r[i]
      <4> SUFFICES ASSUME NEW i \in 1 .. hi - c PROVE a[i + 1] = r[i]
        OBVIOUS
      <4>1. i + 1 \in 1 .. hi - lo /\ lo + (i + 1) = c + i
        BY <2>1
      <4> QED BY <3>1, <3>2, <4>1
    <3> HIDE DEF a, r, e
    <3>5. /\ <<e>> \o r \in Seq(Events) /\ Len(<<e>> \o r) = 1 + Len(r)
          /\ (<<e>> \o r)[1] = e /\ \A i \in 1 .. Len(r) : (<<e>> \o r)[i + 1] = r[i]
      BY <2>3, <3>2
    <3>6. Len(a) = Len(<<e>> \o r)
      BY <1>4, <2>1, <3>1, <3>2, <3>5
    <3>7. \A i \in 1 .. Len(a) : a[i] = (<<e>> \o r)[i]
      <4> SUFFICES ASSUME NEW i \in 1 .. Len(a) PROVE a[i] = (<<e>> \o r)[i]
        OBVIOUS
      <4>1. CASE i = 1
        BY <3>3, <3>5, <4>1
      <4>2. CASE i # 1
        <5>1. PICK j \in 1 .. hi - c : i = j + 1
          <6>1. i - 1 \in 1 .. hi - c /\ i = (i - 1) + 1
            BY <2>1, <3>1, <4>2
          <6> QED BY <6>1
        <5> QED BY <3>2, <3>4, <3>5, <5>1
      <4> QED BY <4>1, <4>2
    <3>8. a = <<e>> \o r
      BY <3>1, <3>5, <3>6, <3>7, SeqEqual
    <3> QED BY <3>8 DEF a, r
  <2>9. Closers(s) = <<e>> \o Closers(q)
    <3>1. /\ Outcomes(T, started, c, hi) \in Seq(Events) /\ Ends(T) \in Seq(Events)
      <4>1. c <= hi
        BY <1>4, <2>1
      <4> QED BY <1>2, <4>1, OutcomeFacts
    <3> HIDE DEF e, q, T, started
    <3>2. (<<e>> \o Outcomes(T, started, c, hi)) \o Ends(T)
            = <<e>> \o (Outcomes(T, started, c, hi) \o Ends(T))
      <4>1. <<e>> \in Seq(Events)
        BY <2>3
      <4> QED BY <3>1, <4>1, ConcatAssociative
    <3> QED BY <1>3, <2>6, <2>7, <2>8, <3>2
  <2>10. Regular(q)
    BY <2>3 DEF Regular
  <2> QED BY <2>3, <2>9, <2>10
<1>5. CASE lo = hi /\ T.openStep # 0
  <2> DEFINE e == StepEvent("step/end", T.openTurn, T.openStep)
             q == Append(s, e)
  <2>1. e \in Events /\ RegularAt(q, 0, 0)
    BY <1>1, <1>5, AppendStepEnd
  <2>2. Trace(q).openTurn = T.openTurn /\ Trace(q).openStep = 0
    BY <1>1, <1>5, AppendStepEnd
  <2>3. Closers(q) = Outcomes(Trace(q), Scan(q).started, 0, 0) \o Ends(Trace(q))
    <3>1. q \in Seq(Events) /\ Trace(q).openTurn # 0
      BY <2>1, <2>2
    <3> HIDE DEF e, q
    <3> QED BY <2>1, <3>1, CloserForm
  <2>4. /\ Outcomes(Trace(q), Scan(q).started, 0, 0) = <<>>
        /\ Outcomes(T, started, lo, hi) = <<>>
    <3>1. hi - lo = 0 /\ 0 - 0 = 0
      BY <1>5
    <3> QED BY <3>1 DEF Outcomes
  <2>5. /\ Ends(Trace(q)) = <<TurnEnd(T.openTurn)>>
        /\ Ends(T) = <<e, TurnEnd(T.openTurn)>>
    BY <1>5, <2>2 DEF Ends
  <2>6. TurnEnd(T.openTurn) \in Events
    BY <1>2 DEF TurnEnd, Events, Numbers, Traces
  <2> HIDE DEF e, q
  <2>7. Closers(s) = <<e>> \o Closers(q)
    BY <1>3, <2>1, <2>3, <2>4, <2>5, <2>6
  <2> QED BY <2>1, <2>7 DEF Regular, q
<1>6. CASE lo = hi /\ T.openStep = 0
  <2> DEFINE e == TurnEnd(T.openTurn)
             q == Append(s, e)
  <2>1. e \in Events /\ RegularAt(q, 0, 0)
    BY <1>1, <1>6, AppendTurnEnd
  <2>2. Trace(q).openTurn = 0
    BY <1>1, <1>6, AppendTurnEnd
  <2>3. Closers(q) = <<>>
    <3>1. q \in Seq(Events)
      BY <2>1
    <3> HIDE DEF e, q
    <3> QED BY <2>1, <2>2, <3>1, CloserForm
  <2>4. Outcomes(T, started, lo, hi) = <<>>
    <3>1. hi - lo = 0
      BY <1>6
    <3> QED BY <3>1 DEF Outcomes
  <2>5. Ends(T) = <<e>>
    BY <1>6 DEF Ends
  <2> HIDE DEF e, q
  <2>6. Closers(s) = <<e>> \o Closers(q)
    BY <1>3, <2>1, <2>3, <2>4, <2>5
  <2> QED BY <2>1, <2>6 DEF Regular, q
<1>7. lo < hi \/ (lo = hi /\ T.openStep # 0) \/ (lo = hi /\ T.openStep = 0)
  BY <1>1, <1>2 DEF Window
<1> QED BY <1>4, <1>5, <1>6, <1>7, Zenon

LEMMA OneMore ==
  ASSUME NEW S, NEW s \in Seq(S), NEW cl \in Seq(S), NEW k \in Nat, k + 1 <= Len(cl)
  PROVE  /\ cl[k + 1] \in S
         /\ s \o SubSeq(cl, 1, k + 1) = Append(s \o SubSeq(cl, 1, k), cl[k + 1])
<1>1. PICK a : a = SubSeq(cl, 1, k)
  OBVIOUS
<1>2. PICK b : b = SubSeq(cl, 1, k + 1)
  OBVIOUS
<1>3. PICK e : e = cl[k + 1]
  OBVIOUS
<1>4. /\ a \in Seq(S) /\ Len(a) = k /\ \A i \in 1 .. k : a[i] = cl[i]
      /\ b \in Seq(S) /\ Len(b) = k + 1 /\ (\A i \in 1 .. k + 1 : b[i] = cl[i])
      /\ e \in S
  BY <1>1, <1>2, <1>3
<1>5. b = Append(a, e)
  <2>1. /\ Append(a, e) \in Seq(S) /\ Len(Append(a, e)) = k + 1
        /\ Append(a, e)[k + 1] = e /\ \A i \in 1 .. k : Append(a, e)[i] = a[i]
    BY <1>4
  <2>2. \A i \in 1 .. k + 1 : b[i] = Append(a, e)[i]
    BY <1>3, <1>4, <2>1
  <2> QED BY <1>4, <2>1, <2>2, SeqEqual
<1>6. s \o Append(a, e) = Append(s \o a, e)
  BY <1>4
<1> QED BY <1>1, <1>2, <1>3, <1>4, <1>5, <1>6

LEMMA SplitTail ==
  ASSUME NEW S, NEW cl \in Seq(S), NEW k \in Nat, k + 1 <= Len(cl), NEW e \in S,
         NEW r \in Seq(S), SubSeq(cl, k + 1, Len(cl)) = <<e>> \o r
  PROVE  /\ e = cl[k + 1]
         /\ r = SubSeq(cl, (k + 1) + 1, Len(cl))
<1> DEFINE n == Len(cl)
<1>1. PICK a : a = SubSeq(cl, k + 1, n)
  OBVIOUS
<1>2. PICK b : b = SubSeq(cl, (k + 1) + 1, n)
  OBVIOUS
<1>3. PICK w : w = <<e>> \o r
  OBVIOUS
<1>4. a = w
  BY <1>1, <1>3
<1>5. n \in Nat /\ k + 1 <= n
  OBVIOUS
<1>6. /\ a \in Seq(S) /\ Len(a) = n - k /\ \A i \in 1 .. n - k : a[i] = cl[k + i]
  BY <1>1, <1>5
<1>7. /\ b \in Seq(S) /\ Len(b) = n - (k + 1)
      /\ \A i \in 1 .. n - (k + 1) : b[i] = cl[(k + 1) + i]
  BY <1>2, <1>5
<1>8. /\ w \in Seq(S) /\ Len(w) = 1 + Len(r) /\ w[1] = e
      /\ \A i \in 1 .. Len(r) : w[i + 1] = r[i]
  BY <1>3
<1> HIDE DEF n
<1>9. e = cl[k + 1]
  <2>1. 1 \in 1 .. n - k
    BY <1>5
  <2> QED BY <1>4, <1>6, <1>8, <2>1
<1>10. Len(r) = n - (k + 1)
  <2>1. n - k = 1 + Len(r) /\ Len(r) \in Nat
    BY <1>4, <1>6, <1>8
  <2> QED BY <1>5, <2>1
<1>11. \A i \in 1 .. n - (k + 1) : r[i] = b[i]
  <2> SUFFICES ASSUME NEW i \in 1 .. n - (k + 1) PROVE r[i] = b[i]
    OBVIOUS
  <2>1. i + 1 \in 1 .. n - k /\ k + (i + 1) = (k + 1) + i
    BY <1>5
  <2>2. a[i + 1] = cl[(k + 1) + i]
    BY <1>6, <2>1
  <2>3. w[i + 1] = r[i]
    BY <1>8, <1>10
  <2> QED BY <1>4, <1>7, <2>2, <2>3
<1>12. r = b
  BY <1>7, <1>10, <1>11, SeqEqual
<1> QED BY <1>2, <1>9, <1>12 DEF n

\* What is left to close: nothing exactly when no turn is open.
LEMMA CloserLeft ==
  ASSUME NEW s \in Seq(Events), Regular(s)
  PROVE  Closers(s) \in Seq(Events) /\ (Closers(s) = <<>> <=> Trace(s).openTurn = 0)
<1>1. PICK lo \in Nat, hi \in Nat : RegularAt(s, lo, hi)
  BY DEF Regular
<1>2. Closers(s) \in Seq(Events) /\ (Trace(s).openTurn = 0 => Closers(s) = <<>>)
  BY <1>1, CloserForm
<1>3. ASSUME Trace(s).openTurn # 0 PROVE Closers(s) # <<>>
  <2>1. PICK e \in Events : Regular(Append(s, e)) /\ Closers(s) = <<e>> \o Closers(Append(s, e))
    BY <1>3, CloserStep
  <2>2. PICK q : q = Append(s, e)
    OBVIOUS
  <2>3. q \in Seq(Events) /\ Regular(q)
    BY <2>1, <2>2
  <2>4. PICK r : r = Closers(q)
    OBVIOUS
  <2>5. r \in Seq(Events)
    BY <2>3, <2>4, CloserForm DEF Regular
  <2>6. <<e>> \o r # <<>>
    BY <2>5
  <2> QED BY <2>1, <2>2, <2>4, <2>6
<1> QED BY <1>2, <1>3

RepairedTo(q, s, cl, k) ==
  /\ q = s \o SubSeq(cl, 1, k)
  /\ q \in Seq(Events) /\ Cuttable(q)
  /\ Closers(q) = SubSeq(cl, k + 1, Len(cl))

LEMMA RepairSteps ==
  ASSUME NEW s \in Seq(Events), Cuttable(s), NEW cl, cl = Closers(s)
  PROVE  /\ cl \in Seq(Events)
         /\ \A k \in 0 .. Len(cl) : \E q : RepairedTo(q, s, cl, k)
<1>1. cl \in Seq(Events) /\ Len(cl) \in Nat
  BY WholeLog, CloserLeft
<1> DEFINE T == {k \in Nat : k <= Len(cl) => \E q : RepairedTo(q, s, cl, k)}
<1>2. 0 \in T
  <2>1. s = s \o SubSeq(cl, 1, 0) /\ cl = SubSeq(cl, 0 + 1, Len(cl))
    BY <1>1
  <2>2. RepairedTo(s, s, cl, 0)
    BY <2>1 DEF RepairedTo
  <2> QED BY <2>2
<1>3. ASSUME NEW k \in Nat, k \in T PROVE k + 1 \in T
  <2> SUFFICES ASSUME k + 1 <= Len(cl)
               PROVE  \E q : RepairedTo(q, s, cl, k + 1)
    OBVIOUS
  <2>1. PICK q : RepairedTo(q, s, cl, k)
    BY <1>1, <1>3
  <2>2. q \in Seq(Events) /\ Cuttable(q) /\ Regular(q)
    BY <2>1, WholeLog DEF RepairedTo
  <2>3. Closers(q) # <<>>
    <3>1. SubSeq(cl, k + 1, Len(cl)) # <<>>
      <4>1. Len(SubSeq(cl, k + 1, Len(cl))) # 0
        BY <1>1
      <4> QED BY <4>1
    <3> QED BY <2>1, <3>1 DEF RepairedTo
  <2>4. PICK e \in Events : Regular(Append(q, e)) /\ Closers(q) = <<e>> \o Closers(Append(q, e))
    BY <2>2, <2>3, CloserLeft, CloserStep
  <2>5. PICK p : p = Append(q, e)
    OBVIOUS
  <2>6. p \in Seq(Events) /\ Cuttable(p) /\ Regular(p)
    BY <2>2, <2>4, <2>5, CuttableAppend
  <2>7. PICK r : r = Closers(p)
    OBVIOUS
  <2>8. r \in Seq(Events)
    BY <2>6, <2>7, CloserLeft
  <2>9. SubSeq(cl, k + 1, Len(cl)) = <<e>> \o r
    BY <2>1, <2>4, <2>5, <2>7 DEF RepairedTo
  <2>10. e = cl[k + 1] /\ r = SubSeq(cl, (k + 1) + 1, Len(cl))
    BY <1>1, <2>8, <2>9, SplitTail
  <2>11. p = s \o SubSeq(cl, 1, k + 1)
    <3>1. s \o SubSeq(cl, 1, k + 1) = Append(s \o SubSeq(cl, 1, k), cl[k + 1])
      BY <1>1, OneMore
    <3> QED BY <2>1, <2>5, <2>10, <3>1 DEF RepairedTo
  <2>12. RepairedTo(p, s, cl, k + 1)
    BY <2>6, <2>7, <2>10, <2>11 DEF RepairedTo
  <2> QED BY <2>12
<1>4. \A k \in Nat : k \in T
  <2> HIDE DEF T
  <2> QED BY <1>2, <1>3, NatInd
<1> QED BY <1>1, <1>4

\* A repair that was not cut short closes the turn.
LEMMA RepairCloses ==
  ASSUME NEW s \in Seq(Events), Cuttable(s), NEW q, q = s \o Closers(s)
  PROVE  /\ q \in Seq(Events) /\ Cuttable(q) /\ Trace(q).openTurn = 0
         /\ Len(s) <= Len(q) /\ \A i \in 0 .. Len(s) : SubSeq(q, 1, i) = SubSeq(s, 1, i)
<1>1. PICK cl : cl = Closers(s)
  OBVIOUS
<1>2. cl \in Seq(Events) /\ Len(cl) \in 0 .. Len(cl)
  BY <1>1, RepairSteps
<1>3. PICK p : RepairedTo(p, s, cl, Len(cl))
  BY <1>1, <1>2, RepairSteps
<1>4. SubSeq(cl, 1, Len(cl)) = cl /\ SubSeq(cl, Len(cl) + 1, Len(cl)) = <<>>
  BY <1>2
<1>5. p = q /\ Closers(q) = <<>>
  BY <1>1, <1>3, <1>4 DEF RepairedTo
<1>6. q \in Seq(Events) /\ Cuttable(q)
  BY <1>3, <1>5 DEF RepairedTo
<1>7. Trace(q).openTurn = 0
  BY <1>5, <1>6, WholeLog, CloserLeft
<1>8. q = s \o cl
  BY <1>1
<1>9. Len(s) <= Len(q) /\ \A i \in 0 .. Len(s) : SubSeq(q, 1, i) = SubSeq(s, 1, i)
  <2>1. Len(q) = Len(s) + Len(cl) /\ Len(s) \in Nat /\ Len(cl) \in Nat
        /\ \A j \in 1 .. Len(s) : q[j] = s[j]
    BY <1>2, <1>8
  <2>2. ASSUME NEW i \in 0 .. Len(s) PROVE SubSeq(q, 1, i) = SubSeq(s, 1, i)
    <3>1. /\ SubSeq(q, 1, i) \in Seq(Events) /\ Len(SubSeq(q, 1, i)) = i
          /\ \A j \in 1 .. i : SubSeq(q, 1, i)[j] = q[j]
      BY <1>6, <2>1
    <3>2. /\ SubSeq(s, 1, i) \in Seq(Events) /\ Len(SubSeq(s, 1, i)) = i
          /\ \A j \in 1 .. i : SubSeq(s, 1, i)[j] = s[j]
      OBVIOUS
    <3>3. \A j \in 1 .. i : SubSeq(q, 1, i)[j] = SubSeq(s, 1, i)[j]
      BY <2>1, <3>1, <3>2
    <3> QED BY <3>1, <3>2, <3>3, SeqEqual
  <2> QED BY <2>1, <2>2
<1> QED BY <1>6, <1>7, <1>9

-----------------------------------------------------------------------------
(***************************************************************************)
(* The inbox holds messages.                                               *)
(***************************************************************************)
LEMMA LeastOf ==
  ASSUME NEW I \in SUBSET Nat, I # {}
  PROVE  Min(I) \in I
<1> DEFINE R == {ss \in Nat \X Nat : ss[1] < ss[2]}
<1>1. IsWellFoundedOn(R, Nat)
  BY NatLessThanWellFounded DEF OpToRel
<1>2. PICK x \in I : \A y \in I : ~(<<y, x>> \in R)
  <2> HIDE DEF R
  <2> QED BY <1>1, WFMin
<1>3. \A y \in I : x <= y
  <2> SUFFICES ASSUME NEW y \in I PROVE x <= y
    OBVIOUS
  <2>1. ~(y < x)
    BY <1>2
  <2> QED BY <2>1
<1> QED BY <1>3 DEF Min

LEMMA RemoveFirstTyped ==
  ASSUME NEW S, NEW p \in Seq(S), NEW x
  PROVE  RemoveFirst(p, x) \in Seq(S)
<1> DEFINE I == {i \in 1 .. Len(p) : p[i] = x}
<1>1. CASE I = {}
  BY <1>1 DEF RemoveFirst
<1>2. CASE I # {}
  <2>1. Min(I) \in I
    <3>1. I \in SUBSET Nat
      OBVIOUS
    <3> HIDE DEF I
    <3> QED BY <1>2, <3>1, LeastOf
  <2>2. RemoveFirst(p, x) = RemoveAt(p, Min(I))
    BY <1>2 DEF RemoveFirst, SelectInSeq
  <2>3. PICK n \in 1 .. Len(p) : n = Min(I)
    BY <2>1
  <2>4. /\ SubSeq(p, 1, n - 1) \in Seq(S)
        /\ SubSeq(p, n + 1, Len(p)) \in Seq(S)
    OBVIOUS
  <2> QED BY <2>2, <2>3, <2>4 DEF RemoveAt
<1> QED BY <1>1, <1>2

LEMMA QueueTyped ==
  ASSUME NEW s \in Seq(Events)
  PROVE  Queue(s) \in Seq(Messages)
<1> DEFINE T == {k \in Nat : k <= Len(s) => Queue(SubSeq(s, 1, k)) \in Seq(Messages)}
<1>1. 0 \in T
  <2>1. SubSeq(s, 1, 0) = <<>>
    OBVIOUS
  <2>2. Queue(SubSeq(s, 1, 0)) = <<>>
    BY <2>1, QueueEmpty
  <2>3. <<>> \in Seq(Messages)
    OBVIOUS
  <2> QED BY <2>2, <2>3
<1>2. ASSUME NEW k \in Nat, k \in T PROVE k + 1 \in T
  <2> SUFFICES ASSUME k + 1 <= Len(s) PROVE Queue(SubSeq(s, 1, k + 1)) \in Seq(Messages)
    OBVIOUS
  <2>1. PICK t \in Seq(Events) : t = SubSeq(s, 1, k)
    <3>1. SubSeq(s, 1, k) \in Seq(Events)
      OBVIOUS
    <3> QED BY <3>1
  <2>2. PICK e \in Events : e = s[k + 1]
    <3>1. k + 1 \in 1 .. Len(s)
      OBVIOUS
    <3> QED BY <3>1
  <2>3. SubSeq(s, 1, k + 1) = Append(t, e)
    <3>1. s[k + 1] \in Events /\ <<>> \o SubSeq(s, 1, k + 1)
            = Append(<<>> \o SubSeq(s, 1, k), s[k + 1])
      <4>1. <<>> \in Seq(Events)
        OBVIOUS
      <4> QED BY <4>1, OneMore
    <3>2. <<>> \o SubSeq(s, 1, k + 1) = SubSeq(s, 1, k + 1)
          /\ <<>> \o SubSeq(s, 1, k) = SubSeq(s, 1, k)
      <4>1. SubSeq(s, 1, k + 1) \in Seq(Events) /\ SubSeq(s, 1, k) \in Seq(Events)
        OBVIOUS
      <4> QED BY <4>1
    <3> QED BY <2>1, <2>2, <3>1, <3>2
  <2>4. PICK queue \in Seq(Messages) : queue = Queue(t)
    BY <1>2, <2>1
  <2>5. Splice(queue, e) \in Seq(Messages)
    <3>1. CASE e.type # "agent/inbox/spliced"
      BY <3>1 DEF Splice
    <3>2. CASE e.type = "agent/inbox/spliced"
      <4>1. e.message \in Messages /\ e.op \in {"insert", "claim"}
        BY <3>2 DEF Events
      <4>2. CASE e.op = "insert"
        BY <3>2, <4>1, <4>2 DEF Splice
      <4>3. CASE e.op = "claim"
        BY <3>2, <4>3, RemoveFirstTyped DEF Splice
      <4> QED BY <4>1, <4>2, <4>3
    <3> QED BY <3>1, <3>2
  <2> QED BY <2>3, <2>4, <2>5, QueueAppend
<1>3. \A k \in Nat : k \in T
  <2> HIDE DEF T
  <2> QED BY <1>1, <1>2, NatInd
<1>4. Len(s) \in Nat /\ SubSeq(s, 1, Len(s)) = s
  OBVIOUS
<1>5. Len(s) \in T
  <2> HIDE DEF T
  <2> QED BY <1>3, <1>4
<1>6. Queue(SubSeq(s, 1, Len(s))) \in Seq(Messages)
  BY <1>4, <1>5
<1> QED BY <1>4, <1>6

-----------------------------------------------------------------------------
(***************************************************************************)
(* A longer log.                                                           *)
(***************************************************************************)
Extends(q, s) ==
  /\ q \in Seq(Events) /\ Cuttable(q) /\ Len(s) <= Len(q)
  /\ \A k \in 0 .. Len(s) : SubSeq(q, 1, k) = SubSeq(s, 1, k)

LEMMA ExtendsItself ==
  ASSUME NEW s \in Seq(Events), Cuttable(s)
  PROVE  Extends(s, s)
BY DEF Extends

LEMMA ExtendsAppend ==
  ASSUME NEW s \in Seq(Events), NEW q, Extends(q, s), NEW e \in Events, Regular(Append(q, e))
  PROVE  Extends(Append(q, e), s)
<1>1. PICK r : r = Append(q, e)
  OBVIOUS
<1>2. q \in Seq(Events) /\ Cuttable(q) /\ Len(s) \in Nat /\ Len(s) <= Len(q)
  BY DEF Extends
<1>3. r \in Seq(Events) /\ Len(r) = Len(q) + 1 /\ Len(q) \in Nat /\ Cuttable(r)
  BY <1>1, <1>2, CuttableAppend
<1>4. \A k \in 0 .. Len(q) : SubSeq(r, 1, k) = SubSeq(q, 1, k)
  BY <1>1, <1>2, PrefixOfAppend
<1>5. \A k \in 0 .. Len(s) : SubSeq(r, 1, k) = SubSeq(s, 1, k)
  BY <1>2, <1>3, <1>4 DEF Extends
<1> QED BY <1>1, <1>2, <1>3, <1>5 DEF Extends

LEMMA ExtendsElements ==
  ASSUME NEW s \in Seq(Events), NEW q, Extends(q, s)
  PROVE  /\ q \in Seq(Events) /\ Len(s) \in Nat /\ Len(q) \in Nat /\ Len(s) <= Len(q)
         /\ \A i \in 1 .. Len(s) : q[i] = s[i]
<1>1. q \in Seq(Events) /\ Len(s) \in Nat /\ Len(q) \in Nat /\ Len(s) <= Len(q)
      /\ SubSeq(q, 1, Len(s)) = SubSeq(s, 1, Len(s))
  BY DEF Extends
<1>2. ASSUME NEW i \in 1 .. Len(s) PROVE q[i] = s[i]
  <2>1. SubSeq(q, 1, Len(s))[i] = q[i] /\ SubSeq(s, 1, Len(s))[i] = s[i]
    BY <1>1
  <2> QED BY <1>1, <2>1
<1> QED BY <1>1, <1>2

\* What the history remembers outlives every step that keeps the stored part.
LEMMA GrownKept ==
  ASSUME TypeOK, Kept, Extends(log', log), stored' \in stored .. Len(log'),
         sent' = sent, ran' = ran
  PROVE  Kept'
<1>1. log \in Seq(Events) /\ stored \in 0 .. Len(log) /\ Len(log) \in Nat
  BY DEF TypeOK
<1>2. /\ \A i \in 1 .. Len(log) : log'[i] = log[i]
      /\ log' \in Seq(Events) /\ Len(log') \in Nat /\ Len(log) <= Len(log')
  BY <1>1, ExtendsElements
<1>3. \A k \in 0 .. Len(log) : SubSeq(log', 1, k) = SubSeq(log, 1, k)
  BY DEF Extends
<1>4. ASSUME NEW prefix \in sent'
      PROVE  \E k \in 0 .. stored' : prefix = SubSeq(log', 1, k)
  <2>1. PICK k \in 0 .. stored : prefix = SubSeq(log, 1, k)
    BY <1>4 DEF Kept
  <2>2. k \in 0 .. stored' /\ k \in 0 .. Len(log)
    BY <1>1
  <2> QED BY <1>3, <2>1, <2>2
<1>5. ASSUME NEW r \in ran'
      PROVE  \E i \in 1 .. stored' : log'[i] = ToolCall(r[1], r[2], r[3])
  <2>1. PICK i \in 1 .. stored : log[i] = ToolCall(r[1], r[2], r[3])
    BY <1>5 DEF Kept
  <2>2. i \in 1 .. stored' /\ i \in 1 .. Len(log)
    BY <1>1
  <2> QED BY <1>2, <2>1, <2>2
<1> QED BY <1>4, <1>5 DEF Kept

LEMMA StepShape ==
  ASSUME Inductive, Extends(log', log), trace' = Trace(log'),
         stored' \in stored .. Len(log'), sent' = sent, ran' = ran, crashes' = crashes,
         pc' \in Places, mark' \in 0 .. Len(log'), batch' \in Seq(Messages),
         Len(batch') <= 1, tool' \in [Calls -> Stages],
         NEW lo \in Nat, NEW hi \in Nat, RegularAt(log', lo, hi), Standing(lo, hi)'
  PROVE  Inductive'
<1>1. Kept'
  BY GrownKept DEF Inductive
<1>2. log' \in Seq(Events) /\ Cuttable(log')
  BY DEF Extends
<1>3. trace' \in Traces(Nat)
  BY DEF RegularAt, Numbers
<1>4. TypeOK'
  <2>1. stored' \in 0 .. Len(log')
    BY DEF Inductive, TypeOK
  <2> QED BY <1>2, <1>3, <2>1 DEF Inductive, TypeOK
<1>5. (\E l, h \in Nat : RegularAt(log, l, h) /\ Standing(l, h))'
  OBVIOUS
<1> QED BY <1>1, <1>2, <1>4, <1>5 DEF Inductive

LEMMA Unpacked ==
  ASSUME Inductive
  PROVE  /\ log \in Seq(Events) /\ Len(log) \in Nat /\ trace = Trace(log)
         /\ Cuttable(log) /\ Extends(log, log)
         /\ pc \in Places /\ stored \in 0 .. Len(log) /\ mark \in 0 .. Len(log)
         /\ stored \in stored .. Len(log)
         /\ batch \in Seq(Messages) /\ Len(batch) <= 1 /\ tool \in [Calls -> Stages]
         /\ <<>> \in Seq(Messages) /\ Len(<<>>) <= 1 /\ NoCalls \in [Calls -> Stages]
         /\ \E lo, hi \in Nat : RegularAt(log, lo, hi) /\ Standing(lo, hi)
<1>1. /\ log \in Seq(Events) /\ trace = Trace(log) /\ Cuttable(log)
      /\ pc \in Places /\ stored \in 0 .. Len(log) /\ mark \in 0 .. Len(log)
      /\ batch \in Seq(Messages) /\ Len(batch) <= 1 /\ tool \in [Calls -> Stages]
      /\ \E lo, hi \in Nat : RegularAt(log, lo, hi) /\ Standing(lo, hi)
  BY DEF Inductive, TypeOK
<1>2. Extends(log, log)
  BY <1>1, ExtendsItself
<1>3. Len(log) \in Nat /\ stored \in stored .. Len(log)
  BY <1>1
<1>4. <<>> \in Seq(Messages) /\ Len(<<>>) <= 1
  OBVIOUS
<1>5. NoCalls \in [Calls -> Stages]
  BY DEF NoCalls, Stages
<1> QED BY <1>1, <1>2, <1>3, <1>4, <1>5

LEMMA OneEvent ==
  ASSUME Inductive, NEW e \in Events, Regular(Append(log, e)), log' = log \o <<e>>
  PROVE  log' = Append(log, e) /\ Extends(log', log) /\ log' \in Seq(Events)
<1>1. log \in Seq(Events) /\ Extends(log, log)
  BY Unpacked
<1>2. log' = Append(log, e)
  BY <1>1, AppendPair
<1>3. Extends(log', log)
  BY <1>1, <1>2, ExtendsAppend
<1> QED BY <1>2, <1>3 DEF Extends

LEMMA TwoEvents ==
  ASSUME Inductive, NEW a \in Events, NEW b \in Events, NEW q, q = Append(log, a),
         Regular(q), Regular(Append(q, b)), log' = Append(q, b)
  PROVE  Extends(log', log) /\ log' \in Seq(Events)
<1>1. log \in Seq(Events) /\ Extends(log, log)
  BY Unpacked
<1>3. Extends(q, log)
  BY <1>1, ExtendsAppend
<1>4. Extends(log', log)
  BY <1>1, <1>3, ExtendsAppend
<1> QED BY <1>4 DEF Extends

LEMMA UnansweredNeutral ==
  ASSUME NEW s \in Seq(Events), NEW e \in Events, e.type # "assistant/message",
         Trace(Append(s, e)) = Trace(s), Unanswered(s)
  PROVE  Unanswered(Append(s, e))
<1>1. PICK q : q = Append(s, e)
  OBVIOUS
<1>2. \A i \in 1 .. Len(q) : (i \in 1 .. Len(s) /\ q[i] = s[i]) \/ (i = Len(s) + 1 /\ q[i] = e)
  BY <1>1, AppendFacts
<1>3. Unanswered(q)
  BY <1>1, <1>2 DEF Unanswered
<1> QED BY <1>1, <1>3

-----------------------------------------------------------------------------
(***************************************************************************)
(* The steps of the live agent.                                            *)
(***************************************************************************)
LEMMA SendStep ==
  ASSUME Inductive, NEW m \in Messages, Send(m)
  PROVE  Inductive' /\ Extends(log', log)
<1>1. PICK lo \in Nat, hi \in Nat : RegularAt(log, lo, hi) /\ Standing(lo, hi)
  BY Unpacked
<1>2. PICK e \in Events : e = Inserted(m)
  BY DEF Inserted, Events
<1>3. e.type = "agent/inbox/spliced"
  BY <1>2 DEF Inserted
<1>4. log \in Seq(Events) /\ trace = Trace(log) /\ Len(log) \in Nat
  BY Unpacked
<1>5. /\ RegularAt(Append(log, e), lo, hi)
      /\ Trace(Append(log, e)) = Trace(log) /\ Scan(Append(log, e)) = Scan(log)
  BY <1>1, <1>3, <1>4, AppendNeutral
<1>6. log' = Append(log, e) /\ Extends(log', log) /\ log' \in Seq(Events)
  <2>1. log' = log \o <<e>>
    BY <1>2 DEF Send, Log
  <2> QED BY <1>5, <2>1, OneEvent DEF Regular
<1>7. /\ UNCHANGED <<pc, stored, mark, batch, tool, crashes, sent, ran>> /\ trace' = Trace(log')
      /\ trace' = trace
  BY <1>4, <1>5, <1>6 DEF Send, Log, effects
<1>8. Unanswered(log) => Unanswered(log')
  BY <1>3, <1>4, <1>5, <1>6, UnansweredNeutral
<1>9. Standing(lo, hi)'
  BY <1>1, <1>5, <1>6, <1>7, <1>8 DEF Standing, ToolAt, Turn, Step
<1>10. stored' \in stored .. Len(log') /\ mark' \in 0 .. Len(log')
  <2>1. Len(log') = Len(log) + 1
    BY <1>4, <1>6
  <2> QED BY <1>7, <2>1, Unpacked
<1> QED BY <1>1, <1>5, <1>6, <1>7, <1>9, <1>10, Unpacked, StepShape

LEMMA StartTurnStep ==
  ASSUME Inductive, StartTurn
  PROVE  Inductive' /\ Extends(log', log)
<1>1. PICK lo \in Nat, hi \in Nat : RegularAt(log, lo, hi) /\ Standing(lo, hi)
  BY Unpacked
<1>2. log \in Seq(Events) /\ trace = Trace(log) /\ Len(log) \in Nat /\ Trace(log).openTurn = 0
  <2>1. pc = "idle"
    BY DEF StartTurn
  <2> QED BY <1>1, <2>1, Unpacked DEF Standing, Turn
<1>3. PICK m \in Messages : m = Head(Queue(log))
  <2>1. PICK queue \in Seq(Messages) : queue = Queue(log)
    BY <1>2, QueueTyped
  <2>2. queue # <<>>
    BY <2>1 DEF StartTurn
  <2> QED BY <2>1, <2>2
<1>4. PICK a : a = TurnStart(trace.nextTurn)
  OBVIOUS
<1>5. PICK b \in Events : b = Claimed(m)
  BY DEF Claimed, Events
<1>6. PICK q : q = Append(log, a)
  OBVIOUS
<1>7. a \in Events /\ RegularAt(q, 0, 0) /\ Trace(q).openTurn # 0 /\ Trace(q).openStep = 0
  BY <1>1, <1>2, <1>4, <1>6, AppendTurnStart
<1>8. q \in Seq(Events) /\ b.type = "agent/inbox/spliced"
  BY <1>2, <1>5, <1>6, <1>7 DEF Claimed
<1>9. RegularAt(Append(q, b), 0, 0) /\ Trace(Append(q, b)) = Trace(q)
  BY <1>7, <1>8, AppendNeutral
<1>10. /\ log' = log \o <<a, b>> /\ pc' = "pre-step" /\ trace' = Trace(log')
       /\ mark' = Len(log) + Len(<<a, b>>) /\ batch' = <<m>>
       /\ UNCHANGED <<stored, tool, crashes, sent, ran>>
  BY <1>3, <1>4, <1>5 DEF StartTurn, Checkpoint, Log, effects
<1>11. log' = Append(q, b) /\ Extends(log', log) /\ log' \in Seq(Events)
  <2>1. log' = Append(q, b)
    BY <1>2, <1>6, <1>7, <1>10, AppendPair
  <2>2. Regular(q) /\ Regular(Append(q, b))
    BY <1>7, <1>9 DEF Regular
  <2> QED BY <1>6, <1>7, <2>1, <2>2, TwoEvents
<1>12. Standing(0, 0)'
  BY <1>7, <1>9, <1>10, <1>11 DEF Standing, Turn, Step
<1>13. stored' \in stored .. Len(log') /\ mark' \in 0 .. Len(log')
  <2>1. Len(log') = Len(log) + 2 /\ mark' = Len(log) + 2
    BY <1>2, <1>6, <1>7, <1>8, <1>10, <1>11
  <2> QED BY <1>2, <1>10, <2>1, Unpacked
<1>14. batch' \in Seq(Messages) /\ Len(batch') <= 1 /\ pc' \in Places
  BY <1>10 DEF Places
<1> QED BY <1>9, <1>10, <1>11, <1>12, <1>13, <1>14, Unpacked, StepShape

LEMMA EnterStepStep ==
  ASSUME Inductive, EnterStep
  PROVE  Inductive' /\ Extends(log', log)
<1>1. PICK lo \in Nat, hi \in Nat : RegularAt(log, lo, hi) /\ Standing(lo, hi)
  BY Unpacked
<1>2. /\ log \in Seq(Events) /\ trace = Trace(log) /\ Len(log) \in Nat
      /\ Trace(log).openTurn # 0 /\ Trace(log).openStep = 0
  <2>1. pc = "pre-step"
    BY DEF EnterStep
  <2> QED BY <1>1, <2>1, Unpacked DEF Standing, Turn, Step
<1>3. PICK e : e = StepEvent("step/start", Turn, trace.nextStep)
  OBVIOUS
<1>4. /\ e \in Events /\ RegularAt(Append(log, e), 0, 0)
      /\ Trace(Append(log, e)).openStep # 0 /\ Unanswered(Append(log, e))
  BY <1>1, <1>2, <1>3, AppendStepStart DEF Turn
<1>5. /\ log' = log \o <<e>> /\ pc' = "preparing" /\ trace' = Trace(log')
      /\ UNCHANGED <<stored, mark, batch, tool, crashes, sent, ran>>
  BY <1>3 DEF EnterStep, Log, effects
<1>6. log' = Append(log, e) /\ Extends(log', log) /\ log' \in Seq(Events)
  <2>1. Regular(Append(log, e))
    BY <1>4 DEF Regular
  <2> QED BY <1>4, <1>5, <2>1, OneEvent
<1>7. Standing(0, 0)'
  BY <1>4, <1>5, <1>6 DEF Standing, Turn, Step
<1>8. stored' \in stored .. Len(log') /\ mark' \in 0 .. Len(log') /\ pc' \in Places
  <2>1. Len(log') = Len(log) + 1
    BY <1>2, <1>4, <1>6
  <2> QED BY <1>5, <2>1, Unpacked DEF Places
<1> QED BY <1>4, <1>5, <1>6, <1>7, <1>8, Unpacked, StepShape

LEMMA StepRefusedStep ==
  ASSUME Inductive, StepRefused
  PROVE  Inductive' /\ Extends(log', log)
<1>1. PICK lo \in Nat, hi \in Nat : RegularAt(log, lo, hi) /\ Standing(lo, hi)
  BY Unpacked
<1>2. /\ log \in Seq(Events) /\ trace = Trace(log) /\ Len(log) \in Nat
      /\ Trace(log).openTurn # 0 /\ Trace(log).openStep = 0
  <2>1. pc = "pre-step"
    BY DEF StepRefused
  <2> QED BY <1>1, <2>1, Unpacked DEF Standing, Turn, Step
<1>3. PICK e : e = TurnEnd(Turn)
  OBVIOUS
<1>4. /\ e \in Events /\ RegularAt(Append(log, e), 0, 0)
      /\ Trace(Append(log, e)).openTurn = 0
  BY <1>1, <1>2, <1>3, AppendTurnEnd DEF Turn
<1>5. /\ log' = log \o <<e>> /\ pc' = "idle" /\ trace' = Trace(log')
      /\ mark' = 0 /\ batch' = <<>> /\ tool' = NoCalls
      /\ UNCHANGED <<stored, crashes, sent, ran>>
  BY <1>3 DEF StepRefused, Log, effects, ToIdle, TurnCloses
<1>6. log' = Append(log, e) /\ Extends(log', log) /\ log' \in Seq(Events)
  <2>1. Regular(Append(log, e))
    BY <1>4 DEF Regular
  <2> QED BY <1>4, <1>5, <2>1, OneEvent
<1>7. Standing(0, 0)'
  BY <1>4, <1>5, <1>6 DEF Standing, Turn, Step
<1>8. stored' \in stored .. Len(log') /\ mark' \in 0 .. Len(log') /\ pc' \in Places
  <2>1. Len(log') = Len(log) + 1
    BY <1>2, <1>4, <1>6
  <2> QED BY <1>2, <1>5, <2>1, Unpacked DEF Places
<1>9. batch' \in Seq(Messages) /\ Len(batch') <= 1 /\ tool' \in [Calls -> Stages]
  BY <1>5, Unpacked
<1>10. RegularAt(log', 0, 0)
  BY <1>4, <1>6
<1>11. Inductive'
  BY <1>5, <1>6, <1>7, <1>8, <1>9, <1>10, StepShape
<1> QED BY <1>6, <1>11

LEMMA LogRequestStep ==
  ASSUME Inductive, LogRequest
  PROVE  Inductive' /\ Extends(log', log)
<1>1. PICK lo \in Nat, hi \in Nat : RegularAt(log, lo, hi) /\ Standing(lo, hi)
  BY Unpacked
<1>2. /\ log \in Seq(Events) /\ trace = Trace(log) /\ Len(log) \in Nat
      /\ Trace(log).openStep # 0 /\ hi = 0 /\ Unanswered(log)
  <2>1. pc = "preparing"
    BY DEF LogRequest
  <2> QED BY <1>1, <2>1, Unpacked DEF Standing, Turn, Step
<1>3. Trace(log).openTurn # 0 /\ lo = 0
  BY <1>1, <1>2 DEF RegularAt, Numbers, Window
<1>4. PICK h \in Events : h = PlainEvent("request/header")
  BY DEF PlainEvent, Events
<1>5. PICK input : input = [i \in DOMAIN batch |-> UserMessage(batch[i])]
  OBVIOUS
<1>6. /\ log' = log \o (input \o <<h>>) /\ pc' = "requesting" /\ trace' = Trace(log')
      /\ mark' = Len(log) + Len(input \o <<h>>) /\ batch' = <<>>
      /\ UNCHANGED <<stored, tool, crashes, sent, ran>>
  BY <1>4, <1>5 DEF LogRequest, Checkpoint, Log, effects
<1>7. ASSUME NEW q \in Seq(Events), RegularAt(q, 0, 0), Unanswered(q), Trace(q) = Trace(log)
      PROVE  /\ RegularAt(Append(q, h), 0, 0) /\ Unanswered(Append(q, h))
             /\ Trace(Append(q, h)) = Trace(log)
  <2>1. h.type = "request/header"
    BY <1>4 DEF PlainEvent
  <2>2. RegularAt(Append(q, h), 0, 0) /\ Trace(Append(q, h)) = Trace(q)
    BY <1>3, <1>7, <2>1, AppendNeutral
  <2> QED BY <1>7, <2>1, <2>2, UnansweredNeutral
<1>8. /\ Extends(log', log) /\ log' \in Seq(Events) /\ mark' = Len(log')
      /\ RegularAt(log', 0, 0) /\ Unanswered(log') /\ Trace(log') = Trace(log)
  <2>1. CASE batch = <<>>
    <3>1. input = <<>>
      BY <1>5, <2>1
    <3>2. input \o <<h>> = <<h>>
      BY <3>1
    <3>3. RegularAt(log, 0, 0)
      BY <1>1, <1>2, <1>3
    <3>4. /\ RegularAt(Append(log, h), 0, 0) /\ Unanswered(Append(log, h))
          /\ Trace(Append(log, h)) = Trace(log)
      BY <1>2, <1>7, <3>3
    <3>5. log' = Append(log, h) /\ Extends(log', log) /\ log' \in Seq(Events)
      <4>1. Regular(Append(log, h))
        BY <3>4 DEF Regular
      <4> QED BY <1>6, <3>2, <4>1, OneEvent
    <3>6. mark' = Len(log')
      BY <1>2, <1>6, <3>2, <3>5
    <3> QED BY <3>4, <3>5, <3>6
  <2>2. CASE batch # <<>>
    <3>1. Len(batch) = 1 /\ batch[1] \in Messages
      <4>1. batch \in Seq(Messages) /\ Len(batch) <= 1 /\ Len(batch) \in Nat
        BY Unpacked
      <4>2. Len(batch) # 0
        BY <2>2, <4>1, EmptySeq
      <4> QED BY <4>1, <4>2
    <3>2. PICK m \in Messages : m = batch[1]
      BY <3>1
    <3>3. PICK u \in Events : u = UserMessage(m)
      BY DEF UserMessage, Events
    <3>4. input = <<u>>
      <4>1. DOMAIN batch = 1 .. 1
        BY <3>1, Unpacked
      <4>2. input = [i \in 1 .. 1 |-> UserMessage(batch[i])]
        BY <1>5, <4>1
      <4>3. input = [i \in 1 .. 1 |-> u]
        BY <3>2, <3>3, <4>2
      <4> QED BY <4>3
    <3>5. log \o (input \o <<h>>) = (log \o <<u>>) \o <<h>> /\ Len(input \o <<h>>) = 2
      <4>1. PICK x \in Seq(Events) : x = <<u>> /\ Len(x) = 1
        BY OneElement
      <4>2. PICK y \in Seq(Events) : y = <<h>> /\ Len(y) = 1
        BY OneElement
      <4>3. (log \o x) \o y = log \o (x \o y)
        BY <1>2, ConcatAssociative
      <4>4. Len(x \o y) = 2
        BY <4>1, <4>2
      <4> QED BY <3>4, <4>1, <4>2, <4>3, <4>4
    <3>6. u.type = "user/message"
      BY <3>3 DEF UserMessage
    <3>7. PICK q : q = Append(log, u)
      OBVIOUS
    <3>8. RegularAt(q, 0, 0) /\ Trace(q) = Trace(log)
      BY <1>1, <1>2, <1>3, <3>6, <3>7, AppendNeutral
    <3>9. q \in Seq(Events) /\ Unanswered(q) /\ Len(q) = Len(log) + 1
      <4>1. q \in Seq(Events) /\ Len(q) = Len(log) + 1
        BY <1>2, <3>7
      <4> QED BY <1>2, <3>6, <3>7, <3>8, <4>1, UnansweredNeutral
    <3>10. /\ RegularAt(Append(q, h), 0, 0) /\ Unanswered(Append(q, h))
           /\ Trace(Append(q, h)) = Trace(log)
      BY <1>7, <3>8, <3>9
    <3>11. log' = Append(q, h)
      <4>1. log' = (log \o <<u>>) \o <<h>>
        BY <1>6, <3>5
      <4>2. log \o <<u>> = q
        BY <1>2, <3>7, AppendPair
      <4>3. q \o <<h>> = Append(q, h)
        BY <3>9, AppendPair
      <4> QED BY <4>1, <4>2, <4>3
    <3>12. Extends(log', log) /\ log' \in Seq(Events)
      <4>1. Regular(q) /\ Regular(Append(q, h))
        BY <3>8, <3>10 DEF Regular
      <4> QED BY <3>7, <3>11, <4>1, TwoEvents
    <3>13. mark' = Len(log')
      <4>1. mark' = Len(log) + 2
        BY <1>6, <3>5
      <4>2. Len(log') = Len(q) + 1
        BY <3>9, <3>11
      <4> QED BY <1>2, <3>9, <4>1, <4>2
    <3> QED BY <3>10, <3>11, <3>12, <3>13
  <2> QED BY <2>1, <2>2
<1>9. Standing(0, 0)'
  BY <1>2, <1>6, <1>8 DEF Standing, Turn, Step
<1>10. stored' \in stored .. Len(log') /\ mark' \in 0 .. Len(log') /\ pc' \in Places
  <2>1. Len(log') \in Nat /\ Len(log) <= Len(log')
    BY <1>2, <1>8, ExtendsElements
  <2> QED BY <1>2, <1>6, <1>8, <2>1, Unpacked DEF Places
<1> QED BY <1>6, <1>8, <1>9, <1>10, Unpacked, StepShape

LEMMA SendRequestStep ==
  ASSUME Inductive, SendRequest
  PROVE  Inductive' /\ Extends(log', log)
<1>1. PICK lo \in Nat, hi \in Nat : RegularAt(log, lo, hi) /\ Standing(lo, hi)
  BY Unpacked
<1>2. /\ pc = "requesting" /\ stored >= mark /\ pc' = "streaming"
      /\ sent' = sent \cup {SubSeq(log, 1, mark)}
      /\ UNCHANGED <<log, trace, stored, mark, batch, tool, crashes, ran>>
  BY DEF SendRequest, Durable
<1>3. mark \in 0 .. stored
  BY <1>2, Unpacked
<1>4. SubSeq(log, 1, mark) \in Seq(Events)
  <2>1. log \in Seq(Events) /\ mark \in 0 .. Len(log)
    BY Unpacked
  <2> QED BY <2>1
<1>5. TypeOK'
  BY <1>2, <1>4 DEF Inductive, TypeOK, Places
<1>6. Standing(lo, hi)'
  BY <1>1, <1>2 DEF Standing, Turn, Step
<1>7. (\E l, h \in Nat : RegularAt(log, l, h) /\ Standing(l, h))'
  BY <1>1, <1>2, <1>6
<1>8. Kept'
  <2>1. ASSUME NEW prefix \in sent' PROVE \E k \in 0 .. stored' : prefix = SubSeq(log', 1, k)
    <3>1. CASE prefix \in sent
      BY <1>2, <3>1 DEF Inductive, Kept
    <3>2. CASE prefix = SubSeq(log, 1, mark)
      BY <1>2, <1>3, <3>2
    <3> QED BY <1>2, <3>1, <3>2
  <2>2. \A r \in ran' : \E i \in 1 .. stored' : log'[i] = ToolCall(r[1], r[2], r[3])
    BY <1>2 DEF Inductive, Kept
  <2> QED BY <2>1, <2>2 DEF Kept
<1>9. Inductive'
  BY <1>2, <1>5, <1>7, <1>8 DEF Inductive
<1>10. Extends(log', log)
  BY <1>2, Unpacked
<1> QED BY <1>9, <1>10

\* The step and the turn are closed together.
LEMMA ClosesBoth ==
  ASSUME Inductive, NEW n \in Nat, RegularAt(log, n, n), Step # 0,
         log' = log \o (StepCloses \o TurnCloses)
  PROVE  /\ Extends(log', log) /\ log' \in Seq(Events) /\ Len(log') = Len(log) + 2
         /\ RegularAt(log', 0, 0) /\ Trace(log').openTurn = 0
<1>1. log \in Seq(Events) /\ trace = Trace(log) /\ Len(log) \in Nat /\ Trace(log).openTurn # 0
  <2>1. log \in Seq(Events) /\ trace = Trace(log) /\ Len(log) \in Nat
    BY Unpacked
  <2>2. Trace(log).openTurn # 0
    BY <2>1 DEF RegularAt, Numbers, Step
  <2> QED BY <2>1, <2>2
<1>2. PICK a : a = StepEvent("step/end", Turn, Step)
  OBVIOUS
<1>3. PICK q : q = Append(log, a)
  OBVIOUS
<1>4. /\ a \in Events /\ RegularAt(q, 0, 0)
      /\ Trace(q).openTurn = Trace(log).openTurn /\ Trace(q).openStep = 0
  BY <1>1, <1>2, <1>3, AppendStepEnd DEF Turn, Step
<1>5. PICK b : b = TurnEnd(Turn)
  OBVIOUS
<1>6. q \in Seq(Events) /\ Len(q) = Len(log) + 1
  BY <1>1, <1>3, <1>4
<1>7. /\ b \in Events /\ RegularAt(Append(q, b), 0, 0)
      /\ Trace(Append(q, b)).openTurn = 0
  BY <1>1, <1>4, <1>5, <1>6, AppendTurnEnd DEF Turn
<1>8. log' = Append(q, b)
  <2>1. PICK x \in Seq(Events) : x = <<a>>
    BY <1>4, OneElement
  <2>2. PICK y \in Seq(Events) : y = <<b>>
    BY <1>7, OneElement
  <2>3. (log \o x) \o y = log \o (x \o y)
    BY <1>1, ConcatAssociative
  <2>4. log \o <<a>> = q
    BY <1>1, <1>3, <1>4, AppendPair
  <2>5. q \o <<b>> = Append(q, b)
    BY <1>6, <1>7, AppendPair
  <2>6. log' = log \o (x \o y)
    BY <1>2, <1>5, <2>1, <2>2 DEF StepCloses, TurnCloses
  <2> QED BY <2>1, <2>2, <2>3, <2>4, <2>5, <2>6
<1>9. Extends(log', log) /\ log' \in Seq(Events)
  <2>1. Regular(q) /\ Regular(Append(q, b))
    BY <1>4, <1>7 DEF Regular
  <2> QED BY <1>3, <1>4, <1>7, <1>8, <2>1, TwoEvents
<1>10. Len(log') = Len(log) + 2
  <2>1. Len(log') = Len(q) + 1
    BY <1>6, <1>7, <1>8
  <2> QED BY <1>1, <1>6, <2>1
<1> QED BY <1>7, <1>8, <1>9, <1>10

LEMMA TurnOver ==
  ASSUME Inductive, NEW n \in Nat, RegularAt(log, n, n), Step # 0,
         Log(StepCloses \o TurnCloses), ToIdle, UNCHANGED <<stored, crashes, effects>>
  PROVE  Inductive' /\ Extends(log', log)
<1>1. /\ log' = log \o (StepCloses \o TurnCloses) /\ pc' = "idle" /\ trace' = Trace(log')
      /\ mark' = 0 /\ batch' = <<>> /\ tool' = NoCalls
      /\ UNCHANGED <<stored, crashes, sent, ran>>
  BY DEF Log, effects, ToIdle
<1>2. /\ Extends(log', log) /\ log' \in Seq(Events) /\ Len(log') = Len(log) + 2
      /\ RegularAt(log', 0, 0) /\ Trace(log').openTurn = 0
  BY <1>1, ClosesBoth
<1>3. Standing(0, 0)'
  BY <1>1, <1>2 DEF Standing, Turn, Step
<1>4. stored' \in stored .. Len(log') /\ mark' \in 0 .. Len(log') /\ pc' \in Places
  BY <1>1, <1>2, Unpacked DEF Places
<1>5. batch' \in Seq(Messages) /\ Len(batch') <= 1 /\ tool' \in [Calls -> Stages]
  BY <1>1, Unpacked
<1>6. Inductive'
  BY <1>1, <1>2, <1>3, <1>4, <1>5, StepShape
<1> QED BY <1>2, <1>6

LEMMA StepFailsStep ==
  ASSUME Inductive, StepFails
  PROVE  Inductive' /\ Extends(log', log)
<1>1. PICK lo \in Nat, hi \in Nat : RegularAt(log, lo, hi) /\ Standing(lo, hi)
  BY Unpacked
<1>2. Step # 0 /\ hi = 0
  BY <1>1 DEF StepFails, Standing
<1>3. lo = 0
  BY <1>1, <1>2 DEF RegularAt, Window
<1>4. RegularAt(log, 0, 0)
  BY <1>1, <1>2, <1>3
<1>5. Log(StepCloses \o TurnCloses) /\ ToIdle /\ UNCHANGED <<stored, crashes, effects>>
  BY DEF StepFails
<1> QED BY <1>2, <1>4, <1>5, TurnOver

LEMMA AnswerStep ==
  ASSUME Inductive, NEW n \in 0 .. MaxCalls, Answer(n)
  PROVE  Inductive' /\ Extends(log', log)
<1>1. PICK lo \in Nat, hi \in Nat : RegularAt(log, lo, hi) /\ Standing(lo, hi)
  BY Unpacked
<1>2. /\ log \in Seq(Events) /\ trace = Trace(log) /\ Len(log) \in Nat
      /\ Trace(log).openStep # 0 /\ hi = 0 /\ Unanswered(log)
  <2>1. pc = "streaming"
    BY DEF Answer
  <2> QED BY <1>1, <2>1, Unpacked DEF Standing, Turn, Step
<1>3. RegularAt(log, 0, 0)
  <2>1. lo = 0
    BY <1>1, <1>2 DEF RegularAt, Window
  <2> QED BY <1>1, <1>2, <2>1
<1>4. PICK e : e = AssistantMessage(Turn, Step, n)
  OBVIOUS
<1>5. /\ e \in Events /\ RegularAt(Append(log, e), 0, n)
      /\ Trace(Append(log, e)) = Trace(log) /\ Scan(Append(log, e)).started = {}
  <2>1. n \in Nat
    BY RecoveryAssumption
  <2> QED BY <1>2, <1>3, <1>4, <2>1, AppendAssistant DEF Turn, Step
<1>6. /\ log' = log \o <<e>> /\ pc' = "tools" /\ trace' = Trace(log')
      /\ tool' = [c \in Calls |-> IF c <= n THEN "planned" ELSE "none"]
      /\ UNCHANGED <<stored, mark, batch, crashes, sent, ran>>
  BY <1>4 DEF Answer, Log, effects
<1>7. log' = Append(log, e) /\ Extends(log', log) /\ log' \in Seq(Events)
  <2>1. Regular(Append(log, e))
    BY <1>5, RecoveryAssumption DEF Regular
  <2> QED BY <1>5, <1>6, <2>1, OneEvent
<1>8. Standing(0, n)'
  <2>1. \A c \in Calls : ToolAt(c, 0, n)'
    <3> SUFFICES ASSUME NEW c \in Calls PROVE ToolAt(c, 0, n)'
      OBVIOUS
    <3>1. tool'[c] = IF c <= n THEN "planned" ELSE "none"
      BY <1>6
    <3>2. c >= 1 /\ c \in Int /\ n \in Int
      BY RecoveryAssumption DEF Calls
    <3>3. Scan(log').started = {}
      BY <1>5, <1>7
    <3> QED BY <3>1, <3>2, <3>3 DEF ToolAt
  <2>2. Trace(log').openStep # 0
    BY <1>2, <1>5, <1>7
  <2>3. n <= MaxCalls
    BY RecoveryAssumption
  <2> QED BY <1>6, <2>1, <2>2, <2>3 DEF Standing, Turn, Step
<1>9. stored' \in stored .. Len(log') /\ mark' \in 0 .. Len(log') /\ pc' \in Places
  <2>1. Len(log') = Len(log) + 1
    BY <1>2, <1>5, <1>7
  <2> QED BY <1>2, <1>6, <2>1, Unpacked DEF Places
<1>10. batch' \in Seq(Messages) /\ Len(batch') <= 1 /\ tool' \in [Calls -> Stages]
  BY <1>6, Unpacked DEF Stages
<1>11. RegularAt(log', 0, n) /\ n \in Nat
  BY <1>5, <1>7, RecoveryAssumption
<1>12. Inductive'
  BY <1>6, <1>7, <1>8, <1>9, <1>10, <1>11, StepShape
<1> QED BY <1>7, <1>12

\* The work of a step is done when every requested call has its result.
LEMMA AllCommitted ==
  ASSUME Inductive, pc = "tools", \A c \in Calls : tool[c] \in {"none", "committed"}
  PROVE  Step # 0 /\ \E n \in Nat : RegularAt(log, n, n)
<1>1. PICK lo \in Nat, hi \in Nat : RegularAt(log, lo, hi) /\ Standing(lo, hi)
  BY Unpacked
<1>2. Step # 0 /\ hi <= MaxCalls /\ \A c \in Calls : ToolAt(c, lo, hi)
  BY <1>1 DEF Standing
<1>3. lo <= hi
  BY <1>1 DEF RegularAt, Window
<1>4. ASSUME lo < hi PROVE FALSE
  <2>1. lo + 1 \in Calls
    BY <1>2, <1>4, RecoveryAssumption DEF Calls
  <2>2. ~(hi < lo + 1) /\ ~(lo + 1 <= lo)
    BY <1>4
  <2>3. tool[lo + 1] # "none" /\ tool[lo + 1] # "committed"
    BY <1>2, <2>1, <2>2 DEF ToolAt
  <2> QED BY <2>1, <2>3
<1>5. lo = hi
  BY <1>3, <1>4
<1> QED BY <1>1, <1>2, <1>5

LEMMA StepEndsStep ==
  ASSUME Inductive, StepEnds
  PROVE  Inductive' /\ Extends(log', log)
<1>1. PICK n \in Nat : RegularAt(log, n, n)
  BY AllCommitted DEF StepEnds
<1>2. Step # 0
  BY AllCommitted DEF StepEnds
<1>3. CASE Log(StepCloses \o TurnCloses) /\ ToIdle
  BY <1>1, <1>2, <1>3, TurnOver DEF StepEnds
<1>4. CASE Checkpoint("pre-step", StepCloses) /\ tool' = NoCalls /\ UNCHANGED batch
  <2>1. log \in Seq(Events) /\ trace = Trace(log) /\ Len(log) \in Nat /\ Trace(log).openStep # 0
    BY <1>2, Unpacked DEF Step
  <2>2. PICK e : e = StepEvent("step/end", Turn, Step)
    OBVIOUS
  <2>3. /\ e \in Events /\ RegularAt(Append(log, e), 0, 0)
        /\ Trace(Append(log, e)).openTurn = Trace(log).openTurn
        /\ Trace(Append(log, e)).openStep = 0
    BY <1>1, <2>1, <2>2, AppendStepEnd DEF Turn, Step
  <2>4. Trace(log).openTurn # 0
    BY <1>1, <2>1 DEF RegularAt, Numbers
  <2>5. /\ log' = log \o <<e>> /\ pc' = "pre-step" /\ trace' = Trace(log')
        /\ mark' = Len(log) + Len(<<e>>) /\ tool' = NoCalls
        /\ UNCHANGED <<stored, batch, crashes, sent, ran>>
    BY <1>4, <2>2 DEF StepEnds, Checkpoint, Log, effects, StepCloses
  <2>6. log' = Append(log, e) /\ Extends(log', log) /\ log' \in Seq(Events)
    <3>1. Regular(Append(log, e))
      BY <2>3 DEF Regular
    <3> QED BY <2>3, <2>5, <3>1, OneEvent
  <2>7. Standing(0, 0)'
    BY <2>3, <2>4, <2>5, <2>6 DEF Standing, Turn, Step
  <2>8. stored' \in stored .. Len(log') /\ mark' \in 0 .. Len(log') /\ pc' \in Places
    <3>1. Len(log') = Len(log) + 1 /\ mark' = Len(log) + 1
      BY <2>1, <2>3, <2>5, <2>6
    <3> QED BY <2>1, <2>5, <3>1, Unpacked DEF Places
  <2>9. batch' \in Seq(Messages) /\ Len(batch') <= 1 /\ tool' \in [Calls -> Stages]
    BY <2>5, Unpacked
  <2>10. RegularAt(log', 0, 0)
    BY <2>3, <2>6
  <2>11. Inductive'
    BY <2>5, <2>6, <2>7, <2>8, <2>9, <2>10, StepShape
  <2> QED BY <2>6, <2>11
<1> QED BY <1>3, <1>4 DEF StepEnds

-----------------------------------------------------------------------------
(***************************************************************************)
(* The steps of tool calls.                                                *)
(***************************************************************************)
LEMMA ToolsAt ==
  ASSUME Inductive, pc = "tools"
  PROVE  \E lo, hi \in Nat :
           /\ RegularAt(log, lo, hi) /\ lo <= hi /\ hi <= MaxCalls
           /\ Step # 0 /\ \A c \in Calls : ToolAt(c, lo, hi)
<1>1. PICK lo \in Nat, hi \in Nat : RegularAt(log, lo, hi) /\ Standing(lo, hi)
  BY Unpacked
<1>2. Step # 0 /\ hi <= MaxCalls /\ \A c \in Calls : ToolAt(c, lo, hi)
  BY <1>1 DEF Standing
<1>3. lo <= hi
  BY <1>1 DEF RegularAt, Window
<1> QED BY <1>1, <1>2, <1>3

LEMMA StartCallStep ==
  ASSUME Inductive, NEW c \in Calls, StartCall(c)
  PROVE  Inductive' /\ Extends(log', log)
<1>1. PICK lo \in Nat, hi \in Nat :
        /\ RegularAt(log, lo, hi) /\ lo <= hi /\ hi <= MaxCalls
        /\ Step # 0 /\ \A d \in Calls : ToolAt(d, lo, hi)
  BY ToolsAt DEF StartCall
<1>2. log \in Seq(Events) /\ trace = Trace(log) /\ Len(log) \in Nat /\ tool \in [Calls -> Stages]
  BY Unpacked
<1>3. c \in Nat /\ lo < c /\ c <= hi
  <2>1. tool[c] = "planned" /\ ToolAt(c, lo, hi)
    BY <1>1 DEF StartCall
  <2>2. c \in Nat
    BY DEF Calls
  <2> QED BY <2>1, <2>2 DEF ToolAt
<1>4. PICK e : e = ToolCall(Turn, Step, c)
  OBVIOUS
<1>5. /\ e \in Events /\ RegularAt(Append(log, e), lo, hi)
      /\ Trace(Append(log, e)).openTurn = Trace(log).openTurn
      /\ Trace(Append(log, e)).openStep = Trace(log).openStep
      /\ Scan(Append(log, e)).started = Scan(log).started \cup {c}
  BY <1>1, <1>2, <1>3, <1>4, AppendCall DEF Turn, Step
<1>6. /\ log' = log \o <<e>> /\ trace' = Trace(log')
      /\ tool' = [tool EXCEPT ![c] = "flushing"]
      /\ UNCHANGED <<pc, stored, mark, batch, crashes, sent, ran>> /\ pc = "tools"
  BY <1>4 DEF StartCall, Log, effects, ToolTo
<1>7. log' = Append(log, e) /\ Extends(log', log) /\ log' \in Seq(Events)
  <2>1. Regular(Append(log, e))
    BY <1>5 DEF Regular
  <2> QED BY <1>5, <1>6, <2>1, OneEvent
<1>8. Standing(lo, hi)'
  <2>1. \A d \in Calls : ToolAt(d, lo, hi)'
    <3> SUFFICES ASSUME NEW d \in Calls PROVE ToolAt(d, lo, hi)'
      OBVIOUS
    <3>1. Scan(log').started = Scan(log).started \cup {c}
      BY <1>5, <1>7
    <3>2. ToolAt(d, lo, hi)
      BY <1>1
    <3>3. CASE d = c
      <4>1. tool'[d] = "flushing" /\ ~(hi < d) /\ ~(d <= lo)
        BY <1>2, <1>3, <1>6, <3>3
      <4> QED BY <3>1, <3>3, <4>1 DEF ToolAt
    <3>4. CASE d # c
      <4>1. tool'[d] = tool[d]
        BY <1>2, <1>6, <3>4
      <4> QED BY <3>1, <3>2, <3>4, <4>1 DEF ToolAt
    <3> QED BY <3>3, <3>4
  <2>2. Trace(log').openStep # 0
    BY <1>1, <1>2, <1>5, <1>7 DEF Step
  <2> QED BY <1>1, <1>6, <2>1, <2>2 DEF Standing, Turn, Step
<1>9. stored' \in stored .. Len(log') /\ mark' \in 0 .. Len(log') /\ pc' \in Places
  <2>1. Len(log') = Len(log) + 1
    BY <1>2, <1>5, <1>7
  <2> QED BY <1>2, <1>6, <2>1, Unpacked
<1>10. batch' \in Seq(Messages) /\ Len(batch') <= 1 /\ tool' \in [Calls -> Stages]
  BY <1>6, Unpacked DEF Stages
<1>11. RegularAt(log', lo, hi)
  BY <1>5, <1>7
<1>12. Inductive'
  BY <1>6, <1>7, <1>8, <1>9, <1>10, <1>11, StepShape
<1> QED BY <1>7, <1>12

\* A call moves on while its place in the log stays.
LEMMA ToolMoves ==
  ASSUME Inductive, pc = "tools", NEW c \in Calls, tool[c] \in {"flushing", "body"},
         NEW stage \in {"body", "settled"}, tool' = [tool EXCEPT ![c] = stage],
         UNCHANGED <<pc, log, trace, stored, mark, batch, crashes>>
  PROVE  /\ tool' \in [Calls -> Stages] /\ Extends(log', log)
         /\ (\E lo, hi \in Nat : RegularAt(log, lo, hi) /\ Standing(lo, hi))'
<1>1. PICK lo \in Nat, hi \in Nat :
        /\ RegularAt(log, lo, hi) /\ lo <= hi /\ hi <= MaxCalls
        /\ Step # 0 /\ \A d \in Calls : ToolAt(d, lo, hi)
  BY ToolsAt
<1>2. tool' \in [Calls -> Stages]
  BY Unpacked DEF Stages
<1>3. \A d \in Calls : ToolAt(d, lo, hi)'
  <2> SUFFICES ASSUME NEW d \in Calls PROVE ToolAt(d, lo, hi)'
    OBVIOUS
  <2>1. ToolAt(d, lo, hi) /\ log' = log
    BY <1>1
  <2>2. CASE d = c
    <3>1. tool'[d] = stage /\ tool[d] \in {"flushing", "body"}
      BY <2>2, Unpacked
    <3> QED BY <2>1, <3>1 DEF ToolAt
  <2>3. CASE d # c
    <3>1. tool'[d] = tool[d]
      BY <2>3, Unpacked
    <3> QED BY <2>1, <3>1 DEF ToolAt
  <2> QED BY <2>2, <2>3
<1>4. Standing(lo, hi)'
  BY <1>1, <1>3 DEF Standing, Turn, Step
<1>5. RegularAt(log', lo, hi)
  BY <1>1
<1>6. (\E l, h \in Nat : RegularAt(log, l, h) /\ Standing(l, h))'
  BY <1>4, <1>5
<1>7. Extends(log', log)
  BY Unpacked
<1> QED BY <1>2, <1>6, <1>7

LEMMA RunBodyStep ==
  ASSUME Inductive, NEW c \in Calls, RunBody(c)
  PROVE  Inductive' /\ Extends(log', log)
<1>1. /\ pc = "tools" /\ tool[c] = "flushing" /\ tool' = [tool EXCEPT ![c] = "body"]
      /\ ran' = ran \cup {<<Turn, Step, c>>}
      /\ UNCHANGED <<pc, log, trace, stored, mark, batch, crashes, sent>>
  BY DEF RunBody, ToolTo
<1>2. PICK i \in 1 .. stored : log[i] = ToolCall(Turn, Step, c)
  BY DEF RunBody, Recorded
<1>3. /\ tool' \in [Calls -> Stages] /\ Extends(log', log)
      /\ (\E lo, hi \in Nat : RegularAt(log, lo, hi) /\ Standing(lo, hi))'
  BY <1>1, ToolMoves
<1>4. Turn \in Nat /\ Step \in Nat
  BY DEF Inductive, TypeOK, Traces, Turn, Step
<1>5. TypeOK'
  BY <1>1, <1>3, <1>4 DEF Inductive, TypeOK
<1>6. Kept'
  <2>1. \A prefix \in sent' : \E k \in 0 .. stored' : prefix = SubSeq(log', 1, k)
    BY <1>1 DEF Inductive, Kept
  <2>2. ASSUME NEW r \in ran'
        PROVE  \E j \in 1 .. stored' : log'[j] = ToolCall(r[1], r[2], r[3])
    <3>1. CASE r \in ran
      BY <1>1, <3>1 DEF Inductive, Kept
    <3>2. CASE r = <<Turn, Step, c>>
      BY <1>1, <1>2, <3>2
    <3> QED BY <1>1, <3>1, <3>2
  <2> QED BY <2>1, <2>2 DEF Kept
<1>7. Inductive'
  <2>1. trace' = Trace(log') /\ Len(batch') <= 1 /\ Cuttable(log')
    BY <1>1 DEF Inductive
  <2> QED BY <1>3, <1>5, <1>6, <2>1 DEF Inductive
<1> QED BY <1>3, <1>7

LEMMA ToolSettlesStep ==
  ASSUME Inductive, NEW c \in Calls, ToolSettles(c)
  PROVE  Inductive' /\ Extends(log', log)
<1>1. /\ pc = "tools" /\ tool[c] \in {"flushing", "body"}
      /\ tool' = [tool EXCEPT ![c] = "settled"]
      /\ UNCHANGED <<pc, log, trace, stored, mark, batch, crashes, sent, ran>>
  BY DEF ToolSettles, ToolTo, effects
<1>2. /\ tool' \in [Calls -> Stages] /\ Extends(log', log)
      /\ (\E lo, hi \in Nat : RegularAt(log, lo, hi) /\ Standing(lo, hi))'
  BY <1>1, ToolMoves
<1>3. TypeOK'
  BY <1>1, <1>2 DEF Inductive, TypeOK
<1>4. Kept'
  BY <1>1 DEF Inductive, Kept
<1>5. Inductive'
  <2>1. trace' = Trace(log') /\ Len(batch') <= 1 /\ Cuttable(log')
    BY <1>1 DEF Inductive
  <2> QED BY <1>2, <1>3, <1>4, <2>1 DEF Inductive
<1> QED BY <1>2, <1>5

\* The result of a call with a recorded start.
IsOutcome(e, t, s, c) == e = ToolResult(t, s, c, FALSE)

LEMMA AppendOutcome ==
  ASSUME NEW s \in Seq(Events), NEW lo \in Nat, NEW hi \in Nat, RegularAt(s, lo, hi),
         lo < hi, NEW c \in Nat, c = lo + 1, c \in Scan(s).started,
         NEW e, IsOutcome(e, Trace(s).openTurn, Trace(s).openStep, c)
  PROVE  /\ e \in Events /\ RegularAt(Append(s, e), c, hi)
         /\ Trace(Append(s, e)).openTurn = Trace(s).openTurn
         /\ Trace(Append(s, e)).openStep = Trace(s).openStep
         /\ Scan(Append(s, e)).started = Scan(s).started
<1>1. PICK no \in BOOLEAN : no = FALSE
  OBVIOUS
<1>2. no <=> c \notin Scan(s).started
  BY <1>1
<1>3. e = ToolResult(Trace(s).openTurn, Trace(s).openStep, c, no)
  BY <1>1 DEF IsOutcome
<1> QED BY <1>2, <1>3, AppendResult

LEMMA CommitResultStep ==
  ASSUME Inductive, NEW c \in Calls, CommitResult(c)
  PROVE  Inductive' /\ Extends(log', log)
<1>1. PICK lo \in Nat, hi \in Nat :
        /\ RegularAt(log, lo, hi) /\ lo <= hi /\ hi <= MaxCalls
        /\ Step # 0 /\ \A d \in Calls : ToolAt(d, lo, hi)
  BY ToolsAt DEF CommitResult
<1>2. log \in Seq(Events) /\ trace = Trace(log) /\ Len(log) \in Nat /\ tool \in [Calls -> Stages]
  BY Unpacked
<1>3. c \in Nat /\ lo < c /\ c <= hi /\ c \in Scan(log).started
  <2>1. tool[c] = "settled" /\ ToolAt(c, lo, hi)
    BY <1>1 DEF CommitResult
  <2>2. c \in Nat
    BY DEF Calls
  <2> QED BY <2>1, <2>2 DEF ToolAt
<1>4. c = lo + 1
  <2> SUFFICES ASSUME c # lo + 1 PROVE FALSE
    OBVIOUS
  <2>1. lo + 1 \in 1 .. c - 1 /\ lo + 1 \in Calls
    BY <1>1, <1>3, RecoveryAssumption DEF Calls
  <2>2. tool[lo + 1] = "committed" /\ ToolAt(lo + 1, lo, hi)
    BY <1>1, <2>1 DEF CommitResult
  <2>3. ~(lo + 1 <= lo)
    OBVIOUS
  <2> QED BY <2>2, <2>3 DEF ToolAt
<1>5. PICK e : e = ToolResult(Turn, Step, c, FALSE)
  OBVIOUS
<1>6. /\ e \in Events /\ RegularAt(Append(log, e), c, hi)
      /\ Trace(Append(log, e)).openTurn = Trace(log).openTurn
      /\ Trace(Append(log, e)).openStep = Trace(log).openStep
      /\ Scan(Append(log, e)).started = Scan(log).started
  <2>1. lo < hi
    BY <1>3
  <2>2. IsOutcome(e, Trace(log).openTurn, Trace(log).openStep, c)
    BY <1>2, <1>5 DEF Turn, Step, IsOutcome
  <2> QED BY <1>1, <1>2, <1>3, <1>4, <2>1, <2>2, AppendOutcome
<1>7. /\ log' = log \o <<e>> /\ trace' = Trace(log')
      /\ tool' = [tool EXCEPT ![c] = "committed"]
      /\ UNCHANGED <<pc, stored, mark, batch, crashes, sent, ran>> /\ pc = "tools"
  BY <1>5 DEF CommitResult, Log, effects, ToolTo
<1>8. log' = Append(log, e) /\ Extends(log', log) /\ log' \in Seq(Events)
  <2>1. Regular(Append(log, e))
    BY <1>3, <1>6 DEF Regular
  <2> QED BY <1>6, <1>7, <2>1, OneEvent
<1>9. Standing(c, hi)'
  <2>1. \A d \in Calls : ToolAt(d, c, hi)'
    <3> SUFFICES ASSUME NEW d \in Calls PROVE ToolAt(d, c, hi)'
      OBVIOUS
    <3>1. Scan(log').started = Scan(log).started
      BY <1>6, <1>8
    <3>2. ToolAt(d, lo, hi) /\ d \in Nat
      BY <1>1 DEF Calls
    <3>3. CASE d = c
      <4>1. tool'[d] = "committed" /\ ~(hi < d) /\ d <= c
        BY <1>2, <1>3, <1>7, <3>3
      <4> QED BY <4>1 DEF ToolAt
    <3>4. CASE d # c
      <4>1. tool'[d] = tool[d] /\ (d <= c <=> d <= lo)
        BY <1>2, <1>4, <1>7, <3>2, <3>4
      <4> QED BY <3>1, <3>2, <4>1 DEF ToolAt
    <3> QED BY <3>3, <3>4
  <2>2. Trace(log').openStep # 0
    BY <1>1, <1>2, <1>6, <1>8 DEF Step
  <2> QED BY <1>1, <1>7, <2>1, <2>2 DEF Standing, Turn, Step
<1>10. stored' \in stored .. Len(log') /\ mark' \in 0 .. Len(log') /\ pc' \in Places
  <2>1. Len(log') = Len(log) + 1
    BY <1>2, <1>6, <1>8
  <2> QED BY <1>2, <1>7, <2>1, Unpacked
<1>11. batch' \in Seq(Messages) /\ Len(batch') <= 1 /\ tool' \in [Calls -> Stages]
  BY <1>7, Unpacked DEF Stages
<1>12. RegularAt(log', c, hi) /\ c \in Nat
  BY <1>3, <1>6, <1>8
<1>13. Inductive'
  BY <1>7, <1>8, <1>9, <1>10, <1>11, <1>12, StepShape
<1> QED BY <1>8, <1>13

\* A skipped call: its start and at once its result.
LEMMA SkipOne ==
  ASSUME NEW s \in Seq(Events), NEW lo \in Nat, NEW hi \in Nat, RegularAt(s, lo, hi),
         lo < hi
  PROVE  \E c \in Nat, a \in Events, b \in Events, q \in Seq(Events) :
           /\ c = lo + 1 /\ q = Append(s, a)
           /\ a = ToolCall(Trace(s).openTurn, Trace(s).openStep, c)
           /\ IsOutcome(b, Trace(s).openTurn, Trace(s).openStep, c)
           /\ RegularAt(q, lo, hi) /\ RegularAt(Append(q, b), c, hi)
           /\ Trace(Append(q, b)).openTurn = Trace(s).openTurn
           /\ Trace(Append(q, b)).openStep = Trace(s).openStep
<1>1. PICK c \in Nat : c = lo + 1
  OBVIOUS
<1>2. lo < c /\ c <= hi
  BY <1>1
<1>3. PICK a : a = ToolCall(Trace(s).openTurn, Trace(s).openStep, c)
  OBVIOUS
<1>4. PICK q : q = Append(s, a)
  OBVIOUS
<1>5. /\ a \in Events /\ RegularAt(q, lo, hi)
      /\ Trace(q).openTurn = Trace(s).openTurn /\ Trace(q).openStep = Trace(s).openStep
      /\ c \in Scan(q).started
  BY <1>2, <1>3, <1>4, AppendCall
<1>6. q \in Seq(Events)
  BY <1>4, <1>5
<1>7. PICK b : b = ToolResult(Trace(q).openTurn, Trace(q).openStep, c, FALSE)
  OBVIOUS
<1>8. IsOutcome(b, Trace(q).openTurn, Trace(q).openStep, c)
  BY <1>7 DEF IsOutcome
<1>9. /\ b \in Events /\ RegularAt(Append(q, b), c, hi)
      /\ Trace(Append(q, b)).openTurn = Trace(q).openTurn
      /\ Trace(Append(q, b)).openStep = Trace(q).openStep
  BY <1>1, <1>5, <1>6, <1>8, AppendOutcome
<1>10. IsOutcome(b, Trace(s).openTurn, Trace(s).openStep, c)
  BY <1>5, <1>8
<1> QED BY <1>1, <1>3, <1>4, <1>5, <1>6, <1>9, <1>10

SkippedTo(q, k, lo, hi) ==
  /\ Extends(q, log) /\ RegularAt(q, lo + k, hi)
  /\ Trace(q).openTurn = Turn /\ Trace(q).openStep = Step

LEMMA SkipAll ==
  ASSUME Inductive, NEW lo \in Nat, NEW hi \in Nat, RegularAt(log, lo, hi), lo < hi,
         NEW n \in Nat, n = hi - lo, NEW ev \in Seq(Events), Len(ev) = 2 * n,
         \A k \in 0 .. n - 1 :
           /\ ev[2 * k + 1] = ToolCall(Turn, Step, (lo + k) + 1)
           /\ IsOutcome(ev[2 * k + 2], Turn, Step, (lo + k) + 1),
         log' = log \o ev
  PROVE  SkippedTo(log', n, lo, hi)
<1>1. log \in Seq(Events) /\ trace = Trace(log) /\ Extends(log, log)
  BY Unpacked
<1> DEFINE Before(k) == log \o SubSeq(ev, 1, 2 * k)
           T == {k \in Nat : k <= n => SkippedTo(Before(k), k, lo, hi)}
<1>2. 0 \in T
  <2>1. SubSeq(ev, 1, 2 * 0) = <<>>
    OBVIOUS
  <2>2. Before(0) = log
    BY <1>1, <2>1
  <2>3. lo + 0 = lo
    OBVIOUS
  <2>4. SkippedTo(Before(0), 0, lo, hi)
    BY <1>1, <2>2, <2>3 DEF SkippedTo, Turn, Step
  <2> QED BY <2>4
<1>3. ASSUME NEW k \in Nat, k \in T PROVE k + 1 \in T
  <2> SUFFICES ASSUME k + 1 <= n PROVE SkippedTo(Before(k + 1), k + 1, lo, hi)
    OBVIOUS
  <2>1. PICK s : s = Before(k)
    OBVIOUS
  <2>2. SkippedTo(s, k, lo, hi)
    BY <1>3, <2>1
  <2>3. PICK l \in Nat : l = lo + k
    OBVIOUS
  <2>5. /\ s \in Seq(Events) /\ Extends(s, log) /\ RegularAt(s, l, hi)
        /\ Trace(s).openTurn = Turn /\ Trace(s).openStep = Step
    BY <2>2, <2>3 DEF SkippedTo, Extends
  <2>6. l < hi /\ k \in 0 .. n - 1
    BY <2>3
  <2>7. PICK c \in Nat, a \in Events, b \in Events, p \in Seq(Events) :
          /\ c = l + 1 /\ p = Append(s, a)
          /\ a = ToolCall(Turn, Step, c) /\ IsOutcome(b, Turn, Step, c)
          /\ RegularAt(p, l, hi) /\ RegularAt(Append(p, b), c, hi)
          /\ Trace(Append(p, b)).openTurn = Turn /\ Trace(Append(p, b)).openStep = Step
    <3> HIDE DEF T, Before
    <3>1. PICK c \in Nat, a \in Events, b \in Events, p \in Seq(Events) :
            /\ c = l + 1 /\ p = Append(s, a)
            /\ a = ToolCall(Trace(s).openTurn, Trace(s).openStep, c)
            /\ IsOutcome(b, Trace(s).openTurn, Trace(s).openStep, c)
            /\ RegularAt(p, l, hi) /\ RegularAt(Append(p, b), c, hi)
            /\ Trace(Append(p, b)).openTurn = Trace(s).openTurn
            /\ Trace(Append(p, b)).openStep = Trace(s).openStep
      BY <2>5, <2>6, SkipOne
    <3>2. a = ToolCall(Turn, Step, c) /\ IsOutcome(b, Turn, Step, c)
      BY <2>5, <3>1
    <3> QED BY <2>5, <3>1, <3>2
  <2>8. a = ev[2 * k + 1] /\ b = ev[2 * k + 2]
    <3>1. c = (lo + k) + 1
      BY <2>3, <2>7
    <3> QED BY <2>6, <2>7, <3>1 DEF IsOutcome
  <2>12. Extends(Append(p, b), log)
    <3>1. Regular(p) /\ Regular(Append(p, b))
      BY <2>7 DEF Regular
    <3>2. Extends(p, log)
      BY <1>1, <2>5, <2>7, <3>1, ExtendsAppend
    <3> QED BY <1>1, <3>1, <3>2, ExtendsAppend
  <2>13. Before(k + 1) = Append(p, b)
    <3>1. PICK i \in Nat : i = 2 * k
      OBVIOUS
    <3>2. i + 1 <= Len(ev) /\ (i + 1) + 1 <= Len(ev) /\ (i + 1) + 1 = 2 * (k + 1)
      BY <3>1
    <3>3. log \o SubSeq(ev, 1, i + 1) = Append(log \o SubSeq(ev, 1, i), ev[i + 1])
      BY <1>1, <3>1, <3>2, OneMore
    <3>4. log \o SubSeq(ev, 1, (i + 1) + 1) = Append(log \o SubSeq(ev, 1, i + 1), ev[(i + 1) + 1])
      <4>1. i + 1 \in Nat
        OBVIOUS
      <4> QED BY <1>1, <3>2, <4>1, OneMore
    <3>5. (i + 1) + 1 = 2 * k + 2 /\ i + 1 = 2 * k + 1
      BY <3>1
    <3>6. s = log \o SubSeq(ev, 1, i)
      BY <2>1, <3>1
    <3>7. log \o SubSeq(ev, 1, i + 1) = p
      BY <2>7, <2>8, <3>3, <3>5, <3>6
    <3>8. ev[(i + 1) + 1] = b
      BY <2>8, <3>5
    <3>9. log \o SubSeq(ev, 1, (i + 1) + 1) = Append(p, b)
      BY <3>4, <3>7, <3>8
    <3> QED BY <3>2, <3>9
  <2>14. RegularAt(Append(p, b), lo + (k + 1), hi)
    <3>1. c = lo + (k + 1)
      BY <2>3, <2>7
    <3> QED BY <2>7, <3>1
  <2>15. SkippedTo(Append(p, b), k + 1, lo, hi)
    BY <2>7, <2>12, <2>14 DEF SkippedTo
  <2> HIDE DEF Before
  <2> QED BY <2>13, <2>15
<1>4. n \in T
  <2> HIDE DEF T
  <2> QED BY <1>2, <1>3, NatInd
<1>5. Before(n) = log'
  <2>1. SubSeq(ev, 1, 2 * n) = ev
    OBVIOUS
  <2> QED BY <2>1
<1>6. SkippedTo(Before(n), n, lo, hi)
  BY <1>4
<1> HIDE DEF Before
<1> QED BY <1>5, <1>6

LEMMA SkipCallsStep ==
  ASSUME Inductive, SkipCalls
  PROVE  Inductive' /\ Extends(log', log)
<1> DEFINE left == {c \in Calls : tool[c] = "planned"}
           Skipped(i) ==
             LET c == Min(left) + ((i - 1) \div 2)
             IN IF i % 2 = 1 THEN ToolCall(Turn, Step, c)
                ELSE ToolResult(Turn, Step, c, FALSE)
<1>1. PICK lo \in Nat, hi \in Nat :
        /\ RegularAt(log, lo, hi) /\ lo <= hi /\ hi <= MaxCalls
        /\ Step # 0 /\ \A d \in Calls : ToolAt(d, lo, hi)
  BY ToolsAt DEF SkipCalls
<1>2. log \in Seq(Events) /\ trace = Trace(log) /\ Len(log) \in Nat /\ tool \in [Calls -> Stages]
  BY Unpacked
<1>3. \A c \in Calls : c \in Nat /\ c >= 1
  BY DEF Calls
<1>4. /\ pc = "tools" /\ left # {}
      /\ \A c \in Calls \ left : tool[c] \in {"none", "committed"}
      /\ Log([i \in 1 .. 2 * Cardinality(left) |-> Skipped(i)])
      /\ tool' = [c \in Calls |-> IF c \in left THEN "committed" ELSE tool[c]]
      /\ UNCHANGED <<pc, stored, mark, batch, crashes, sent, ran>>
  BY DEF SkipCalls, effects
<1>5. left = (lo + 1) .. hi
  <2>1. ASSUME NEW c \in left PROVE c \in (lo + 1) .. hi
    <3>1. c \in Calls /\ tool[c] = "planned" /\ ToolAt(c, lo, hi) /\ c \in Nat
      BY <1>1, <1>3
    <3> QED BY <3>1 DEF ToolAt
  <2>2. ASSUME NEW c \in (lo + 1) .. hi PROVE c \in left
    <3>1. c \in Calls
      BY <1>1, RecoveryAssumption DEF Calls
    <3>2. tool[c] # "none" /\ tool[c] # "committed"
      BY <1>1, <3>1 DEF ToolAt
    <3> QED BY <1>4, <3>1, <3>2
  <2> QED BY <2>1, <2>2
<1>6. lo < hi
  BY <1>4, <1>5
<1>7. PICK n \in Nat : n = hi - lo
  BY <1>6
<1>8. Cardinality(left) = n
  <2>1. Cardinality((lo + 1) .. hi) = IF lo + 1 > hi THEN 0 ELSE hi - (lo + 1) + 1
    BY FS_Interval
  <2>2. Cardinality(left) = Cardinality((lo + 1) .. hi)
    <3> HIDE DEF left
    <3> QED BY <1>5
  <2> QED BY <1>6, <1>7, <2>1, <2>2
<1>9. Min(left) = lo + 1
  <2>1. Min(left) \in left
    <3>1. left \in SUBSET Nat
      BY <1>3
    <3> HIDE DEF left
    <3> QED BY <1>4, <3>1, LeastOf
  <2>2. lo + 1 \in left /\ \A y \in left : lo + 1 <= y
    BY <1>5, <1>6
  <2>3. \E x \in left : \A y \in left : x <= y
    BY <2>2
  <2>4. \A y \in left : Min(left) <= y
    <3> HIDE DEF left
    <3> QED BY <2>3 DEF Min
  <2> QED BY <1>5, <2>1, <2>2, <2>4
<1> DEFINE ev == [i \in 1 .. 2 * n |-> Skipped(i)]
<1>10. ev \in Seq(Events) /\ Len(ev) = 2 * n
  <2>1. ASSUME NEW i \in 1 .. 2 * n PROVE Skipped(i) \in Events
    <3>1. PICK c \in Nat : c = Min(left) + ((i - 1) \div 2)
      <4> HIDE DEF left
      <4> QED BY <1>9
    <3>2. Turn \in Nat /\ Step \in Nat
      BY DEF Inductive, TypeOK, Traces, Turn, Step
    <3>3. PICK no \in BOOLEAN : no = FALSE
      OBVIOUS
    <3>4. ToolCall(Turn, Step, c) \in Events
      BY <3>2 DEF ToolCall, Events
    <3>5. ToolResult(Turn, Step, c, no) \in Events
      BY <3>2 DEF ToolResult, Events
    <3> HIDE DEF left
    <3> QED BY <3>1, <3>3, <3>4, <3>5
  <2>2. ev \in [1 .. 2 * n -> Events]
    <3> HIDE DEF Skipped
    <3> QED BY <2>1
  <2> HIDE DEF ev
  <2> QED BY <2>2
<1>11. \A k \in 0 .. n - 1 :
         /\ ev[2 * k + 1] = ToolCall(Turn, Step, (lo + k) + 1)
         /\ IsOutcome(ev[2 * k + 2], Turn, Step, (lo + k) + 1)
  <2> SUFFICES ASSUME NEW k \in 0 .. n - 1
               PROVE  /\ ev[2 * k + 1] = ToolCall(Turn, Step, (lo + k) + 1)
                      /\ IsOutcome(ev[2 * k + 2], Turn, Step, (lo + k) + 1)
    OBVIOUS
  <2> HIDE DEF left
  <2>1. PICK i \in 1 .. 2 * n : i = 2 * k + 1
    OBVIOUS
  <2>2. PICK j \in 1 .. 2 * n : j = 2 * k + 2
    OBVIOUS
  <2>3. i % 2 = 1 /\ j % 2 # 1 /\ (i - 1) \div 2 = k /\ (j - 1) \div 2 = k
    BY <2>1, <2>2
  <2>4. Min(left) + k = (lo + k) + 1
    BY <1>9
  <2>5. ev[i] = ToolCall(Turn, Step, Min(left) + k)
    BY <2>3
  <2>6. IsOutcome(ev[j], Turn, Step, Min(left) + k)
    BY <2>3 DEF IsOutcome
  <2> HIDE DEF ev
  <2> QED BY <2>1, <2>2, <2>4, <2>5, <2>6
<1>12. log' = log \o ev /\ trace' = Trace(log')
  BY <1>4, <1>8 DEF Log
<1>13. SkippedTo(log', n, lo, hi)
  <2> HIDE DEF ev, left
  <2> QED BY <1>1, <1>6, <1>7, <1>10, <1>11, <1>12, SkipAll
<1>14. Extends(log', log) /\ RegularAt(log', hi, hi) /\ Trace(log').openStep # 0
  <2>1. lo + n = hi
    BY <1>7
  <2> QED BY <1>1, <1>13, <2>1 DEF SkippedTo
<1>15. Standing(hi, hi)'
  <2>1. \A d \in Calls : ToolAt(d, hi, hi)'
    <3> SUFFICES ASSUME NEW d \in Calls PROVE ToolAt(d, hi, hi)'
      OBVIOUS
    <3>1. ToolAt(d, lo, hi) /\ d \in Nat
      BY <1>1, <1>3
    <3>2. CASE d \in left
      <4>1. tool'[d] = "committed" /\ d <= hi /\ ~(hi < d)
        BY <1>4, <1>5, <3>1, <3>2
      <4> QED BY <4>1 DEF ToolAt
    <3>3. CASE d \notin left
      <4>1. tool'[d] = tool[d] /\ tool[d] \in {"none", "committed"}
        BY <1>4, <3>3
      <4>2. d <= lo \/ hi < d
        BY <1>5, <3>1, <3>3
      <4> QED BY <1>6, <3>1, <4>1, <4>2 DEF ToolAt
    <3> QED BY <3>2, <3>3
  <2> QED BY <1>1, <1>4, <1>12, <1>14, <2>1 DEF Standing, Turn, Step
<1>16. stored' \in stored .. Len(log') /\ mark' \in 0 .. Len(log') /\ pc' \in Places
  <2>1. Len(log') \in Nat /\ Len(log) <= Len(log')
    BY <1>2, <1>14, ExtendsElements
  <2> QED BY <1>2, <1>4, <2>1, Unpacked
<1>17. batch' \in Seq(Messages) /\ Len(batch') <= 1 /\ tool' \in [Calls -> Stages]
  <2>1. tool' \in [Calls -> Stages]
    <3> HIDE DEF left
    <3> QED BY <1>2, <1>4 DEF Stages
  <2> QED BY <1>4, <2>1, Unpacked
<1>18. Inductive'
  <2>1. UNCHANGED <<sent, ran, crashes>>
    BY <1>4
  <2> QED BY <1>12, <1>14, <1>15, <1>16, <1>17, <2>1, StepShape
<1> QED BY <1>14, <1>18

-----------------------------------------------------------------------------
(***************************************************************************)
(* Durability, crashes and repairs.                                        *)
(***************************************************************************)
LEMMA PersistStep ==
  ASSUME Inductive, Persist
  PROVE  Inductive' /\ Extends(log', log)
<1>1. /\ stored' = Len(log) /\ stored < Len(log)
      /\ UNCHANGED <<pc, log, trace, mark, batch, tool, crashes, sent, ran>>
  BY DEF Persist, effects
<1>2. PICK lo \in Nat, hi \in Nat : RegularAt(log, lo, hi) /\ Standing(lo, hi)
  BY Unpacked
<1>3. Extends(log', log) /\ trace' = Trace(log')
  BY <1>1, Unpacked
<1>4. Standing(lo, hi)' /\ RegularAt(log', lo, hi)
  BY <1>1, <1>2 DEF Standing, ToolAt, Turn, Step, Unanswered
<1>5. stored' \in stored .. Len(log') /\ mark' \in 0 .. Len(log') /\ pc' \in Places
  BY <1>1, Unpacked
<1>6. batch' \in Seq(Messages) /\ Len(batch') <= 1 /\ tool' \in [Calls -> Stages]
  BY <1>1, Unpacked
<1>7. Inductive'
  BY <1>1, <1>3, <1>4, <1>5, <1>6, StepShape
<1> QED BY <1>3, <1>7

LEMMA RepairExtends ==
  ASSUME Inductive
  PROVE  Extends(log \o Closers(log), log) /\ Trace(log \o Closers(log)).openTurn = 0
<1>1. log \in Seq(Events) /\ Cuttable(log)
  BY Unpacked
<1>2. PICK q : q = log \o Closers(log)
  OBVIOUS
<1>3. /\ q \in Seq(Events) /\ Cuttable(q) /\ Trace(q).openTurn = 0
      /\ Len(log) <= Len(q) /\ \A i \in 0 .. Len(log) : SubSeq(q, 1, i) = SubSeq(log, 1, i)
  BY <1>1, <1>2, RepairCloses
<1> QED BY <1>2, <1>3 DEF Extends

\* What a crash leaves of a log that was still being written.
LEMMA CutKept ==
  ASSUME Inductive, NEW q, Extends(q, log), NEW k \in stored .. Len(q),
         log' = SubSeq(q, 1, k), stored' = k, sent' = sent, ran' = ran
  PROVE  /\ Kept' /\ log' \in Seq(Events) /\ Len(log') = k /\ k \in Nat
         /\ Cuttable(log') /\ Regular(log')
         /\ Len(log) <= k => Extends(log', log)
         /\ k <= Len(log) => log' = SubSeq(log, 1, k)
<1>1. log \in Seq(Events) /\ Len(log) \in Nat /\ stored \in 0 .. Len(log)
  BY Unpacked
<1>2. /\ q \in Seq(Events) /\ Cuttable(q) /\ Len(q) \in Nat /\ Len(log) <= Len(q)
      /\ \A i \in 1 .. Len(log) : q[i] = log[i]
  BY <1>1, ExtendsElements DEF Extends
<1>3. \A j \in 0 .. Len(log) : SubSeq(q, 1, j) = SubSeq(log, 1, j)
  BY DEF Extends
<1>4. k \in 0 .. Len(q)
  BY <1>1, <1>2
<1>5. /\ log' \in Seq(Events) /\ Len(log') = k /\ Cuttable(log') /\ Regular(log')
      /\ \A j \in 0 .. k : SubSeq(log', 1, j) = SubSeq(q, 1, j)
      /\ \A i \in 1 .. k : log'[i] = q[i]
  BY <1>2, <1>4, CuttableCut
<1>6. \A prefix \in sent' : \E j \in 0 .. stored' : prefix = SubSeq(log', 1, j)
  <2> SUFFICES ASSUME NEW prefix \in sent'
               PROVE  \E j \in 0 .. stored' : prefix = SubSeq(log', 1, j)
    OBVIOUS
  <2>1. PICK j \in 0 .. stored : prefix = SubSeq(log, 1, j)
    BY DEF Inductive, Kept
  <2>2. j \in 0 .. k /\ j \in 0 .. Len(log)
    BY <1>1, <1>4
  <2>3. SubSeq(log', 1, j) = SubSeq(log, 1, j)
    BY <1>3, <1>5, <2>2
  <2> QED BY <2>1, <2>2, <2>3
<1>7. \A r \in ran' : \E i \in 1 .. stored' : log'[i] = ToolCall(r[1], r[2], r[3])
  <2> SUFFICES ASSUME NEW r \in ran'
               PROVE  \E i \in 1 .. stored' : log'[i] = ToolCall(r[1], r[2], r[3])
    OBVIOUS
  <2>1. PICK i \in 1 .. stored : log[i] = ToolCall(r[1], r[2], r[3])
    BY DEF Inductive, Kept
  <2>2. i \in 1 .. k /\ i \in 1 .. Len(log)
    BY <1>1, <1>4
  <2> QED BY <1>2, <1>5, <2>1, <2>2
<1>8. ASSUME Len(log) <= k PROVE Extends(log', log)
  <2>1. \A j \in 0 .. Len(log) : SubSeq(log', 1, j) = SubSeq(log, 1, j)
    <3> SUFFICES ASSUME NEW j \in 0 .. Len(log)
                 PROVE  SubSeq(log', 1, j) = SubSeq(log, 1, j)
      OBVIOUS
    <3>1. j \in 0 .. k
      BY <1>1, <1>4, <1>8
    <3> QED BY <1>3, <1>5, <3>1
  <2> QED BY <1>5, <1>8, <2>1 DEF Extends
<1>9. ASSUME k <= Len(log) PROVE log' = SubSeq(log, 1, k)
  BY <1>3, <1>4, <1>9
<1>10. Kept'
  BY <1>6, <1>7 DEF Kept
<1> QED BY <1>4, <1>5, <1>8, <1>9, <1>10

\* The log is cut, but not below what is stored.
Cut == \E k \in stored .. Len(log) : log' = SubSeq(log, 1, k) /\ stored' = k

LEMMA CrashStep ==
  ASSUME Inductive, Crash
  PROVE  /\ Inductive' /\ stored' \in stored .. Len(log')
         /\ Extends(log', log) \/ Cut
<1>1. PICK q : q = IF pc = "repairing" THEN log \o Closers(log) ELSE log
  OBVIOUS
<1>2. Extends(q, log)
  BY <1>1, RepairExtends, Unpacked
<1>3. PICK k \in stored .. Len(q) :
        log' = SubSeq(q, 1, k) /\ trace' = Trace(log') /\ stored' = k
  BY <1>1 DEF Crash
<1>4. /\ pc' = "down" /\ mark' = 0 /\ batch' = <<>> /\ tool' = NoCalls
      /\ crashes < MaxCrashes /\ crashes' = crashes + 1 /\ sent' = sent /\ ran' = ran
  BY DEF Crash, effects
<1>5. /\ Kept' /\ log' \in Seq(Events) /\ Len(log') = k /\ k \in Nat
      /\ Cuttable(log') /\ Regular(log')
      /\ Len(log) <= k => Extends(log', log)
      /\ k <= Len(log) => log' = SubSeq(log, 1, k)
  BY <1>2, <1>3, <1>4, CutKept
<1>6. PICK lo \in Nat, hi \in Nat : RegularAt(log', lo, hi)
  BY <1>5 DEF Regular
<1>7. Standing(lo, hi)'
  BY <1>4 DEF Standing
<1>8. (\E l, h \in Nat : RegularAt(log, l, h) /\ Standing(l, h))'
  BY <1>6, <1>7
<1>9. trace' \in Traces(Nat)
  BY <1>3, <1>6 DEF RegularAt, Numbers
<1>10. crashes' \in 0 .. MaxCrashes
  <2>1. crashes \in 0 .. MaxCrashes
    BY DEF Inductive, TypeOK
  <2> QED BY <1>4, <2>1, RecoveryAssumption
<1>11. tool' \in [Calls -> Stages] /\ batch' \in Seq(Messages) /\ Len(batch') <= 1
  BY <1>4, Unpacked
<1>12. stored' \in 0 .. Len(log') /\ mark' \in 0 .. Len(log')
  BY <1>3, <1>4, <1>5
<1>13. sent' \subseteq Seq(Events) /\ ran' \subseteq Nat \X Nat \X Calls
  BY <1>4 DEF Inductive, TypeOK
<1>14. TypeOK'
  BY <1>4, <1>5, <1>9, <1>10, <1>11, <1>12, <1>13 DEF TypeOK, Places
<1>15. Inductive'
  BY <1>3, <1>5, <1>8, <1>11, <1>14 DEF Inductive
<1>16. stored' \in stored .. Len(log')
  BY <1>3, <1>5, Unpacked
<1>17. Extends(log', log) \/ Cut
  <2>1. CASE Len(log) <= k
    BY <1>5, <2>1
  <2>2. CASE k <= Len(log)
    <3>1. k \in stored .. Len(log)
      BY <1>3, <1>5, <2>2, Unpacked
    <3> QED BY <1>3, <1>5, <2>2, <3>1 DEF Cut
  <2>3. Len(log) <= k \/ k <= Len(log)
    BY <1>5, Unpacked
  <2> QED BY <2>1, <2>2, <2>3
<1> QED BY <1>15, <1>16, <1>17

\* The owner of the session changes, its log does not.
LEMMA OwnerMoves ==
  ASSUME Inductive, pc' \in {"down", "repairing", "idle"}, pc' = "idle" => Turn = 0,
         UNCHANGED <<log, trace, stored, mark, batch, tool, crashes, effects>>
  PROVE  Inductive' /\ Extends(log', log)
<1>1. PICK lo \in Nat, hi \in Nat : RegularAt(log, lo, hi)
  BY Unpacked
<1>2. UNCHANGED <<log, trace, stored, mark, batch, tool, crashes, sent, ran>>
  BY DEF effects
<1>3. Extends(log', log) /\ trace' = Trace(log')
  BY <1>2, Unpacked
<1>4. RegularAt(log', lo, hi) /\ Standing(lo, hi)'
  BY <1>1, <1>2 DEF Standing, Turn
<1>5. stored' \in stored .. Len(log') /\ mark' \in 0 .. Len(log') /\ pc' \in Places
  BY <1>2, Unpacked DEF Places
<1>6. batch' \in Seq(Messages) /\ Len(batch') <= 1 /\ tool' \in [Calls -> Stages]
  BY <1>2, Unpacked
<1>7. Inductive'
  BY <1>2, <1>3, <1>4, <1>5, <1>6, StepShape
<1> QED BY <1>3, <1>7

LEMMA ResumeStep ==
  ASSUME Inductive, Resume
  PROVE  Inductive' /\ Extends(log', log)
<1>1. /\ pc' \in {"down", "repairing", "idle"} /\ (pc' = "idle" => Closers(log) = <<>>)
      /\ UNCHANGED <<log, trace, stored, mark, batch, tool, crashes, effects>>
  BY DEF Resume
<1>2. Closers(log) = <<>> => Turn = 0
  BY Unpacked, WholeLog, CloserLeft DEF Turn
<1> QED BY <1>1, <1>2, OwnerMoves

LEMMA RepairRejectsStep ==
  ASSUME Inductive, RepairRejects
  PROVE  Inductive' /\ Extends(log', log)
BY OwnerMoves DEF RepairRejects

LEMMA RepairReturnsStep ==
  ASSUME Inductive, RepairReturns
  PROVE  Inductive' /\ Extends(log', log)
<1>1. /\ log' = log \o Closers(log) /\ trace' = Trace(log') /\ pc' = "idle"
      /\ stored' = Len(log') /\ UNCHANGED <<mark, batch, tool, crashes, sent, ran>>
  BY DEF RepairReturns, Log, effects
<1>2. Extends(log', log) /\ Trace(log').openTurn = 0
  BY <1>1, RepairExtends
<1>3. PICK lo \in Nat, hi \in Nat : RegularAt(log', lo, hi)
  BY <1>2, WholeLog DEF Extends, Regular
<1>4. Standing(lo, hi)'
  BY <1>1, <1>2 DEF Standing, Turn
<1>5. stored' \in stored .. Len(log') /\ mark' \in 0 .. Len(log') /\ pc' \in Places
  <2>1. Len(log') \in Nat /\ Len(log) <= Len(log')
    BY <1>2, ExtendsElements, Unpacked
  <2> QED BY <1>1, <2>1, Unpacked DEF Places
<1>6. batch' \in Seq(Messages) /\ Len(batch') <= 1 /\ tool' \in [Calls -> Stages]
  BY <1>1, Unpacked
<1>7. Inductive'
  BY <1>1, <1>2, <1>3, <1>4, <1>5, <1>6, StepShape
<1> QED BY <1>2, <1>7

-----------------------------------------------------------------------------
LEMMA InitInductive ==
  ASSUME Init
  PROVE  Inductive
<1>1. /\ pc = "idle" /\ log = <<>> /\ trace = FreshTrace /\ stored = 0 /\ mark = 0
      /\ batch = <<>> /\ tool = NoCalls /\ crashes = 0 /\ sent = {} /\ ran = {}
  BY DEF Init
<1>2. RegularAt(log, 0, 0) /\ Cuttable(log) /\ trace = Trace(log) /\ Len(log) = 0
  BY <1>1, EmptyRegular, TraceEmpty
<1>3. Standing(0, 0)
  BY <1>1 DEF Standing, Turn, FreshTrace
<1>4. Kept
  BY <1>1 DEF Kept
<1>5. TypeOK
  <2>1. trace \in Traces(Nat)
    BY <1>2 DEF RegularAt, Numbers
  <2>2. log \in Seq(Events) /\ batch \in Seq(Messages) /\ tool \in [Calls -> Stages]
    BY <1>1 DEF NoCalls, Stages
  <2>3. stored \in 0 .. Len(log) /\ mark \in 0 .. Len(log) /\ crashes \in 0 .. MaxCrashes
    BY <1>1, <1>2, RecoveryAssumption
  <2>4. pc \in Places /\ sent \subseteq Seq(Events) /\ ran \subseteq Nat \X Nat \X Calls
    BY <1>1 DEF Places
  <2> QED BY <2>1, <2>2, <2>3, <2>4 DEF TypeOK
<1>6. Len(batch) <= 1
  BY <1>1
<1>7. \E lo, hi \in Nat : RegularAt(log, lo, hi) /\ Standing(lo, hi)
  BY <1>2, <1>3
<1> QED BY <1>2, <1>4, <1>5, <1>6, <1>7 DEF Inductive

\* Every step keeps the invariant, and what is stored of the log.
LEMMA NextStep ==
  ASSUME Inductive, Next
  PROVE  Inductive' /\ stored' \in stored .. Len(log') /\ (Extends(log', log) \/ Cut)
<1>1. ASSUME stored' = stored, Extends(log', log)
      PROVE  stored' \in stored .. Len(log')
  <2>1. Len(log') \in Nat /\ Len(log) <= Len(log')
    BY <1>1, ExtendsElements, Unpacked
  <2> QED BY <1>1, <2>1, Unpacked
<1>2. CASE \E m \in Messages : Send(m)
  <2>1. stored' = stored
    BY <1>2 DEF Send
  <2> QED BY <1>1, <1>2, <2>1, SendStep
<1>3. CASE Agent
  <2>1. CASE StartTurn
    BY <1>1, <2>1, StartTurnStep DEF StartTurn
  <2>2. CASE EnterStep
    BY <1>1, <2>2, EnterStepStep DEF EnterStep
  <2>3. CASE StepRefused
    BY <1>1, <2>3, StepRefusedStep DEF StepRefused
  <2>4. CASE LogRequest
    BY <1>1, <2>4, LogRequestStep DEF LogRequest
  <2>5. CASE SendRequest
    BY <1>1, <2>5, SendRequestStep DEF SendRequest
  <2>6. CASE StepFails
    BY <1>1, <2>6, StepFailsStep DEF StepFails
  <2>7. CASE StepEnds
    BY <1>1, <2>7, StepEndsStep DEF StepEnds
  <2>8. CASE \E n \in 0 .. MaxCalls : Answer(n)
    BY <1>1, <2>8, AnswerStep DEF Answer
  <2> QED BY <1>3, <2>1, <2>2, <2>3, <2>4, <2>5, <2>6, <2>7, <2>8 DEF Agent
<1>4. CASE ToolRuns
  <2>1. ASSUME NEW c \in Calls, StartCall(c)
        PROVE  Inductive' /\ stored' = stored /\ Extends(log', log)
    BY <2>1, StartCallStep DEF StartCall
  <2>2. ASSUME NEW c \in Calls, RunBody(c)
        PROVE  Inductive' /\ stored' = stored /\ Extends(log', log)
    BY <2>2, RunBodyStep DEF RunBody
  <2>3. ASSUME NEW c \in Calls, ToolSettles(c)
        PROVE  Inductive' /\ stored' = stored /\ Extends(log', log)
    BY <2>3, ToolSettlesStep DEF ToolSettles
  <2>4. ASSUME NEW c \in Calls, CommitResult(c)
        PROVE  Inductive' /\ stored' = stored /\ Extends(log', log)
    BY <2>4, CommitResultStep DEF CommitResult
  <2>5. ASSUME SkipCalls
        PROVE  Inductive' /\ stored' = stored /\ Extends(log', log)
    BY <2>5, SkipCallsStep DEF SkipCalls
  <2> QED BY <1>1, <1>4, <2>1, <2>2, <2>3, <2>4, <2>5 DEF ToolRuns
<1>5. CASE Persist
  <2>1. stored' = Len(log) /\ log' = log
    BY <1>5 DEF Persist
  <2> QED BY <1>5, <2>1, PersistStep, Unpacked
<1>6. CASE Crash
  BY <1>6, CrashStep
<1>7. CASE Resume
  BY <1>1, <1>7, ResumeStep DEF Resume
<1>8. CASE RepairReturns
  <2>1. stored' = Len(log')
    BY <1>8 DEF RepairReturns
  <2>2. Inductive' /\ Extends(log', log)
    BY <1>8, RepairReturnsStep
  <2>3. Len(log') \in Nat /\ Len(log) <= Len(log')
    BY <2>2, ExtendsElements, Unpacked
  <2> QED BY <2>1, <2>2, <2>3, Unpacked
<1>9. CASE RepairRejects
  BY <1>1, <1>9, RepairRejectsStep DEF RepairRejects
<1> QED BY <1>2, <1>3, <1>4, <1>5, <1>6, <1>7, <1>8, <1>9 DEF Next

LEMMA IdleInductive ==
  ASSUME Inductive, UNCHANGED vars
  PROVE  Inductive'
<1>1. UNCHANGED <<pc, log, trace, stored, mark, batch, tool, crashes, sent, ran>>
  BY DEF vars, effects
<1>2. PICK lo \in Nat, hi \in Nat : RegularAt(log, lo, hi) /\ Standing(lo, hi)
  BY Unpacked
<1>3. Extends(log', log) /\ trace' = Trace(log')
  BY <1>1, Unpacked
<1>4. Standing(lo, hi)' /\ RegularAt(log', lo, hi)
  BY <1>1, <1>2 DEF Standing, ToolAt, Turn, Step, Unanswered
<1>5. stored' \in stored .. Len(log') /\ mark' \in 0 .. Len(log') /\ pc' \in Places
  BY <1>1, Unpacked
<1>6. batch' \in Seq(Messages) /\ Len(batch') <= 1 /\ tool' \in [Calls -> Stages]
  BY <1>1, Unpacked
<1> QED BY <1>1, <1>3, <1>4, <1>5, <1>6, StepShape

(***************************************************************************)
(* The log, cut anywhere, is regular; the live process stands where its    *)
(* log says; what was done outside rests on the stored part of the log.    *)
(***************************************************************************)
THEOREM InductiveHolds == Spec => []Inductive
<1>1. Init => Inductive
  BY InitInductive
<1>2. Inductive /\ [Next]_vars => Inductive'
  BY NextStep, IdleInductive
<1> QED BY <1>1, <1>2, PTL DEF Spec

\* Every variable stays in its type; nothing is durable that was never logged.
THEOREM TypeCorrect == Spec => []TypeOK
<1>1. Inductive => TypeOK
  BY DEF Inductive
<1> QED BY <1>1, InductiveHolds, PTL

LEMMA RepairFitsFrom ==
  ASSUME Inductive
  PROVE  RepairFits
<1>1. log \in Seq(Events) /\ Cuttable(log)
  BY Unpacked
<1>2. LogAccepted
  BY Unpacked DEF LogAccepted, RegularAt, Standing
<1>3. PICK cl : cl = Closers(log)
  OBVIOUS
<1>4. ASSUME NEW k \in 0 .. Len(cl)
      PROVE  Closers(log \o SubSeq(cl, 1, k)) = SubSeq(cl, k + 1, Len(cl))
  <2>1. PICK q : RepairedTo(q, log, cl, k)
    BY <1>1, <1>3, RepairSteps
  <2> QED BY <2>1 DEF RepairedTo
<1>5. RepairContinues
  BY <1>3, <1>4 DEF RepairContinues
<1> QED BY <1>2, <1>5 DEF RepairFits

(***************************************************************************)
(* The grammar accepts every recovered log, a session at rest has no open  *)
(* turn, and a repair that was cut short is continued where it stopped:    *)
(* interruptedTurnClosers() against SessionLog's grammar, for any number   *)
(* of turns, steps, calls and crashes.                                     *)
(***************************************************************************)
THEOREM RepairAlwaysFits == Spec => []RepairFits
<1>1. Inductive => RepairFits
  BY RepairFitsFrom
<1> QED BY <1>1, InductiveHolds, PTL

LEMMA CheckpointsFrom ==
  ASSUME Inductive
  PROVE  CheckpointsHold
<1>1. log \in Seq(Events) /\ Len(log) \in Nat /\ stored \in 0 .. Len(log)
  BY Unpacked
<1>2. RequestDurable
  <2> SUFFICES ASSUME NEW prefix \in sent PROVE IsPrefix(prefix, log)
    BY DEF RequestDurable
  <2>1. PICK k \in 0 .. stored : prefix = SubSeq(log, 1, k)
    BY DEF Inductive, Kept
  <2>2. k \in 0 .. Len(log)
    BY <1>1
  <2>3. Len(prefix) = k /\ SubSeq(prefix, 1, k) = SubSeq(log, 1, k)
    BY <1>1, <2>1, <2>2
  <2> QED BY <1>1, <2>2, <2>3 DEF IsPrefix
<1>3. NeverBoth(log)
  BY Unpacked DEF RegularAt
<1>4. RanIsRecorded
  <2> SUFFICES ASSUME NEW r \in ran
               PROVE  /\ \E i \in DOMAIN log : log[i] = ToolCall(r[1], r[2], r[3])
                      /\ \A i \in DOMAIN log : log[i] # ToolResult(r[1], r[2], r[3], TRUE)
    BY DEF RanIsRecorded
  <2>1. PICK i \in 1 .. stored : log[i] = ToolCall(r[1], r[2], r[3])
    BY DEF Inductive, Kept
  <2>2. i \in 1 .. Len(log) /\ DOMAIN log = 1 .. Len(log)
    BY <1>1
  <2>3. /\ log[i].type = "tool/call" /\ log[i].turn = r[1] /\ log[i].step = r[2]
        /\ log[i].call = r[3]
    BY <2>1 DEF ToolCall
  <2>4. ASSUME NEW j \in 1 .. Len(log), log[j] = ToolResult(r[1], r[2], r[3], TRUE)
        PROVE  FALSE
    <3>1. /\ log[j].type = "tool/result" /\ log[j].turn = r[1] /\ log[j].step = r[2]
          /\ log[j].call = r[3] /\ log[j].notStarted
      BY <2>4 DEF ToolResult
    <3>2. IsResult(log[j], log[i].turn, log[i].step, log[i].call)
      BY <2>3, <3>1 DEF IsResult
    <3>3. ~log[j].notStarted
      BY <1>3, <2>2, <2>3, <3>2 DEF NeverBoth
    <3> QED BY <3>1, <3>3
  <2> QED BY <2>1, <2>2, <2>4
<1> QED BY <1>2, <1>4 DEF CheckpointsHold

(***************************************************************************)
(* No crash takes back the record a model request or a tool body was       *)
(* allowed to rest on, whatever is lost of the log behind it.              *)
(***************************************************************************)
THEOREM CheckpointsAlwaysHold == Spec => []CheckpointsHold
<1>1. Inductive => CheckpointsHold
  BY CheckpointsFrom
<1> QED BY <1>1, InductiveHolds, PTL

LEMMA CallsAnsweredFrom ==
  ASSUME Inductive
  PROVE  CallsAnswered
<1>1. log \in Seq(Events) /\ DOMAIN log = 1 .. Len(log)
  BY Unpacked
<1> SUFFICES ASSUME pc = "idle", NEW i \in 1 .. Len(log), log[i].type = "assistant/message",
                    NEW c \in 1 .. log[i].calls
             PROVE  Cardinality({j \in 1 .. Len(log) :
                      /\ log[j].type = "tool/result" /\ log[j].call = c
                      /\ log[j].turn = log[i].turn /\ log[j].step = log[i].step}) = 1
  BY <1>1 DEF CallsAnswered
<1>2. PICK lo \in Nat, hi \in Nat : RegularAt(log, lo, hi) /\ Standing(lo, hi)
  BY Unpacked
<1>3. Trace(log).openTurn = 0
  BY <1>2, Unpacked DEF Standing, Turn
<1>4. ~InOpenStep(Trace(log), log[i])
  <2>1. Located(Trace(log), log[i])
    BY <1>2 DEF RegularAt, AllLocated, CallEvents
  <2> QED BY <1>3, <2>1 DEF Located, InOpenStep
<1>5. PICK k \in 1 .. Len(log) : IsResult(log[k], log[i].turn, log[i].step, c)
  BY <1>2, <1>4 DEF RegularAt, Requested
<1>6. \A j \in 1 .. Len(log) : IsResult(log[j], log[i].turn, log[i].step, c) => j = k
  BY <1>2, <1>5 DEF RegularAt, AnsweredOnce, IsResult
<1>7. {j \in 1 .. Len(log) :
         /\ log[j].type = "tool/result" /\ log[j].call = c
         /\ log[j].turn = log[i].turn /\ log[j].step = log[i].step} = {k}
  BY <1>5, <1>6 DEF IsResult
<1> QED BY <1>7, FS_Singleton

(***************************************************************************)
(* A session at rest has exactly one result for every requested call: no   *)
(* crash, abort or skipped call leaves the transcript with a dangling or a *)
(* twice answered one.                                                     *)
(***************************************************************************)
THEOREM CallsAlwaysAnswered == Spec => []CallsAnswered
<1>1. Inductive => CallsAnswered
  BY CallsAnsweredFrom
<1> QED BY <1>1, InductiveHolds, PTL

LEMMA SeamStep ==
  ASSUME Inductive, Next
  PROVE  Seam!Next
<1>1. log \in Seq(Events) /\ Len(log) \in Nat /\ stored \in 0 .. Len(log)
  BY Unpacked
<1>2. stored' \in stored .. Len(log') /\ (Extends(log', log) \/ Cut)
  BY NextStep
<1>3. CASE Extends(log', log)
  <2>1. Len(log) <= Len(log') /\ SubSeq(log', 1, Len(log)) = SubSeq(log, 1, Len(log))
    BY <1>1, <1>3 DEF Extends
  <2>2. Seam!Extend
    BY <1>2, <2>1 DEF Seam!Extend, IsPrefix, Seam!IsPrefix
  <2> QED BY <2>2 DEF Seam!Next
<1>4. CASE Cut
  <2>1. PICK k \in stored .. Len(log) : log' = SubSeq(log, 1, k) /\ stored' = k
    BY <1>4 DEF Cut
  <2>2. k \in 0 .. Len(log) /\ k \in Nat
    BY <1>1
  <2>3. Len(log') = k /\ SubSeq(log', 1, k) = SubSeq(log, 1, k)
    BY <1>1, <2>1, <2>2
  <2>4. Seam!Lose
    BY <1>1, <1>2, <2>1, <2>2, <2>3 DEF Seam!Lose, IsPrefix, Seam!IsPrefix
  <2> QED BY <2>4 DEF Seam!Next
<1> QED BY <1>2, <1>3, <1>4

(***************************************************************************)
(* Appends, checkpoints, crashes and repairs of a session implement the    *)
(* promise of the persistence seam (DurableLog).                           *)
(***************************************************************************)
THEOREM RecoveryImplementsSeam == Spec => DurabilityKept
<1>1. Init => Seam!Init
  BY DEF Init, Seam!Init
<1>2. Inductive /\ [Next]_vars => [Seam!Next]_<<log, stored>>
  BY SeamStep DEF vars
<1> QED BY <1>1, <1>2, InductiveHolds, PTL DEF Spec, DurabilityKept, Seam!Spec

=============================================================================
