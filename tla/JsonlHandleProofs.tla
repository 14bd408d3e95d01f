-------------------------- MODULE JsonlHandleProofs --------------------------
(***************************************************************************)
(* Proofs about JsonlHandle for any number of handles, events and callers, *)
(* any storage failures, deaths and closes.  A close that fails may leave  *)
(* a timer armed and events behind, which are then written without the     *)
(* lock, beside the next owner (run JsonlHandle_latewrite): the theorems   *)
(* hold as long as no handle is succeeded before what it left is written.  *)
(***************************************************************************)
EXTENDS JsonlHandle, SequenceTheorems, TLAPS

LeavesNothing(h) ==
  st[h] \in {"releasing", "closed"} => buffered[h] = <<>> /\ ~drain[h]

\* A handle that has a successor left nothing to write when it was released.
CleanSuccession == \A h \in Handles : h < opened => LeavesNothing(h)

\* No handle leaves anything to write when it is released.
CleanRelease == \A h \in Handles : LeavesNothing(h)

(***************************************************************************)
(* The inductive invariant.                                                *)
(***************************************************************************)
Records == Handles \X Nat

Writers == [cursor : Nat, materialized : BOOLEAN, leased : BOOLEAN,
            tornSeen : BOOLEAN, recovered : Seq(Records)]

Flushes == [at : {"idle", "drain", "barrier"}, on : Nat, goal : Nat, asked : Nat]

Typed ==
  /\ file \in Seq(Records) /\ salvage \in Seq(Records)
  /\ exists \in BOOLEAN /\ torn \in BOOLEAN
  /\ opened \in Handles
  /\ st \in [Handles -> States] /\ stage \in [Handles -> Stages]
  /\ live \in [Handles -> Seq(Records)]
  /\ buffered \in [Handles -> Seq(Records)] /\ batch \in [Handles -> Seq(Records)]
  /\ drain \in [Handles -> BOOLEAN]
  /\ state \in [Handles -> Writers]
  /\ flush \in [Callers -> Flushes]
  /\ promised \in Nat

\* The process of the last handle opened lives, be its session over or not.
Live == Runs(opened)

InUse == {"open", "draining", "settling"}

Holds(h) == buffered[h] # <<>> \/ batch[h] # <<>> \/ stage[h] # "none" \/ drain[h]

\* Only the last handle opened may have something to write.
Alone ==
  /\ st[opened] # "unopened"
  /\ \A k \in Handles : /\ k < opened => st[k] \in {"dead", "releasing", "closed"}
                        /\ k > opened => st[k] = "unopened"
                        /\ k # opened \/ ~Live => ~Holds(k)

\* The lock is held from the moment something is stored until the release.
Locked ==
  /\ owner = NoOwner \/ (owner = opened /\ Live /\ state[opened].leased)
  /\ st[opened] \in InUse /\ state[opened].leased => owner = opened
  /\ Live /\ exists => state[opened].leased

\* What the chain has done when it stands at a storage call, and that a drain
\* under way, or a torn tail taken off, has something left to write.
Chained ==
  Live =>
    /\ stage[opened] = "none" => batch[opened] = <<>>
    /\ stage[opened] # "none" => drain[opened] /\ batch[opened] # <<>>
    /\ drain[opened] /\ stage[opened] = "none" => buffered[opened] # <<>>
    /\ stage[opened] = "lease" => ~state[opened].leased
    /\ stage[opened] \in {"truncate", "rewrite", "write"} => state[opened].leased
    /\ stage[opened] = "truncate" => state[opened].tornSeen
    /\ stage[opened] \in {"rewrite", "write"} => ~state[opened].tornSeen
    /\ stage[opened] = "write" => state[opened].recovered = <<>>
    /\ ~state[opened].tornSeen /\ state[opened].recovered # <<>> =>
         buffered[opened] # <<>> \/ batch[opened] # <<>>

\* The handle knows of the torn tail, and what can be read from it.
TornKnown ==
  /\ ~torn => salvage = <<>>
  /\ Live => /\ state[opened].tornSeen = torn
             /\ torn => salvage = state[opened].recovered

\* Records recovered from a torn tail are those of earlier handles.
Aged ==
  /\ Live => /\ \A i \in DOMAIN live[opened] : live[opened][i][1] <= opened
             /\ \A i \in DOMAIN state[opened].recovered :
                   state[opened].recovered[i][1] < opened
  /\ ~Live => \A i \in DOMAIN Stored : Stored[i][1] <= opened

\* What barriers have covered, or will, is in complete records; one that a
\* handle in use does not serve is refused.
Kept ==
  /\ promised <= Len(file)
  /\ \A c \in Callers : flush[c].at # "idle" =>
       /\ flush[c].on \in 1 .. opened
       /\ st[flush[c].on] = "open" =>
            /\ flush[c].goal <= Len(live[opened])
            /\ flush[c].at = "barrier" => flush[c].goal <= Len(file)

\* Accounted, and for as long as the process lives.
Balanced ==
  Live =>
    /\ live[opened] = ((file \o state[opened].recovered) \o batch[opened]) \o buffered[opened]
    /\ state[opened].cursor = Len(file \o state[opened].recovered)

Inductive ==
  Typed /\ Alone /\ Locked /\ Chained /\ TornKnown /\ Aged /\ Kept /\ Balanced

-----------------------------------------------------------------------------
(***************************************************************************)
(* Sequences.                                                              *)
(***************************************************************************)
LEMMA PrefixOf ==
  ASSUME NEW s \in Seq(Records), NEW u \in Seq(Records)
  PROVE  IsPrefix(s, s \o u) /\ Len(s) <= Len(s \o u)
<1>1. Len(s \o u) = Len(s) + Len(u) /\ Len(s) \in Nat /\ Len(u) \in Nat
  OBVIOUS
<1>2. SubSeq(s \o u, 1, Len(s)) = s
  BY SubSeqOfConcat1, SubSeqFull, <1>1
<1>3. SubSeq(s, 1, Len(s)) = s
  BY SubSeqFull
<1> QED BY <1>1, <1>2, <1>3 DEF IsPrefix

LEMMA Associate ==
  ASSUME NEW s \in Seq(Records), NEW t \in Seq(Records), NEW u \in Seq(Records)
  PROVE  (s \o t) \o u = s \o (t \o u)
  BY ConcatAssociative

\* What a handle that lives has, in one list.
LEMMA Regroup ==
  ASSUME NEW f \in Seq(Records), NEW r \in Seq(Records), NEW b \in Seq(Records), NEW u \in Seq(Records)
  PROVE  /\ ((f \o r) \o b) \o u = f \o (r \o (b \o u))
         /\ (f \o r) \o (b \o u) = ((f \o r) \o b) \o u
         /\ f \o <<>> = f /\ <<>> \o f = f
         /\ Len(f \o r) = Len(f) + Len(r)
         /\ f \o r \in Seq(Records)
<1>1. f \o r \in Seq(Records)
  BY ConcatProperties
<1>2. ((f \o r) \o b) \o u = (f \o r) \o (b \o u)
  BY <1>1, Associate, Zenon
<1>3. (f \o r) \o (b \o u) = f \o (r \o (b \o u))
  <2>1. b \o u \in Seq(Records)
    BY ConcatProperties
  <2> QED BY <2>1, Associate, Zenon
<1>4. f \o <<>> = f /\ <<>> \o f = f
  BY ConcatEmptySeq
<1>5. Len(f \o r) = Len(f) + Len(r)
  BY ConcatProperties
<1> QED BY <1>1, <1>2, <1>3, <1>4, <1>5, Zenon

LEMMA AppendLast ==
  ASSUME NEW s \in Seq(Records), NEW u \in Seq(Records), NEW e \in Records
  PROVE  Append(s \o u, e) = s \o Append(u, e)
<1>1. s \o u \in Seq(Records) /\ <<e>> \in Seq(Records)
  BY ConcatProperties
<1>2. Append(s \o u, e) = (s \o u) \o <<e>> /\ Append(u, e) = u \o <<e>>
  BY <1>1, AppendIsConcat
<1>3. (s \o u) \o <<e>> = s \o (u \o <<e>>)
  BY <1>1, ConcatAssociative
<1> QED BY <1>2, <1>3

-----------------------------------------------------------------------------
(***************************************************************************)
(* One lemma per action.                                                   *)
(***************************************************************************)
\* The handle that writes is the last one opened.
LEMMA Actor ==
  ASSUME Typed, Alone, NEW h \in Handles
  PROVE  /\ st[h] \in InUse => h = opened /\ Live
         /\ Runs(h) /\ Holds(h) => h = opened /\ Live
         /\ Routed(h) => Runs(h)
         /\ h = opened \/ st[h] \in {"unopened", "dead", "releasing", "closed"}
         /\ h = opened /\ Runs(h) => Live
         /\ h # opened /\ Runs(h) => h < opened /\ st[h] \in {"releasing", "closed"}
<1>1. h \in Nat /\ opened \in Nat
  BY DEF Typed, Handles
<1>2. h # opened => st[h] \in {"unopened", "dead", "releasing", "closed"}
  BY <1>1 DEF Alone, Holds
<1>3. h # opened /\ Runs(h) => h < opened
  BY <1>1 DEF Alone, Holds, Runs
<1>4. Routed(h) => Runs(h)
  BY DEF Routed, Runs
<1>5. h = opened /\ Runs(h) => Live
  BY DEF Live, Runs
<1>6. st[h] \in InUse => h = opened /\ Runs(h)
  BY <1>2 DEF InUse, Runs
<1>7. Runs(h) /\ Holds(h) => h = opened
  BY DEF Alone, Holds
<1>8. h # opened /\ Runs(h) => st[h] \in {"releasing", "closed"}
  BY <1>2 DEF Runs
<1> QED BY <1>2, <1>3, <1>4, <1>5, <1>6, <1>7, <1>8

LEMMA InitHolds == HandleAssumption /\ Init => Inductive
<1> SUFFICES ASSUME HandleAssumption, Init PROVE Inductive
  OBVIOUS
<1>1. 1 \in Handles /\ \A h \in Handles : h \in Nat /\ (h # 1 => h > 1)
  BY DEF HandleAssumption, Handles
<1>2. <<>> \in Seq(Records) /\ <<>> \o <<>> = <<>> /\ Len(<<>>) = 0
  OBVIOUS
<1>3. Typed
  <2>1. state \in [Handles -> Writers]
    BY <1>2 DEF Init, Fresh, Writers
  <2> QED BY <1>1, <1>2, <2>1 DEF Init, Typed, Flushes, States, Stages, Idle
<1>4. Alone /\ Locked /\ Chained
  BY <1>1 DEF Init, Alone, Holds, Locked, Chained, Live, Runs, Fresh, NoOwner
<1>5. TornKnown
  BY <1>1 DEF Init, TornKnown, Live, Runs, Fresh
<1>6. Aged
  BY <1>1 DEF Init, Aged, Live, Runs, Fresh
<1>7. Kept
  BY <1>2 DEF Init, Kept, Idle
<1>8. Balanced
  BY <1>1, <1>2 DEF Init, Balanced, Fresh
<1> QED BY <1>3, <1>4, <1>5, <1>6, <1>7, <1>8 DEF Inductive

\* An event is published: it is the last of the session and of the buffer.
LEMMA PublishStep ==
  ASSUME Inductive, CleanSuccession', NEW h \in Handles, Publish(h)
  PROVE  Inductive' /\ h = opened /\ Live
<1> DEFINE event == <<h, Len(live[h]) + 1>>
<1> USE DEF disk, chain
<1>1. h = opened /\ Live
  <2>1. Typed /\ Alone /\ Runs(h)
    BY DEF Inductive, Publish, Routed, Runs
  <2>2. SUFFICES ASSUME h # opened PROVE FALSE
    BY <2>1, Actor
  <2>3. h < opened /\ st[h] \in {"releasing", "closed"}
    BY <2>1, <2>2, Actor
  <2>4. /\ UNCHANGED <<opened, st>>
        /\ \E e : buffered' = [buffered EXCEPT ![h] = Append(buffered[h], e)]
    BY DEF Publish
  <2>5. buffered'[h] = <<>>
    BY <2>3, <2>4 DEF CleanSuccession, LeavesNothing
  <2>6. buffered \in [Handles -> Seq(Records)] /\ buffered[h] \in Seq(Records)
    BY <2>1 DEF Typed
  <2>7. PICK e : buffered' = [buffered EXCEPT ![h] = Append(buffered[h], e)]
    BY <2>4
  <2>8. Append(buffered[h], e) # <<>>
    BY <2>6
  <2> QED BY <2>5, <2>6, <2>7, <2>8
<1>2. /\ opened \in Handles /\ opened \in Nat
      /\ live[h] \in Seq(Records) /\ buffered[h] \in Seq(Records)
      /\ live \in [Handles -> Seq(Records)] /\ buffered \in [Handles -> Seq(Records)]
  <2>1. /\ opened \in Handles
        /\ live \in [Handles -> Seq(Records)] /\ buffered \in [Handles -> Seq(Records)]
    BY DEF Inductive, Typed
  <2>2. \A k \in Handles : k \in Nat
    BY DEF Handles
  <2> QED BY <2>1, <2>2
<1>3. event \in Records /\ event[1] = h
  BY <1>2 DEF Records
<1>4. /\ live' = [live EXCEPT ![h] = Append(live[h], event)]
      /\ buffered' = [buffered EXCEPT ![h] = Append(buffered[h], event)]
      /\ UNCHANGED <<disk, opened, st, drain, chain, flush, promised>>
  BY DEF Publish
<1> HIDE DEF event
<1>5. /\ Append(live[h], event) \in Seq(Records) /\ Append(buffered[h], event) \in Seq(Records)
      /\ Len(Append(live[h], event)) = Len(live[h]) + 1
      /\ Len(live[h]) \in Nat
      /\ \A i \in DOMAIN Append(live[h], event) :
           \/ i \in DOMAIN live[h] /\ Append(live[h], event)[i] = live[h][i]
           \/ Append(live[h], event)[i] = event
  BY <1>2, <1>3
<1>6. /\ live'[h] = Append(live[h], event) /\ buffered'[h] = Append(buffered[h], event)
      /\ \A k \in Handles : k # h => live'[k] = live[k] /\ buffered'[k] = buffered[k]
  BY <1>2, <1>4
<1>7. Typed'
  BY <1>2, <1>4, <1>5 DEF Inductive, Typed
<1>8. Alone'
  BY <1>1, <1>4, <1>6 DEF Inductive, Alone, Holds, Live, Runs
<1>9. Locked' /\ Chained' /\ TornKnown'
  BY <1>4 DEF Inductive, Locked, Chained, TornKnown, Live, Runs
<1>10. Aged'
  <2>1. Live' /\ opened' = opened /\ state' = state
    BY <1>1, <1>4 DEF Live, Runs
  <2>2. \A i \in DOMAIN live'[opened] : live'[opened][i][1] <= opened
    BY <1>1, <1>2, <1>3, <1>5, <1>6 DEF Inductive, Aged
  <2>3. \A i \in DOMAIN state[opened].recovered : state[opened].recovered[i][1] < opened
    BY <1>1 DEF Inductive, Aged
  <2> QED BY <2>1, <2>2, <2>3 DEF Aged
<1>11. Kept'
  <2>1. \A n \in Nat : n <= Len(live[h]) => n <= Len(live'[h])
    BY <1>5, <1>6
  <2>2. \A c \in Callers : flush[c].goal \in Nat
    BY DEF Inductive, Typed, Flushes
  <2> QED BY <1>1, <1>4, <2>1, <2>2 DEF Inductive, Kept, Live, Runs
<1>12. Balanced'
  <2> DEFINE written == file \o state[h].recovered
             old     == written \o batch[h]
  <2>1. written \in Seq(Records) /\ old \in Seq(Records)
    BY ConcatProperties DEF Inductive, Typed, Writers
  <2>2. live[h] = old \o buffered[h] /\ state[h].cursor = Len(written)
    BY <1>1, Actor DEF Inductive, Balanced
  <2> HIDE DEF written, old
  <2>3. Append(live[h], event) = old \o Append(buffered[h], event)
    <3>1. Append(old \o buffered[h], event) = old \o Append(buffered[h], event)
      BY <1>2, <1>3, <2>1, AppendLast
    <3> QED BY <2>2, <3>1
  <2> QED BY <1>1, <1>4, <1>6, <2>2, <2>3 DEF Balanced, written, old
<1> QED BY <1>1, <1>7, <1>8, <1>9, <1>10, <1>11, <1>12 DEF Inductive

\* Steps that start a drain at most, and move the handle to its close.
LEMMA QuietStep ==
  ASSUME Inductive, NEW h \in Handles, h = opened, Live, Live',
         st' \in [Handles -> States], \A k \in Handles : k # h => st'[k] = st[k],
         drain' = Set(drain, h, drain[h] \/ buffered[h] # <<>>) \/ drain' = drain,
         UNCHANGED <<file, exists, torn, salvage, opened, live, buffered, chain, promised>>,
         flush' \in [Callers -> Flushes], Locked', Kept'
  PROVE  Inductive'
<1> USE DEF chain
<1>1. drain \in [Handles -> BOOLEAN] /\ h \in Handles /\ buffered \in [Handles -> Seq(Records)]
  BY DEF Inductive, Typed
<1>2. drain' \in [Handles -> BOOLEAN]
  BY <1>1 DEF Set
<1>3. /\ drain[h] => drain'[h]
      /\ drain'[h] => drain[h] \/ buffered[h] # <<>>
      /\ \A k \in Handles : k # h => drain'[k] = drain[k]
  BY <1>1 DEF Set
<1>4. Typed'
  BY <1>2 DEF Inductive, Typed
<1>5. Alone'
  <2>1. \A k \in Handles : k # h => (Holds(k)' <=> Holds(k))
    BY <1>3 DEF Holds
  <2>2. st'[h] # "unopened"
    BY DEF Live, Runs
  <2>3. h \in Nat /\ ~(h < h) /\ ~(h > h)
    BY DEF Handles
  <2> QED BY <2>1, <2>2, <2>3 DEF Inductive, Alone
<1>6. Chained'
  BY <1>3 DEF Inductive, Chained
<1>7. TornKnown' /\ Aged' /\ Balanced'
  BY DEF Inductive, TornKnown, Aged, Balanced
<1> QED BY <1>4, <1>5, <1>6, <1>7 DEF Inductive

\* A handle that has a successor only ends.
LEMMA EarlierStep ==
  ASSUME Inductive, NEW h \in Handles, h # opened, Runs(h),
         st' \in [Handles -> States], \A k \in Handles : k # h => st'[k] = st[k],
         st'[h] \in {"dead", "releasing", "closed"},
         UNCHANGED <<disk, opened, live, buffered, drain, chain, promised>>,
         flush' \in [Callers -> Flushes],
         \A c \in Callers :
           flush'[c] = flush[c] \/ flush'[c].at = "idle" \/ flush'[c].on = h
  PROVE  Inductive'
<1> USE DEF chain, disk
<1>1. Typed'
  BY DEF Inductive, Typed
<1>2. h < opened /\ opened \in Handles /\ opened \in Nat /\ h \in Nat /\ h >= 1
  BY Actor DEF Inductive, Typed, Handles
<1>3. (Live' <=> Live) /\ st'[opened] = st[opened]
  BY <1>2 DEF Live, Runs
<1>4. Alone'
  <2>1. \A k \in Handles : Holds(k)' <=> Holds(k)
    BY DEF Holds
  <2> QED BY <1>2, <1>3, <2>1 DEF Inductive, Alone
<1>5. Locked' /\ Chained' /\ TornKnown'
  BY <1>3 DEF Inductive, Locked, Chained, TornKnown
<1>6. Aged' /\ Balanced'
  BY <1>3 DEF Inductive, Aged, Balanced, Stored
<1>7. Kept'
  <2>1. \A k \in Handles : st'[k] = "open" => st[k] = "open"
    OBVIOUS
  <2>2. ASSUME NEW c \in Callers, flush'[c].at # "idle"
        PROVE  /\ flush'[c].on \in 1 .. opened
               /\ st'[flush'[c].on] = "open" =>
                    /\ flush'[c].goal <= Len(live[opened])
                    /\ flush'[c].at = "barrier" => flush'[c].goal <= Len(file)
    <3>1. CASE flush'[c] = flush[c]
      <4>1. flush[c].on \in 1 .. opened
        BY <2>2, <3>1 DEF Inductive, Kept
      <4>2. flush[c].on \in Handles
        BY <1>2, <4>1, HandleAssumption DEF HandleAssumption, Handles
      <4> QED BY <2>1, <2>2, <3>1, <4>1, <4>2 DEF Inductive, Kept
    <3>2. CASE flush'[c].on = h
      BY <1>2, <3>2
    <3> QED BY <2>2, <3>1, <3>2
  <2> QED BY <2>2 DEF Inductive, Kept
<1> QED BY <1>1, <1>4, <1>5, <1>6, <1>7 DEF Inductive

LEMMA DrainLiveIs ==
  ASSUME Typed, NEW h \in Handles, DrainLive(h)
  PROVE  drain' = Set(drain, h, drain[h] \/ buffered[h] # <<>>) \/ drain' = drain
  BY DEF DrainLive, Set, Typed

\* Nothing the invariant of barriers or of the lock speaks of has changed.
LEMMA SameBarriers ==
  ASSUME Kept, UNCHANGED <<file, opened, st, live, flush, promised>>
  PROVE  Kept'
  BY DEF Kept

LEMMA SameLock ==
  ASSUME Locked, UNCHANGED <<exists, owner, opened, st, state>>
  PROVE  Locked'
  BY DEF Locked, Live, Runs

\* What a drain of a handle that holds nothing amounts to.
LEMMA NothingToDrain ==
  ASSUME Inductive, NEW h \in Handles, h # opened, DrainLive(h)
  PROVE  drain' = drain
<1>1. drain \in [Handles -> BOOLEAN] /\ ~drain[h] /\ buffered[h] = <<>>
  BY DEF Inductive, Typed, Alone, Holds
<1>2. drain' = [drain EXCEPT ![h] = FALSE] \/ drain' = drain
  BY <1>1 DEF DrainLive, Set
<1> QED BY <1>1, <1>2

LEMMA TimerStep ==
  ASSUME Inductive, NEW h \in Handles, TimerFires(h)
  PROVE  Inductive'
<1> USE DEF disk, chain
<1>1. /\ Typed /\ Alone /\ Runs(h) /\ Kept /\ Locked
      /\ UNCHANGED <<disk, opened, st, live, buffered, chain, flush, promised>>
      /\ drain' = drain \/ DrainLive(h)
  BY DEF Inductive, TimerFires
<1>2. /\ st' \in [Handles -> States] /\ \A k \in Handles : st'[k] = st[k]
      /\ flush' \in [Callers -> Flushes]
  BY <1>1 DEF Typed
<1>3. CASE h = opened
  <2>1. Live /\ Live'
    BY <1>1, <1>3 DEF Live, Runs
  <2>2. drain' = Set(drain, h, drain[h] \/ buffered[h] # <<>>) \/ drain' = drain
    BY <1>1, DrainLiveIs
  <2>3. Locked' /\ Kept'
    BY <1>1, SameLock, SameBarriers
  <2> QED BY <1>1, <1>2, <1>3, <2>1, <2>2, <2>3, QuietStep
<1>4. CASE h # opened
  <2>1. drain' = drain
    BY <1>1, <1>4, NothingToDrain
  <2>2. st'[h] \in {"dead", "releasing", "closed"}
    BY <1>1, <1>2, <1>4, Actor
  <2> QED BY <1>1, <1>2, <1>4, <2>1, <2>2, EarlierStep
<1> QED BY <1>3, <1>4

\* `draining` is cleared.
LEMMA ClearedStep ==
  ASSUME Inductive, NEW h \in Handles, Cleared(h)
  PROVE  Inductive'
<1> USE DEF disk, chain
<1>1. Typed /\ UNCHANGED <<disk, opened, st, live, buffered, drain, chain, flush, promised>>
  BY DEF Inductive, Cleared
<1>2. Typed' /\ Alone' /\ Locked' /\ Chained'
  BY <1>1 DEF Inductive, Typed, Alone, Holds, Locked, Chained, Live, Runs
<1>3. TornKnown' /\ Aged' /\ Kept' /\ Balanced'
  BY <1>1 DEF Inductive, TornKnown, Aged, Kept, Balanced, Live, Runs, Stored
<1> QED BY <1>2, <1>3 DEF Inductive

\* What has left the buffer of a handle between two drains is in complete records,
\* where it is the handle's own.
LEMMA BetweenDrains ==
  ASSUME Inductive, NEW h \in Handles, h = opened, Live, ~drain[h]
  PROVE  Acknowledged(h, Len(live[h]) - Len(buffered[h])) <= Len(file)
<1>1. /\ live[h] \in Seq(Records) /\ file \in Seq(Records) /\ buffered[h] \in Seq(Records)
      /\ state[h].recovered \in Seq(Records)
  BY DEF Inductive, Typed, Writers
<1>2. batch[h] = <<>>
  BY DEF Inductive, Chained
<1>3. live[h] = (file \o state[h].recovered) \o buffered[h]
  <2>1. live[h] = ((file \o state[h].recovered) \o <<>>) \o buffered[h]
    BY <1>2, Actor DEF Inductive, Balanced
  <2>2. file \o state[h].recovered \in Seq(Records)
    BY <1>1, ConcatProperties
  <2> QED BY <2>1, <2>2, ConcatEmptySeq
<1> DEFINE w == file \o state[h].recovered
<1>4. w \in Seq(Records) /\ Len(w) = Len(file) + Len(state[h].recovered)
  BY <1>1, ConcatProperties
<1>5. Len(live[h]) - Len(buffered[h]) = Len(w)
  <2> HIDE DEF w
  <2>1. live[h] = w \o buffered[h]
    BY <1>3 DEF w
  <2>2. Len(live[h]) = Len(w) + Len(buffered[h])
    <3>1. w \in Seq(Records) /\ buffered[h] \in Seq(Records)
      BY <1>1, <1>4
    <3> QED BY <2>1, <3>1, ConcatProperties
  <2>3. Len(w) \in Nat /\ Len(buffered[h]) \in Nat
    BY <1>1, <1>4
  <2> QED BY <2>2, <2>3
<1>6. Acknowledged(h, Len(w)) = 0 \/ Acknowledged(h, Len(w)) = Len(w)
  BY DEF Acknowledged
<1>7. CASE state[h].recovered = <<>>
  <2>1. Len(w) = Len(file) /\ Len(file) \in Nat
    BY <1>1, <1>4, <1>7
  <2> HIDE DEF w
  <2>2. Acknowledged(h, Len(w)) <= Len(file)
    BY <1>6, <2>1
  <2> QED BY <1>5, <2>2
<1>8. CASE state[h].recovered # <<>>
  <2> DEFINE n == Len(state[h].recovered)
  <2>1. n \in Nat \ {0} /\ n \in DOMAIN state[h].recovered /\ Len(file) \in Nat
    BY <1>1, <1>8
  <2>2. state[h].recovered[n][1] < opened /\ state[h].recovered[n] \in Records
    BY <1>1, <2>1 DEF Inductive, Aged
  <2>3. state[h].recovered[n][1] # h
    BY <2>2 DEF Records, Handles
  <2>4. w[Len(w)] = state[h].recovered[n]
    BY <1>1, <1>4, <2>1
  <2>5. live[h][Len(w)] = w[Len(w)]
    <3> HIDE DEF n
    <3>1. Len(w) \in 1 .. Len(w)
      BY <1>4, <2>1 DEF n
    <3> HIDE DEF w
    <3>2. live[h] = w \o buffered[h]
      BY <1>3 DEF w
    <3> QED BY <1>1, <1>4, <3>1, <3>2
  <2>6. Acknowledged(h, Len(w)) = 0
    BY <2>3, <2>4, <2>5 DEF Acknowledged
  <2> HIDE DEF w, n
  <2>7. Acknowledged(h, Len(w)) <= Len(file)
    BY <2>1, <2>6
  <2> QED BY <1>5, <2>7
<1> QED BY <1>7, <1>8

\* A flush that finds nothing to drain covers what is in complete records.
LEMMA LastFlushStep ==
  ASSUME Inductive, NEW c \in Callers, NEW h \in Handles, FlushCall(c, h), h = opened
  PROVE  Inductive'
<1>1. h = opened /\ Live /\ opened \in Nat /\ opened >= 1 /\ Typed
  BY Actor DEF Inductive, FlushCall, Typed, Handles, Routed, Live, Runs
<1>2. drain' = Set(drain, h, drain[h] \/ buffered[h] # <<>>) \/ drain' = drain
  BY DrainLiveIs DEF FlushCall, Inductive
<1> DEFINE goal == Acknowledged(h, LookedAt(h))
           asked == Acknowledged(h, Len(live[h]))
           call == [at |-> IF drain[h] \/ (ending[h] = "no" /\ buffered[h] # <<>>)
                             THEN "drain" ELSE "barrier",
                    on |-> h, goal |-> goal, asked |-> asked]
<1>3. /\ flush' = [flush EXCEPT ![c] = call]
      /\ UNCHANGED <<disk, opened, st, live, buffered, chain, promised>>
  BY DEF FlushCall, Await
<1>4. /\ Len(live[h]) \in Nat /\ Len(buffered[h]) \in Nat
      /\ Len(buffered[h]) <= Len(live[h])
  <2>1. PICK s \in Seq(Records) : live[h] = s \o buffered[h]
    <3>1. (file \o state[h].recovered) \o batch[h] \in Seq(Records)
      BY ConcatProperties DEF Inductive, Typed, Writers
    <3> QED BY <1>1, <3>1, Actor DEF Inductive, Balanced
  <2>2. buffered[h] \in Seq(Records)
    BY <1>1 DEF Typed
  <2> QED BY <2>1, <2>2, ConcatProperties
<1>5. goal \in Nat /\ goal <= Len(live[h]) /\ asked \in Nat
  <2>1. LookedAt(h) \in Nat /\ LookedAt(h) <= Len(live[h])
    <3>1. CASE LookedAt(h) = Len(live[h])
      BY <1>4, <3>1
    <3>2. CASE LookedAt(h) = Len(live[h]) - Len(buffered[h])
      <4>1. \A m, n \in Nat : n <= m => m - n \in Nat /\ m - n <= m
        OBVIOUS
      <4> QED BY <1>4, <3>2, <4>1
    <3> QED BY <3>1, <3>2 DEF LookedAt
  <2>2. Acknowledged(h, LookedAt(h)) = 0 \/ Acknowledged(h, LookedAt(h)) = LookedAt(h)
    BY DEF Acknowledged
  <2>3. Acknowledged(h, Len(live[h])) = 0 \/ Acknowledged(h, Len(live[h])) = Len(live[h])
    BY DEF Acknowledged
  <2> QED BY <1>4, <2>1, <2>2, <2>3
<1>6. ASSUME ~(drain[h] \/ (ending[h] = "no" /\ buffered[h] # <<>>))
      PROVE  goal <= Len(file)
  <2>1. LookedAt(h) = Len(live[h]) - Len(buffered[h])
    <3>1. CASE ending[h] = "no"
      <4>1. Len(buffered[h]) = 0
        BY <1>6, <3>1
      <4> QED BY <1>4, <3>1, <4>1 DEF LookedAt
    <3>2. CASE ending[h] # "no"
      BY <3>2 DEF LookedAt
    <3> QED BY <3>1, <3>2
  <2> QED BY <1>1, <1>6, <2>1, BetweenDrains
<1> HIDE DEF goal, asked
<1>7. /\ flush \in [Callers -> Flushes]
      /\ call \in Flushes
  BY <1>1, <1>5 DEF Inductive, Typed, Flushes
<1>8. /\ call.on = opened /\ call.goal <= Len(live[opened])
      /\ call.at = "barrier" => call.goal <= Len(file)
  BY <1>1, <1>5, <1>6
<1> HIDE DEF call
<1>9. Kept'
  <2>1. \A k \in Callers : flush'[k] = flush[k] \/ flush'[k] = call
    BY <1>3, <1>7
  <2>2. UNCHANGED <<opened, st, live, file, promised>>
    BY <1>3 DEF disk
  <2>3. call.on \in 1 .. opened
    BY <1>1, <1>8
  <2> QED BY <1>8, <2>1, <2>2, <2>3 DEF Inductive, Kept
<1>10. flush' \in [Callers -> Flushes]
  BY <1>3, <1>7
<1>11. Locked' /\ Live'
  BY <1>1, <1>3, SameLock DEF Inductive, disk, chain, Live, Runs
<1>12. st' \in [Handles -> States] /\ \A k \in Handles : st'[k] = st[k]
  BY <1>1, <1>3 DEF Typed
<1> QED BY <1>1, <1>2, <1>3, <1>9, <1>10, <1>11, <1>12, QuietStep DEF disk

\* A flush through a handle that has a successor is going to be refused.
LEMMA LateFlushStep ==
  ASSUME Inductive, NEW c \in Callers, NEW h \in Handles, FlushCall(c, h), h # opened
  PROVE  Inductive'
<1>1. /\ Runs(h) /\ st[h] \in {"dead", "releasing", "closed"} /\ h \in Nat
      /\ live[h] \in Seq(Records)
  BY Actor DEF Inductive, FlushCall, Routed, Runs, Handles, Typed
<1>2. drain' = drain
  BY NothingToDrain DEF FlushCall
<1> DEFINE goal == Acknowledged(h, LookedAt(h))
           asked == Acknowledged(h, Len(live[h]))
           call == [at |-> IF drain[h] \/ (ending[h] = "no" /\ buffered[h] # <<>>)
                             THEN "drain" ELSE "barrier",
                    on |-> h, goal |-> goal, asked |-> asked]
<1>3. /\ flush' = [flush EXCEPT ![c] = call]
      /\ UNCHANGED <<disk, opened, st, live, buffered, chain, promised>>
  BY DEF FlushCall, Await
<1>4. call \in Flushes /\ call.on = h
  <2>1. Len(live[h]) \in Nat /\ Len(buffered[h]) = 0
    BY <1>1 DEF Inductive, Alone, Holds
  <2>2. goal \in Nat /\ asked \in Nat
    BY <2>1 DEF Acknowledged, LookedAt
  <2> HIDE DEF goal, asked
  <2> QED BY <1>1, <2>2 DEF Flushes
<1> HIDE DEF call
<1>5. /\ flush' \in [Callers -> Flushes]
      /\ \A k \in Callers : flush'[k] = flush[k] \/ flush'[k].on = h
  <2>1. flush \in [Callers -> Flushes]
    BY DEF Inductive, Typed
  <2> QED BY <1>3, <1>4, <2>1
<1>6. st' \in [Handles -> States] /\ \A k \in Handles : st'[k] = st[k]
  BY <1>3 DEF Inductive, Typed
<1> QED BY <1>1, <1>2, <1>3, <1>5, <1>6, EarlierStep

LEMMA FlushStep ==
  ASSUME Inductive, NEW c \in Callers, NEW h \in Handles, FlushCall(c, h)
  PROVE  Inductive'
  BY LastFlushStep, LateFlushStep

-----------------------------------------------------------------------------
(***************************************************************************)
(* The mutation chain.                                                     *)
(***************************************************************************)
\* What the types say of one handle.
LEMMA Typing ==
  ASSUME Typed, NEW h \in Handles
  PROVE  /\ h \in Nat /\ file \in Seq(Records) /\ salvage \in Seq(Records)
         /\ live[h] \in Seq(Records) /\ buffered[h] \in Seq(Records)
         /\ batch[h] \in Seq(Records) /\ state[h] \in Writers
         /\ state[h].recovered \in Seq(Records) /\ state[h].cursor \in Nat
         /\ stage[h] \in Stages /\ drain[h] \in BOOLEAN
<1>1. h \in Nat
  BY DEF Handles
<1>2. state[h] \in Writers
  BY DEF Typed
<1>3. state[h].recovered \in Seq(Records) /\ state[h].cursor \in Nat
  BY <1>2 DEF Writers
<1>4. /\ file \in Seq(Records) /\ salvage \in Seq(Records)
      /\ live[h] \in Seq(Records) /\ buffered[h] \in Seq(Records)
      /\ batch[h] \in Seq(Records)
  BY DEF Typed
<1>5. stage[h] \in Stages /\ drain[h] \in BOOLEAN
  BY DEF Typed
<1> QED BY <1>1, <1>2, <1>3, <1>4, <1>5

\* A step of the chain of h leaves the other handles and the session alone.
LEMMA ChainStep ==
  ASSUME Inductive, NEW h \in Handles, h = opened, Live, Live',
         UNCHANGED <<opened, live, promised>>,
         \A k \in Handles : k # h =>
           /\ st'[k] = st[k] /\ buffered'[k] = buffered[k] /\ batch'[k] = batch[k]
           /\ stage'[k] = stage[k] /\ drain'[k] = drain[k],
         state'[h].recovered \in {state[h].recovered, <<>>},
         Typed', Locked', Chained', TornKnown', Kept', Balanced'
  PROVE  Inductive'
<1>1. Alone'
  <2>1. \A k \in Handles : k # h => (Holds(k)' <=> Holds(k))
    BY DEF Holds
  <2>2. st'[h] # "unopened"
    BY DEF Live, Runs
  <2>3. h \in Nat /\ ~(h < h) /\ ~(h > h)
    BY DEF Handles
  <2> QED BY <2>1, <2>2, <2>3 DEF Inductive, Alone
<1>2. Aged'
  <2>1. \A i \in DOMAIN state'[h].recovered : state'[h].recovered[i][1] < opened
    BY DEF Inductive, Aged
  <2> QED BY <2>1 DEF Inductive, Aged
<1> QED BY <1>1, <1>2 DEF Inductive

LEMMA KeptStep ==
  ASSUME Typed, Kept, UNCHANGED <<opened, st, live, promised, flush>>,
         file' = file \/ \E b \in Seq(Records) : file' = file \o b
  PROVE  Kept'
<1>1. Len(file) \in Nat /\ Len(file') \in Nat /\ Len(file) <= Len(file')
  <2>1. file \in Seq(Records) /\ Len(file) \in Nat
    BY DEF Typed
  <2>2. ASSUME NEW b \in Seq(Records)
        PROVE  Len(file \o b) = Len(file) + Len(b) /\ Len(b) \in Nat
    BY <2>1, ConcatProperties
  <2>3. CASE file' = file
    BY <2>1, <2>3
  <2>4. CASE \E b \in Seq(Records) : file' = file \o b
    BY <2>1, <2>2, <2>4
  <2> QED BY <2>3, <2>4
<1>2. promised \in Nat /\ \A c \in Callers : flush[c].goal \in Nat
  BY DEF Typed, Flushes
<1> QED BY <1>1, <1>2 DEF Kept

LEMMA CaptureStep ==
  ASSUME Inductive, NEW h \in Handles, Capture(h)
  PROVE  Inductive'
<1> USE DEF disk
<1>1. h = opened /\ Live /\ Typed
  BY Actor DEF Inductive, Capture, Holds
<1>2. /\ stage[h] = "none" /\ drain[h] /\ batch[h] = <<>> /\ buffered[h] # <<>>
      /\ batch' = Set(batch, h, buffered[h]) /\ buffered' = Set(buffered, h, <<>>)
      /\ UNCHANGED <<disk, opened, st, live, drain, state, flush, promised>>
  BY <1>1 DEF Capture, Inductive, Chained
<1>3. PICK g \in Stages : /\ stage' = Set(stage, h, g) /\ g # "none"
                          /\ g = "refused" \/ g = NextStage(state[h])
  BY DEF Capture, NextStage, Stages
<1>4. /\ batch \in [Handles -> Seq(Records)] /\ buffered \in [Handles -> Seq(Records)]
      /\ stage \in [Handles -> Stages] /\ buffered[h] \in Seq(Records)
      /\ <<>> \in Seq(Records)
  BY <1>1, Typing DEF Typed
<1>5. /\ batch' \in [Handles -> Seq(Records)] /\ buffered' \in [Handles -> Seq(Records)]
      /\ stage' \in [Handles -> Stages]
  BY <1>2, <1>3, <1>4 DEF Set
<1>6. /\ batch'[h] = buffered[h] /\ buffered'[h] = <<>> /\ stage'[h] = g
      /\ \A k \in Handles : k # h => /\ batch'[k] = batch[k] /\ buffered'[k] = buffered[k]
                                     /\ stage'[k] = stage[k]
  BY <1>2, <1>3, <1>4 DEF Set
<1>7. Typed'
  BY <1>1, <1>2, <1>5 DEF Typed
<1>8. Locked' /\ TornKnown'
  BY <1>2 DEF Inductive, Locked, TornKnown, Live, Runs
<1>9. Chained'
  <2>1. /\ g \in {"truncate", "rewrite", "write"} => state[h].leased
        /\ g = "lease" => ~state[h].leased
        /\ g = "truncate" => state[h].tornSeen
        /\ g \in {"rewrite", "write"} => ~state[h].tornSeen
        /\ g = "write" => state[h].recovered = <<>>
    BY <1>3 DEF NextStage
  <2>2. drain'[h] /\ state' = state /\ batch'[h] # <<>> /\ opened' = h
    BY <1>1, <1>2, <1>6
  <2> QED BY <1>3, <1>6, <2>1, <2>2 DEF Chained
<1>10. Kept'
  BY <1>1, <1>2, KeptStep DEF Inductive
<1>11. Balanced'
  <2> DEFINE written == file \o state[h].recovered
  <2>1. written \in Seq(Records)
    BY <1>1, Typing, ConcatProperties
  <2>2. live[h] = (written \o <<>>) \o buffered[h] /\ state[h].cursor = Len(written)
    BY <1>1, <1>2, Actor DEF Inductive, Balanced
  <2> HIDE DEF written
  <2>3. live[h] = (written \o buffered[h]) \o <<>>
    <3>1. written \o <<>> = written
      BY <2>1, ConcatEmptySeq
    <3>2. written \o buffered[h] \in Seq(Records)
      BY <1>4, <2>1, ConcatProperties
    <3>3. (written \o buffered[h]) \o <<>> = written \o buffered[h]
      BY <3>2, ConcatEmptySeq
    <3> QED BY <2>2, <3>1, <3>3
  <2> QED BY <1>1, <1>2, <1>6, <2>2, <2>3 DEF Balanced, written
<1>12. Live'
  BY <1>1, <1>2 DEF Live, Runs
<1> QED BY <1>1, <1>2, <1>6, <1>7, <1>8, <1>9, <1>10, <1>11, <1>12, ChainStep

\* The three storage calls before the batch: each goes on to the next one.
LEMMA ProceedStep ==
  ASSUME Inductive, NEW h \in Handles, h = opened, Live, stage[h] # "none",
         NEW s \in Writers, Proceed(h, s),
         file' \in Seq(Records), salvage' \in Seq(Records), exists' = exists,
         torn' \in BOOLEAN,
         s.leased, owner' = h \/ (owner' = owner /\ state[h].leased),
         ~torn' => salvage' = <<>>, s.tornSeen = torn',
         torn' => salvage' = s.recovered,
         s.recovered \in {state[h].recovered, <<>>},
         file' = file \/ \E b \in Seq(Records) : file' = file \o b,
         file' \o s.recovered = file \o state[h].recovered, s.cursor = state[h].cursor
  PROVE  Inductive'
<1> USE DEF queue
<1>1. Typed /\ drain[h] /\ batch[h] # <<>>
      /\ state' = Set(state, h, s) /\ stage' = Set(stage, h, NextStage(s))
      /\ UNCHANGED <<opened, st, live, buffered, drain, batch, flush, promised>>
  BY DEF Inductive, Chained, Proceed
<1>2. NextStage(s) \in Stages \ {"none"}
  BY DEF NextStage, Stages
<1>3. /\ state' \in [Handles -> Writers] /\ stage' \in [Handles -> Stages]
      /\ state'[h] = s /\ stage'[h] = NextStage(s)
      /\ \A k \in Handles : k # h => stage'[k] = stage[k]
  <2>1. state \in [Handles -> Writers] /\ stage \in [Handles -> Stages]
    BY <1>1 DEF Typed
  <2> QED BY <1>1, <1>2, <2>1 DEF Set
<1>4. Typed'
  <2>1. exists' \in BOOLEAN
    BY <1>1 DEF Typed
  <2> QED BY <1>1, <1>3, <2>1 DEF Typed
<1>5. Live' /\ opened' = h
  BY <1>1 DEF Live, Runs
<1>6. Locked' /\ TornKnown'
  <2>1. Locked'
    <3>1. st[h] \in InUse /\ state[h].leased => owner = h
      BY DEF Inductive, Locked
    <3>2. st[h] \in InUse => owner' = h
      BY <3>1
    <3> QED BY <1>1, <1>3, <1>5, <3>2 DEF Inductive, Locked
  <2> QED BY <1>3, <1>5, <2>1 DEF TornKnown
<1>7. Chained'
  BY <1>1, <1>2, <1>3, <1>5 DEF Chained, NextStage
<1>8. Kept'
  BY <1>1, KeptStep DEF Inductive
<1>9. Balanced'
  <2>1. /\ live[h] = ((file \o state[h].recovered) \o batch[h]) \o buffered[h]
        /\ state[h].cursor = Len(file \o state[h].recovered)
    BY Actor DEF Inductive, Balanced
  <2>2. /\ live'[h] = ((file' \o s.recovered) \o batch'[h]) \o buffered'[h]
        /\ s.cursor = Len(file' \o s.recovered)
    BY <1>1, <2>1
  <2> QED BY <1>3, <1>5, <2>2 DEF Balanced
<1> QED BY <1>1, <1>3, <1>4, <1>5, <1>6, <1>7, <1>8, <1>9, ChainStep

LEMMA LeaseStep ==
  ASSUME Inductive, NEW h \in Handles, AcquireLease(h)
  PROVE  Inductive'
<1>1. h = opened /\ Live /\ Typed /\ stage[h] = "lease"
  BY Actor DEF Inductive, AcquireLease, Holds
<1> DEFINE s == [state[h] EXCEPT !.leased = TRUE]
<1>2. state[h] \in Writers /\ file \in Seq(Records) /\ salvage \in Seq(Records)
      /\ torn \in BOOLEAN
  BY <1>1, Typing DEF Typed
<1>3. /\ s \in Writers /\ s.leased /\ s.tornSeen = state[h].tornSeen
      /\ s.recovered = state[h].recovered /\ s.cursor = state[h].cursor
  BY <1>2 DEF Writers
<1>4. /\ Proceed(h, s) /\ owner' = h /\ UNCHANGED <<file, exists, torn, salvage>>
  BY DEF AcquireLease
<1> HIDE DEF s
<1>5. /\ ~torn => salvage = <<>>
      /\ state[h].tornSeen = torn /\ (torn => salvage = state[h].recovered)
  BY <1>1 DEF Inductive, TornKnown
<1> QED BY <1>1, <1>2, <1>3, <1>4, <1>5, ProceedStep

LEMMA TruncateStep ==
  ASSUME Inductive, NEW h \in Handles, Truncate(h)
  PROVE  Inductive'
<1>1. h = opened /\ Live /\ Typed /\ stage[h] = "truncate"
  BY Actor DEF Inductive, Truncate, Holds
<1> DEFINE s == [state[h] EXCEPT !.tornSeen = FALSE]
<1>2. state[h] \in Writers /\ file \in Seq(Records) /\ <<>> \in Seq(Records)
  BY <1>1, Typing
<1>3. /\ s \in Writers /\ s.leased = state[h].leased /\ s.tornSeen = FALSE
      /\ s.recovered = state[h].recovered /\ s.cursor = state[h].cursor
  BY <1>2 DEF Writers
<1>4. /\ Proceed(h, s) /\ torn' = FALSE /\ salvage' = <<>>
      /\ UNCHANGED <<file, exists, owner>>
  BY DEF Truncate
<1> HIDE DEF s
<1>5. state[h].leased
  BY <1>1 DEF Inductive, Chained
<1> QED BY <1>1, <1>2, <1>3, <1>4, <1>5, ProceedStep

LEMMA RewriteStep ==
  ASSUME Inductive, NEW h \in Handles, Rewrite(h)
  PROVE  Inductive'
<1>1. h = opened /\ Live /\ Typed /\ stage[h] = "rewrite"
  BY Actor DEF Inductive, Rewrite, Holds
<1> DEFINE s == [state[h] EXCEPT !.recovered = <<>>]
<1>2. /\ state[h] \in Writers /\ file \in Seq(Records) /\ <<>> \in Seq(Records)
      /\ state[h].recovered \in Seq(Records) /\ torn \in BOOLEAN
  BY <1>1, Typing DEF Typed
<1>3. /\ s \in Writers /\ s.leased = state[h].leased /\ s.tornSeen = state[h].tornSeen
      /\ s.recovered = <<>> /\ s.cursor = state[h].cursor
  BY <1>2 DEF Writers
<1>4. /\ Proceed(h, s) /\ file' = file \o state[h].recovered
      /\ UNCHANGED <<exists, torn, salvage, owner>>
  BY DEF Rewrite
<1> HIDE DEF s
<1>5. state[h].leased
  BY <1>1 DEF Inductive, Chained
<1>6. ~torn /\ salvage = <<>> /\ state[h].tornSeen = torn
  BY <1>1 DEF Inductive, TornKnown, Chained
<1>7. file' \in Seq(Records) /\ file' \o <<>> = file'
  <2>1. file \o state[h].recovered \in Seq(Records)
    BY <1>2, ConcatProperties
  <2> QED BY <1>4, <2>1, ConcatEmptySeq
<1>8. /\ file' = file \/ \E b \in Seq(Records) : file' = file \o b
      /\ file' \o s.recovered = file \o state[h].recovered
      /\ s.recovered \in {state[h].recovered, <<>>}
  BY <1>2, <1>3, <1>4, <1>7
<1>9. /\ owner' = owner /\ s.leased
      /\ stage[h] # "none"
  BY <1>1, <1>3, <1>4, <1>5
<1>10. /\ torn' \in BOOLEAN /\ salvage' \in Seq(Records)
       /\ ~torn' => salvage' = <<>>
       /\ s.tornSeen = torn'
       /\ torn' => salvage' = s.recovered
  BY <1>2, <1>3, <1>4, <1>6
<1> QED BY <1>1, <1>3, <1>4, <1>7, <1>8, <1>9, <1>10, ProceedStep

\* The callers that joined a drain go on to the barrier, or are told.
LEMMA JoinedKeeps ==
  ASSUME Typed, NEW h \in Handles, NEW at \in {"idle", "barrier"}, Joined(h, at)
  PROVE  /\ flush' \in [Callers -> Flushes]
         /\ \A c \in Callers :
              \/ flush'[c] = flush[c] /\ (flush[c].at = "drain" => flush[c].on # h)
              \/ flush'[c].at = "idle"
              \/ /\ flush[c].at = "drain" /\ flush[c].on = h /\ at = "barrier"
                 /\ flush'[c].at = "barrier"
                 /\ flush'[c].on = h /\ flush'[c].goal = flush[c].goal
<1>1. flush \in [Callers -> Flushes]
  BY DEF Typed
<1>2. Idle \in Flushes /\ Idle.at = "idle"
  BY DEF Idle, Flushes
<1>3. ASSUME NEW c \in Callers
      PROVE  /\ [flush[c] EXCEPT !.at = at] \in Flushes
             /\ [flush[c] EXCEPT !.at = at].at = at
             /\ [flush[c] EXCEPT !.at = at].on = flush[c].on
             /\ [flush[c] EXCEPT !.at = at].goal = flush[c].goal
  BY <1>1 DEF Flushes
<1>4. flush' = [c \in Callers |-> IF flush[c].on # h \/ flush[c].at # "drain" THEN flush[c]
                                  ELSE IF at = "idle" THEN Idle
                                  ELSE [flush[c] EXCEPT !.at = at]]
  BY DEF Joined
<1>5. flush' \in [Callers -> Flushes]
  BY <1>1, <1>2, <1>3, <1>4
<1> QED BY <1>2, <1>3, <1>4, <1>5

\* The batch is stored, and the drain goes on while events came in meanwhile.
LEMMA WriteStep ==
  ASSUME Inductive, NEW h \in Handles, Write(h)
  PROVE  Inductive'
<1>1. h = opened /\ Live /\ Typed /\ stage[h] = "write"
  BY Actor DEF Inductive, Write, Holds
<1>2. /\ file \in Seq(Records) /\ batch[h] \in Seq(Records) /\ buffered[h] \in Seq(Records)
      /\ state[h] \in Writers /\ state[h].cursor \in Nat /\ <<>> \in Seq(Records)
  BY <1>1, Typing
<1>3. state[h].leased /\ ~state[h].tornSeen /\ state[h].recovered = <<>>
  BY <1>1 DEF Inductive, Chained
<1>4. /\ file' = file \o batch[h] /\ exists' = TRUE
      /\ state' = [state EXCEPT ![h].cursor = state[h].cursor + Len(batch[h]),
                                ![h].materialized = TRUE]
      /\ stage' = Set(stage, h, "none") /\ batch' = Set(batch, h, <<>>)
      /\ UNCHANGED <<torn, salvage, owner, opened, st, live, buffered, promised>>
  BY DEF Write
<1>5. /\ file' \in Seq(Records) /\ Len(file') = Len(file) + Len(batch[h])
      /\ Len(file) \in Nat /\ Len(batch[h]) \in Nat
  BY <1>2, <1>4, ConcatProperties
<1>6. /\ stage' \in [Handles -> Stages] /\ batch' \in [Handles -> Seq(Records)]
      /\ stage'[h] = "none" /\ batch'[h] = <<>>
      /\ \A k \in Handles : k # h => stage'[k] = stage[k] /\ batch'[k] = batch[k]
  <2>1. stage \in [Handles -> Stages] /\ batch \in [Handles -> Seq(Records)]
    BY <1>1 DEF Typed
  <2> QED BY <1>2, <1>4, <2>1 DEF Set, Stages
<1>7. /\ state' \in [Handles -> Writers]
      /\ state'[h].cursor = state[h].cursor + Len(batch[h])
      /\ state'[h].leased = state[h].leased /\ state'[h].tornSeen = state[h].tornSeen
      /\ state'[h].recovered = state[h].recovered
  <2> DEFINE w == [state[h] EXCEPT !.cursor = state[h].cursor + Len(batch[h]),
                                   !.materialized = TRUE]
  <2>1. state \in [Handles -> Writers]
    BY <1>1 DEF Typed
  <2>2. state[h].cursor + Len(batch[h]) \in Nat
    BY <1>2, <1>5
  <2>3. /\ w \in Writers /\ w.cursor = state[h].cursor + Len(batch[h])
        /\ w.leased = state[h].leased /\ w.tornSeen = state[h].tornSeen
        /\ w.recovered = state[h].recovered
    BY <1>2, <2>2 DEF Writers
  <2>4. state' = [state EXCEPT ![h] = w]
    BY <1>2, <1>4, <2>1 DEF Writers
  <2> HIDE DEF w
  <2> QED BY <2>1, <2>3, <2>4
<1>8. /\ drain' \in [Handles -> BOOLEAN]
      /\ \A k \in Handles : k # h => drain'[k] = drain[k]
      /\ drain'[h] => buffered[h] # <<>>
      /\ flush' \in [Callers -> Flushes]
  <2>1. drain \in [Handles -> BOOLEAN] /\ flush \in [Callers -> Flushes]
    BY <1>1 DEF Typed, Flushes
  <2>2. CASE buffered[h] = <<>>
    <3>1. drain' = Set(drain, h, FALSE) /\ Joined(h, "barrier")
      BY <2>2 DEF Write
    <3> QED BY <1>1, <2>1, <3>1, JoinedKeeps DEF Set
  <2>3. CASE buffered[h] # <<>>
    BY <2>1, <2>3 DEF Write
  <2> QED BY <2>2, <2>3
<1>9. Typed'
  BY <1>1, <1>4, <1>5, <1>6, <1>7, <1>8 DEF Typed, Flushes
<1>10. Live' /\ opened' = h
  BY <1>1, <1>4 DEF Live, Runs
<1>11. Locked' /\ TornKnown' /\ Chained'
  <2>1. /\ st[h] \in InUse => owner = h
        /\ owner = NoOwner \/ owner = h
        /\ state[h].tornSeen = torn /\ (torn => salvage = state[h].recovered)
        /\ ~torn => salvage = <<>>
    BY <1>1, <1>3 DEF Inductive, Locked, TornKnown
  <2>2. Locked'
    BY <1>1, <1>3, <1>4, <1>7, <1>10, <2>1 DEF Locked
  <2>3. TornKnown'
    BY <1>3, <1>4, <1>7, <1>10, <2>1 DEF TornKnown
  <2>4. Chained'
    BY <1>3, <1>4, <1>6, <1>7, <1>8, <1>10 DEF Chained
  <2> QED BY <2>2, <2>3, <2>4
<1>12. /\ live[h] = (file \o batch[h]) \o buffered[h]
       /\ state[h].cursor = Len(file)
  <2>1. /\ live[h] = ((file \o <<>>) \o batch[h]) \o buffered[h]
        /\ state[h].cursor = Len(file \o <<>>)
    BY <1>1, <1>3, Actor DEF Inductive, Balanced
  <2>2. file \o <<>> = file
    BY <1>2, ConcatEmptySeq
  <2> QED BY <2>1, <2>2
<1>13. Balanced'
  <2>1. file' \o <<>> = file' /\ (file' \o <<>>) \o <<>> = file'
    BY <1>5, ConcatEmptySeq
  <2>2. live[h] = ((file' \o <<>>) \o <<>>) \o buffered[h]
    BY <1>4, <1>12, <2>1
  <2>3. state'[h].cursor = Len(file' \o <<>>)
    BY <1>5, <1>7, <1>12, <2>1
  <2>4. /\ live'[h] = live[h] /\ buffered'[h] = buffered[h] /\ batch'[h] = <<>>
        /\ state'[h].recovered = <<>>
    BY <1>3, <1>4, <1>6, <1>7
  <2> QED BY <1>10, <2>2, <2>3, <2>4 DEF Balanced
<1>14. Kept'
  <2>1. promised' <= Len(file')
    BY <1>1, <1>4, <1>5 DEF Inductive, Kept, Typed
  <2>2. ASSUME NEW c \in Callers, flush'[c].at # "idle"
        PROVE  /\ flush'[c].on \in 1 .. opened
               /\ st[flush'[c].on] = "open" =>
                    /\ flush'[c].goal <= Len(live[h])
                    /\ flush'[c].at = "barrier" => flush'[c].goal <= Len(file')
    <3>1. flush[c].goal \in Nat /\ h \in 1 .. opened
      BY <1>1 DEF Typed, Flushes, Handles
    <3>2. CASE flush'[c] = flush[c]
      BY <1>1, <1>5, <2>2, <3>1, <3>2 DEF Inductive, Kept
    <3>3. CASE flush'[c] # flush[c]
      <4>1. buffered[h] = <<>> /\ Joined(h, "barrier")
        BY <3>3 DEF Write
      <4>2. /\ flush[c].at = "drain" /\ flush[c].on = h
            /\ flush'[c].on = h /\ flush'[c].goal = flush[c].goal
        BY <1>1, <2>2, <3>3, <4>1, JoinedKeeps
      <4>3. live[h] = file'
        BY <1>4, <1>5, <1>12, <4>1, ConcatEmptySeq
      <4>4. st[h] = "open" => flush[c].goal <= Len(live[h])
        BY <1>1, <4>2 DEF Inductive, Kept
      <4> QED BY <3>1, <4>2, <4>3, <4>4
    <3> QED BY <3>2, <3>3
  <2> QED BY <1>1, <1>4, <1>10, <2>1, <2>2 DEF Kept
<1> QED BY <1>1, <1>4, <1>6, <1>7, <1>8, <1>9, <1>10, <1>11, <1>13, <1>14, ChainStep

\* A storage call rejects: the batch goes back in front of the buffer.
LEMMA FailureStep ==
  ASSUME Inductive, NEW h \in Handles, MutationFails(h)
  PROVE  Inductive'
<1> USE DEF disk
<1>1. h = opened /\ Live /\ Typed
  BY Actor DEF Inductive, MutationFails, Holds
<1>2. /\ file \in Seq(Records) /\ batch[h] \in Seq(Records) /\ buffered[h] \in Seq(Records)
      /\ state[h].recovered \in Seq(Records) /\ <<>> \in Seq(Records)
  BY <1>1, Typing
<1>3. /\ buffered' = Set(buffered, h, batch[h] \o buffered[h])
      /\ batch' = Set(batch, h, <<>>) /\ stage' = Set(stage, h, "none")
      /\ drain' = Set(drain, h, FALSE) /\ Joined(h, "idle")
      /\ st' = Set(st, h, IF st[h] = "draining" THEN "settling" ELSE st[h])
      /\ UNCHANGED <<disk, opened, live, state, promised>>
  BY DEF MutationFails
<1>4. /\ st' \in [Handles -> States]
      /\ st'[h] = IF st[h] = "draining" THEN "settling" ELSE st[h]
      /\ \A k \in Handles : k # h => st'[k] = st[k]
  <2>1. st \in [Handles -> States]
    BY <1>1 DEF Typed
  <2> QED BY <1>3, <2>1 DEF Set, States
<1>5. batch[h] \o buffered[h] \in Seq(Records)
  BY <1>2, ConcatProperties
<1>6. /\ stage' \in [Handles -> Stages] /\ batch' \in [Handles -> Seq(Records)]
      /\ buffered' \in [Handles -> Seq(Records)] /\ drain' \in [Handles -> BOOLEAN]
      /\ stage'[h] = "none" /\ batch'[h] = <<>> /\ buffered'[h] = batch[h] \o buffered[h]
      /\ \A k \in Handles : k # h => /\ stage'[k] = stage[k] /\ batch'[k] = batch[k]
                                     /\ buffered'[k] = buffered[k] /\ drain'[k] = drain[k]
  <2>1. /\ stage \in [Handles -> Stages] /\ batch \in [Handles -> Seq(Records)]
        /\ buffered \in [Handles -> Seq(Records)] /\ drain \in [Handles -> BOOLEAN]
    BY <1>1 DEF Typed
  <2> QED BY <1>2, <1>3, <1>5, <2>1 DEF Set, Stages
<1>7. /\ flush' \in [Callers -> Flushes]
      /\ \A c \in Callers : flush'[c] = flush[c] \/ flush'[c].at = "idle"
  BY <1>1, <1>3, JoinedKeeps
<1>8. Typed'
  BY <1>1, <1>3, <1>4, <1>6, <1>7 DEF Typed, Flushes
<1>9. Live' /\ opened' = h
  BY <1>1, <1>3, <1>4 DEF Live, Runs
<1>10. Locked' /\ TornKnown' /\ Chained'
  <2>1. st'[h] \in InUse => st[h] \in InUse
    BY <1>4 DEF InUse
  <2>2. Locked'
    BY <1>1, <1>3, <1>9, <2>1 DEF Inductive, Locked
  <2>3. TornKnown'
    BY <1>1, <1>3, <1>9 DEF Inductive, TornKnown
  <2>4. drain'[h] = FALSE
    BY <1>1, <1>3 DEF Set, Typed
  <2>5. batch[h] # <<>> => buffered'[h] # <<>>
    BY <1>2, <1>6, EmptySeq, ConcatProperties
  <2>6. stage[h] # "none" => batch[h] # <<>>
    BY <1>1 DEF Inductive, Chained
  <2>7. stage[h] # "none"
    BY DEF MutationFails
  <2>8. Chained'
    BY <1>3, <1>6, <1>9, <2>4, <2>5, <2>6, <2>7 DEF Chained
  <2> QED BY <2>2, <2>3, <2>8
<1>11. Kept'
  <2>1. \A k \in Handles : st'[k] = "open" => st[k] = "open"
    BY <1>4
  <2>2. \A n \in 1 .. opened : n \in Handles
    BY <1>1, HandleAssumption DEF HandleAssumption, Handles
  <2> QED BY <1>3, <1>7, <2>1, <2>2 DEF Inductive, Kept
<1>12. Balanced'
  <2> DEFINE written == file \o state[h].recovered
  <2>1. written \in Seq(Records) /\ written \o <<>> = written
    <3>1. written \in Seq(Records)
      BY <1>2, ConcatProperties
    <3> QED BY <3>1, ConcatEmptySeq
  <2>2. live[h] = (written \o batch[h]) \o buffered[h] /\ state[h].cursor = Len(written)
    BY <1>1, Actor DEF Inductive, Balanced
  <2> HIDE DEF written
  <2>3. (written \o batch[h]) \o buffered[h] = written \o (batch[h] \o buffered[h])
    BY <1>2, <2>1, Associate
  <2>4. live[h] = (written \o <<>>) \o (batch[h] \o buffered[h])
    BY <2>1, <2>2, <2>3
  <2> QED BY <1>3, <1>6, <1>9, <2>2, <2>4 DEF Balanced, written
<1> QED BY <1>1, <1>3, <1>4, <1>6, <1>8, <1>9, <1>10, <1>11, <1>12, ChainStep

-----------------------------------------------------------------------------
(***************************************************************************)
(* Barriers, opens and deaths.                                             *)
(***************************************************************************)
\* What a handle that lives has, on disk and off, is its session's log.
LEMMA InOneList ==
  ASSUME Inductive, Live
  PROVE  live[opened]
           = file \o (state[opened].recovered \o (batch[opened] \o buffered[opened]))
<1> DEFINE h == opened
<1>1. h \in Handles /\ Typed
  BY DEF Inductive, Typed
<1> DEFINE r == state[h].recovered
           b == batch[h]
           u == buffered[h]
<1>2. /\ file \in Seq(Records)
      /\ r \in Seq(Records) /\ b \in Seq(Records) /\ u \in Seq(Records)
  BY <1>1, Typing
<1>3. live[h] = ((file \o r) \o b) \o u
  BY DEF Inductive, Balanced
<1> HIDE DEF r, b, u, h
<1>4. b \o u \in Seq(Records)
  BY <1>2, ConcatProperties
<1>5. r \in Seq(Records) /\ file \in Seq(Records)
  BY <1>2
<1>6. b \in Seq(Records) /\ u \in Seq(Records)
  BY <1>2
<1>7. file \o r \in Seq(Records)
  BY <1>5, ConcatProperties
<1>8. ((file \o r) \o b) \o u = (file \o r) \o (b \o u)
  BY <1>6, <1>7, Associate, Zenon
<1>9. (file \o r) \o (b \o u) = file \o (r \o (b \o u))
  BY <1>4, <1>5, Associate, Zenon
<1> QED BY <1>3, <1>8, <1>9 DEF r, b, u, h

\* What the disk holds, live or after a death, is a prefix of the session's log.
LEMMA StoredPrefix ==
  ASSUME Inductive, Live
  PROVE  \E u \in Seq(Records) : live[opened] = Stored \o u
<1> DEFINE h == opened
<1>1. h \in Handles /\ Typed
  BY DEF Inductive, Typed
<1> DEFINE r == state[h].recovered
           b == batch[h]
           u == buffered[h]
           v == b \o u
<1>2. /\ file \in Seq(Records) /\ r \in Seq(Records)
      /\ b \in Seq(Records) /\ u \in Seq(Records)
  BY <1>1, Typing
<1>3. live[h] = file \o (r \o v)
  BY InOneList
<1>4. /\ ~torn => salvage = <<>>
      /\ torn => salvage = r
  BY DEF Inductive, TornKnown
<1>5. v \in Seq(Records)
  BY <1>2, ConcatProperties
<1> HIDE DEF r, b, u, v, h
<1>6. r \o v \in Seq(Records)
  BY <1>2, <1>5, ConcatProperties
<1>7. CASE torn
  <2>1. r \in Seq(Records) /\ file \in Seq(Records)
    BY <1>2
  <2>2. (file \o r) \o v = file \o (r \o v)
    BY <1>5, <2>1, Associate, Zenon
  <2>3. live[h] = Stored \o v
    BY <1>3, <1>4, <1>7, <2>2 DEF Stored
  <2> QED BY <1>5, <2>3 DEF h
<1>8. CASE ~torn
  <2>1. file \o <<>> = file
    BY <1>2, ConcatEmptySeq
  <2>2. live[h] = Stored \o (r \o v)
    BY <1>3, <1>4, <1>8, <2>1 DEF Stored
  <2> QED BY <1>6, <2>2 DEF h
<1> QED BY <1>7, <1>8

\* A barrier promises what is in complete records, or first writes a header.
LEMMA BarrierStep ==
  ASSUME Inductive, NEW c \in Callers, Barrier(c), st[flush[c].on] = "open"
  PROVE  Inductive'
<1> DEFINE h == flush[c].on
<1> USE DEF queue
<1>1. /\ h = opened /\ Live /\ flush[c].goal <= Len(file) /\ Typed
      /\ stage[h] = "none" /\ h \in Handles
  <2>1. h \in 1 .. opened /\ flush[c].goal <= Len(file) /\ Typed /\ stage[h] = "none"
    BY DEF Inductive, Kept, Barrier
  <2>2. opened \in Handles
    BY <2>1 DEF Typed
  <2>3. h \in Handles
    BY <2>1, <2>2, HandleAssumption DEF HandleAssumption, Handles
  <2> HIDE DEF h
  <2>4. st[h] \in InUse
    BY DEF h, InUse
  <2>5. h = opened /\ Live
    BY <2>3, <2>4, Actor DEF Inductive
  <2> QED BY <2>1, <2>3, <2>5
<1> HIDE DEF h
<1>2. PICK i \in Handles : i = h /\ i = flush[c].on
  BY <1>1 DEF h
<1>3. /\ UNCHANGED <<file, torn, salvage, opened, st, live, queue, stage, batch>>
      /\ flush' = [flush EXCEPT ![c] = Idle]
      /\ promised' \in {promised, flush[c].goal}
      /\ \/ UNCHANGED <<owner, exists, state>>
         \/ /\ owner' = i /\ exists' \in {TRUE, exists}
            /\ \/ state' = [state EXCEPT ![i].leased = TRUE, ![i].materialized = TRUE]
               \/ state' = [state EXCEPT ![i].leased = TRUE]
  BY <1>2 DEF Barrier
<1>4. /\ flush' \in [Callers -> Flushes]
      /\ \A k \in Callers : flush'[k] = flush[k] \/ flush'[k].at = "idle"
  <2>1. flush \in [Callers -> Flushes] /\ Idle \in Flushes /\ Idle.at = "idle"
    BY <1>1 DEF Typed, Flushes, Idle
  <2> QED BY <1>3, <2>1
<1>5. promised' \in Nat /\ promised' <= Len(file)
  <2>1. promised \in Nat /\ flush[c].goal \in Nat /\ promised <= Len(file)
    BY <1>1 DEF Inductive, Typed, Flushes, Kept
  <2> QED BY <1>1, <1>3, <2>1
<1>6. Live' /\ opened' = i /\ i = opened
  BY <1>1, <1>2, <1>3 DEF Live, Runs
<1>7. /\ state' \in [Handles -> Writers]
      /\ state'[i].cursor = state[i].cursor /\ state'[i].recovered = state[i].recovered
      /\ state'[i].tornSeen = state[i].tornSeen
  <2>1. state \in [Handles -> Writers]
    BY <1>1 DEF Typed
  <2>2. CASE UNCHANGED state
    BY <2>1, <2>2
  <2>3. CASE state' = [state EXCEPT ![i].leased = TRUE, ![i].materialized = TRUE]
    BY <2>1, <2>3 DEF Writers
  <2>4. CASE state' = [state EXCEPT ![i].leased = TRUE]
    BY <2>1, <2>4 DEF Writers
  <2> QED BY <1>3, <2>2, <2>3, <2>4
<1>8. Typed'
  <2>1. exists' \in BOOLEAN
    BY <1>1, <1>3 DEF Typed
  <2> QED BY <1>1, <1>3, <1>4, <1>5, <1>7, <2>1 DEF Typed, Flushes
<1>9. Alone'
  <2>1. \A k \in Handles : Holds(k)' <=> Holds(k)
    BY <1>3 DEF Holds
  <2> QED BY <1>3, <1>6, <2>1 DEF Inductive, Alone, Live, Runs
<1>10. Locked'
  <2>1. CASE UNCHANGED <<owner, exists, state>>
    BY <1>3, <2>1 DEF Inductive, Locked, Live, Runs
  <2>2. CASE owner' = i /\ state'[i].leased
    BY <1>6, <2>2 DEF Locked
  <2>3. state \in [Handles -> Writers]
    BY <1>1 DEF Typed
  <2> QED BY <1>3, <2>1, <2>2, <2>3 DEF Writers
<1>11. Chained'
  BY <1>1, <1>2, <1>3, <1>6, <1>7 DEF Inductive, Chained
<1>12. TornKnown'
  BY <1>3, <1>6, <1>7 DEF Inductive, TornKnown, Live, Runs
<1>13. Aged'
  <2>1. /\ \A k \in DOMAIN live[i] : live[i][k][1] <= opened
        /\ \A k \in DOMAIN state[i].recovered : state[i].recovered[k][1] < opened
    BY <1>1, <1>2 DEF Inductive, Aged
  <2> QED BY <1>3, <1>6, <1>7, <2>1 DEF Aged
<1>14. Kept'
  BY <1>3, <1>4, <1>5 DEF Inductive, Kept
<1>15. Balanced'
  <2>1. /\ live[i] = ((file \o state[i].recovered) \o batch[i]) \o buffered[i]
        /\ state[i].cursor = Len(file \o state[i].recovered)
    BY <1>1, <1>2, Actor DEF Inductive, Balanced
  <2>2. /\ live'[i] = ((file' \o state'[i].recovered) \o batch'[i]) \o buffered'[i]
        /\ state'[i].cursor = Len(file' \o state'[i].recovered)
    BY <1>3, <1>7, <2>1
  <2> QED BY <1>6, <2>2 DEF Balanced
<1> QED BY <1>8, <1>9, <1>10, <1>11, <1>12, <1>13, <1>14, <1>15 DEF Inductive

\* A barrier that is refused, or that fails before it took the lock.
LEMMA RefusedStep ==
  ASSUME Inductive, NEW c \in Callers, Barrier(c), st[flush[c].on] # "open"
  PROVE  /\ Inductive'
         /\ UNCHANGED <<disk, opened, st, live, queue, chain, promised>>
<1> USE DEF disk, queue, chain
<1>1. /\ UNCHANGED <<disk, opened, st, live, queue, chain, promised>>
      /\ flush' = [flush EXCEPT ![c] = Idle]
  BY DEF Barrier
<1>2. /\ flush' \in [Callers -> Flushes]
      /\ \A k \in Callers : flush'[k] = flush[k] \/ flush'[k].at = "idle"
  <2>1. flush \in [Callers -> Flushes] /\ Idle \in Flushes /\ Idle.at = "idle"
    BY DEF Inductive, Typed, Flushes, Idle
  <2> QED BY <1>1, <2>1
<1>3. Typed' /\ Kept'
  BY <1>1, <1>2 DEF Inductive, Typed, Kept
<1>4. Alone'
  <2>1. \A k \in Handles : Holds(k)' <=> Holds(k)
    BY <1>1 DEF Holds
  <2> QED BY <1>1, <2>1 DEF Inductive, Alone, Live, Runs
<1>5. Locked' /\ Chained' /\ TornKnown'
  BY <1>1 DEF Inductive, Locked, Chained, TornKnown, Live, Runs
<1>6. Aged' /\ Balanced'
  BY <1>1 DEF Inductive, Aged, Balanced, Live, Runs, Stored
<1> QED BY <1>1, <1>3, <1>4, <1>5, <1>6 DEF Inductive

\* The next handle reads what its predecessor has left.
LEMMA OpenStep ==
  ASSUME Inductive, CleanSuccession', Open
  PROVE  /\ Inductive' /\ Routed(opened)' /\ live'[opened'] = Stored
         /\ promised' = promised
<1> DEFINE next == opened + 1
           w    == Fresh(Len(Stored), torn, salvage, TRUE)
<1> USE DEF queue
<1>1. Typed /\ next \in Handles /\ exists /\ owner = NoOwner
      /\ opened \in Handles /\ opened \in Nat /\ opened # NoOwner
  BY DEF Inductive, Open, Typed, Handles, NoOwner
<1>2. st[opened] \in {"dead", "releasing", "closed"}
  BY <1>1 DEF Inductive, Typed, States, Locked, Alone, InUse, Live, Runs
<1>3. PICK h \in Handles : h = next /\ h # opened
  BY <1>1
<1>4. /\ opened' = h /\ owner' = h
      /\ st' = Set(st, h, "open") /\ live' = Set(live, h, Stored) /\ state' = Set(state, h, w)
      /\ UNCHANGED <<file, exists, torn, salvage, queue, stage, batch, flush, promised>>
  BY <1>3 DEF Open
<1>5. /\ file \in Seq(Records) /\ salvage \in Seq(Records) /\ torn \in BOOLEAN
      /\ Stored \in Seq(Records) /\ Len(Stored) \in Nat
  <2>1. file \in Seq(Records) /\ salvage \in Seq(Records) /\ torn \in BOOLEAN
    BY <1>1 DEF Typed
  <2>2. Stored \in Seq(Records)
    BY <2>1, ConcatProperties DEF Stored
  <2> QED BY <2>1, <2>2
<1>6. /\ w \in Writers /\ w.leased /\ w.recovered = salvage /\ w.tornSeen = torn
      /\ w.cursor = Len(Stored)
  BY <1>5 DEF Fresh, Writers
<1> HIDE DEF w
<1>7. /\ st' \in [Handles -> States] /\ live' \in [Handles -> Seq(Records)]
      /\ state' \in [Handles -> Writers]
      /\ st'[h] = "open" /\ live'[h] = Stored /\ state'[h] = w
      /\ \A k \in Handles : k # h => st'[k] = st[k]
  <2>1. /\ st \in [Handles -> States] /\ live \in [Handles -> Seq(Records)]
        /\ state \in [Handles -> Writers]
    BY <1>1 DEF Typed
  <2> QED BY <1>4, <1>5, <1>6, <2>1 DEF Set, States
<1>8. Live' /\ Routed(opened)'
  BY <1>4, <1>7 DEF Live, Runs, Routed
<1>9. Typed'
  BY <1>1, <1>4, <1>7 DEF Typed
<1>10. \A k \in Handles : ~Holds(k) /\ ~Holds(k)'
  <2>1. \A k \in Handles : Holds(k)' <=> Holds(k)
    BY <1>4 DEF Holds
  <2>2. ~Live => ~Holds(opened)
    BY <1>1 DEF Inductive, Alone
  <2>3. ASSUME Live PROVE ~Holds(opened)
    <3>1. st[opened] \in {"releasing", "closed"}
      BY <1>2, <2>3 DEF Live, Runs
    <3>2. opened < opened'
      BY <1>1, <1>3, <1>4
    <3>3. buffered'[opened] = <<>> /\ ~drain'[opened]
      BY <1>1, <1>3, <1>7, <3>1, <3>2 DEF CleanSuccession, LeavesNothing
    <3>4. buffered[opened] = <<>> /\ ~drain[opened]
      BY <1>4, <3>3
    <3> QED BY <2>3, <3>4 DEF Inductive, Chained, Holds
  <2>4. \A k \in Handles : k # opened => ~Holds(k)
    BY DEF Inductive, Alone
  <2> QED BY <2>1, <2>2, <2>3, <2>4
<1>11. Alone'
  <2>1. ASSUME NEW k \in Handles
        PROVE  /\ k < h => st'[k] \in {"dead", "releasing", "closed"}
               /\ k > h => st'[k] = "unopened"
    <3>1. k \in Nat
      BY DEF Handles
    <3>2. CASE k < h
      <4>1. k # h /\ (k < opened \/ k = opened)
        BY <1>1, <1>3, <3>1, <3>2
      <4>2. st'[k] = st[k]
        BY <1>7, <4>1
      <4>3. st[k] \in {"dead", "releasing", "closed"}
        BY <1>2, <4>1 DEF Inductive, Alone
      <4>4. ~(k > h)
        BY <1>1, <1>3, <3>1, <3>2
      <4> QED BY <4>2, <4>3, <4>4
    <3>3. CASE k > h
      <4>1. k # h /\ k > opened /\ ~(k < h)
        BY <1>1, <1>3, <3>1, <3>3
      <4> QED BY <1>7, <4>1 DEF Inductive, Alone
    <3> QED BY <3>2, <3>3
  <2> QED BY <1>4, <1>7, <1>10, <2>1 DEF Alone
<1>12. Locked' /\ Chained' /\ TornKnown'
  <2>1. ~torn => salvage = <<>>
    BY DEF Inductive, TornKnown
  <2>2. /\ buffered'[h] = <<>> /\ batch'[h] = <<>> /\ stage'[h] = "none" /\ ~drain'[h]
    BY <1>10 DEF Holds
  <2>3. Locked'
    BY <1>4, <1>6, <1>7, <1>8 DEF Locked
  <2>4. Chained'
    BY <1>4, <1>6, <1>7, <2>1, <2>2 DEF Chained
  <2>5. TornKnown'
    BY <1>4, <1>6, <1>7, <2>1 DEF TornKnown
  <2> QED BY <2>3, <2>4, <2>5
<1>13. Aged'
  <2>1. \A i \in DOMAIN Stored : Stored[i][1] <= opened
    <3>1. CASE ~Live
      BY <3>1 DEF Inductive, Aged
    <3>2. CASE Live
      <4>1. PICK u \in Seq(Records) : live[opened] = Stored \o u
        BY <3>2, StoredPrefix
      <4>2. \A i \in DOMAIN live[opened] : live[opened][i][1] <= opened
        BY <3>2 DEF Inductive, Aged
      <4> DEFINE l == Stored
      <4>3. l \in Seq(Records)
        BY <1>5
      <4> HIDE DEF l
      <4>4. \A i \in DOMAIN l : i \in DOMAIN (l \o u) /\ (l \o u)[i] = l[i]
        BY <4>3
      <4> QED BY <4>1, <4>2, <4>4 DEF l
    <3> QED BY <3>1, <3>2
  <2>2. \A i \in DOMAIN Stored : Stored[i] \in Records
    BY <1>5
  <2>3. \A i \in DOMAIN Stored : Stored[i][1] \in Nat
    BY <2>2 DEF Records, Handles
  <2>4. \A i \in DOMAIN Stored : Stored[i][1] <= h /\ Stored[i][1] < h
    BY <1>1, <1>3, <2>1, <2>3
  <2>5. \A i \in DOMAIN salvage :
          Len(file) + i \in DOMAIN Stored /\ Stored[Len(file) + i] = salvage[i]
    <3> SUFFICES ASSUME NEW i \in DOMAIN salvage
                 PROVE  Len(file) + i \in DOMAIN Stored /\ Stored[Len(file) + i] = salvage[i]
      OBVIOUS
    <3>1. /\ Len(file) \in Nat /\ Len(salvage) \in Nat /\ i \in 1 .. Len(salvage)
          /\ DOMAIN Stored = 1 .. Len(Stored)
      BY <1>5
    <3>2. Len(Stored) = Len(file) + Len(salvage)
      BY <1>5, ConcatProperties DEF Stored
    <3>3. /\ Len(file) + i \in 1 .. Len(file) + Len(salvage)
          /\ ~(Len(file) + i <= Len(file)) /\ (Len(file) + i) - Len(file) = i
      BY <3>1
    <3>4. Stored[Len(file) + i] = salvage[i]
      BY <1>5, <3>3, ConcatProperties DEF Stored
    <3> QED BY <3>1, <3>2, <3>3, <3>4
  <2>6. \A i \in DOMAIN salvage : salvage[i][1] < h
    BY <2>4, <2>5
  <2> QED BY <1>4, <1>6, <1>7, <1>8, <2>4, <2>6 DEF Aged
<1>14. Kept'
  <2>1. ASSUME NEW d \in Callers, flush[d].at # "idle"
        PROVE  flush[d].on \in 1 .. opened' /\ st'[flush[d].on] # "open"
    <3>1. flush[d].on \in 1 .. opened
      BY <2>1 DEF Inductive, Kept
    <3>2. flush[d].on \in Handles /\ flush[d].on # h /\ flush[d].on \in 1 .. opened'
      BY <1>1, <1>3, <1>4, <3>1, HandleAssumption DEF HandleAssumption, Handles
    <3>3. st[flush[d].on] # "open"
      BY <1>2, <3>1, <3>2, Actor DEF Inductive, InUse
    <3> QED BY <1>7, <3>2, <3>3
  <2> QED BY <1>4, <2>1 DEF Inductive, Kept
<1>15. Balanced'
  <2>1. Stored \o <<>> = Stored
    BY <1>5, ConcatEmptySeq
  <2>2. Stored = file \o salvage
    BY DEF Stored
  <2>3. /\ live'[h] = ((file' \o state'[h].recovered) \o batch'[h]) \o buffered'[h]
        /\ state'[h].cursor = Len(file' \o state'[h].recovered)
    BY <1>4, <1>6, <1>7, <1>10, <2>1, <2>2 DEF Holds
  <2> QED BY <1>4, <2>3 DEF Balanced
<1>16. Inductive'
  BY <1>9, <1>11, <1>12, <1>13, <1>14, <1>15 DEF Inductive
<1> QED BY <1>4, <1>7, <1>8, <1>16

LEMMA Parts ==
  ASSUME NEW w \in Seq(Records), NEW k \in 0 .. Len(w)
  PROVE  /\ SubSeq(w, 1, k) \in Seq(Records) /\ SubSeq(w, k + 1, Len(w)) \in Seq(Records)
         /\ SubSeq(w, 1, k) \o SubSeq(w, k + 1, Len(w)) = w
<1>1. Len(w) \in Nat /\ k \in Nat /\ k <= Len(w) /\ \A i \in 1 .. Len(w) : w[i] \in Records
  OBVIOUS
<1>2. SubSeq(w, 1, k) \in Seq(Records)
  BY <1>1, SubSeqProperties
<1>3. SubSeq(w, k + 1, Len(w)) \in Seq(Records)
  BY <1>1, SubSeqProperties
<1>4. SubSeq(w, 1, k) \o SubSeq(w, k + 1, Len(w)) = SubSeq(w, 1, Len(w))
  <2>1. 1 \in 1 .. Len(w) + 1 /\ k \in 1 - 1 .. Len(w) /\ Len(w) \in k .. Len(w)
    BY <1>1
  <2> QED BY <2>1, ConcatAdjacentSubSeq
<1>5. SubSeq(w, 1, Len(w)) = w
  BY SubSeqFull
<1> QED BY <1>2, <1>3, <1>4, <1>5

\* A write that got as far as its k-th record, or did not begin.
LEMMA Interrupted ==
  ASSUME NEW f \in Seq(Records), NEW w \in Seq(Records), NEW t \in Seq(Records),
         NEW k \in 0 .. Len(w)
  PROVE  \E u \in Seq(Records) : f \o (w \o t) = (f \o SubSeq(w, 1, k)) \o u
<1> DEFINE p == SubSeq(w, 1, k)
           q == SubSeq(w, k + 1, Len(w))
<1>1. p \in Seq(Records) /\ q \in Seq(Records) /\ p \o q = w
  BY Parts
<1> HIDE DEF p, q
<1>2. q \o t \in Seq(Records)
  BY <1>1, ConcatProperties
<1>3. w \o t = p \o (q \o t)
  <2>1. (p \o q) \o t = p \o (q \o t)
    <3>1. p \in Seq(Records)
      BY <1>1
    <3>2. q \in Seq(Records)
      BY <1>1
    <3> QED BY <3>1, <3>2, Associate, Zenon
  <2> QED BY <1>1, <2>1
<1>4. (f \o p) \o (q \o t) = f \o (p \o (q \o t))
  <2>1. p \in Seq(Records)
    BY <1>1
  <2> QED BY <1>2, <2>1, Associate, Zenon
<1>5. f \o (w \o t) = (f \o p) \o (q \o t)
  BY <1>3, <1>4
<1> QED BY <1>2, <1>5 DEF p

\* A death leaves a prefix, and nothing of the complete records is lost.
LEMMA DeathLeaves ==
  ASSUME Inductive, NEW h \in Handles, Crash(h), h = opened
  PROVE  /\ file' \in Seq(Records) /\ salvage' \in Seq(Records)
         /\ exists' \in BOOLEAN /\ torn' \in BOOLEAN
         /\ ~torn' => salvage' = <<>>
         /\ file' = file \/ \E b \in Seq(Records) : file' = file \o b
         /\ \E u \in Seq(Records) : live[opened] = Stored' \o u
<1>1. h = opened /\ Live /\ Typed
  BY Actor DEF Inductive, Crash, Routed, Live, Runs
<1>2. exists \in BOOLEAN /\ torn \in BOOLEAN /\ (~torn => salvage = <<>>)
  BY <1>1 DEF Inductive, Typed, TornKnown
<1>3. /\ file \in Seq(Records) /\ salvage \in Seq(Records) /\ <<>> \in Seq(Records)
      /\ batch[h] \in Seq(Records) /\ buffered[h] \in Seq(Records)
      /\ state[h].recovered \in Seq(Records)
  BY <1>1, Typing
<1>4. PICK x \in Seq(Records) : live[h] = Stored \o x
  BY <1>1, StoredPrefix
<1>5. CASE UNCHANGED <<file, exists, torn, salvage>>
  <2>1. Stored' = Stored
    BY <1>5 DEF Stored
  <2> QED BY <1>1, <1>2, <1>3, <1>4, <1>5, <2>1
<1>6. CASE /\ stage[h] = "truncate"
           /\ torn' = FALSE /\ salvage' = <<>> /\ UNCHANGED <<file, exists>>
  <2>1. file \o <<>> = file /\ Stored' = file
    BY <1>3, <1>6, ConcatEmptySeq DEF Stored
  <2>2. Stored \o x = file \o (salvage \o x) /\ salvage \o x \in Seq(Records)
    <3>1. salvage \o x \in Seq(Records)
      BY <1>3, <1>4, ConcatProperties
    <3>2. file \in Seq(Records) /\ salvage \in Seq(Records)
      BY <1>3
    <3>3. (file \o salvage) \o x = file \o (salvage \o x)
      BY <1>4, <3>2, Associate, Zenon
    <3> QED BY <3>1, <3>3 DEF Stored
  <2>3. live[h] = Stored' \o (salvage \o x)
    BY <1>4, <2>1, <2>2
  <2> QED BY <1>1, <1>2, <1>3, <1>6, <2>2, <2>3
<1>7. CASE stage[h] \in {"rewrite", "write"}
  <2> DEFINE w == IF stage[h] = "rewrite" THEN state[h].recovered ELSE batch[h]
             t == IF stage[h] = "rewrite" THEN batch[h] \o buffered[h] ELSE buffered[h]
  <2>1. w \in Seq(Records) /\ t \in Seq(Records)
    <3>1. batch[h] \o buffered[h] \in Seq(Records)
      BY <1>3, ConcatProperties
    <3> QED BY <1>3, <3>1
  <2>2. torn = FALSE /\ salvage = <<>> /\ (stage[h] = "write" => state[h].recovered = <<>>)
    BY <1>1, <1>2, <1>7 DEF Inductive, Chained, TornKnown
  <2>3. live[h] = file \o (w \o t)
    <3>1. live[h] = file \o (state[h].recovered \o (batch[h] \o buffered[h]))
      BY <1>1, InOneList
    <3>2. batch[h] \o buffered[h] \in Seq(Records)
      BY <1>3, ConcatProperties
    <3>3. <<>> \o (batch[h] \o buffered[h]) = batch[h] \o buffered[h]
      BY <3>2, ConcatEmptySeq
    <3> QED BY <1>7, <2>2, <3>1, <3>3
  <2> HIDE DEF w, t
  <2>4. \A k \in 0 .. Len(w) :
          /\ SubSeq(w, 1, k) \in Seq(Records)
          /\ \E u \in Seq(Records) : live[h] = (file \o SubSeq(w, 1, k)) \o u
    <3> SUFFICES ASSUME NEW k \in 0 .. Len(w)
                 PROVE  /\ SubSeq(w, 1, k) \in Seq(Records)
                        /\ \E u \in Seq(Records) : live[h] = (file \o SubSeq(w, 1, k)) \o u
      OBVIOUS
    <3>1. SubSeq(w, 1, k) \in Seq(Records)
      BY <2>1, Parts
    <3>2. file \in Seq(Records) /\ w \in Seq(Records) /\ t \in Seq(Records)
      BY <1>3, <2>1
    <3>3. \E u \in Seq(Records) : file \o (w \o t) = (file \o SubSeq(w, 1, k)) \o u
      BY <3>2, Interrupted, Zenon
    <3> QED BY <2>3, <3>1, <3>3
  <2>5. CASE file' = file \o w /\ exists' = TRUE /\ UNCHANGED <<torn, salvage>>
    <3>1. Len(w) \in 0 .. Len(w) /\ SubSeq(w, 1, Len(w)) = w
      BY <2>1, SubSeqFull
    <3>2. \E u \in Seq(Records) : live[h] = (file \o w) \o u
      BY <2>4, <3>1
    <3>3. file \o w \in Seq(Records)
      BY <1>3, <2>1, ConcatProperties
    <3>4. Stored' = file \o w
      BY <2>2, <2>5, <3>3, ConcatEmptySeq DEF Stored
    <3> QED BY <1>1, <1>2, <1>3, <2>1, <2>2, <2>5, <3>2, <3>3, <3>4
  <2>6. ASSUME torn' = TRUE, UNCHANGED exists, NEW k \in 0 .. Len(w) - 1,
               IF Compressed THEN salvage' = SubSeq(w, 1, k) /\ UNCHANGED file
               ELSE file' = file \o SubSeq(w, 1, k) /\ UNCHANGED salvage
        PROVE  /\ file' \in Seq(Records) /\ salvage' \in Seq(Records)
               /\ exists' \in BOOLEAN /\ torn' \in BOOLEAN
               /\ ~torn' => salvage' = <<>>
               /\ file' = file \/ \E b \in Seq(Records) : file' = file \o b
               /\ \E u \in Seq(Records) : live[opened] = Stored' \o u
    <3>1. k \in 0 .. Len(w)
      BY <2>1
    <3> DEFINE part == SubSeq(w, 1, k)
    <3>2. part \in Seq(Records) /\ \E u \in Seq(Records) : live[h] = (file \o part) \o u
      BY <2>4, <3>1
    <3>3. \/ salvage' = part /\ file' = file
          \/ file' = file \o part /\ salvage' = <<>>
      BY <2>2, <2>6
    <3> HIDE DEF part
    <3>4. file \o part \in Seq(Records) /\ (file \o part) \o <<>> = file \o part
      <4>1. file \o part \in Seq(Records)
        BY <1>3, <3>2, ConcatProperties
      <4> QED BY <4>1, ConcatEmptySeq
    <3>5. Stored' = file \o part
      BY <3>3, <3>4 DEF Stored
    <3>6. file' \in Seq(Records) /\ salvage' \in Seq(Records)
      BY <1>3, <3>2, <3>3, <3>4
    <3>7. file' = file \/ \E b \in Seq(Records) : file' = file \o b
      BY <3>2, <3>3
    <3> QED BY <1>1, <1>2, <2>6, <3>2, <3>5, <3>6, <3>7
  <2>7. \/ UNCHANGED <<file, exists, torn, salvage>>
        \/ file' = file \o w /\ exists' = TRUE /\ UNCHANGED <<torn, salvage>>
        \/ /\ torn' = TRUE /\ UNCHANGED exists
           /\ \E k \in 0 .. Len(w) - 1 :
                IF Compressed THEN salvage' = SubSeq(w, 1, k) /\ UNCHANGED file
                ELSE file' = file \o SubSeq(w, 1, k) /\ UNCHANGED salvage
    BY <1>7 DEF Crash, w
  <2> QED BY <1>5, <2>5, <2>6, <2>7
<1> QED BY <1>5, <1>6, <1>7 DEF Crash

\* A process dies: its handle holds nothing any more, and what it wrote remains.
LEMMA CrashStep ==
  ASSUME Inductive, NEW h \in Handles, Crash(h), h = opened
  PROVE  /\ Inductive'
         /\ Live /\ ~Live' /\ UNCHANGED <<opened, live, promised>>
         /\ \E u \in Seq(Records) : live[opened] = Stored' \o u
<1>1. h = opened /\ Live /\ Typed /\ opened \in Handles
  BY Actor DEF Inductive, Crash, Routed, Live, Runs, Typed
<1>2. /\ st' = Set(st, h, "dead") /\ owner' = (IF owner = h THEN NoOwner ELSE owner)
      /\ buffered' = Set(buffered, h, <<>>) /\ batch' = Set(batch, h, <<>>)
      /\ drain' = Set(drain, h, FALSE) /\ stage' = Set(stage, h, "none")
      /\ flush' = [c \in Callers |-> IF flush[c].on = h THEN Idle ELSE flush[c]]
      /\ UNCHANGED <<opened, live, state, promised>>
  BY DEF Crash
<1>3. /\ file' \in Seq(Records) /\ salvage' \in Seq(Records)
      /\ exists' \in BOOLEAN /\ torn' \in BOOLEAN
      /\ ~torn' => salvage' = <<>>
      /\ file' = file \/ \E b \in Seq(Records) : file' = file \o b
  BY DeathLeaves
<1>4. PICK u \in Seq(Records) : live[opened] = Stored' \o u
  BY DeathLeaves
<1>5. /\ st' \in [Handles -> States] /\ stage' \in [Handles -> Stages]
      /\ buffered' \in [Handles -> Seq(Records)] /\ batch' \in [Handles -> Seq(Records)]
      /\ drain' \in [Handles -> BOOLEAN]
      /\ st'[h] = "dead" /\ buffered'[h] = <<>> /\ batch'[h] = <<>>
      /\ stage'[h] = "none" /\ drain'[h] = FALSE
      /\ \A k \in Handles : k # h =>
           /\ st'[k] = st[k] /\ buffered'[k] = buffered[k] /\ batch'[k] = batch[k]
           /\ stage'[k] = stage[k] /\ drain'[k] = drain[k]
  <2>1. /\ st \in [Handles -> States] /\ stage \in [Handles -> Stages]
        /\ buffered \in [Handles -> Seq(Records)] /\ batch \in [Handles -> Seq(Records)]
        /\ drain \in [Handles -> BOOLEAN] /\ <<>> \in Seq(Records)
    BY <1>1 DEF Typed
  <2> QED BY <1>2, <2>1 DEF Set, States, Stages
<1>6. ~Live' /\ opened' = h
  BY <1>1, <1>2, <1>5 DEF Live, Runs
<1>7. /\ flush' \in [Callers -> Flushes]
      /\ \A k \in Callers : flush'[k].at = "idle" \/ (flush'[k] = flush[k] /\ flush[k].on # h)
  <2>1. flush \in [Callers -> Flushes] /\ Idle \in Flushes /\ Idle.at = "idle"
    BY <1>1 DEF Typed, Flushes, Idle
  <2> QED BY <1>2, <2>1
<1>8. Typed'
  BY <1>1, <1>2, <1>3, <1>5, <1>7 DEF Typed, Flushes
<1>9. Alone'
  <2>1. \A k \in Handles : /\ k < h => st'[k] \in {"dead", "releasing", "closed"}
                           /\ k > h => st'[k] = "unopened"
    <3>1. h \in Nat /\ ~(h < h) /\ ~(h > h)
      BY DEF Handles
    <3> QED BY <1>1, <1>5, <3>1 DEF Inductive, Alone
  <2>2. \A k \in Handles : ~Holds(k)'
    <3>1. \A k \in Handles : k # h => ~Holds(k)
      BY <1>1 DEF Inductive, Alone
    <3> QED BY <1>5, <3>1 DEF Holds
  <2>3. st'[opened'] # "unopened"
    BY <1>5, <1>6
  <2> QED BY <1>6, <2>1, <2>2, <2>3 DEF Alone
<1>10. Locked'
  <2>1. owner = h \/ owner = NoOwner
    BY <1>1 DEF Inductive, Locked
  <2> QED BY <1>2, <1>5, <1>6, <2>1 DEF Locked, InUse
<1>11. Chained' /\ TornKnown'
  BY <1>3, <1>6 DEF Chained, TornKnown
<1>12. Aged'
  <2>1. Stored' \in Seq(Records)
    BY <1>3, ConcatProperties DEF Stored
  <2>2. \A i \in DOMAIN Stored' : i \in DOMAIN live[opened] /\ live[opened][i] = Stored'[i]
    <3> DEFINE l == Stored'
    <3>1. l \in Seq(Records) /\ u \in Seq(Records) /\ live[opened] = l \o u
      BY <1>4, <2>1
    <3> HIDE DEF l
    <3>2. \A i \in DOMAIN l : i \in DOMAIN (l \o u) /\ (l \o u)[i] = l[i]
      BY <3>1
    <3> QED BY <3>1, <3>2 DEF l
  <2>3. \A i \in DOMAIN live[opened] : live[opened][i][1] <= opened
    BY <1>1 DEF Inductive, Aged
  <2> QED BY <1>1, <1>6, <2>2, <2>3 DEF Aged
<1>13. Kept'
  <2>1. promised <= Len(file) /\ promised \in Nat /\ Len(file) \in Nat
    BY <1>1 DEF Inductive, Kept, Typed
  <2>2. file' = file \/ Len(file) <= Len(file')
    <3>1. file \in Seq(Records)
      BY <1>1 DEF Typed
    <3>2. \A b \in Seq(Records) : Len(file) <= Len(file \o b)
      BY <3>1, PrefixOf
    <3> QED BY <1>3, <3>2
  <2>3. Len(file') \in Nat
    BY <1>3
  <2>4. promised' <= Len(file')
    BY <1>2, <2>1, <2>2, <2>3
  <2>5. ASSUME NEW d \in Callers, flush'[d].at # "idle"
        PROVE  flush'[d].on \in 1 .. opened /\ st'[flush'[d].on] # "open"
    <3>1. flush'[d] = flush[d] /\ flush[d].on # h /\ flush[d].on \in 1 .. opened
      BY <1>7, <2>5 DEF Inductive, Kept
    <3>2. flush[d].on \in Handles
      BY <1>1, <3>1, HandleAssumption DEF HandleAssumption, Handles
    <3>3. st[flush[d].on] # "open"
      BY <1>1, <3>1, <3>2, Actor DEF Inductive, InUse
    <3> QED BY <1>5, <3>1, <3>2, <3>3
  <2> QED BY <1>2, <2>4, <2>5 DEF Kept
<1>14. Balanced'
  BY <1>6 DEF Balanced
<1> QED BY <1>1, <1>2, <1>4, <1>6, <1>8, <1>9, <1>10, <1>11, <1>12, <1>13, <1>14 DEF Inductive

\* Nothing is left to lose by the process of a handle that has a successor.
LEMMA EarlierCrashStep ==
  ASSUME Inductive, NEW h \in Handles, Crash(h), h # opened
  PROVE  Inductive' /\ UNCHANGED <<disk, opened, live, promised>> /\ st'[opened] = st[opened]
<1> USE DEF disk, chain
<1>1. Runs(h) /\ Typed /\ h < opened /\ opened \in Handles
  BY Actor DEF Inductive, Crash, Routed, Runs, Typed
<1>2. /\ ~drain[h] /\ buffered[h] = <<>> /\ batch[h] = <<>> /\ stage[h] = "none"
  BY DEF Inductive, Alone, Holds
<1>3. /\ st \in [Handles -> States] /\ flush \in [Callers -> Flushes]
      /\ drain \in [Handles -> BOOLEAN] /\ stage \in [Handles -> Stages]
      /\ batch \in [Handles -> Seq(Records)] /\ buffered \in [Handles -> Seq(Records)]
  BY <1>1 DEF Typed
<1>4. /\ st' = Set(st, h, "dead") /\ owner' = (IF owner = h THEN NoOwner ELSE owner)
      /\ buffered' = Set(buffered, h, <<>>) /\ batch' = Set(batch, h, <<>>)
      /\ drain' = Set(drain, h, FALSE) /\ stage' = Set(stage, h, "none")
      /\ flush' = [c \in Callers |-> IF flush[c].on = h THEN Idle ELSE flush[c]]
      /\ UNCHANGED <<opened, live, state, promised>>
  BY DEF Crash
<1>5. UNCHANGED <<file, exists, torn, salvage>>
  BY <1>2 DEF Crash
<1>6. owner' = owner
  <2>1. h \in Nat /\ h # 0
    BY DEF Handles
  <2> QED BY <1>4, <2>1 DEF Inductive, Locked, NoOwner
<1>7. buffered' = buffered /\ batch' = batch
  BY <1>2, <1>3, <1>4 DEF Set
<1>8. drain' = drain /\ stage' = stage
  <2>1. drain' = [drain EXCEPT ![h] = FALSE] /\ stage' = [stage EXCEPT ![h] = "none"]
    BY <1>4 DEF Set
  <2> QED BY <1>2, <1>3, <2>1
<1>9. /\ st' \in [Handles -> States] /\ st'[h] = "dead"
      /\ \A k \in Handles : k # h => st'[k] = st[k]
  BY <1>3, <1>4 DEF Set, States
<1>10. /\ flush' \in [Callers -> Flushes]
       /\ \A c \in Callers : flush'[c] = flush[c] \/ flush'[c].at = "idle"
  <2>1. Idle \in Flushes /\ Idle.at = "idle"
    BY DEF Flushes, Idle
  <2> QED BY <1>3, <1>4, <2>1
<1>11. Inductive'
  BY <1>1, <1>4, <1>5, <1>6, <1>7, <1>8, <1>9, <1>10, EarlierStep
<1> QED BY <1>1, <1>4, <1>5, <1>6, <1>9, <1>11

-----------------------------------------------------------------------------
(***************************************************************************)
(* The steps of a close.                                                   *)
(***************************************************************************)
\* The session is over for the handle: whether it goes on draining or not.
LEMMA MovesOn ==
  ASSUME Inductive, NEW h \in Handles, h = opened, Live, NEW to \in States \ {"open", "unopened", "dead"},
         st' = Set(st, h, to), to \in InUse => st[h] \in InUse,
         drain' = Set(drain, h, drain[h] \/ buffered[h] # <<>>) \/ drain' = drain,
         UNCHANGED <<file, exists, torn, salvage, opened, live, buffered, chain, flush, promised>>,
         owner' = owner \/ (owner' = NoOwner /\ to \notin InUse)
  PROVE  Inductive'
<1> USE DEF chain
<1>1. st \in [Handles -> States] /\ flush \in [Callers -> Flushes] /\ opened \in Handles
  BY DEF Inductive, Typed
<1>2. /\ st' \in [Handles -> States] /\ st'[h] = to
      /\ \A k \in Handles : k # h => st'[k] = st[k]
  BY <1>1 DEF Set
<1>3. Live' /\ opened' = h
  BY <1>2 DEF Live, Runs
<1>4. Locked'
  BY <1>2, <1>3 DEF Inductive, Locked
<1>5. Kept'
  <2>1. \A n \in 1 .. opened : n \in Handles
    BY <1>1, HandleAssumption DEF HandleAssumption, Handles
  <2> QED BY <1>2, <2>1 DEF Inductive, Kept
<1> QED BY <1>1, <1>2, <1>3, <1>4, <1>5, QuietStep

LEMMA CloseStep ==
  ASSUME Inductive, NEW h \in Handles, Close(h) \/ ClosePass(h) \/ Settled(h)
  PROVE  Inductive'
<1> USE DEF disk, queue, chain
<1>1. h = opened /\ Live /\ Typed /\ st[h] \in InUse
  BY Actor DEF Inductive, Close, ClosePass, Settled, InUse
<1>2. CASE Close(h)
  <2>1. drain' = Set(drain, h, drain[h] \/ buffered[h] # <<>>) \/ drain' = drain
    BY <1>1, <1>2, DrainLiveIs DEF Close
  <2> QED BY <1>1, <1>2, <2>1, MovesOn DEF Close, InUse, States
<1>3. CASE ClosePass(h)
  <2>1. CASE buffered[h] = <<>>
    <3>1. st' = Set(st, h, "settling") /\ drain' = drain
      BY <1>3, <2>1 DEF ClosePass
    <3> QED BY <1>1, <1>3, <3>1, MovesOn DEF ClosePass, InUse, States
  <2>2. CASE buffered[h] # <<>>
    <3>1. DrainLive(h) /\ st' = st /\ st[h] = "draining"
      BY <1>3, <2>2 DEF ClosePass
    <3>2. st' = Set(st, h, "draining")
      BY <1>1, <3>1 DEF Set, Typed
    <3>3. drain' = Set(drain, h, drain[h] \/ buffered[h] # <<>>) \/ drain' = drain
      BY <1>1, <3>1, DrainLiveIs
    <3> QED BY <1>1, <1>3, <3>2, <3>3, MovesOn DEF ClosePass, InUse, States
  <2> QED BY <2>1, <2>2
<1>4. CASE Settled(h)
  BY <1>1, <1>4, MovesOn DEF Settled, InUse, States
<1> QED BY <1>2, <1>3, <1>4

LEMMA ReleaseStep ==
  ASSUME Inductive, NEW h \in Handles, Release(h)
  PROVE  Inductive'
<1> USE DEF disk, queue, chain
<1>1. /\ st[h] = "releasing" /\ Runs(h) /\ Typed /\ h # NoOwner
      /\ UNCHANGED <<file, exists, torn, salvage, opened, live, buffered, drain, chain, flush, promised>>
  BY DEF Inductive, Release, Runs, Handles, NoOwner
<1>2. st \in [Handles -> States] /\ st = Set(st, h, "releasing")
  BY <1>1 DEF Typed, Set
<1>3. CASE owner = h
  <2>1. h = opened /\ Live
    BY <1>1, <1>3 DEF Inductive, Locked
  <2>2. st' = Set(st, h, "releasing") /\ owner' = NoOwner
    BY <1>2, <1>3 DEF Release
  <2> QED BY <1>1, <2>1, <2>2, MovesOn DEF InUse, States
<1>4. CASE owner # h
  <2>1. st' = Set(st, h, "closed") /\ owner' = owner
    BY <1>4 DEF Release
  <2>2. CASE h = opened
    <3>1. Live
      BY <1>1, <2>2 DEF Live
    <3> QED BY <1>1, <2>1, <2>2, <3>1, MovesOn DEF InUse, States
  <2>3. CASE h # opened
    <3>1. /\ st' \in [Handles -> States] /\ st'[h] = "closed"
          /\ \A k \in Handles : k # h => st'[k] = st[k]
      BY <1>2, <2>1 DEF Set, States
    <3> QED BY <1>1, <2>1, <2>3, <3>1, EarlierStep DEF Typed
  <2> QED BY <2>2, <2>3
<1> QED BY <1>3, <1>4

-----------------------------------------------------------------------------
(***************************************************************************)
(* Every step.                                                             *)
(***************************************************************************)
LEMMA StutterStep == ASSUME Inductive, UNCHANGED vars PROVE Inductive'
<1> USE DEF vars, disk, queue, chain
<1>1. Typed'
  BY DEF Inductive, Typed
<1>2. Alone' /\ Locked'
  BY DEF Inductive, Alone, Holds, Locked, Live, Runs
<1>3. Chained' /\ TornKnown'
  BY DEF Inductive, Chained, TornKnown, Live, Runs
<1>4. Aged' /\ Kept' /\ Balanced'
  <2>1. Aged'
    BY DEF Inductive, Aged, Live, Runs, Stored
  <2>2. Kept'
    BY DEF Inductive, Kept, Live, Runs
  <2>3. Balanced'
    BY DEF Inductive, Balanced, Live, Runs
  <2> QED BY <2>1, <2>2, <2>3
<1> QED BY <1>1, <1>2, <1>3, <1>4 DEF Inductive

LEMMA NextStep ==
  ASSUME Inductive, CleanSuccession', [Next]_vars
  PROVE  Inductive'
<1>1. ASSUME NEW h \in Handles, Publish(h) PROVE Inductive'
  BY <1>1, PublishStep
<1>2. ASSUME NEW h \in Handles, TimerFires(h) PROVE Inductive'
  BY <1>2, TimerStep
<1>3. ASSUME NEW h \in Handles, Storage(h) PROVE Inductive'
  BY <1>3, CaptureStep, LeaseStep, TruncateStep, RewriteStep, WriteStep, FailureStep
    DEF Storage
<1>4. ASSUME NEW h \in Handles, Crash(h) PROVE Inductive'
  BY <1>4, CrashStep, EarlierCrashStep
<1>5. ASSUME NEW h \in Handles, NEW c \in Callers, FlushCall(c, h) PROVE Inductive'
  BY <1>5, FlushStep
<1>6. ASSUME NEW c \in Callers, Barrier(c) PROVE Inductive'
  BY <1>6, BarrierStep, RefusedStep
<1>7. ASSUME NEW h \in Handles, Close(h) \/ Closing(h) PROVE Inductive'
  BY <1>7, CloseStep, ReleaseStep DEF Closing
<1>8. CASE Open
  BY <1>8, OpenStep
<1>9. CASE UNCHANGED vars
  BY <1>9, StutterStep
<1>10. ASSUME NEW h \in Handles, Cleared(h) PROVE Inductive'
  BY <1>10, ClearedStep
<1> QED BY <1>1, <1>2, <1>3, <1>4, <1>5, <1>6, <1>7, <1>8, <1>9, <1>10 DEF Next

\* The strengthened invariant holds for any number of handles, one after
\* another, any failures, deaths and closes, as long as no handle is opened
\* while its predecessor has something left to write.
THEOREM InductiveHolds == Spec /\ []CleanSuccession => []Inductive
<1>1. Init => Inductive
  BY InitHolds, HandleAssumption
<1>2. Inductive /\ CleanSuccession' /\ [Next]_vars => Inductive'
  BY NextStep
<1> QED BY <1>1, <1>2, PTL DEF Spec

\* The batch a storage failure gave back, the buffer and the records recovered
\* from a torn tail are at every moment the rest of the session's log, in order,
\* in use, while the handle closes, and under its successor.
THEOREM AlwaysAccounted == Spec /\ []CleanSuccession => []Accounted
<1>1. Inductive => Accounted
  BY DEF Inductive, Accounted, Balanced, Live, Routed, Runs
<1> QED BY <1>1, InductiveHolds, PTL

-----------------------------------------------------------------------------
(***************************************************************************)
(* The lock.                                                               *)
(***************************************************************************)
\* The mutation chain stands at a call that writes only with the lock held.
LEMMA HoldsLock ==
  ASSUME Inductive, CleanRelease, NEW h \in Handles, Runs(h),
         stage[h] \in {"truncate", "rewrite", "write"}
  PROVE  owner = h
<1>1. h = opened /\ Live /\ Typed
  BY Actor DEF Inductive, Holds
<1>2. drain[h] /\ state[h].leased
  BY <1>1 DEF Inductive, Chained
<1>3. st[h] \in States /\ st[h] \notin {"unopened", "dead"}
  BY <1>1 DEF Typed, Runs
<1>4. st[h] \in InUse
  BY <1>2, <1>3 DEF CleanRelease, LeavesNothing, States, InUse
<1> QED BY <1>1, <1>2, <1>4 DEF Inductive, Locked

LEMMA OwnedStep ==
  ASSUME Inductive, CleanRelease, Next, <<file, torn>>' # <<file, torn>>
  PROVE  \E h \in Handles : owner = h /\ stage[h] \in {"truncate", "rewrite", "write"}
                            /\ (stage'[h] # stage[h] \/ batch'[h] # batch[h])
<1> USE DEF disk
<1>1. ASSUME NEW h \in Handles, Runs(h), stage[h] \in {"truncate", "rewrite", "write"},
             NEW g, stage' = Set(stage, h, g), g # stage[h]
      PROVE  \E k \in Handles : owner = k /\ stage[k] \in {"truncate", "rewrite", "write"}
                                /\ (stage'[k] # stage[k] \/ batch'[k] # batch[k])
  <2>1. stage \in [Handles -> Stages]
    BY DEF Inductive, Typed
  <2>2. stage'[h] # stage[h]
    BY <1>1, <2>1 DEF Set
  <2> QED BY <1>1, <2>2, HoldsLock
<1>2. ASSUME NEW h \in Handles, Truncate(h) \/ Rewrite(h)
      PROVE  \E k \in Handles : owner = k /\ stage[k] \in {"truncate", "rewrite", "write"}
                                /\ (stage'[k] # stage[k] \/ batch'[k] # batch[k])
  <2>1. state[h] \in Writers
    BY DEF Inductive, Typed
  <2>2. CASE Truncate(h)
    <3> DEFINE s == [state[h] EXCEPT !.tornSeen = FALSE]
    <3>1. s.tornSeen = FALSE
      BY <2>1 DEF Writers
    <3> HIDE DEF s
    <3>2. NextStage(s) # "truncate"
      BY <3>1 DEF NextStage
    <3>3. /\ stage[h] = "truncate" /\ Runs(h) /\ stage' = Set(stage, h, NextStage(s))
      BY <2>2 DEF Truncate, Proceed, s
    <3> QED BY <1>1, <3>2, <3>3
  <2>3. CASE Rewrite(h)
    <3> DEFINE s == [state[h] EXCEPT !.recovered = <<>>]
    <3>1. s.recovered = <<>>
      BY <2>1 DEF Writers
    <3> HIDE DEF s
    <3>2. NextStage(s) # "rewrite"
      BY <3>1 DEF NextStage
    <3>3. /\ stage[h] = "rewrite" /\ Runs(h) /\ stage' = Set(stage, h, NextStage(s))
      BY <2>3 DEF Rewrite, Proceed, s
    <3> QED BY <1>1, <3>2, <3>3
  <2> QED BY <1>2, <2>2, <2>3
<1>3. ASSUME NEW h \in Handles, Write(h)
      PROVE  \E k \in Handles : owner = k /\ stage[k] \in {"truncate", "rewrite", "write"}
                                /\ (stage'[k] # stage[k] \/ batch'[k] # batch[k])
  BY <1>1, <1>3 DEF Write
<1>4. ASSUME NEW h \in Handles, Crash(h)
      PROVE  \E k \in Handles : owner = k /\ stage[k] \in {"truncate", "rewrite", "write"}
                                /\ (stage'[k] # stage[k] \/ batch'[k] # batch[k])
  <2>1. stage[h] \in {"truncate", "rewrite", "write"} /\ stage' = Set(stage, h, "none")
    BY <1>4 DEF Crash
  <2>2. Runs(h)
    BY <1>4 DEF Crash, Routed, Runs
  <2> QED BY <1>1, <2>1, <2>2
<1>5. ASSUME NEW h \in Handles,
             \/ Publish(h) \/ TimerFires(h) \/ Capture(h) \/ AcquireLease(h)
             \/ MutationFails(h) \/ Cleared(h) \/ Close(h) \/ Closing(h)
             \/ \E c \in Callers : FlushCall(c, h)
      PROVE  file' = file /\ torn' = torn
  <2>1. CASE \E c \in Callers : FlushCall(c, h)
    BY <2>1 DEF FlushCall
  <2> QED BY <1>5, <2>1 DEF Publish, TimerFires, Capture, AcquireLease, MutationFails,
    Cleared, Close, Closing, ClosePass, Settled, Release
<1>6. ASSUME NEW c \in Callers, Barrier(c)
      PROVE  UNCHANGED <<file, torn>>
  BY <1>6 DEF Barrier
<1>7. ASSUME Open PROVE UNCHANGED <<file, torn>>
  BY <1>7 DEF Open
<1>8. ~(\E c \in Callers : Barrier(c)) /\ ~Open
  BY <1>6, <1>7
<1>9. PICK h \in Handles :
        \/ Publish(h) \/ TimerFires(h) \/ Storage(h) \/ Cleared(h)
        \/ Close(h) \/ Closing(h) \/ Crash(h)
        \/ \E c \in Callers : FlushCall(c, h)
  BY <1>8, Zenon DEF Next
<1>10. Truncate(h) \/ Rewrite(h) \/ Write(h) \/ Crash(h)
  <2>1. ~(file' = file /\ torn' = torn)
    OBVIOUS
  <2>2. CASE Storage(h)
    BY <1>5, <2>1, <2>2, Zenon DEF Storage
  <2> QED BY <1>5, <1>9, <2>1, <2>2, Zenon
<1> QED BY <1>2, <1>3, <1>4, <1>10

\* The stored log changes only under the hands of the handle that holds the
\* kernel lock, whichever handles came before and however they ended, as long as
\* none is released while it has something left to write.
THEOREM AlwaysOwned == Spec /\ []CleanRelease => OwnedWrites
<1>1. CleanRelease => CleanSuccession
  BY DEF CleanRelease, CleanSuccession
<1>2. Inductive /\ CleanRelease /\ [Next]_vars =>
        [<<file, torn>>' # <<file, torn>> =>
           \E h \in Handles : owner = h /\ stage[h] \in {"truncate", "rewrite", "write"}
                              /\ (stage'[h] # stage[h] \/ batch'[h] # batch[h])]_vars
  BY OwnedStep
<1> QED BY <1>1, <1>2, InductiveHolds, PTL DEF Spec, OwnedWrites

-----------------------------------------------------------------------------
(***************************************************************************)
(* The handles implement the seam.                                         *)
(***************************************************************************)
accepted == IF Routed(opened) THEN live[opened] ELSE Stored

\* What is promised is in the log a reader sees.
LEMMA Covered ==
  ASSUME Inductive
  PROVE  accepted \in Seq(Records) /\ promised \in Nat /\ promised <= Len(accepted)
<1>1. Typed /\ opened \in Handles
  BY DEF Inductive, Typed
<1>2. Routed(opened) => Live
  BY <1>1, Actor DEF Inductive
<1>3. /\ file \in Seq(Records) /\ salvage \in Seq(Records) /\ live[opened] \in Seq(Records)
  BY <1>1, Typing
<1>4. Stored \in Seq(Records)
  BY <1>3, ConcatProperties DEF Stored
<1>5. promised \in Nat /\ promised <= Len(file)
  BY DEF Inductive, Typed, Kept
<1>6. Len(file) <= Len(Stored)
  BY <1>3, PrefixOf DEF Stored
<1>7. Live => Len(Stored) <= Len(live[opened])
  <2> SUFFICES ASSUME Live PROVE Len(Stored) <= Len(live[opened])
    OBVIOUS
  <2>1. PICK u \in Seq(Records) : live[opened] = Stored \o u
    BY StoredPrefix
  <2> DEFINE l == Stored
  <2>2. l \in Seq(Records)
    BY <1>4
  <2> HIDE DEF l
  <2>3. Len(l) <= Len(l \o u)
    BY <2>2, PrefixOf
  <2> QED BY <2>1, <2>3 DEF l
<1>8. Len(file) \in Nat /\ Len(Stored) \in Nat /\ Len(live[opened]) \in Nat
  BY <1>3, <1>4
<1>9. promised <= Len(Stored) /\ (Live => promised <= Len(live[opened]))
  BY <1>5, <1>6, <1>7, <1>8
<1> QED BY <1>2, <1>3, <1>4, <1>5, <1>9 DEF accepted

Covers ==
  accepted \in Seq(Records) /\ promised \in Nat /\ promised <= Len(accepted)

LEMMA CoversAfter == Inductive' => Covers'
<1>1. Inductive => Covers
  BY Covered DEF Covers
<1> QED BY <1>1, PTL

LEMMA SelfPrefix == ASSUME NEW s \in Seq(Records) PROVE \E u \in Seq(Records) : s = s \o u
<1>1. <<>> \in Seq(Records) /\ s \o <<>> = s
  BY ConcatEmptySeq
<1> QED BY <1>1

\* The storage calls of a handle its session has been taken from: the torn tail
\* is taken off the stored log, or records are added to it.
LEMMA DiskStep ==
  ASSUME Inductive, NEW h \in Handles, Storage(h)
  PROVE  \E u \in Seq(Records) : Stored' = Stored \o u \/ Stored = Stored' \o u
<1> USE DEF disk
<1>1. h = opened /\ Live /\ Typed
  BY Actor DEF Inductive, Storage, Capture, AcquireLease, Truncate, Rewrite, Write,
    MutationFails, Holds
<1>2. /\ file \in Seq(Records) /\ salvage \in Seq(Records)
      /\ state[h].recovered \in Seq(Records) /\ batch[h] \in Seq(Records)
  BY <1>1, Typing
<1>3. file \o <<>> = file /\ Stored \in Seq(Records)
  BY <1>2, ConcatEmptySeq, ConcatProperties DEF Stored
<1>4. CASE Capture(h) \/ AcquireLease(h) \/ MutationFails(h)
  <2>1. Stored' = Stored
    BY <1>4 DEF Capture, AcquireLease, MutationFails, Stored
  <2> QED BY <1>3, <2>1, SelfPrefix
<1>5. CASE Truncate(h)
  <2>1. Stored' = file
    BY <1>3, <1>5 DEF Truncate, Stored
  <2> QED BY <1>2, <2>1 DEF Stored
<1>6. ASSUME stage[h] \in {"rewrite", "write"}, NEW w \in Seq(Records),
             file' = file \o w, salvage' = salvage
      PROVE  \E u \in Seq(Records) : Stored' = Stored \o u
  <2>1. salvage = <<>>
    BY <1>1, <1>6 DEF Inductive, Chained, TornKnown, Typed
  <2>2. file \o w \in Seq(Records)
    BY <1>2, <1>6, ConcatProperties
  <2>3. Stored' = file \o w /\ Stored = file
    BY <1>3, <1>6, <2>1, <2>2, ConcatEmptySeq DEF Stored
  <2> QED BY <1>6, <2>3
<1>7. CASE Rewrite(h)
  BY <1>2, <1>6, <1>7 DEF Rewrite
<1>8. CASE Write(h)
  BY <1>2, <1>6, <1>8 DEF Write
<1> QED BY <1>4, <1>5, <1>7, <1>8 DEF Storage

\* A step that leaves the session's log, the file and whose session it is alone.
LEMMA SameLog ==
  ASSUME UNCHANGED <<file, salvage, opened, live, promised>>,
         Routed(opened)' = Routed(opened)
  PROVE  UNCHANGED <<accepted, promised>>
BY DEF accepted, Stored

\* The steps of the last handle that no reader notices.
LEMMA Unnoticed ==
  ASSUME Inductive, NEW h \in Handles,
         \/ TimerFires(h) \/ (\E c \in Callers : FlushCall(c, h))
         \/ Close(h) \/ ClosePass(h) \/ Settled(h)
  PROVE  UNCHANGED <<accepted, promised>>
<1> USE DEF disk
<1>1. UNCHANGED <<file, salvage, opened, live, promised>>
  <2>1. CASE \E c \in Callers : FlushCall(c, h)
    BY <2>1 DEF FlushCall
  <2> QED BY <2>1 DEF TimerFires, Close, ClosePass, Settled
<1>2. CASE st' = st
  BY <1>1, <1>2, SameLog DEF Routed
<1>3. CASE Close(h) \/ ClosePass(h) \/ Settled(h)
  <2>1. h = opened /\ Typed
    BY <1>3, Actor DEF Inductive, Close, ClosePass, Settled, InUse
  <2>2. /\ st[h] \in {"open", "draining", "settling"}
        /\ st' = st \/ \E to \in {"draining", "settling", "releasing"} : st' = Set(st, h, to)
    BY <1>3 DEF Close, ClosePass, Settled
  <2>3. st'[h] \in {"open", "draining", "settling", "releasing"}
    BY <2>1, <2>2 DEF Typed, Set
  <2>4. Routed(opened) /\ Routed(opened)'
    BY <1>1, <2>1, <2>2, <2>3 DEF Routed
  <2> QED BY <1>1, <2>4, SameLog
<1>4. CASE TimerFires(h)
  BY <1>2, <1>4 DEF TimerFires
<1>5. CASE \E c \in Callers : FlushCall(c, h)
  BY <1>2, <1>5 DEF FlushCall
<1> QED BY <1>3, <1>4, <1>5

\* Every step extends what readers are promised, or loses what nobody was.
LEMMA SeamStep ==
  ASSUME Inductive, CleanSuccession', [Next]_vars
  PROVE  /\ promised <= promised'
         /\ \E u \in Seq(Records) : accepted' = accepted \o u \/ accepted = accepted' \o u
<1> USE DEF disk, queue, chain
<1> DEFINE Goal == /\ promised <= promised'
                   /\ \E u \in Seq(Records) : accepted' = accepted \o u \/ accepted = accepted' \o u
<1>1. /\ accepted \in Seq(Records) /\ promised \in Nat /\ Typed /\ opened \in Handles
      /\ st \in [Handles -> States]
  BY Covered DEF Inductive, Typed
<1>2. ASSUME UNCHANGED <<accepted, promised>> PROVE Goal
  <2>1. \E u \in Seq(Records) : accepted = accepted \o u
    BY <1>1, SelfPrefix
  <2> QED BY <1>1, <1>2, <2>1
<1>3. ASSUME NEW h \in Handles, Publish(h) PROVE Goal
  <2>1. h = opened /\ Routed(opened)
    BY <1>3, PublishStep DEF Publish, Routed
  <2> DEFINE event == <<h, Len(live[h]) + 1>>
  <2>2. live[h] \in Seq(Records) /\ live \in [Handles -> Seq(Records)] /\ event \in Records
    <3>1. live \in [Handles -> Seq(Records)]
      BY <1>1 DEF Typed
    <3>2. live[h] \in Seq(Records)
      BY <3>1
    <3>3. Len(live[h]) + 1 \in Nat
      BY <3>2
    <3> QED BY <3>1, <3>2, <3>3 DEF Records
  <2>3. live' = [live EXCEPT ![h] = Append(live[h], event)] /\ UNCHANGED <<opened, st, promised>>
    BY <1>3 DEF Publish
  <2> HIDE DEF event
  <2>4. Routed(opened)' /\ live'[h] = Append(live[h], event)
    BY <2>1, <2>2, <2>3 DEF Routed
  <2>5. accepted = live[h] /\ accepted' = Append(live[h], event)
    BY <2>1, <2>3, <2>4 DEF accepted
  <2>6. <<event>> \in Seq(Records) /\ Append(live[h], event) = live[h] \o <<event>>
    BY <2>2, AppendIsConcat
  <2>7. accepted' = accepted \o <<event>>
    BY <2>5, <2>6
  <2>8. promised <= promised'
    BY <1>1, <2>3
  <2> QED BY <2>6, <2>7, <2>8
<1>4. ASSUME NEW h \in Handles,
             \/ TimerFires(h) \/ (\E c \in Callers : FlushCall(c, h))
             \/ Close(h) \/ ClosePass(h) \/ Settled(h)
      PROVE  Goal
  BY <1>2, <1>4, Unnoticed
<1>5. ASSUME NEW h \in Handles, Release(h) PROVE Goal
  <2>1. /\ st[h] = "releasing" /\ UNCHANGED <<file, salvage, opened, live, promised>>
        /\ st' = st \/ st' = Set(st, h, "closed")
    BY <1>5 DEF Release
  <2>2. CASE st' = st \/ h # opened
    <3>1. st'[opened] = st[opened]
      BY <1>1, <2>1, <2>2 DEF Set
    <3>2. Routed(opened)' = Routed(opened)
      BY <2>1, <3>1 DEF Routed
    <3> QED BY <1>2, <2>1, <3>2, SameLog
  <2>3. CASE st' = Set(st, h, "closed") /\ h = opened
    <3>1. Routed(opened) /\ Live
      BY <1>1, <2>1, <2>3 DEF Routed, Live, Runs
    <3>2. st'[opened'] = "closed"
      BY <1>1, <2>1, <2>3 DEF Set
    <3>3. accepted = live[opened] /\ accepted' = Stored
      BY <2>1, <3>1, <3>2 DEF accepted, Routed, Stored
    <3> QED BY <1>1, <2>1, <3>1, <3>3, StoredPrefix
  <2> QED BY <2>1, <2>2, <2>3
<1>6. ASSUME NEW h \in Handles, Storage(h) PROVE Goal
  <2>1. h = opened /\ UNCHANGED <<opened, live, promised>>
    BY <1>1, <1>6, Actor DEF Inductive, Storage, Capture, AcquireLease, Truncate, Rewrite,
      Write, MutationFails, Holds, Proceed
  <2>2. st' = st \/ (st[h] = "draining" /\ st' = Set(st, h, "settling"))
    <3>1. CASE MutationFails(h)
      BY <1>1, <3>1 DEF MutationFails, Set
    <3> QED BY <1>6, <3>1 DEF Storage, Capture, AcquireLease, Truncate, Rewrite, Write, Proceed
  <2>3. Routed(opened)' = Routed(opened)
    <3>1. st' = Set(st, h, "settling") => st'[h] = "settling"
      BY <1>1 DEF Set
    <3> QED BY <2>1, <2>2, <3>1 DEF Routed
  <2>4. \E u \in Seq(Records) : Stored' = Stored \o u \/ Stored = Stored' \o u
    BY <1>6, DiskStep
  <2>5. CASE Routed(opened)
    <3>1. accepted' = accepted
      BY <2>1, <2>3, <2>5 DEF accepted
    <3> QED BY <1>2, <2>1, <3>1
  <2>6. CASE ~Routed(opened)
    <3>1. accepted = Stored /\ accepted' = Stored'
      BY <2>3, <2>6 DEF accepted
    <3> QED BY <1>1, <2>1, <2>4, <3>1
  <2> QED BY <2>5, <2>6
<1>7. ASSUME NEW h \in Handles, Crash(h) PROVE Goal
  <2>1. CASE h = opened
    <3>1. UNCHANGED <<opened, live, promised>> /\ ~Live'
      BY <1>7, <2>1, CrashStep
    <3>2. PICK u \in Seq(Records) : live[opened] = Stored' \o u
      BY <1>7, <2>1, CrashStep
    <3>3. Routed(opened) /\ ~Routed(opened)'
      BY <1>7, <2>1, <3>1 DEF Crash, Routed, Live, Runs
    <3>4. accepted = live[opened] /\ accepted' = Stored'
      BY <3>3 DEF accepted
    <3> QED BY <1>1, <3>1, <3>2, <3>4
  <2>2. CASE h # opened
    <3>1. UNCHANGED <<disk, opened, live, promised>> /\ st'[opened] = st[opened]
      BY <1>7, <2>2, EarlierCrashStep
    <3>2. Routed(opened)' = Routed(opened)
      BY <3>1 DEF Routed
    <3> QED BY <1>2, <3>1, <3>2, SameLog
  <2> QED BY <2>1, <2>2
<1>8. ASSUME NEW c \in Callers, Barrier(c) PROVE Goal
  <2>1. UNCHANGED <<file, salvage, opened, st, live>>
    BY <1>8 DEF Barrier
  <2>2. accepted' = accepted
    BY <2>1 DEF accepted, Routed, Stored
  <2>3. flush[c].goal \in Nat
    BY <1>1 DEF Typed, Flushes
  <2>4. promised' = promised \/ (promised' = flush[c].goal /\ flush[c].goal > promised)
    BY <1>8 DEF Barrier
  <2>5. promised <= promised'
    BY <1>1, <2>3, <2>4
  <2>6. \E u \in Seq(Records) : accepted = accepted \o u
    BY <1>1, SelfPrefix
  <2> QED BY <2>2, <2>5, <2>6
<1>9. CASE Open
  <2>1. accepted' = Stored /\ promised' = promised
    BY <1>9, OpenStep DEF accepted
  <2>2. CASE Routed(opened)
    <3>1. Live /\ accepted = live[opened]
      BY <1>1, <2>2, Actor DEF Inductive, accepted
    <3> QED BY <1>1, <2>1, <3>1, StoredPrefix
  <2>3. CASE ~Routed(opened)
    BY <1>2, <2>1, <2>3 DEF accepted
  <2> QED BY <2>2, <2>3
<1>10. CASE UNCHANGED vars
  BY <1>2, <1>10, SameLog DEF vars, Routed
<1>15. ASSUME NEW h \in Handles, Cleared(h) PROVE Goal
  BY <1>2, <1>15, SameLog DEF Cleared, Routed
<1> HIDE DEF Goal
<1>11. ASSUME NEW h \in Handles, Closing(h) PROVE Goal
  BY <1>4, <1>5, <1>11 DEF Closing
<1>12. ASSUME NEW h \in Handles,
              \/ Publish(h) \/ TimerFires(h) \/ Storage(h) \/ Cleared(h)
              \/ Close(h) \/ Closing(h) \/ Crash(h)
              \/ \E c \in Callers : FlushCall(c, h)
       PROVE  Goal
  BY <1>3, <1>4, <1>6, <1>7, <1>11, <1>12, <1>15, Zenon
<1>13. Open \/ UNCHANGED vars => Goal
  BY <1>9, <1>10 DEF Goal
<1>14. Goal
  BY <1>8, <1>12, <1>13 DEF Next
<1> QED BY <1>14 DEF Goal

LEMMA SeamImplemented ==
  ASSUME Inductive, Inductive', CleanSuccession', [Next]_vars
  PROVE  \/ IsPrefix(accepted, accepted') /\ promised' \in promised .. Len(accepted')
         \/ /\ Len(accepted') \in promised .. Len(accepted)
            /\ IsPrefix(accepted', accepted)
            /\ promised' \in promised .. Len(accepted')
<1> DEFINE a == accepted
           b == accepted'
<1>1. a \in Seq(Records) /\ promised \in Nat /\ promised <= Len(a)
  BY Covered
<1>2. b \in Seq(Records) /\ promised' \in Nat /\ promised' <= Len(b)
  <2>1. Covers'
    BY CoversAfter
  <2> QED BY <2>1 DEF Covers
<1>3. promised <= promised'
  BY SeamStep
<1>4. PICK u \in Seq(Records) : b = a \o u \/ a = b \o u
  BY SeamStep
<1> HIDE DEF a, b
<1>5. Len(a) \in Nat /\ Len(b) \in Nat
  BY <1>1, <1>2
<1>6. promised' \in promised .. Len(b)
  BY <1>1, <1>2, <1>3, <1>5
<1>7. CASE b = a \o u
  BY <1>1, <1>6, <1>7, PrefixOf DEF a, b
<1>8. CASE a = b \o u
  <2>1. IsPrefix(b, a) /\ Len(b) <= Len(a)
    BY <1>2, <1>8, PrefixOf
  <2>2. Len(b) \in promised .. Len(a)
    BY <1>1, <1>2, <1>3, <1>5, <2>1
  <2> QED BY <1>6, <2>1, <2>2 DEF a, b
<1> QED BY <1>4, <1>7, <1>8

\* What a resolved flush covered stays at the start of the log, whatever number
\* of crashes, failed writes, torn-tail repairs and closes follow: the handles
\* implement the durability the seam promises, as long as none is opened while
\* its predecessor has something left to write.
THEOREM HandlesImplementSeam == Spec /\ []CleanSuccession => DurabilityKept
<1>1. Init => Seam!Init
  <2> SUFFICES ASSUME Init PROVE Seam!Init
    OBVIOUS
  <2>1. 1 \in Handles
    BY HandleAssumption DEF Handles
  <2>2. Routed(opened) /\ live[opened] = <<>> /\ promised = 0
    BY <2>1 DEF Init, Routed
  <2> QED BY <2>2 DEF Seam!Init
<1>2. Inductive /\ Inductive' /\ CleanSuccession' /\ [Next]_vars
        => [Seam!Next]_<<IF Routed(opened) THEN live[opened] ELSE Stored, promised>>
  BY SeamImplemented DEF Seam!Next, Seam!Extend, Seam!Lose, accepted, IsPrefix, Seam!IsPrefix
<1> QED BY <1>1, <1>2, InductiveHolds, PTL DEF Spec, DurabilityKept, Seam!Spec
-----------------------------------------------------------------------------
(***************************************************************************)
(* What a close leaves.                                                    *)
(***************************************************************************)
PausedTyped == paused \in [Handles -> BOOLEAN]

LEMMA PausedStep ==
  ASSUME PausedTyped, [Next]_vars
  PROVE  PausedTyped'
<1> USE DEF PausedTyped, queue, Set
<1>1. ASSUME NEW h \in Handles, DrainLive(h) PROVE PausedTyped'
  BY <1>1 DEF DrainLive
<1>2. ASSUME NEW h \in Handles, TimerFires(h) \/ Close(h) \/ Closing(h) PROVE PausedTyped'
  BY <1>1, <1>2 DEF TimerFires, Close, Closing, ClosePass, Settled, Release
<1>3. ASSUME NEW h \in Handles, NEW c \in Callers, FlushCall(c, h) PROVE PausedTyped'
  BY <1>1, <1>3 DEF FlushCall
<1>4. ASSUME NEW h \in Handles, Publish(h) \/ Storage(h) \/ Crash(h) PROVE PausedTyped'
  <2>1. CASE Publish(h)
    BY <2>1 DEF Publish
  <2>2. CASE Capture(h) \/ AcquireLease(h) \/ Truncate(h) \/ Rewrite(h) \/ Write(h)
    BY <2>2 DEF Capture, AcquireLease, Truncate, Rewrite, Write, Proceed
  <2>3. CASE MutationFails(h)
    BY <2>3 DEF MutationFails
  <2>4. CASE Crash(h)
    <3>1. paused' = Set(paused, h, FALSE)
      BY <2>4 DEF Crash
    <3> QED BY <3>1
  <2> QED BY <1>4, <2>1, <2>2, <2>3, <2>4 DEF Storage
<1>5. ASSUME NEW c \in Callers, Barrier(c) PROVE PausedTyped'
  BY <1>5 DEF Barrier
<1>6. CASE Open
  BY <1>6 DEF Open
<1>7. CASE UNCHANGED vars
  BY <1>7 DEF vars
<1>8. ASSUME NEW h \in Handles, Cleared(h) PROVE PausedTyped'
  BY <1>8 DEF Cleared
<1> QED BY <1>2, <1>3, <1>4, <1>5, <1>6, <1>7, <1>8 DEF Next

\* The passes of a close end only when nothing is left to write: then all that
\* was published can be read from the disk.
LEMMA Drained ==
  ASSUME Inductive, NEW h \in Handles, st[h] = "draining", ~drain[h], stage[h] = "none",
         buffered[h] = <<>>
  PROVE  Stored = live[h]
<1>1. h = opened /\ Live /\ Typed
  BY Actor DEF Inductive, InUse
<1>2. batch[h] = <<>> /\ (~state[h].tornSeen => state[h].recovered = <<>>)
  BY <1>1 DEF Inductive, Chained
<1>3. salvage = state[h].recovered
  BY <1>1, <1>2 DEF Inductive, TornKnown, Typed
<1>4. state[h].recovered \in Seq(Records) /\ <<>> \o <<>> = <<>>
  BY <1>1, Typing
<1>5. state[h].recovered \o <<>> = state[h].recovered
  BY <1>4, ConcatEmptySeq
<1> QED BY <1>1, <1>2, <1>3, <1>4, <1>5, InOneList DEF Stored

LEMMA CloseDrainsStep ==
  ASSUME Inductive, PausedTyped, [Next]_vars,
         NEW h \in Handles, st[h] = "draining", st'[h] = "settling", ~paused'[h]
  PROVE  Stored = live[h]
<1> USE DEF disk, queue, chain
<1>1. h = opened /\ st \in [Handles -> States] /\ Typed
  BY Actor DEF Inductive, InUse, Typed
<1>2. ASSUME NEW k \in Handles, ClosePass(k)
      PROVE  Stored = live[h]
  <2>1. k = h
    BY <1>1, <1>2, Actor DEF Inductive, InUse, ClosePass
  <2> QED BY <1>2, <2>1, Drained DEF ClosePass
<1>3. ASSUME NEW k \in Handles, MutationFails(k)
      PROVE  FALSE
  <2>1. k = h
    BY <1>1, <1>3, Actor DEF Inductive, Holds, MutationFails
  <2> QED BY <1>3, <2>1 DEF MutationFails, PausedTyped, Set
<1>4. ASSUME st' = st \/ \E k \in Handles, to \in {"open", "draining", "releasing", "closed", "dead"} :
                           st' = Set(st, k, to)
      PROVE  FALSE
  BY <1>1, <1>4 DEF Set
<1>5. ASSUME NEW k \in Handles, Publish(k) \/ TimerFires(k) \/ Capture(k) \/ AcquireLease(k)
                                \/ Truncate(k) \/ Rewrite(k) \/ Write(k) \/ Cleared(k)
      PROVE  FALSE
  <2>1. st' = st
    BY <1>5 DEF Publish, TimerFires, Capture, AcquireLease, Truncate, Rewrite, Write, Proceed,
      Cleared
  <2> QED BY <1>4, <2>1
<1>6. ASSUME NEW k \in Handles, NEW c \in Callers, FlushCall(c, k) PROVE FALSE
  BY <1>4, <1>6 DEF FlushCall
<1>7. ASSUME NEW k \in Handles, Settled(k) \/ Release(k) \/ Crash(k) PROVE FALSE
  <2>1. st' = st \/ \E to \in {"open", "draining", "releasing", "closed", "dead"} :
                      st' = Set(st, k, to)
    BY <1>7 DEF Settled, Release, Crash
  <2> QED BY <1>4, <2>1
<1>14. ASSUME NEW k \in Handles, Close(k) PROVE FALSE
  BY <1>1, <1>14 DEF Close, Set
<1>8. ASSUME NEW c \in Callers, Barrier(c) PROVE FALSE
  BY <1>4, <1>8 DEF Barrier
<1>9. ASSUME Open PROVE FALSE
  <2>1. opened + 1 \in Handles /\ st' = Set(st, opened + 1, "open")
    BY <1>9 DEF Open
  <2> QED BY <1>4, <2>1
<1>10. ASSUME UNCHANGED vars PROVE FALSE
  BY <1>4, <1>10 DEF vars
<1>11. PICK k \in Handles :
         \/ Publish(k) \/ TimerFires(k) \/ Storage(k) \/ Cleared(k)
         \/ Close(k) \/ Closing(k) \/ Crash(k)
         \/ \E c \in Callers : FlushCall(c, k)
  BY <1>8, <1>9, <1>10 DEF Next
<1>12. Storage(k) \/ Closing(k)
  BY <1>5, <1>6, <1>7, <1>11, <1>14, Zenon
<1>13. MutationFails(k) \/ ClosePass(k)
  BY <1>5, <1>7, <1>12, Zenon DEF Storage, Closing
<1> QED BY <1>2, <1>3, <1>13

\* close() goes on to release its lock, unless a drain failed, only with
\* everything its session published on disk, where a reader finds it: of the
\* records of a torn tail too, those the handle has not yet rewritten can be read.
THEOREM CloseAlwaysDrains == Spec /\ []CleanSuccession => CloseDrains
<1>1. Init => PausedTyped
  BY DEF Init, PausedTyped
<1>2. PausedTyped /\ [Next]_vars => PausedTyped'
  BY PausedStep
<1>3. Spec => []PausedTyped
  BY <1>1, <1>2, PTL DEF Spec
<1>4. Inductive /\ PausedTyped /\ [Next]_vars =>
        [\A h \in Handles :
           st[h] = "draining" /\ st'[h] = "settling" /\ ~paused'[h] => Stored = live[h]]_vars
  BY CloseDrainsStep
<1> QED BY <1>3, <1>4, InductiveHolds, PTL DEF Spec, CloseDrains

-----------------------------------------------------------------------------
(***************************************************************************)
(* Where the hypotheses come from.                                         *)
(***************************************************************************)
Unclosed == st \in [Handles -> {"unopened", "open", "dead"}]

LEMMA UnclosedStep ==
  ASSUME "closes" \notin Hazards, Unclosed, [Next]_vars
  PROVE  Unclosed'
<1> USE DEF Unclosed
<1>1. ASSUME st' = st \/ \E k \in Handles, to \in {"open", "dead"} : st' = Set(st, k, to)
      PROVE  Unclosed'
  BY <1>1 DEF Set
<1>2. ASSUME NEW k \in Handles, Publish(k) \/ TimerFires(k) \/ Storage(k) \/ Crash(k)
      PROVE  Unclosed'
  <2>1. CASE MutationFails(k)
    <3>1. st' = st
      BY <2>1 DEF MutationFails, Set
    <3> QED BY <3>1, <1>1
  <2>2. CASE Crash(k)
    <3>1. st' = Set(st, k, "dead")
      BY <2>2 DEF Crash
    <3> QED BY <1>1, <3>1
  <2>3. CASE Publish(k) \/ TimerFires(k) \/ Capture(k) \/ AcquireLease(k)
             \/ Truncate(k) \/ Rewrite(k) \/ Write(k)
    <3>1. st' = st
      BY <2>3 DEF Publish, TimerFires, Capture, AcquireLease, Truncate, Rewrite, Write, Proceed
    <3> QED BY <1>1, <3>1
  <2> QED BY <1>2, <2>1, <2>2, <2>3, Zenon DEF Storage
<1>3. ASSUME NEW k \in Handles, NEW c \in Callers, FlushCall(c, k) PROVE Unclosed'
  BY <1>1, <1>3 DEF FlushCall
<1>4. ASSUME NEW k \in Handles, Close(k) \/ Closing(k) PROVE FALSE
  BY <1>4 DEF Close, Closing, ClosePass, Settled, Release
<1>5. ASSUME NEW c \in Callers, Barrier(c) PROVE Unclosed'
  BY <1>1, <1>5 DEF Barrier
<1>6. ASSUME Open PROVE Unclosed'
  <2>1. opened + 1 \in Handles /\ st' = Set(st, opened + 1, "open")
    BY <1>6 DEF Open
  <2> QED BY <1>1, <2>1
<1>7. ASSUME UNCHANGED vars PROVE Unclosed'
  BY <1>1, <1>7 DEF vars
<1>8. ASSUME NEW k \in Handles, Cleared(k) PROVE Unclosed'
  BY <1>1, <1>8 DEF Cleared
<1> QED BY <1>2, <1>3, <1>4, <1>5, <1>6, <1>7, <1>8 DEF Next

\* Where no handle is closed and handles end by the death of their process,
\* both hypotheses hold, and the theorems above have none.
THEOREM CleanWithoutCloses ==
  "closes" \notin Hazards => (Spec => []CleanRelease /\ []CleanSuccession)
<1> SUFFICES ASSUME "closes" \notin Hazards
             PROVE  Spec => []CleanRelease /\ []CleanSuccession
  OBVIOUS
<1>1. Init => Unclosed
  BY DEF Init, Unclosed
<1>2. Unclosed /\ [Next]_vars => Unclosed'
  BY UnclosedStep
<1>3. Unclosed => CleanRelease /\ CleanSuccession
  BY DEF Unclosed, CleanRelease, CleanSuccession, LeavesNothing
<1> QED BY <1>1, <1>2, <1>3, PTL DEF Spec

LEMMA OpenedStep ==
  ASSUME opened \in Handles, [Next]_vars
  PROVE  opened' \in Handles
<1> USE DEF disk, queue, chain
<1>1. ASSUME NEW h \in Handles,
             \/ Publish(h) \/ TimerFires(h) \/ Cleared(h)
             \/ Close(h) \/ Closing(h) \/ Crash(h)
      PROVE  opened' = opened
  BY <1>1 DEF Publish, TimerFires, Cleared, Close, Closing, ClosePass, Settled, Release, Crash
<1>2. ASSUME NEW h \in Handles, Storage(h) PROVE opened' = opened
  BY <1>2 DEF Storage, Capture, AcquireLease, Truncate, Rewrite, Write, MutationFails, Proceed
<1>3. ASSUME NEW h \in Handles, NEW c \in Callers, FlushCall(c, h) PROVE opened' = opened
  BY <1>3 DEF FlushCall
<1>4. ASSUME NEW c \in Callers, Barrier(c) PROVE opened' = opened
  BY <1>4 DEF Barrier
<1>5. ASSUME Open PROVE opened' \in Handles
  BY <1>5 DEF Open
<1>6. ASSUME UNCHANGED vars PROVE opened' = opened
  BY <1>6 DEF vars
<1>7. ASSUME NEW h \in Handles,
             \/ Publish(h) \/ TimerFires(h) \/ Storage(h) \/ Cleared(h)
             \/ Close(h) \/ Closing(h) \/ Crash(h)
             \/ \E c \in Callers : FlushCall(c, h)
      PROVE  opened' = opened
  BY <1>1, <1>2, <1>3, <1>7, Zenon
<1> QED BY <1>4, <1>5, <1>6, <1>7 DEF Next

\* A log with one handle has no succession: what is proved of a close, of the
\* buffers and of the seam holds for it whatever fails, dies or comes late.
THEOREM CleanWithOneHandle == MaxHandles = 1 => (Spec => []CleanSuccession)
<1> SUFFICES ASSUME MaxHandles = 1 PROVE Spec => []CleanSuccession
  OBVIOUS
<1>1. Init => opened \in Handles
  BY HandleAssumption DEF Init, HandleAssumption, Handles
<1>2. opened \in Handles /\ [Next]_vars => (opened \in Handles)'
  BY OpenedStep
<1>3. opened \in Handles => CleanSuccession
  BY DEF Handles, CleanSuccession
<1> QED BY <1>1, <1>2, <1>3, PTL DEF Spec

-----------------------------------------------------------------------------
(***************************************************************************)
(* A session whose storage calls succeed.                                  *)
(***************************************************************************)
\* Events are numbered without a gap, in the log of the session and, after a
\* death, in the stored one.
Numbered ==
  /\ Live => \A i \in DOMAIN live[opened] : live[opened][i][2] = i
  /\ ~Live => \A i \in DOMAIN Stored : Stored[i][2] = i

\* What stands behind the records on disk continues their numbers.
LEMMA Continues ==
  ASSUME NEW s \in Seq(Records), NEW u \in Seq(Records),
         \A i \in DOMAIN (s \o u) : (s \o u)[i][2] = i
  PROVE  /\ \A i \in DOMAIN s : s[i][2] = i
         /\ \A i \in DOMAIN u : u[i][2] = Len(s) + i
<1>1. /\ Len(s \o u) = Len(s) + Len(u) /\ Len(s) \in Nat /\ Len(u) \in Nat
      /\ DOMAIN s = 1 .. Len(s) /\ DOMAIN u = 1 .. Len(u)
      /\ DOMAIN (s \o u) = 1 .. Len(s) + Len(u)
  BY ConcatProperties
<1>2. ASSUME NEW i \in 1 .. Len(s) PROVE s[i][2] = i
  <2>1. i \in DOMAIN (s \o u) /\ (s \o u)[i] = s[i]
    BY <1>1
  <2> QED BY <2>1
<1>3. ASSUME NEW i \in 1 .. Len(u) PROVE u[i][2] = Len(s) + i
  <2>1. Len(s) + i \in DOMAIN (s \o u) /\ (s \o u)[Len(s) + i] = u[i]
    BY <1>1
  <2> QED BY <2>1
<1> QED BY <1>1, <1>2, <1>3

\* The stored log of a handle that lives is numbered too.
LEMMA StoredNumbered ==
  ASSUME Inductive, Numbered
  PROVE  \A i \in DOMAIN Stored : Stored[i][2] = i
<1> DEFINE s == Stored
<1>1. s \in Seq(Records)
  BY ConcatProperties DEF Stored, Inductive, Typed
<1>2. CASE Live
  <2>1. PICK u \in Seq(Records) : live[opened] = s \o u
    BY <1>2, StoredPrefix
  <2>2. \A i \in DOMAIN live[opened] : live[opened][i][2] = i
    BY <1>2 DEF Numbered
  <2> HIDE DEF s
  <2>3. \A i \in DOMAIN s : s[i][2] = i
    BY <1>1, <2>1, <2>2, Continues
  <2> QED BY <2>3 DEF s
<1>3. CASE ~Live
  BY <1>3 DEF Numbered
<1> QED BY <1>2, <1>3

LEMMA NumberedKept ==
  ASSUME Numbered, UNCHANGED <<opened, live>>, Live' = Live,
         Live \/ UNCHANGED <<file, salvage>>
  PROVE  Numbered'
<1>1. CASE Live
  BY <1>1 DEF Numbered
<1>2. CASE ~Live
  <2>1. Stored' = Stored
    BY <1>2 DEF Stored
  <2> QED BY <1>2, <2>1 DEF Numbered
<1> QED BY <1>1, <1>2

LEMMA NumberedStep ==
  ASSUME Inductive, Numbered, CleanSuccession', [Next]_vars
  PROVE  Numbered'
<1> USE DEF disk, queue, chain
<1>1. Typed /\ opened \in Handles /\ st \in [Handles -> States]
  BY DEF Inductive, Typed
<1>2. ASSUME NEW h \in Handles, Publish(h) PROVE Numbered'
  <2>1. h = opened /\ Live
    BY <1>2, PublishStep
  <2> DEFINE l == live[h]
             event == <<h, Len(l) + 1>>
  <2>2. l \in Seq(Records) /\ live \in [Handles -> Seq(Records)] /\ Len(l) \in Nat
    <3>1. live \in [Handles -> Seq(Records)]
      BY <1>1 DEF Typed
    <3>2. l \in Seq(Records)
      BY <3>1
    <3> QED BY <3>1, <3>2
  <2>3. live' = [live EXCEPT ![h] = Append(l, event)] /\ UNCHANGED <<opened, st>>
    BY <1>2 DEF Publish
  <2>4. event \in Records /\ event[2] = Len(l) + 1
    BY <2>2 DEF Records
  <2>5. \A i \in DOMAIN l : l[i][2] = i
    BY <2>1 DEF Numbered
  <2> HIDE DEF l, event
  <2>6. \A i \in DOMAIN Append(l, event) : Append(l, event)[i][2] = i
    BY <2>2, <2>4, <2>5
  <2>7. live'[opened'] = Append(l, event) /\ Live'
    BY <2>1, <2>2, <2>3 DEF Live, Runs
  <2> QED BY <2>6, <2>7 DEF Numbered
<1>3. ASSUME UNCHANGED <<file, salvage, opened, live, st>> PROVE Numbered'
  <2>1. Live' = Live
    BY <1>3 DEF Live, Runs
  <2> QED BY <1>3, <2>1, NumberedKept
<1>4. ASSUME NEW h \in Handles, Storage(h) PROVE Numbered'
  <2>1. Live /\ UNCHANGED <<opened, live>>
    BY <1>1, <1>4, Actor DEF Inductive, Storage, Capture, AcquireLease, Truncate, Rewrite,
      Write, MutationFails, Holds, Proceed
  <2>2. st' = st \/ st' = Set(st, h, "settling")
    <3>1. CASE MutationFails(h)
      BY <1>1, <3>1 DEF MutationFails, Set
    <3> QED BY <1>4, <3>1 DEF Storage, Capture, AcquireLease, Truncate, Rewrite, Write, Proceed
  <2>3. Live'
    BY <1>1, <2>1, <2>2 DEF Live, Runs, Set
  <2> QED BY <2>1, <2>3, NumberedKept
<1>5. ASSUME NEW h \in Handles, Close(h) \/ Closing(h) PROVE Numbered'
  <2>1. UNCHANGED <<file, salvage, opened, live>>
    BY <1>5 DEF Close, Closing, ClosePass, Settled, Release
  <2>2. /\ st[h] \notin {"unopened", "dead"}
        /\ st' = st \/ \E to \in {"draining", "settling", "releasing", "closed"} : st' = Set(st, h, to)
    BY <1>5 DEF Close, Closing, ClosePass, Settled, Release
  <2>3. Live' = Live
    BY <1>1, <2>1, <2>2 DEF Live, Runs, Set
  <2> QED BY <2>1, <2>3, NumberedKept
<1>6. ASSUME NEW h \in Handles,
             TimerFires(h) \/ Cleared(h) \/ \E c \in Callers : FlushCall(c, h)
      PROVE  Numbered'
  <2>1. CASE \E c \in Callers : FlushCall(c, h)
    BY <1>3, <2>1 DEF FlushCall
  <2> QED BY <1>3, <1>6, <2>1 DEF TimerFires, Cleared
<1>7. ASSUME NEW c \in Callers, Barrier(c) PROVE Numbered'
  BY <1>3, <1>7 DEF Barrier
<1>8. ASSUME NEW h \in Handles, Crash(h) PROVE Numbered'
  <2>1. CASE h = opened
    <3>1. Live /\ ~Live' /\ \E u \in Seq(Records) : live[opened] = Stored' \o u
      BY <1>8, <2>1, CrashStep
    <3>2. Stored' \in Seq(Records)
      <4>1. file' \in Seq(Records) /\ salvage' \in Seq(Records)
        BY <1>8, <2>1, DeathLeaves
      <4> QED BY <4>1, ConcatProperties DEF Stored
    <3> DEFINE s == Stored'
    <3>3. PICK u \in Seq(Records) : live[opened] = s \o u
      BY <3>1
    <3>4. \A i \in DOMAIN live[opened] : live[opened][i][2] = i
      BY <3>1 DEF Numbered
    <3>5. s \in Seq(Records)
      BY <3>2
    <3> HIDE DEF s
    <3>6. \A i \in DOMAIN s : s[i][2] = i
      BY <3>3, <3>4, <3>5, Continues
    <3> QED BY <3>1, <3>6 DEF Numbered, s
  <2>2. CASE h # opened
    <3>1. UNCHANGED <<disk, opened, live, promised>> /\ st'[opened] = st[opened]
      BY <1>8, <2>2, EarlierCrashStep
    <3>2. Live' = Live
      BY <3>1 DEF Live, Runs
    <3> QED BY <3>1, <3>2, NumberedKept
  <2> QED BY <2>1, <2>2
<1>9. ASSUME Open PROVE Numbered'
  <2>1. Routed(opened)' /\ live'[opened'] = Stored
    BY <1>9, OpenStep
  <2>2. Live'
    BY <2>1 DEF Routed, Live, Runs
  <2>3. \A i \in DOMAIN live'[opened'] : live'[opened'][i][2] = i
    BY <2>1, StoredNumbered
  <2> QED BY <2>2, <2>3 DEF Numbered
<1>10. ASSUME UNCHANGED vars PROVE Numbered'
  BY <1>3, <1>10 DEF vars
<1>11. ASSUME NEW h \in Handles,
              \/ Publish(h) \/ TimerFires(h) \/ Storage(h) \/ Cleared(h)
              \/ Close(h) \/ Closing(h) \/ Crash(h)
              \/ \E c \in Callers : FlushCall(c, h)
       PROVE  Numbered'
  BY <1>2, <1>4, <1>5, <1>6, <1>8, <1>11, Zenon
<1> QED BY <1>7, <1>9, <1>10, <1>11 DEF Next

\* The batch a drain captures continues what is on disk.
LEMMA CapturesContiguous ==
  ASSUME Inductive, Numbered, NEW h \in Handles, h = opened, Live, stage[h] = "none"
  PROVE  Contiguous(h, buffered[h])
<1> DEFINE s == file \o state[h].recovered
           u == buffered[h]
<1>1. Typed /\ batch[h] = <<>>
  BY DEF Inductive, Chained
<1>2. s \in Seq(Records) /\ u \in Seq(Records) /\ state[h].cursor = Len(s)
  <2>1. file \in Seq(Records) /\ state[h].recovered \in Seq(Records) /\ u \in Seq(Records)
    BY <1>1, Typing
  <2> QED BY <2>1, ConcatProperties DEF Inductive, Balanced
<1>3. live[h] = s \o u
  <2>1. live[h] = (s \o <<>>) \o u
    BY <1>1 DEF Inductive, Balanced
  <2> HIDE DEF s, u
  <2>2. s \o <<>> = s
    BY <1>2, ConcatEmptySeq
  <2> QED BY <2>1, <2>2
<1>4. \A i \in DOMAIN live[h] : live[h][i][2] = i
  BY DEF Numbered
<1> HIDE DEF s, u
<1>5. \A i \in DOMAIN u : u[i][2] = Len(s) + i
  BY <1>2, <1>3, <1>4, Continues
<1> QED BY <1>2, <1>5 DEF Contiguous, u

Unrefused == \A h \in Handles : stage[h] # "refused"

LEMMA NextStageIs ==
  ASSUME NEW s PROVE NextStage(s) \in {"lease", "truncate", "rewrite", "write"}
BY DEF NextStage

LEMMA UnrefusedStep ==
  ASSUME Inductive, Numbered, Unrefused, [Next]_vars
  PROVE  Unrefused'
<1> USE DEF disk, queue, chain
<1>1. Typed /\ stage \in [Handles -> Stages]
  BY DEF Inductive, Typed
<1>2. ASSUME UNCHANGED stage PROVE Unrefused'
  BY <1>2 DEF Unrefused
<1>3. ASSUME NEW h \in Handles, NEW to \in Stages \ {"refused"}, stage' = Set(stage, h, to)
      PROVE  Unrefused'
  BY <1>1, <1>3 DEF Unrefused, Set
<1>4. ASSUME NEW h \in Handles, Storage(h) PROVE Unrefused'
  <2>1. CASE Capture(h)
    <3>1. h = opened /\ Live /\ stage[h] = "none"
      BY <2>1, Actor DEF Inductive, Capture, Holds
    <3>2. Contiguous(h, buffered[h])
      BY <3>1, CapturesContiguous
    <3>3. stage' = Set(stage, h, NextStage(state[h]))
      BY <2>1, <3>2 DEF Capture
    <3> QED BY <1>3, <3>3, NextStageIs DEF Stages
  <2>2. CASE AcquireLease(h) \/ Truncate(h) \/ Rewrite(h)
    <3>1. \E s : stage' = Set(stage, h, NextStage(s))
      BY <2>2 DEF AcquireLease, Truncate, Rewrite, Proceed
    <3> QED BY <1>3, <3>1, NextStageIs DEF Stages
  <2>3. CASE Write(h) \/ MutationFails(h)
    <3>1. stage' = Set(stage, h, "none")
      BY <2>3 DEF Write, MutationFails
    <3> QED BY <1>3, <3>1 DEF Stages
  <2> QED BY <1>4, <2>1, <2>2, <2>3, Zenon DEF Storage
<1>5. ASSUME NEW h \in Handles, Close(h) \/ Closing(h) PROVE Unrefused'
  BY <1>2, <1>5 DEF Close, Closing, ClosePass, Settled, Release
<1>6. ASSUME NEW h \in Handles,
             \/ Publish(h) \/ TimerFires(h) \/ Cleared(h)
             \/ \E c \in Callers : FlushCall(c, h)
      PROVE  Unrefused'
  <2>1. CASE \E c \in Callers : FlushCall(c, h)
    BY <1>2, <2>1 DEF FlushCall
  <2> QED BY <1>2, <1>6, <2>1 DEF TimerFires, Publish, Cleared
<1>7. ASSUME NEW c \in Callers, Barrier(c) PROVE Unrefused'
  BY <1>2, <1>7 DEF Barrier
<1>8. ASSUME NEW h \in Handles, Crash(h) PROVE Unrefused'
  <2>1. stage' = Set(stage, h, "none")
    BY <1>8 DEF Crash
  <2> QED BY <1>3, <2>1 DEF Stages
<1>9. ASSUME Open PROVE Unrefused'
  BY <1>2, <1>9 DEF Open
<1>10. ASSUME UNCHANGED vars PROVE Unrefused'
  BY <1>2, <1>10 DEF vars
<1>11. ASSUME NEW h \in Handles,
              \/ Publish(h) \/ TimerFires(h) \/ Storage(h) \/ Cleared(h)
              \/ Close(h) \/ Closing(h) \/ Crash(h)
              \/ \E c \in Callers : FlushCall(c, h)
       PROVE  Unrefused'
  BY <1>4, <1>5, <1>6, <1>8, <1>11, Zenon
<1> QED BY <1>7, <1>9, <1>10, <1>11 DEF Next

LEMMA NumberedInit == Init => Numbered /\ Unrefused
<1> SUFFICES ASSUME Init PROVE Numbered /\ Unrefused
  OBVIOUS
<1>1. 1 \in Handles
  BY HandleAssumption DEF HandleAssumption, Handles
<1>2. Live /\ live[opened] = <<>> /\ \A h \in Handles : stage[h] = "none"
  BY <1>1 DEF Init, Live, Runs
<1> QED BY <1>2 DEF Numbered, Unrefused

\* The contiguity check of the mutation chain never rejects a batch, however
\* many failed, interrupted and repaired writes came before it.
THEOREM NeverRefused == Spec /\ []CleanSuccession => []Unrefused
<1>1. Inductive /\ Numbered /\ CleanSuccession' /\ [Next]_vars => Numbered'
  BY NumberedStep
<1>2. Inductive /\ Numbered /\ Unrefused /\ [Next]_vars => Unrefused'
  BY UnrefusedStep
<1> QED BY <1>1, <1>2, NumberedInit, InductiveHolds, PTL DEF Spec

Ending == {"settling", "releasing", "closed"}

\* A handle whose close drained it has nothing left to write.
Quiet == \A h \in Handles : st[h] \in Ending => ~Holds(h)

\* Nothing of what a handle that was drained holds has come back.
LEMMA QuietKept ==
  ASSUME Quiet,
         \A k \in Handles : st'[k] \in Ending =>
           /\ st[k] \in Ending
           /\ buffered'[k] = buffered[k] /\ batch'[k] = batch[k]
           /\ stage'[k] = stage[k] /\ drain'[k] = drain[k]
  PROVE  Quiet'
BY DEF Quiet, Holds

\* A mutation cannot fail where storage calls do not: the lock is free when it
\* is asked for, and the batch continues what is on disk.
LEMMA NothingFails ==
  ASSUME Inductive, Unrefused, "fails" \notin Hazards, NEW h \in Handles, MutationFails(h)
  PROVE  FALSE
<1>1. h = opened /\ Live
  BY Actor DEF Inductive, MutationFails, Holds
<1>2. stage[h] = "lease" /\ owner # NoOwner
  BY <1>1 DEF MutationFails, Unrefused
<1> QED BY <1>1, <1>2 DEF Inductive, Chained, Locked

\* No drain has failed.
Unfailed == ending \in [Handles -> {"no", "done"}]

LEMMA UnfailedStep ==
  ASSUME Inductive, Unrefused, Unfailed, "fails" \notin Hazards, [Next]_vars
  PROVE  Unfailed'
<1> USE DEF queue, Unfailed
<1>1. ASSUME ending' = ending \/ \E k \in Handles, to \in {"no", "done"} : ending' = Set(ending, k, to)
      PROVE  Unfailed'
  BY <1>1 DEF Set
<1>2. ASSUME NEW h \in Handles, DrainLive(h) PROVE Unfailed'
  BY <1>2 DEF DrainLive, Set
<1>3. ASSUME NEW h \in Handles, TimerFires(h) \/ Close(h) \/ Closing(h) PROVE Unfailed'
  BY <1>1, <1>2, <1>3 DEF TimerFires, Close, Closing, ClosePass, Settled, Release
<1>4. ASSUME NEW h \in Handles, NEW c \in Callers, FlushCall(c, h) PROVE Unfailed'
  BY <1>2, <1>4 DEF FlushCall
<1>5. ASSUME NEW h \in Handles, Publish(h) \/ Cleared(h) \/ Crash(h) PROVE Unfailed'
  <2>1. ending' = ending \/ ending' = Set(ending, h, "no")
    BY <1>5 DEF Publish, Cleared, Crash
  <2> QED BY <1>1, <2>1
<1>6. ASSUME NEW h \in Handles, Storage(h) PROVE Unfailed'
  <2>1. ~MutationFails(h)
    BY NothingFails
  <2>2. ending' = ending \/ ending' = Set(ending, h, "done")
    BY <1>6, <2>1 DEF Storage, Capture, AcquireLease, Truncate, Rewrite, Write, Proceed
  <2> QED BY <1>1, <2>2
<1>7. ASSUME (\E c \in Callers : Barrier(c)) \/ Open \/ UNCHANGED vars PROVE Unfailed'
  BY <1>1, <1>7 DEF Barrier, Open, vars
<1>8. ASSUME NEW h \in Handles,
             \/ Publish(h) \/ TimerFires(h) \/ Storage(h) \/ Cleared(h)
             \/ Close(h) \/ Closing(h) \/ Crash(h)
             \/ \E c \in Callers : FlushCall(c, h)
      PROVE  Unfailed'
  BY <1>3, <1>4, <1>5, <1>6, <1>8, Zenon
<1> QED BY <1>7, <1>8 DEF Next

\* Draining a handle that holds nothing does nothing.
LEMMA QuietDrain ==
  ASSUME Inductive, Quiet, NEW h \in Handles, DrainLive(h),
         UNCHANGED <<st, buffered, chain>>
  PROVE  Quiet'
<1> USE DEF chain
<1>1. drain \in [Handles -> BOOLEAN] /\ (drain' = drain \/ drain' = Set(drain, h, buffered[h] # <<>>))
  BY DEF DrainLive, Inductive, Typed
<1>2. ASSUME NEW k \in Handles, st[k] \in Ending
      PROVE  drain'[k] = drain[k]
  <2>1. buffered[k] = <<>> /\ drain[k] = FALSE
    BY <1>1, <1>2 DEF Quiet, Holds
  <2> QED BY <1>1, <2>1 DEF Set
<1> QED BY <1>2, QuietKept

LEMMA QuietKeptStep ==
  ASSUME Inductive, Unrefused, Quiet, Unfailed, {"fails", "late"} \cap Hazards = {}, [Next]_vars
  PROVE  Quiet'
<1> USE DEF disk, queue, chain
<1>1. /\ Typed /\ st \in [Handles -> States] /\ stage \in [Handles -> Stages]
      /\ buffered \in [Handles -> Seq(Records)] /\ batch \in [Handles -> Seq(Records)]
      /\ drain \in [Handles -> BOOLEAN] /\ "fails" \notin Hazards /\ "late" \notin Hazards
  BY DEF Inductive, Typed
<1>2. ASSUME UNCHANGED <<st, buffered, drain, stage, batch>> PROVE Quiet'
  BY <1>2, QuietKept
<1>3. ASSUME NEW h \in Handles, Publish(h) PROVE Quiet'
  <2>1. st[h] = "open" /\ st' = st
    BY <1>1, <1>3 DEF Publish
  <2>2. UNCHANGED <<drain, stage, batch>>
    BY <1>3 DEF Publish
  <2>3. \A k \in Handles : k # h => buffered'[k] = buffered[k]
    BY <1>1, <1>3 DEF Publish
  <2>4. ASSUME NEW k \in Handles, st'[k] \in Ending PROVE k # h /\ st[k] \in Ending
    BY <2>1, <2>4 DEF Ending
  <2> QED BY <2>2, <2>3, <2>4, QuietKept
<1>4. ASSUME NEW h \in Handles, Storage(h) PROVE Quiet'
  <2>1. ~MutationFails(h)
    BY <1>1, NothingFails
  <2>2. Capture(h) \/ AcquireLease(h) \/ Truncate(h) \/ Rewrite(h) \/ Write(h)
    BY <1>4, <2>1 DEF Storage
  <2>3. Holds(h) /\ st' = st
    BY <2>2 DEF Capture, AcquireLease, Truncate, Rewrite, Write, Proceed, Holds
  <2>4. \A k \in Handles : k # h => /\ buffered'[k] = buffered[k] /\ batch'[k] = batch[k]
                                    /\ stage'[k] = stage[k] /\ drain'[k] = drain[k]
    <3>1. CASE Capture(h)
      BY <1>1, <3>1 DEF Capture, Set
    <3>2. CASE AcquireLease(h) \/ Truncate(h) \/ Rewrite(h)
      BY <1>1, <3>2 DEF AcquireLease, Truncate, Rewrite, Proceed, Set
    <3>3. CASE Write(h)
      BY <1>1, <3>3 DEF Write, Set
    <3> QED BY <2>2, <3>1, <3>2, <3>3
  <2>5. ASSUME NEW k \in Handles, st'[k] \in Ending PROVE k # h /\ st[k] \in Ending
    BY <2>3, <2>5 DEF Quiet
  <2> QED BY <2>4, <2>5, QuietKept
<1>5. ASSUME NEW h \in Handles, Close(h) \/ ClosePass(h) PROVE Quiet'
  <2>1. /\ h = opened /\ Live /\ st[h] \in {"open", "draining"}
        /\ UNCHANGED <<buffered, stage, batch>>
    BY <1>1, <1>5, Actor DEF Inductive, InUse, Close, ClosePass
  <2>2. \A k \in Handles : k # h => drain'[k] = drain[k]
    BY <1>1, <1>5 DEF Close, ClosePass, DrainLive, Set
  <2>3. \A k \in Handles : k # h => st'[k] = st[k]
    BY <1>1, <1>5 DEF Close, ClosePass, Set
  <2>4. st'[h] \in Ending => ~Holds(h)'
    <3> SUFFICES ASSUME st'[h] \in Ending PROVE ~Holds(h)'
      OBVIOUS
    <3>1. ClosePass(h) /\ buffered[h] = <<>>
      <4>1. ending[h] # "failed"
        BY DEF Unfailed
      <4>2. ~Close(h)
        BY <1>1, <4>1 DEF Close, Set, Ending
      <4> QED BY <1>1, <1>5, <4>2 DEF ClosePass, Set, Ending
    <3>2. stage[h] = "none" /\ ~drain[h] /\ drain' = drain
      BY <3>1 DEF ClosePass
    <3>3. batch[h] = <<>>
      BY <2>1, <3>2 DEF Inductive, Chained
    <3> QED BY <2>1, <3>1, <3>2, <3>3 DEF Holds
  <2>5. ASSUME NEW k \in Handles, st'[k] \in Ending PROVE ~Holds(k)'
    <3>1. CASE k = h
      BY <2>4, <2>5, <3>1
    <3>2. CASE k # h
      BY <2>1, <2>2, <2>3, <2>5, <3>2 DEF Quiet, Holds
    <3> QED BY <3>1, <3>2
  <2> QED BY <2>5 DEF Quiet
<1>6. ASSUME NEW h \in Handles, Settled(h) \/ Release(h) PROVE Quiet'
  <2>1. /\ st[h] \in Ending /\ UNCHANGED <<buffered, drain, stage, batch>>
        /\ st' = st \/ \E to \in Ending : st' = Set(st, h, to)
    BY <1>6 DEF Settled, Release, Ending
  <2>2. \A k \in Handles : st'[k] \in Ending => st[k] \in Ending
    BY <1>1, <2>1 DEF Set
  <2> QED BY <2>1, <2>2, QuietKept
<1>7. ASSUME NEW h \in Handles,
             TimerFires(h) \/ Cleared(h) \/ \E c \in Callers : FlushCall(c, h)
      PROVE  Quiet'
  <2>1. UNCHANGED <<st, buffered, chain>> /\ (DrainLive(h) \/ drain' = drain)
    <3>1. CASE \E c \in Callers : FlushCall(c, h)
      BY <3>1 DEF FlushCall
    <3> QED BY <1>7, <3>1 DEF TimerFires, Cleared
  <2> QED BY <1>2, <2>1, QuietDrain
<1>8. ASSUME NEW c \in Callers, Barrier(c) PROVE Quiet'
  BY <1>2, <1>8 DEF Barrier
<1>9. ASSUME NEW h \in Handles, Crash(h) PROVE Quiet'
  <2>1. /\ st' = Set(st, h, "dead")
        /\ buffered' = Set(buffered, h, <<>>) /\ batch' = Set(batch, h, <<>>)
        /\ drain' = Set(drain, h, FALSE) /\ stage' = Set(stage, h, "none")
    BY <1>9 DEF Crash
  <2>2. \A k \in Handles :
          st'[k] \in Ending => k # h /\ st[k] \in Ending
    BY <1>1, <2>1 DEF Set, Ending
  <2>3. \A k \in Handles : k # h => /\ buffered'[k] = buffered[k] /\ batch'[k] = batch[k]
                                    /\ stage'[k] = stage[k] /\ drain'[k] = drain[k]
    BY <1>1, <2>1 DEF Set
  <2> QED BY <2>2, <2>3, QuietKept
<1>10. ASSUME Open PROVE Quiet'
  <2>1. /\ opened + 1 \in Handles /\ st' = Set(st, opened + 1, "open")
        /\ UNCHANGED <<buffered, drain, stage, batch>>
    BY <1>10 DEF Open
  <2>2. \A k \in Handles : st'[k] \in Ending => st[k] \in Ending
    BY <1>1, <2>1 DEF Set, Ending
  <2> QED BY <2>1, <2>2, QuietKept
<1>11. ASSUME UNCHANGED vars PROVE Quiet'
  BY <1>2, <1>11 DEF vars
<1>12. ASSUME NEW h \in Handles, Closing(h) PROVE Quiet'
  BY <1>5, <1>6, <1>12 DEF Closing
<1>13. ASSUME NEW h \in Handles,
              \/ Publish(h) \/ TimerFires(h) \/ Storage(h) \/ Cleared(h)
              \/ Close(h) \/ Closing(h) \/ Crash(h)
              \/ \E c \in Callers : FlushCall(c, h)
       PROVE  Quiet'
  BY <1>3, <1>4, <1>5, <1>7, <1>9, <1>12, <1>13, Zenon
<1> QED BY <1>8, <1>10, <1>11, <1>13 DEF Next

LEMMA QuietIsClean == Quiet => CleanRelease /\ CleanSuccession
BY DEF Quiet, Ending, Holds, CleanRelease, CleanSuccession, LeavesNothing

LEMMA QuietAfter == Quiet' => CleanSuccession'
BY QuietIsClean, PTL

\* Where storage calls succeed and no session publishes while its handle closes,
\* a close leaves nothing behind, whenever it comes and whatever processes die:
\* both hypotheses hold, and the theorems above have none.
THEOREM CleanWithoutFailures ==
  {"fails", "late"} \cap Hazards = {} => (Spec => []CleanRelease /\ []CleanSuccession)
<1> SUFFICES ASSUME {"fails", "late"} \cap Hazards = {}
             PROVE  Spec => []CleanRelease /\ []CleanSuccession
  OBVIOUS
<1> DEFINE Sound == Inductive /\ Numbered /\ Unrefused /\ Quiet /\ Unfailed
<1>1. Init => Sound
  <2>1. Init => Quiet /\ Unfailed
    BY DEF Init, Quiet, Ending, Unfailed
  <2> QED BY <2>1, InitHolds, HandleAssumption, NumberedInit
<1>2. Sound /\ [Next]_vars => Sound'
  <2> SUFFICES ASSUME Sound, [Next]_vars PROVE Sound'
    OBVIOUS
  <2>1. Quiet' /\ Unfailed'
    BY QuietKeptStep, UnfailedStep
  <2>2. Unrefused'
    BY UnrefusedStep
  <2>3. CleanSuccession'
    BY <2>1, QuietAfter
  <2> QED BY <2>1, <2>2, <2>3, NextStep, NumberedStep
<1>3. Sound => CleanRelease /\ CleanSuccession
  BY QuietIsClean
<1> QED BY <1>1, <1>2, <1>3, PTL DEF Spec

-----------------------------------------------------------------------------
(***************************************************************************)
(* Nobody waits for what will not come: for this, no hypothesis is needed. *)
(***************************************************************************)
LEMMA TypedWrites ==
  ASSUME Typed, NEW h \in Handles, Capture(h) \/ AcquireLease(h) \/ Truncate(h) \/ Rewrite(h)
  PROVE  Typed'
<1> USE DEF disk, queue, chain
<1>1. /\ h \in Handles /\ state[h] \in Writers /\ state \in [Handles -> Writers]
      /\ stage \in [Handles -> Stages] /\ buffered \in [Handles -> Seq(Records)]
      /\ batch \in [Handles -> Seq(Records)] /\ file \in Seq(Records)
      /\ state[h].recovered \in Seq(Records) /\ <<>> \in Seq(Records)
  BY Typing DEF Typed
<1>2. ASSUME NEW s \in Writers, Proceed(h, s)
      PROVE  state' \in [Handles -> Writers] /\ stage' \in [Handles -> Stages]
  BY <1>1, <1>2, NextStageIs DEF Proceed, Set, Stages
<1>3. CASE Capture(h)
  <2>1. NextStage(state[h]) \in Stages /\ "refused" \in Stages
    BY NextStageIs DEF Stages
  <2>2. stage' \in [Handles -> Stages] /\ batch' \in [Handles -> Seq(Records)]
        /\ buffered' \in [Handles -> Seq(Records)]
    BY <1>1, <1>3, <2>1 DEF Capture, Set
  <2> QED BY <1>3, <2>2 DEF Capture, Typed
<1>4. CASE AcquireLease(h)
  <2> DEFINE s == [state[h] EXCEPT !.leased = TRUE]
  <2>1. s \in Writers
    BY <1>1 DEF Writers
  <2>2. Proceed(h, s)
    BY <1>4 DEF AcquireLease
  <2> HIDE DEF s
  <2> QED BY <1>2, <1>4, <2>1, <2>2 DEF AcquireLease, Proceed, Typed
<1>5. CASE Truncate(h)
  <2> DEFINE s == [state[h] EXCEPT !.tornSeen = FALSE]
  <2>1. s \in Writers
    BY <1>1 DEF Writers
  <2>2. Proceed(h, s)
    BY <1>5 DEF Truncate
  <2> HIDE DEF s
  <2> QED BY <1>1, <1>2, <1>5, <2>1, <2>2 DEF Truncate, Proceed, Typed
<1>6. CASE Rewrite(h)
  <2> DEFINE s == [state[h] EXCEPT !.recovered = <<>>]
  <2>1. s \in Writers
    BY <1>1 DEF Writers
  <2>2. Proceed(h, s)
    BY <1>6 DEF Rewrite
  <2> HIDE DEF s
  <2>3. file' \in Seq(Records)
    BY <1>1, <1>6, ConcatProperties DEF Rewrite
  <2> QED BY <1>2, <1>6, <2>1, <2>2, <2>3 DEF Rewrite, Proceed, Typed
<1> QED BY <1>3, <1>4, <1>5, <1>6

LEMMA TypedEnds ==
  ASSUME Typed, NEW h \in Handles, Write(h) \/ MutationFails(h)
  PROVE  Typed'
<1> USE DEF disk, queue, chain
<1>1. /\ h \in Handles /\ state[h] \in Writers /\ state \in [Handles -> Writers]
      /\ stage \in [Handles -> Stages] /\ buffered \in [Handles -> Seq(Records)]
      /\ batch \in [Handles -> Seq(Records)] /\ file \in Seq(Records)
      /\ batch[h] \in Seq(Records) /\ buffered[h] \in Seq(Records) /\ <<>> \in Seq(Records)
      /\ drain \in [Handles -> BOOLEAN] /\ st \in [Handles -> States] /\ "none" \in Stages
      /\ state[h].cursor \in Nat
  BY Typing DEF Typed, Stages
<1>2. CASE Write(h)
  <2>1. file' \in Seq(Records)
    BY <1>1, <1>2, ConcatProperties DEF Write
  <2>2. state' \in [Handles -> Writers]
    <3>1. Len(batch[h]) \in Nat
      BY <1>1
    <3>2. state' = [state EXCEPT ![h].cursor = @ + Len(batch[h]), ![h].materialized = TRUE]
      BY <1>2 DEF Write
    <3> DEFINE w == [state[h] EXCEPT !.cursor = @ + Len(batch[h]), !.materialized = TRUE]
    <3>3. w \in Writers
      <4>1. state[h].cursor + Len(batch[h]) \in Nat
        BY <1>1, <3>1
      <4>2. w = [state[h] EXCEPT !.cursor = state[h].cursor + Len(batch[h]), !.materialized = TRUE]
        OBVIOUS
      <4> QED BY <1>1, <4>1, <4>2 DEF Writers
    <3>4. state' = [state EXCEPT ![h] = w]
      BY <1>1, <3>2
    <3> HIDE DEF w
    <3> QED BY <1>1, <3>3, <3>4
  <2>3. stage' \in [Handles -> Stages] /\ batch' \in [Handles -> Seq(Records)]
    BY <1>1, <1>2 DEF Write, Set
  <2>4. drain' \in [Handles -> BOOLEAN] /\ flush' \in [Callers -> Flushes]
    <3>1. CASE buffered[h] = <<>>
      BY <1>1, <1>2, <3>1, JoinedKeeps DEF Write, Set
    <3>2. CASE buffered[h] # <<>>
      BY <1>2, <3>2 DEF Write, Typed
    <3> QED BY <3>1, <3>2
  <2> QED BY <1>2, <2>1, <2>2, <2>3, <2>4 DEF Write, Typed
<1>3. CASE MutationFails(h)
  <2>1. batch[h] \o buffered[h] \in Seq(Records)
    BY <1>1, ConcatProperties
  <2>2. /\ stage' \in [Handles -> Stages] /\ batch' \in [Handles -> Seq(Records)]
        /\ buffered' \in [Handles -> Seq(Records)] /\ drain' \in [Handles -> BOOLEAN]
    BY <1>1, <1>3, <2>1 DEF MutationFails, Set
  <2>3. st' \in [Handles -> States]
    BY <1>1, <1>3 DEF MutationFails, Set, States
  <2>4. flush' \in [Callers -> Flushes]
    BY <1>3, JoinedKeeps DEF MutationFails
  <2> QED BY <1>3, <2>2, <2>3, <2>4 DEF MutationFails, Typed
<1> QED BY <1>2, <1>3

LEMMA TypedQueue ==
  ASSUME Typed, NEW h \in Handles,
         \/ Publish(h) \/ TimerFires(h) \/ Cleared(h) \/ Close(h) \/ Closing(h)
         \/ \E c \in Callers : FlushCall(c, h)
  PROVE  Typed'
<1> USE DEF disk, queue, chain
<1>1. /\ h \in Nat /\ live \in [Handles -> Seq(Records)] /\ live[h] \in Seq(Records)
      /\ buffered \in [Handles -> Seq(Records)] /\ buffered[h] \in Seq(Records)
      /\ drain \in [Handles -> BOOLEAN] /\ st \in [Handles -> States]
      /\ flush \in [Callers -> Flushes] /\ Len(live[h]) \in Nat
  BY Typing DEF Typed
<1>2. DrainLive(h) => drain' \in [Handles -> BOOLEAN]
  BY <1>1 DEF DrainLive, Set
<1>3. CASE Publish(h)
  <2> DEFINE event == <<h, Len(live[h]) + 1>>
  <2>1. event \in Records
    BY <1>1 DEF Records
  <2>2. live' = [live EXCEPT ![h] = Append(@, event)]
        /\ buffered' = [buffered EXCEPT ![h] = Append(@, event)]
    BY <1>3 DEF Publish
  <2> HIDE DEF event
  <2>3. Append(live[h], event) \in Seq(Records) /\ Append(buffered[h], event) \in Seq(Records)
    BY <1>1, <2>1
  <2>4. live' \in [Handles -> Seq(Records)] /\ buffered' \in [Handles -> Seq(Records)]
    BY <1>1, <2>2, <2>3
  <2> QED BY <1>3, <2>4 DEF Publish, Typed
<1>4. CASE TimerFires(h)
  BY <1>2, <1>4 DEF TimerFires, Typed
<1>5. CASE Close(h) \/ Closing(h)
  <2>1. st' \in [Handles -> States]
    BY <1>1, <1>5 DEF Close, Closing, ClosePass, Settled, Release, Set, States
  <2>2. drain' \in [Handles -> BOOLEAN]
    BY <1>1, <1>2, <1>5 DEF Close, Closing, ClosePass, Settled, Release
  <2>3. owner' \in {owner, NoOwner} /\ UNCHANGED <<file, exists, torn, salvage, opened, live, buffered, stage, batch, state, flush, promised>>
    BY <1>5 DEF Close, Closing, ClosePass, Settled, Release
  <2> QED BY <2>1, <2>2, <2>3 DEF Typed
<1>6. ASSUME NEW c \in Callers, FlushCall(c, h) PROVE Typed'
  <2> DEFINE goal == Acknowledged(h, LookedAt(h))
             asked == Acknowledged(h, Len(live[h]))
             f == [at |-> IF drain[h] \/ (ending[h] = "no" /\ buffered[h] # <<>>)
                            THEN "drain" ELSE "barrier",
                   on |-> h, goal |-> goal, asked |-> asked]
  <2>4. goal \in Nat /\ asked \in Nat
    <3>1. \A n \in Int : n > 0 => n \in Nat
      OBVIOUS
    <3>2. \A m, n \in Nat : m - n \in Int
      OBVIOUS
    <3>3. Len(live[h]) \in Nat /\ Len(buffered[h]) \in Nat /\ 0 \in Nat
      BY <1>1
    <3>4. LookedAt(h) \in Int
      BY <3>2, <3>3 DEF LookedAt
    <3>5. \A n : \/ Acknowledged(h, n) = 0
                 \/ Acknowledged(h, n) = n /\ n > 0
      BY DEF Acknowledged
    <3> QED BY <3>1, <3>3, <3>4, <3>5
  <2>2. flush' = [flush EXCEPT ![c] = f] /\ DrainLive(h)
    BY <1>6 DEF FlushCall, Await
  <2> HIDE DEF goal, asked
  <2>1. f \in Flushes
    BY <1>1, <2>4 DEF Flushes
  <2> HIDE DEF f
  <2>3. flush' \in [Callers -> Flushes]
    BY <1>1, <2>1, <2>2
  <2> QED BY <1>2, <1>6, <2>2, <2>3 DEF FlushCall, Typed
<1>7. CASE Cleared(h)
  BY <1>7 DEF Cleared, Typed
<1> QED BY <1>3, <1>4, <1>5, <1>6, <1>7

LEMMA TypedBarrier ==
  ASSUME Typed, NEW c \in Callers, Barrier(c)
  PROVE  Typed'
<1> USE DEF disk, queue, chain
<1> DEFINE h == flush[c].on
<1>1. /\ flush \in [Callers -> Flushes] /\ flush[c] \in Flushes /\ flush[c].goal \in Nat
      /\ state \in [Handles -> Writers] /\ Idle \in Flushes /\ promised \in Nat
  BY DEF Typed, Flushes, Idle
<1>2. flush' \in [Callers -> Flushes]
  BY <1>1 DEF Barrier
<1>3. promised' \in Nat
  <2>1. promised' \in {promised, flush[c].goal}
    BY DEF Barrier
  <2> QED BY <1>1, <2>1
<1>4. state' \in [Handles -> Writers]
  <2>1. \/ state' = state
        \/ state' = [state EXCEPT ![h].leased = TRUE, ![h].materialized = TRUE]
        \/ state' = [state EXCEPT ![h].leased = TRUE]
    BY DEF Barrier
  <2> DEFINE w == [state[h] EXCEPT !.leased = TRUE, !.materialized = TRUE]
             v == [state[h] EXCEPT !.leased = TRUE]
  <2>2. CASE h \in Handles
    <3>1. state[h] \in Writers
      BY <1>1, <2>2
    <3>2. w \in Writers /\ v \in Writers
      BY <3>1 DEF Writers
    <3>3. state' = state \/ state' = [state EXCEPT ![h] = w] \/ state' = [state EXCEPT ![h] = v]
      BY <1>1, <2>1, <2>2
    <3> HIDE DEF w, v, h
    <3> QED BY <1>1, <3>2, <3>3
  <2>3. CASE h \notin Handles
    <3> HIDE DEF h
    <3> QED BY <1>1, <2>1, <2>3
  <2> QED BY <2>2, <2>3
<1>5. exists' \in BOOLEAN
  BY DEF Barrier, Typed
<1> QED BY <1>2, <1>3, <1>4, <1>5 DEF Barrier, Typed

LEMMA TypedOpen ==
  ASSUME Typed, Open
  PROVE  Typed'
<1> USE DEF disk, queue, chain
<1> DEFINE h == opened + 1
           w == Fresh(Len(Stored), torn, salvage, TRUE)
<1>1. /\ Stored \in Seq(Records) /\ salvage \in Seq(Records) /\ torn \in BOOLEAN
      /\ st \in [Handles -> States] /\ live \in [Handles -> Seq(Records)]
      /\ state \in [Handles -> Writers]
  BY ConcatProperties DEF Typed, Stored
<1>2. w \in Writers
  <2>1. Len(Stored) \in Nat
    BY <1>1
  <2> QED BY <1>1, <2>1 DEF Fresh, Writers
<1>3. /\ h \in Handles /\ opened' = h /\ st' = Set(st, h, "open")
      /\ live' = Set(live, h, Stored) /\ state' = Set(state, h, w)
      /\ UNCHANGED <<file, exists, torn, salvage, queue, stage, batch, flush, promised>>
  BY DEF Open
<1> HIDE DEF h, w
<1>4. /\ st' \in [Handles -> States] /\ live' \in [Handles -> Seq(Records)]
      /\ state' \in [Handles -> Writers]
  BY <1>1, <1>2, <1>3 DEF Set, States
<1> QED BY <1>3, <1>4 DEF Typed

LEMMA TypedCrash ==
  ASSUME Typed, NEW h \in Handles, Crash(h)
  PROVE  Typed'
<1> DEFINE w == IF stage[h] = "rewrite" THEN state[h].recovered ELSE batch[h]
<1>1. /\ w \in Seq(Records) /\ file \in Seq(Records) /\ salvage \in Seq(Records)
      /\ <<>> \in Seq(Records) /\ exists \in BOOLEAN /\ torn \in BOOLEAN
  BY Typing DEF Typed
<1>2. file \o w \in Seq(Records)
  BY <1>1, ConcatProperties
<1>3. \A k \in 0 .. Len(w) - 1 : SubSeq(w, 1, k) \in Seq(Records)
                                 /\ file \o SubSeq(w, 1, k) \in Seq(Records)
  <2> SUFFICES ASSUME NEW k \in 0 .. Len(w) - 1
               PROVE  SubSeq(w, 1, k) \in Seq(Records) /\ file \o SubSeq(w, 1, k) \in Seq(Records)
    OBVIOUS
  <2> HIDE DEF w
  <2>1. k \in 0 .. Len(w)
    BY <1>1
  <2>2. SubSeq(w, 1, k) \in Seq(Records)
    BY <1>1, <2>1, Parts
  <2> QED BY <1>1, <2>2, ConcatProperties
<1>4. \/ UNCHANGED <<file, exists, torn, salvage>>
      \/ torn' = FALSE /\ salvage' = <<>> /\ UNCHANGED <<file, exists>>
      \/ file' = file \o w /\ exists' = TRUE /\ UNCHANGED <<torn, salvage>>
      \/ /\ torn' = TRUE /\ UNCHANGED exists
         /\ \E k \in 0 .. Len(w) - 1 :
              IF Compressed THEN salvage' = SubSeq(w, 1, k) /\ UNCHANGED file
              ELSE file' = file \o SubSeq(w, 1, k) /\ UNCHANGED salvage
  BY DEF Crash
<1> HIDE DEF w
<1>5. /\ file' \in Seq(Records) /\ salvage' \in Seq(Records)
      /\ exists' \in BOOLEAN /\ torn' \in BOOLEAN
  BY <1>1, <1>2, <1>3, <1>4
<1>6. /\ st' = Set(st, h, "dead")
      /\ buffered' = Set(buffered, h, <<>>) /\ batch' = Set(batch, h, <<>>)
      /\ drain' = Set(drain, h, FALSE) /\ stage' = Set(stage, h, "none")
      /\ flush' = [c \in Callers |-> IF flush[c].on = h THEN Idle ELSE flush[c]]
      /\ UNCHANGED <<opened, live, state, promised>>
  BY DEF Crash
<1>7. flush' \in [Callers -> Flushes]
  BY <1>6 DEF Typed, Flushes, Idle
<1>8. /\ st' \in [Handles -> States] /\ drain' \in [Handles -> BOOLEAN]
      /\ stage' \in [Handles -> Stages]
  BY <1>6 DEF Typed, Set, States, Stages
<1>9. buffered' \in [Handles -> Seq(Records)] /\ batch' \in [Handles -> Seq(Records)]
  BY <1>1, <1>6 DEF Typed, Set
<1> QED BY <1>5, <1>6, <1>7, <1>8, <1>9 DEF Typed

LEMMA TypedStep == ASSUME Typed, [Next]_vars PROVE Typed'
<1>1. ASSUME NEW h \in Handles, Storage(h) PROVE Typed'
  BY <1>1, TypedWrites, TypedEnds DEF Storage
<1>2. ASSUME NEW h \in Handles,
             \/ Publish(h) \/ TimerFires(h) \/ Cleared(h) \/ Close(h) \/ Closing(h)
             \/ \E c \in Callers : FlushCall(c, h)
      PROVE  Typed'
  BY <1>2, TypedQueue
<1>3. ASSUME NEW h \in Handles, Crash(h) PROVE Typed'
  BY <1>3, TypedCrash
<1>4. ASSUME NEW c \in Callers, Barrier(c) PROVE Typed'
  BY <1>4, TypedBarrier
<1>5. ASSUME Open PROVE Typed'
  BY <1>5, TypedOpen
<1>6. ASSUME UNCHANGED vars PROVE Typed'
  BY <1>6 DEF vars, disk, queue, chain, Typed
<1>7. ASSUME NEW h \in Handles,
             \/ Publish(h) \/ TimerFires(h) \/ Storage(h) \/ Cleared(h)
             \/ Close(h) \/ Closing(h) \/ Crash(h)
             \/ \E c \in Callers : FlushCall(c, h)
      PROVE  Typed'
  BY <1>1, <1>2, <1>3, <1>7, Zenon
<1> QED BY <1>4, <1>5, <1>6, <1>7 DEF Next

\* Who waits for a drain waits for one in flight, of a handle whose process lives;
\* a barrier, or a close, waits for no storage call but those of such a drain.
Attended ==
  /\ \A h \in Handles : (stage[h] # "none" => drain[h]) /\ (drain[h] => Runs(h))
  /\ \A c \in Callers : flush[c].at # "idle" =>
       /\ flush[c].on \in Handles /\ Runs(flush[c].on)
       /\ flush[c].at = "drain" => drain[flush[c].on]

\* A step that ends no drain, takes no process and adds no waiter.
LEMMA AttendedKept ==
  ASSUME Attended, UNCHANGED flush,
         \A h \in Handles :
           /\ stage'[h] # "none" => stage[h] # "none" \/ drain[h]
           /\ drain[h] => drain'[h]
           /\ drain'[h] => drain[h] \/ Runs(h)
           /\ Runs(h) => Runs(h)'
  PROVE  Attended'
BY DEF Attended

\* A drain begins on a handle whose process lives.
LEMMA DrainBegins ==
  ASSUME Typed, NEW h \in Handles, DrainLive(h), Runs(h)
  PROVE  \A k \in Handles : (drain[k] => drain'[k]) /\ (drain'[k] => drain[k] \/ Runs(k))
BY DEF DrainLive, Typed, Set

LEMMA AttendedStep ==
  ASSUME Typed, Attended, [Next]_vars
  PROVE  Attended'
<1> USE DEF disk, queue, chain
<1>1. /\ drain \in [Handles -> BOOLEAN] /\ stage \in [Handles -> Stages]
      /\ st \in [Handles -> States] /\ flush \in [Callers -> Flushes]
  BY DEF Typed
<1>2. ASSUME UNCHANGED <<stage, drain, st, flush>> PROVE Attended'
  BY <1>2, AttendedKept DEF Runs
<1>3. ASSUME NEW h \in Handles, TimerFires(h) PROVE Attended'
  <2>1. Runs(h) /\ UNCHANGED <<stage, st, flush>> /\ (drain' = drain \/ DrainLive(h))
    BY <1>3 DEF TimerFires
  <2>2. \A k \in Handles : (drain[k] => drain'[k]) /\ (drain'[k] => drain[k] \/ Runs(k))
    BY <2>1, DrainBegins
  <2> QED BY <2>1, <2>2, AttendedKept DEF Runs
<1>4. ASSUME NEW h \in Handles, Close(h) \/ Closing(h) PROVE Attended'
  <2>1. Runs(h) /\ UNCHANGED <<stage, flush>> /\ (drain' = drain \/ DrainLive(h))
    BY <1>4 DEF Close, Closing, ClosePass, Settled, Release, Runs
  <2>2. \A k \in Handles : (drain[k] => drain'[k]) /\ (drain'[k] => drain[k] \/ Runs(k))
    BY <2>1, DrainBegins
  <2>3. st' = st \/ \E to \in {"draining", "settling", "releasing", "closed"} : st' = Set(st, h, to)
    BY <1>4 DEF Close, Closing, ClosePass, Settled, Release
  <2>4. \A k \in Handles : Runs(k) => Runs(k)'
    BY <1>1, <2>3 DEF Runs, Set
  <2> QED BY <2>1, <2>2, <2>4, AttendedKept
<1>5. ASSUME NEW h \in Handles, NEW c \in Callers, FlushCall(c, h) PROVE Attended'
  <2>1. Runs(h) /\ UNCHANGED <<stage, st>> /\ DrainLive(h)
    BY <1>5 DEF FlushCall, Routed, Runs
  <2>2. \A k \in Handles : (drain[k] => drain'[k]) /\ (drain'[k] => drain[k] \/ Runs(k))
    BY <2>1, DrainBegins
  <2> DEFINE f == [at |-> IF drain[h] \/ (ending[h] = "no" /\ buffered[h] # <<>>)
                            THEN "drain" ELSE "barrier",
                   on |-> h, goal |-> Acknowledged(h, LookedAt(h)),
                   asked |-> Acknowledged(h, Len(live[h]))]
  <2>3. flush'[c] = f /\ \A d \in Callers : d # c => flush'[d] = flush[d]
    BY <1>1, <1>5 DEF FlushCall, Await
  <2>4. f.on = h /\ (f.at = "drain" => drain[h] \/ (ending[h] = "no" /\ buffered[h] # <<>>))
    OBVIOUS
  <2>5. drain[h] \/ (ending[h] = "no" /\ buffered[h] # <<>>) => drain'[h]
    BY <1>1, <2>1 DEF DrainLive, Set
  <2> HIDE DEF f
  <2>6. \A k \in Handles : (stage'[k] # "none" => drain'[k]) /\ (drain'[k] => Runs(k)')
    BY <2>1, <2>2 DEF Attended, Runs
  <2>7. ASSUME NEW d \in Callers, flush'[d].at # "idle"
        PROVE  /\ flush'[d].on \in Handles /\ Runs(flush'[d].on)
               /\ flush'[d].at = "drain" => drain'[flush'[d].on]
    BY <2>1, <2>2, <2>3, <2>4, <2>5, <2>7 DEF Attended
  <2> QED BY <2>1, <2>6, <2>7 DEF Attended, Runs
<1>6. ASSUME NEW h \in Handles, Capture(h) \/ AcquireLease(h) \/ Truncate(h) \/ Rewrite(h)
      PROVE  Attended'
  <2>1. /\ drain[h] /\ UNCHANGED <<drain, st, flush>>
        /\ \E to : stage' = Set(stage, h, to)
    BY <1>6 DEF Capture, AcquireLease, Truncate, Rewrite, Proceed, Attended
  <2>2. \A k \in Handles : stage'[k] # "none" => stage[k] # "none" \/ drain[k]
    BY <1>1, <2>1 DEF Set
  <2> QED BY <2>1, <2>2, AttendedKept DEF Runs
<1>7. ASSUME NEW h \in Handles, Write(h) \/ MutationFails(h) PROVE Attended'
  <2>1. Runs(h) /\ stage' = Set(stage, h, "none")
    BY <1>7 DEF Write, MutationFails
  <2>2. \/ UNCHANGED <<drain, flush>>
        \/ drain' = Set(drain, h, FALSE) /\ \E at \in {"idle", "barrier"} : Joined(h, at)
    BY <1>7 DEF Write, MutationFails
  <2>3. \A k \in Handles : stage'[k] # "none" => k # h /\ stage[k] # "none"
    BY <1>1, <2>1 DEF Set
  <2>4. st' = st \/ st' = Set(st, h, "settling") \/ st' = Set(st, h, st[h])
    BY <1>7 DEF Write, MutationFails
  <2>5. \A k \in Handles : Runs(k) <=> Runs(k)'
    BY <1>1, <2>1, <2>4 DEF Runs, Set
  <2>6. CASE UNCHANGED <<drain, flush>>
    BY <2>3, <2>5, <2>6, AttendedKept
  <2>7. CASE drain' = Set(drain, h, FALSE) /\ \E at \in {"idle", "barrier"} : Joined(h, at)
    <3>1. PICK at \in {"idle", "barrier"} : Joined(h, at)
      BY <2>7
    <3>2. \A k \in Handles : drain'[k] = IF k = h THEN FALSE ELSE drain[k]
      BY <1>1, <2>7 DEF Set
    <3>3. \A k \in Handles : (stage'[k] # "none" => drain'[k]) /\ (drain'[k] => Runs(k)')
      BY <2>3, <2>5, <3>2 DEF Attended
    <3>4. \A c \in Callers : \/ flush'[c] = flush[c] /\ (flush[c].at = "drain" => flush[c].on # h)
                             \/ flush'[c].at = "barrier" /\ flush'[c].on = h
                             \/ flush'[c].at = "idle"
      BY <1>1, <3>1 DEF Joined, Idle
    <3>5. ASSUME NEW c \in Callers, flush'[c].at # "idle"
          PROVE  /\ flush'[c].on \in Handles /\ Runs(flush'[c].on)
                 /\ flush'[c].at = "drain" => drain'[flush'[c].on]
      <4>1. CASE flush'[c] = flush[c] /\ (flush[c].at = "drain" => flush[c].on # h)
        BY <3>2, <3>5, <4>1 DEF Attended
      <4>2. CASE flush'[c].at = "barrier" /\ flush'[c].on = h
        BY <2>1, <4>2
      <4> QED BY <3>4, <3>5, <4>1, <4>2
    <3>6. \A c \in Callers : flush'[c].at # "idle" =>
            /\ flush'[c].on \in Handles /\ Runs(flush'[c].on)
            /\ flush'[c].at = "drain" => drain'[flush'[c].on]
      BY <3>5
    <3> QED BY <2>5, <3>3, <3>6 DEF Attended, Runs
  <2> QED BY <2>2, <2>6, <2>7
<1>8. ASSUME NEW c \in Callers, Barrier(c) PROVE Attended'
  <2>1. UNCHANGED <<stage, drain, st>> /\ flush' = [flush EXCEPT ![c] = Idle]
    BY <1>8 DEF Barrier
  <2>2. \A d \in Callers : flush'[d] = flush[d] \/ flush'[d].at = "idle"
    BY <1>1, <2>1 DEF Idle
  <2> QED BY <2>1, <2>2 DEF Attended, Runs
<1>9. ASSUME Open PROVE Attended'
  <2>1. /\ opened + 1 \in Handles /\ st' = Set(st, opened + 1, "open")
        /\ UNCHANGED <<stage, drain, flush>>
    BY <1>9 DEF Open
  <2>2. \A k \in Handles : Runs(k) => Runs(k)'
    BY <1>1, <2>1 DEF Runs, Set
  <2> QED BY <2>1, <2>2, AttendedKept
<1>10. ASSUME NEW h \in Handles, Crash(h) PROVE Attended'
  <2>1. /\ st' = Set(st, h, "dead") /\ drain' = Set(drain, h, FALSE)
        /\ stage' = Set(stage, h, "none")
        /\ flush' = [c \in Callers |-> IF flush[c].on = h THEN Idle ELSE flush[c]]
    BY <1>10 DEF Crash
  <2>2. /\ drain'[h] = FALSE /\ stage'[h] = "none"
        /\ \A k \in Handles : k # h =>
             drain'[k] = drain[k] /\ stage'[k] = stage[k] /\ st'[k] = st[k]
    BY <1>1, <2>1 DEF Set
  <2>3. \A c \in Callers : flush'[c].at = "idle" \/ (flush'[c] = flush[c] /\ flush[c].on # h)
    BY <2>1 DEF Idle
  <2> QED BY <2>2, <2>3 DEF Attended, Runs
<1>11. ASSUME UNCHANGED vars PROVE Attended'
  BY <1>2, <1>11 DEF vars
<1>12. ASSUME NEW h \in Handles, Publish(h) \/ Cleared(h) PROVE Attended'
  BY <1>2, <1>12 DEF Publish, Cleared
<1>13. ASSUME NEW h \in Handles, Storage(h) PROVE Attended'
  BY <1>6, <1>7, <1>13, Zenon DEF Storage
<1>14. ASSUME NEW h \in Handles,
              \/ Publish(h) \/ TimerFires(h) \/ Storage(h) \/ Cleared(h)
              \/ Close(h) \/ Closing(h) \/ Crash(h)
              \/ \E c \in Callers : FlushCall(c, h)
       PROVE  Attended'
  BY <1>3, <1>4, <1>5, <1>10, <1>12, <1>13, <1>14, Zenon
<1> QED BY <1>8, <1>9, <1>11, <1>14 DEF Next

\* Nobody is left waiting for a drain that has ended, failed or died, whatever
\* fails and however closes, flushes, timers and late publications cross: what
\* CallersServed needs beside fairness.
THEOREM NobodyStranded == Spec => []Attended
<1>1. Init => Typed /\ Attended
  <2>1. Init => Typed
    BY InitHolds, HandleAssumption DEF Inductive
  <2>2. Init => Attended
    BY DEF Init, Attended, Idle
  <2> QED BY <2>1, <2>2
<1>2. Typed /\ Attended /\ [Next]_vars => Typed' /\ Attended'
  BY TypedStep, AttendedStep
<1> QED BY <1>1, <1>2, PTL DEF Spec

=============================================================================
