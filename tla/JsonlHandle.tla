----------------------------- MODULE JsonlHandle -----------------------------
(***************************************************************************)
(* The write handles of one session's JSONL log                            *)
(* (session/session-persistence-jsonl): the buffer published events are    *)
(* routed into, its timer and single-flight drain, the mutation chain with *)
(* its torn-tail repair, flush barriers, close, the kernel write lock and  *)
(* process death.                                                          *)
(*                                                                         *)
(* Handle 1 is the creator's; each later one is a write open of the stored *)
(* log, in the same process or another.  An event is the handle it was     *)
(* published under and its sequence number, counted from 1 here.  Between  *)
(* two awaits nothing else runs, so such a stretch is one step.            *)
(***************************************************************************)
EXTENDS Integers, Sequences, FiniteSets, SequencesExt

CONSTANTS
  MaxHandles,   \* bound: write handles, one after another
  MaxEvents,    \* bound: events of the session
  Callers,      \* concurrent callers of session/flush
  Compressed,   \* whether a batch is one Zstandard frame or raw lines
  Hazards       \* which of "fails" (storage calls reject), "crashes", "closes",
                \* "late" (sessions publish while their handle closes) may happen

ASSUME HandleAssumption ==
  /\ MaxHandles \in Nat \ {0} /\ MaxEvents \in Nat /\ Compressed \in BOOLEAN

Handles == 1 .. MaxHandles
NoOwner == 0

VARIABLES
  file,       \* the complete records of the stored log
  exists,     \* whether the log was materialized
  torn,       \* whether an incomplete frame or line follows them
  salvage,    \* the records a reader can decode from that frame
  owner,      \* the handle holding the kernel lock, or NoOwner
  opened,     \* handles opened so far
  st,         \* per handle: "unopened", "open", "draining", "settling",
              \* "releasing", "closed" or "dead"
  live,       \* per handle: the log of the session it serves
  buffered,   \* per handle: published events not yet captured by a batch
  timer,      \* per handle: the batching window is armed
  paused,     \* per handle: drainPaused
  drain,      \* per handle: a drain is in flight
  ending,     \* per handle: "done" or "failed" from a drain's last look at the buffer
              \* until `draining` is cleared a microtask later, else "no"
  stage,      \* per handle: the storage call the mutation chain awaits
  batch,      \* per handle: the events of that mutation
  state,      \* per handle: cursor, materialized, leased, tornTruncateTo, recoveredTail
  flush,      \* per caller: the flush it awaits
  promised    \* history: how many events resolved flushes cover

disk   == <<file, exists, torn, salvage, owner>>
queue  == <<buffered, timer, paused, drain, ending>>
chain  == <<stage, batch, state>>
vars   == <<disk, opened, st, live, queue, chain, flush, promised>>

-----------------------------------------------------------------------------
Stored == file \o salvage

Idle == [at |-> "idle", on |-> 0, goal |-> 0, asked |-> 0]

Set(f, h, v) == [f EXCEPT ![h] = v]

\* The tracker still routes the session's events and barriers to the handle.
Routed(h) == st[h] \in {"open", "draining", "settling", "releasing"}

\* Its process lives, so its timers fire and its storage calls return.
Runs(h) == st[h] \notin {"unopened", "dead"}

-----------------------------------------------------------------------------
(***************************************************************************)
(* The live buffer.                                                        *)
(***************************************************************************)
\* Mutant of Publish: the fired window is taken for an armed one.
PublishArmsOnce(h) ==
  /\ Len(live[h]) < MaxEvents
  /\ st[h] = "open" \/ (Routed(h) /\ "late" \in Hazards)
  /\ LET event == <<h, Len(live[h]) + 1>>
     IN /\ live' = [live EXCEPT ![h] = Append(@, event)]
        /\ buffered' = [buffered EXCEPT ![h] = Append(@, event)]
  /\ timer' = Set(timer, h, timer[h] \/ live[h] = <<>>)
  /\ UNCHANGED <<disk, opened, st, paused, drain, ending, chain, flush, promised>>

\* enqueueLive(): the window is armed unless it is or the last drain failed.
Publish(h) ==
  /\ Len(live[h]) < MaxEvents
  /\ st[h] = "open" \/ (Routed(h) /\ "late" \in Hazards)
  /\ LET event == <<h, Len(live[h]) + 1>>
     IN /\ live' = [live EXCEPT ![h] = Append(@, event)]
        /\ buffered' = [buffered EXCEPT ![h] = Append(@, event)]
  /\ timer' = Set(timer, h, timer[h] \/ ~paused[h])
  /\ UNCHANGED <<disk, opened, st, paused, drain, ending, chain, flush, promised>>

\* drainLive(): join the drain that `draining` holds, or start one, which on an
\* empty buffer looks at it for the last time at once.
DrainLive(h) ==
  IF drain[h] \/ ending[h] # "no" THEN UNCHANGED <<timer, paused, drain, ending>>
  ELSE /\ timer' = Set(timer, h, FALSE)
       /\ paused' = Set(paused, h, FALSE)
       /\ drain' = Set(drain, h, buffered[h] # <<>>)
       /\ ending' = Set(ending, h, IF buffered[h] = <<>> THEN "done" ELSE "no")

\* The .finally() of drainLive(), behind the microtasks queued before it.
Cleared(h) ==
  /\ ending[h] # "no" /\ Runs(h)
  /\ ending' = Set(ending, h, "no")
  /\ UNCHANGED <<disk, opened, st, live, buffered, timer, paused, drain, chain, flush, promised>>

\* A timer is a task of its own: it finds no drain between its end and its clearing.
TimerFires(h) ==
  /\ Runs(h) /\ timer[h] /\ ending[h] = "no"
  /\ IF drain[h] THEN timer' = Set(timer, h, FALSE) /\ UNCHANGED <<paused, drain, ending>>
     ELSE DrainLive(h)
  /\ UNCHANGED <<disk, opened, st, live, buffered, chain, flush, promised>>

-----------------------------------------------------------------------------
(***************************************************************************)
(* persistContiguous(): lock, torn-tail truncation, rewrite of the records *)
(* recovered from it, then the batch; each step is cleared once it landed. *)
(***************************************************************************)
Contiguous(h, events) ==
  \A i \in DOMAIN events : events[i][2] = state[h].cursor + i

NextStage(s) ==
  IF ~s.leased THEN "lease"
  ELSE IF s.tornSeen THEN "truncate"
  ELSE IF s.recovered # <<>> THEN "rewrite"
  ELSE "write"

\* The chained turn of a drain captures the whole buffer.
Capture(h) ==
  /\ Runs(h) /\ drain[h] /\ stage[h] = "none"
  /\ batch' = Set(batch, h, buffered[h])
  /\ buffered' = Set(buffered, h, <<>>)
  /\ stage' = Set(stage, h, IF state[h].leased /\ ~Contiguous(h, buffered[h])
                              THEN "refused" ELSE NextStage(state[h]))
  /\ UNCHANGED <<disk, opened, st, live, timer, paused, drain, ending, state, flush, promised>>

Proceed(h, s) ==
  /\ state' = Set(state, h, s)
  /\ stage' = Set(stage, h, NextStage(s))
  /\ UNCHANGED <<opened, st, live, queue, batch, flush, promised>>

AcquireLease(h) ==
  /\ stage[h] = "lease" /\ Runs(h)
  /\ owner = NoOwner
  /\ owner' = h
  /\ Proceed(h, [state[h] EXCEPT !.leased = TRUE])
  /\ UNCHANGED <<file, exists, torn, salvage>>

Truncate(h) ==
  /\ stage[h] = "truncate" /\ Runs(h)
  /\ torn' = FALSE /\ salvage' = <<>>
  /\ Proceed(h, [state[h] EXCEPT !.tornSeen = FALSE])
  /\ UNCHANGED <<file, exists, owner>>

Rewrite(h) ==
  /\ stage[h] = "rewrite" /\ Runs(h)
  /\ file' = file \o state[h].recovered
  /\ Proceed(h, [state[h] EXCEPT !.recovered = <<>>])
  /\ UNCHANGED <<exists, torn, salvage, owner>>

\* The callers whose drain ended go on to the barrier, or reject with it.
Joined(h, at) ==
  flush' = [c \in Callers |-> IF flush[c].on # h \/ flush[c].at # "drain" THEN flush[c]
                              ELSE IF at = "idle" THEN Idle
                              ELSE [flush[c] EXCEPT !.at = at]]

Write(h) ==
  /\ stage[h] = "write" /\ Runs(h)
  /\ file' = file \o batch[h]
  /\ exists' = TRUE
  /\ state' = [state EXCEPT ![h].cursor = @ + Len(batch[h]), ![h].materialized = TRUE]
  /\ stage' = Set(stage, h, "none")
  /\ batch' = Set(batch, h, <<>>)
  /\ IF buffered[h] = <<>>
       THEN /\ drain' = Set(drain, h, FALSE) /\ ending' = Set(ending, h, "done")
            /\ Joined(h, "barrier")
       ELSE UNCHANGED <<drain, ending, flush>>
  /\ UNCHANGED <<torn, salvage, owner, opened, st, live, buffered, timer, paused, promised>>

\* Mutant of MutationFails: the batch goes back behind what came meanwhile.
FailureReorders(h) ==
  /\ stage[h] # "none" /\ Runs(h)
  /\ "fails" \in Hazards \/ stage[h] = "refused" \/ (stage[h] = "lease" /\ owner # NoOwner)
  /\ buffered' = Set(buffered, h, buffered[h] \o batch[h])
  /\ batch' = Set(batch, h, <<>>)
  /\ stage' = Set(stage, h, "none")
  /\ paused' = Set(paused, h, TRUE)
  /\ drain' = Set(drain, h, FALSE)
  /\ ending' = Set(ending, h, "failed")
  /\ Joined(h, "idle")
  /\ st' = Set(st, h, IF st[h] = "draining" THEN "settling" ELSE st[h])
  /\ UNCHANGED <<disk, opened, live, timer, state, promised>>

\* Mutant of MutationFails: who joined the drain is not told.
FailureForgets(h) ==
  /\ stage[h] # "none" /\ Runs(h)
  /\ "fails" \in Hazards \/ stage[h] = "refused" \/ (stage[h] = "lease" /\ owner # NoOwner)
  /\ buffered' = Set(buffered, h, batch[h] \o buffered[h])
  /\ batch' = Set(batch, h, <<>>)
  /\ stage' = Set(stage, h, "none")
  /\ paused' = Set(paused, h, TRUE)
  /\ drain' = Set(drain, h, FALSE)
  /\ ending' = Set(ending, h, "failed")
  /\ UNCHANGED <<disk, opened, st, live, timer, state, flush, promised>>

\* Mutant of MutationFails: a close tries its failed drain again.
FailureRetries(h) ==
  /\ stage[h] # "none" /\ Runs(h)
  /\ "fails" \in Hazards \/ stage[h] = "refused" \/ (stage[h] = "lease" /\ owner # NoOwner)
  /\ buffered' = Set(buffered, h, batch[h] \o buffered[h])
  /\ batch' = Set(batch, h, <<>>)
  /\ stage' = Set(stage, h, "none")
  /\ paused' = Set(paused, h, TRUE)
  /\ drain' = Set(drain, h, FALSE)
  /\ ending' = Set(ending, h, "failed")
  /\ Joined(h, "idle")
  /\ UNCHANGED <<disk, opened, st, live, timer, state, promised>>

\* A storage call rejects, its bytes rolled back; so does locking a lock
\* another handle holds.  The batch goes back in front, and the drain rejects.
MutationFails(h) ==
  /\ stage[h] # "none" /\ Runs(h)
  /\ "fails" \in Hazards \/ stage[h] = "refused" \/ (stage[h] = "lease" /\ owner # NoOwner)
  /\ buffered' = Set(buffered, h, batch[h] \o buffered[h])
  /\ batch' = Set(batch, h, <<>>)
  /\ stage' = Set(stage, h, "none")
  /\ paused' = Set(paused, h, TRUE)
  /\ drain' = Set(drain, h, FALSE)
  /\ ending' = Set(ending, h, "failed")
  /\ Joined(h, "idle")
  /\ st' = Set(st, h, IF st[h] = "draining" THEN "settling" ELSE st[h])
  /\ UNCHANGED <<disk, opened, live, timer, state, promised>>

-----------------------------------------------------------------------------
(***************************************************************************)
(* session/flush: drain what is buffered, then pass the handle's barrier.  *)
(***************************************************************************)
\* What a barrier behind the first n events covers: those published under the
\* handle and all before them.  Records recovered from a torn tail belong to an
\* append that never resolved, and are on their own covered by no barrier until
\* they are rewritten.
Acknowledged(h, n) == IF n > 0 /\ live[h][n][1] = h THEN n ELSE 0

\* The events that the drain a flush joins, or starts, looks at.
LookedAt(h) ==
  IF ending[h] = "no" THEN Len(live[h]) ELSE Len(live[h]) - Len(buffered[h])

Await(c, h, at) ==
  flush' = [flush EXCEPT ![c] =
    [at |-> at, on |-> h, goal |-> Acknowledged(h, LookedAt(h)),
     asked |-> Acknowledged(h, Len(live[h]))]]

\* Mutant of FlushCall: a drain in flight is taken for one that is over.
FlushUnjoined(c, h) ==
  /\ flush[c].at = "idle" /\ Routed(h) /\ ending[h] # "failed"
  /\ DrainLive(h)
  /\ Await(c, h, IF ~drain[h] /\ ending[h] = "no" /\ buffered[h] # <<>> THEN "drain" ELSE "barrier")
  /\ UNCHANGED <<disk, opened, st, live, buffered, chain, promised>>

\* A flush that joins a drain which is over resolves with it, or rejects with it
\* (which changes nothing), whatever is buffered by then.
FlushCall(c, h) ==
  /\ flush[c].at = "idle" /\ Routed(h) /\ ending[h] # "failed"
  /\ DrainLive(h)
  /\ Await(c, h, IF drain[h] \/ (ending[h] = "no" /\ buffered[h] # <<>>) THEN "drain" ELSE "barrier")
  /\ UNCHANGED <<disk, opened, st, live, buffered, chain, promised>>

\* run('flush'), behind the clearing of the drain that was joined: refused once
\* close() began; a log not yet on disk gets its header.
Barrier(c) ==
  LET h == flush[c].on
  IN /\ flush[c].at = "barrier" /\ stage[h] = "none" /\ ending[h] = "no" /\ Runs(h)
     /\ \/ /\ st[h] # "open" \/ ("fails" \in Hazards /\ ~state[h].materialized)
           /\ UNCHANGED <<owner, exists, state, promised>>
        \/ /\ st[h] = "open" /\ state[h].materialized
           /\ promised' = IF flush[c].goal > promised THEN flush[c].goal ELSE promised
           /\ UNCHANGED <<owner, exists, state>>
        \/ /\ st[h] = "open" /\ ~state[h].materialized
           /\ owner' = h
           /\ \/ /\ exists' = TRUE
                 /\ state' = [state EXCEPT ![h].leased = TRUE, ![h].materialized = TRUE]
              \/ /\ "fails" \in Hazards
                 /\ state' = [state EXCEPT ![h].leased = TRUE]
                 /\ UNCHANGED exists
           /\ UNCHANGED promised
     /\ flush' = [flush EXCEPT ![c] = Idle]
     /\ UNCHANGED <<file, torn, salvage, opened, st, live, queue, stage, batch>>

-----------------------------------------------------------------------------
(***************************************************************************)
(* close(): drain until a pass leaves the buffer empty or a drain fails,   *)
(* await the chain, release the lock, and only then stop being routed to.  *)
(***************************************************************************)
Close(h) ==
  /\ st[h] = "open" /\ "closes" \in Hazards
  /\ st' = Set(st, h, IF ending[h] = "failed" THEN "settling" ELSE "draining")
  /\ DrainLive(h)
  /\ UNCHANGED <<disk, opened, live, buffered, chain, flush, promised>>

\* Mutant of ClosePass: one pass is enough.
ClosePassOnce(h) ==
  /\ st[h] = "draining" /\ ~drain[h] /\ ending[h] = "no" /\ stage[h] = "none"
  /\ st' = Set(st, h, "settling")
  /\ UNCHANGED <<disk, opened, live, queue, chain, flush, promised>>

ClosePass(h) ==
  /\ st[h] = "draining" /\ ~drain[h] /\ ending[h] = "no" /\ stage[h] = "none"
  /\ IF buffered[h] = <<>>
       THEN st' = Set(st, h, "settling") /\ UNCHANGED <<timer, paused, drain, ending>>
       ELSE DrainLive(h) /\ UNCHANGED st
  /\ UNCHANGED <<disk, opened, live, buffered, chain, flush, promised>>

Settled(h) ==
  /\ st[h] = "settling" /\ stage[h] = "none"
  /\ st' = Set(st, h, "releasing")
  /\ UNCHANGED <<disk, opened, live, queue, chain, flush, promised>>

\* The descriptor is closed, which unlocks it, and the tracker forgets the handle.
Release(h) ==
  \/ /\ st[h] = "releasing" /\ owner = h
     /\ owner' = NoOwner
     /\ UNCHANGED <<file, exists, torn, salvage, opened, st, live, queue, chain, flush, promised>>
  \/ /\ st[h] = "releasing" /\ owner # h
     /\ st' = Set(st, h, "closed")
     /\ UNCHANGED <<disk, opened, live, queue, chain, flush, promised>>

-----------------------------------------------------------------------------
(***************************************************************************)
(* open(id, 'write') of an existing log: lock it, read it, prime a handle. *)
(***************************************************************************)
Fresh(cursor, tornSeen, recovered, onDisk) ==
  [cursor |-> cursor, materialized |-> onDisk, leased |-> onDisk,
   tornSeen |-> tornSeen, recovered |-> recovered]

\* Mutant of Open: the lock is not tried.
OpenUnlocked ==
  LET h == opened + 1
  IN /\ h \in Handles
     /\ exists
     /\ opened' = h /\ owner' = h
     /\ st' = Set(st, h, "open")
     /\ live' = Set(live, h, Stored)
     /\ state' = Set(state, h, Fresh(Len(Stored), torn, salvage, TRUE))
     /\ UNCHANGED <<file, exists, torn, salvage, queue, stage, batch, flush, promised>>

Open ==
  LET h == opened + 1
  IN /\ h \in Handles
     /\ exists /\ owner = NoOwner
     /\ opened' = h /\ owner' = h
     /\ st' = Set(st, h, "open")
     /\ live' = Set(live, h, Stored)
     /\ state' = Set(state, h, Fresh(Len(Stored), torn, salvage, TRUE))
     /\ UNCHANGED <<file, exists, torn, salvage, queue, stage, batch, flush, promised>>

-----------------------------------------------------------------------------
(***************************************************************************)
(* The process of a handle dies; the kernel drops its lock.  A write in    *)
(* flight may have left any part of its bytes: the first one is published  *)
(* whole or not at all, a torn frame can be decoded up to some record, and *)
(* of raw lines the complete ones count.                                   *)
(***************************************************************************)
Crash(h) ==
  LET written == IF stage[h] = "rewrite" THEN state[h].recovered ELSE batch[h]
      Part(k) == SubSeq(written, 1, k)
  IN /\ "crashes" \in Hazards /\ Routed(h)
     /\ st' = Set(st, h, "dead")
     /\ owner' = IF owner = h THEN NoOwner ELSE owner
     /\ \/ UNCHANGED <<file, exists, torn, salvage>>
        \/ /\ stage[h] = "truncate"
           /\ torn' = FALSE /\ salvage' = <<>> /\ UNCHANGED <<file, exists>>
        \/ /\ stage[h] \in {"rewrite", "write"}
           /\ file' = file \o written /\ exists' = TRUE
           /\ UNCHANGED <<torn, salvage>>
        \/ /\ stage[h] \in {"rewrite", "write"} /\ state[h].materialized
           /\ torn' = TRUE
           /\ \E k \in 0 .. Len(written) - 1 :
                IF Compressed THEN salvage' = Part(k) /\ UNCHANGED file
                ELSE file' = file \o Part(k) /\ UNCHANGED salvage
           /\ UNCHANGED exists
     /\ buffered' = Set(buffered, h, <<>>) /\ batch' = Set(batch, h, <<>>)
     /\ timer' = Set(timer, h, FALSE) /\ paused' = Set(paused, h, FALSE)
     /\ drain' = Set(drain, h, FALSE) /\ ending' = Set(ending, h, "no")
     /\ stage' = Set(stage, h, "none")
     /\ flush' = [c \in Callers |-> IF flush[c].on = h THEN Idle ELSE flush[c]]
     /\ UNCHANGED <<opened, live, state, promised>>

-----------------------------------------------------------------------------
\* create(): handle 1 is open on nothing, unlocked until it materializes.
Init ==
  /\ file = <<>> /\ exists = FALSE /\ torn = FALSE /\ salvage = <<>>
  /\ owner = NoOwner /\ opened = 1
  /\ st = [h \in Handles |-> IF h = 1 THEN "open" ELSE "unopened"]
  /\ live = [h \in Handles |-> <<>>]
  /\ buffered = [h \in Handles |-> <<>>] /\ timer = [h \in Handles |-> FALSE]
  /\ paused = [h \in Handles |-> FALSE] /\ drain = [h \in Handles |-> FALSE]
  /\ ending = [h \in Handles |-> "no"]
  /\ stage = [h \in Handles |-> "none"] /\ batch = [h \in Handles |-> <<>>]
  /\ state = [h \in Handles |-> Fresh(0, FALSE, <<>>, FALSE)]
  /\ flush = [c \in Callers |-> Idle]
  /\ promised = 0

Storage(h) ==
  \/ Capture(h) \/ AcquireLease(h) \/ Truncate(h) \/ Rewrite(h) \/ Write(h)
  \/ MutationFails(h)

Closing(h) == ClosePass(h) \/ Settled(h) \/ Release(h)

Next ==
  \/ \E h \in Handles :
       \/ Publish(h) \/ TimerFires(h) \/ Storage(h) \/ Cleared(h)
       \/ Close(h) \/ Closing(h) \/ Crash(h)
       \/ \E c \in Callers : FlushCall(c, h)
  \/ \E c \in Callers : Barrier(c)
  \/ Open

Spec == Init /\ [][Next]_vars

(***************************************************************************)
(* Storage calls settle, reactions run and timers fire.  The mutation      *)
(* chain and the promise queue are FIFO, so a barrier or a close is not    *)
(* overtaken for ever by drains that later flushes start: hence strong     *)
(* fairness.                                                               *)
(***************************************************************************)
Fairness ==
  /\ \A h \in Handles : /\ WF_vars(Storage(h)) /\ WF_vars(Cleared(h))
                         /\ WF_vars(TimerFires(h)) /\ SF_vars(Closing(h))
  /\ \A c \in Callers : SF_vars(Barrier(c))

LiveSpec == Spec /\ Fairness
-----------------------------------------------------------------------------
(***************************************************************************)
(* Properties.                                                             *)
(***************************************************************************)
Events == Handles \X (1 .. MaxEvents)
States == {"unopened", "open", "draining", "settling", "releasing", "closed", "dead"}
Stages == {"none", "lease", "truncate", "rewrite", "write", "refused"}
Endings == {"no", "done", "failed"}

\* Every variable stays in its type; a cursor counts no more than was logged.
TypeOK ==
  /\ file \in Seq(Events) /\ salvage \in Seq(Events)
  /\ exists \in BOOLEAN /\ torn \in BOOLEAN
  /\ owner \in Handles \cup {NoOwner} /\ opened \in Handles
  /\ st \in [Handles -> States] /\ stage \in [Handles -> Stages]
  /\ \A h \in Handles :
       /\ live[h] \in Seq(Events) /\ buffered[h] \in Seq(Events) /\ batch[h] \in Seq(Events)
       /\ state[h].cursor \in 0 .. Len(live[h])
  /\ timer \in [Handles -> BOOLEAN] /\ paused \in [Handles -> BOOLEAN]
  /\ drain \in [Handles -> BOOLEAN] /\ ending \in [Handles -> Endings]
  /\ flush \in [Callers -> [at : {"idle", "drain", "barrier"}, on : 0 .. MaxHandles,
                             goal : 0 .. MaxEvents, asked : 0 .. MaxEvents]]
  /\ promised \in 0 .. MaxEvents

(***************************************************************************)
(* "A failure retains the batch in order": through failed, retried and     *)
(* repaired writes, the session's log is exactly what the file holds, what *)
(* the handle recovered from the torn tail, the batch being written and    *)
(* the buffer, in this order, and the cursor stands at the batch.          *)
(***************************************************************************)
Accounted ==
  LET h == opened
      written == file \o state[h].recovered
  IN Routed(h) =>
       /\ live[h] = written \o batch[h] \o buffered[h]
       /\ state[h].cursor = Len(written)

(***************************************************************************)
(* The handles implement the promise of the seam: what a resolved flush    *)
(* covered stays at the start of the log whatever crashes, failed writes   *)
(* and torn-tail repairs follow.  It covers every event published before   *)
(* the flush, but for those behind the last look of a drain that it found  *)
(* over and not yet cleared (FlushCovers).                                 *)
(***************************************************************************)
Seam == INSTANCE DurableLog WITH
  accepted <- IF Routed(opened) THEN live[opened] ELSE Stored

DurabilityKept == Seam!Spec

(***************************************************************************)
(* "Drains through quiescence": a flush resolves only when every event     *)
(* published before it is stored (docs/subsystems/persistence.md:106).     *)
(* The code breaks it in the microtask between a drain's last look at the  *)
(* buffer and the clearing of `draining` (storage.ts:288-291).             *)
(***************************************************************************)
Resolved(c) ==
  LET h == flush[c].on
  IN /\ flush[c].at = "barrier" /\ flush'[c].at = "idle"
     /\ st[h] = "open" /\ st'[h] = "open" /\ state'[h].materialized

FlushCovers ==
  [][\A c \in Callers : Resolved(c) => Len(Stored) >= flush[c].asked]_vars

(***************************************************************************)
(* "Cross-process write-ownership lock [...] held for the whole life of a  *)
(* write handle": the log changes only under the hands of the handle that  *)
(* holds the lock.                                                         *)
(***************************************************************************)
OwnedWrites ==
  [][<<file, torn>>' # <<file, torn>> =>
       \E h \in Handles : owner = h /\ stage[h] \in {"truncate", "rewrite", "write"}
                          /\ (stage'[h] # stage[h] \/ batch'[h] # batch[h])]_vars

(***************************************************************************)
(* close() goes on to release its lock, unless a drain failed, only with   *)
(* everything published until then on disk, where a reader finds it.       *)
(***************************************************************************)
CloseDrains ==
  [][\A h \in Handles :
       st[h] = "draining" /\ st'[h] = "settling" /\ ~paused'[h] => Stored = live[h]]_vars

\* A flush resolves or rejects, although its drain may fail or the handle close.
FlushSettles == \A c \in Callers : flush[c].at # "idle" ~> flush[c].at = "idle"

\* close() ends, whatever fails, and whatever is published meanwhile.
CloseEnds == \A h \in Handles : st[h] = "draining" ~> st[h] \in {"closed", "dead"}

\* Nobody who awaits the handle waits for ever.
CallersServed == FlushSettles /\ CloseEnds

\* The write-behind window: a published event is written some time after, flush
\* or no flush, unless the process dies, the handle closes, or a failed drain
\* has paused the window until the next flush.
WriteBehind ==
  \A h \in Handles, n \in 1 .. MaxEvents :
    Len(live[h]) >= n ~> (Len(file) >= n \/ paused[h] \/ st[h] \in {"closed", "dead"})

=============================================================================
