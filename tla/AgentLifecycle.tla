---------------------------- MODULE AgentLifecycle ----------------------------
(***************************************************************************)
(* Attempts to publish an agent under one session id, and the disposal of  *)
(* what they publish: core/agent-loop/src/index.ts over the registries of  *)
(* core/session and core/agent and the writer claim of the JSONL backend.  *)
(*                                                                         *)
(* An attempt is one call of createAgent, of resume, or of the configured  *)
(* restoreOrCreate (which falls back from resume to create).  An action is *)
(* the code between two of its awaits; "pc" names the await.  One factory  *)
(* serves all attempts; the fibers that own them unload on their own.      *)
(*                                                                         *)
(* Events are counted, not told apart: "len" is the session's length,      *)
(* "cursor" what its write handle has stored.                              *)
(***************************************************************************)
EXTENDS Integers

CONSTANTS
    Attempts,   \* calls that compete for the one session id
    Nobody,     \* holder of a free registry entry or claim
    Entries,    \* entry points called: subset of EntryPoints
    MaxEvents,  \* bound on the session's length
    Hazards     \* what may go wrong: subset of AllHazards

EntryPoints == {"createAgent", "resume", "restore"}

\* "fails": storage, setup and listeners may reject; "aborts": a caller aborts
\* its signal; "unloads": an owner fiber unloads; "window": a plugin of the setup
\* appends while the unstored suffix is being written.
AllHazards == {"fails", "aborts", "unloads", "window"}

ASSUME ConstantsAssumption ==
    /\ Nobody \notin Attempts
    /\ Entries \subseteq EntryPoints
    /\ Hazards \subseteq AllHazards
    /\ MaxEvents \in Nat

VARIABLES
    at,        \* per attempt: its coroutine, write handle, driver and disposal
    writer,    \* the backend's in-process claim on the id
    made,      \* the session has a log on disk
    stored,    \* events in that log
    sessions,  \* the attempt entered in the session store
    agents,    \* the attempt entered in the agent registry
    factory    \* "active", "unloading", "disposed"

vars == <<at, writer, made, stored, sessions, agents, factory>>

Settled == {"published", "rejected"}
Places == Settled \cup
    {"uncalled", "waiting", "creating", "opening", "reading", "repairing", "storing",
     "closing", "setup", "flushing", "announcing", "rolling"}
Lookups == {"looking", "absent", "opening", "claimed"}

Uncalled ==
    [entry |-> "none", pc |-> "uncalled", back |-> "none", handle |-> "none",
     len |-> 0, cursor |-> 0, batch |-> 0, routed |-> -1,
     machine |-> "none", scope |-> "none", disp |-> "none",
     fused |-> FALSE, aborted |-> FALSE, late |-> FALSE, owner |-> "active"]

Init ==
    /\ at = [a \in Attempts |-> Uncalled]
    /\ writer = Nobody
    /\ made = FALSE /\ stored = 0
    /\ sessions = Nobody /\ agents = Nobody
    /\ factory = "active"

Put(a, r) == at' = [at EXCEPT ![a] = r]
Go(a, place) == at' = [at EXCEPT ![a].pc = place]
CanFail == "fails" \in Hazards

-----------------------------------------------------------------------------
(* Abort sources.                                                           *)

\* The signal that load (open, read) is raced against.
LoadAborted(a) == at[a].aborted \/ at[a].owner # "active" \/ factory # "active"

\* prepare() refuses: its owner or the factory is gone, or the caller aborted.
Refused(a) == LoadAborted(a)

\* The memoized disposal: its first caller aborts the setup and cancels the driver,
\* behind the announcement that is under way, if any.
Disposing(r) ==
    IF r.disp # "none" THEN r
    ELSE [r EXCEPT !.fused = TRUE,
                   !.disp = IF r.pc = "announcing" THEN "publication" ELSE "idle"]

-----------------------------------------------------------------------------
(* The backend's side of create and open.                                   *)

\* A created session nobody has written yet is known to this process only.
Pending == writer # Nobody /\ ~made /\ at[writer].handle \in {"open", "closing"}

Find(a) ==
    /\ at[a].back = "looking"
    /\ at' = [at EXCEPT ![a].back =
                  IF made \/ Pending \/ at[a].aborted THEN "failed" ELSE "absent"]
    /\ UNCHANGED <<writer, made, stored, sessions, agents, factory>>

\* Mutant of Register: the claim of another writer is not looked at.
RegisterOver(a) ==
    /\ at[a].back = "absent"
    /\ at' = [at EXCEPT ![a].back = "returned", ![a].handle = "open"]
    /\ writer' = a
    /\ UNCHANGED <<made, stored, sessions, agents, factory>>

Register(a) ==
    /\ at[a].back = "absent"
    /\ IF writer # Nobody \/ at[a].aborted
         THEN /\ at' = [at EXCEPT ![a].back = "failed"]
              /\ UNCHANGED writer
         ELSE /\ at' = [at EXCEPT ![a].back = "returned", ![a].handle = "open"]
              /\ writer' = a
    /\ UNCHANGED <<made, stored, sessions, agents, factory>>

Claim(a) ==
    /\ at[a].back = "opening"
    /\ IF writer # Nobody \/ LoadAborted(a)
         THEN /\ at' = [at EXCEPT ![a].back = "failed"]
              /\ UNCHANGED writer
         ELSE /\ at' = [at EXCEPT ![a].back = "claimed"]
              /\ writer' = a
    /\ UNCHANGED <<made, stored, sessions, agents, factory>>

\* Behind the claim, open looks for the log, locks and reads it.
Opened(a) ==
    /\ at[a].back = "claimed"
    /\ \/ /\ made /\ ~LoadAborted(a)
          /\ at' = [at EXCEPT ![a].back = "returned", ![a].handle = "open", ![a].cursor = stored]
          /\ UNCHANGED writer
       \/ /\ ~made
          /\ at' = [at EXCEPT ![a].back = "missing"]
          /\ writer' = Nobody
       \/ /\ made /\ (LoadAborted(a) \/ CanFail)
          /\ at' = [at EXCEPT ![a].back = "failed"]
          /\ writer' = Nobody
    /\ UNCHANGED <<made, stored, sessions, agents, factory>>

-----------------------------------------------------------------------------
(* Entry points.                                                            *)

Callable(a, entry) == at[a].pc = "uncalled" /\ entry \in Entries /\ factory = "active"
                      /\ at[a].owner = "active"

\* sessions.prepare refuses a live id; a fresh session holds its seed, if any.
StartCreate(r, seed) ==
    IF sessions = Nobody
      THEN [r EXCEPT !.pc = "creating", !.back = "looking", !.len = seed]
      ELSE [r EXCEPT !.pc = "rejected"]

CallCreateAgent(a) ==
    /\ Callable(a, "createAgent")
    /\ \E seed \in {0, 1} : Put(a, StartCreate([at[a] EXCEPT !.entry = "createAgent"], seed))
    /\ UNCHANGED <<writer, made, stored, sessions, agents, factory>>

StartOpen(r) == [r EXCEPT !.pc = "opening", !.back = "opening"]

CallResume(a) ==
    /\ Callable(a, "resume")
    /\ Put(a, StartOpen([at[a] EXCEPT !.entry = "resume"]))
    /\ UNCHANGED <<writer, made, stored, sessions, agents, factory>>

IdFree == sessions = Nobody /\ agents = Nobody

CallRestore(a) ==
    /\ Callable(a, "restore")
    /\ LET r == [at[a] EXCEPT !.entry = "restore"]
       IN  Put(a, IF IdFree THEN StartOpen(r) ELSE [r EXCEPT !.pc = "waiting"])
    /\ UNCHANGED <<writer, made, stored, sessions, agents, factory>>

\* The configured restore waits for a draining lifecycle of the same id.
WaitEnds(a) ==
    /\ at[a].pc = "waiting"
    /\ IdFree \/ factory # "active"
    /\ Put(a, IF factory = "active" THEN StartOpen(at[a]) ELSE [at[a] EXCEPT !.pc = "rejected"])
    /\ UNCHANGED <<writer, made, stored, sessions, agents, factory>>

-----------------------------------------------------------------------------
(* From an acquired write handle to a prepared agent.                       *)

StartClosing(r) == [r EXCEPT !.pc = "closing", !.handle = "closing"]

\* Mutants of Prepared: a refusal forgets the handle; nothing is refused.
PreparedLeaks(a, r) ==
    IF Refused(a) THEN [r EXCEPT !.pc = "rejected"]
    ELSE [r EXCEPT !.pc = "setup", !.machine = "maintenance", !.scope = "live"]

PreparedUnchecked(a, r) ==
    [r EXCEPT !.pc = "setup", !.machine = "maintenance", !.scope = "live"]

\* prepare() and the entry into maintenance, or a refusal that closes the handle.
Prepared(a, r) ==
    IF Refused(a) THEN StartClosing(r)
    ELSE [r EXCEPT !.pc = "setup", !.machine = "maintenance", !.scope = "live"]

Created(a) ==
    /\ at[a].pc = "creating" /\ at[a].back = "returned"
    /\ Put(a, Prepared(a, at[a]))
    /\ UNCHANGED <<writer, made, stored, sessions, agents, factory>>

\* A configured restore creates the session only where none is stored.
LoadFailed(a) ==
    /\ at[a].pc \in {"creating", "opening"}
    /\ at[a].back \in {"failed", "missing"}
    /\ IF at[a].back = "missing" /\ at[a].entry = "restore" /\ factory = "active"
         THEN Put(a, StartCreate(at[a], 0))
         ELSE Go(a, "rejected")
    /\ UNCHANGED <<writer, made, stored, sessions, agents, factory>>

\* Mutant of Abandon: an open is awaited without the race.
AbandonCreateOnly(a) ==
    /\ at[a].pc = "creating" /\ at[a].aborted
    /\ at[a].back \in Lookups \cup {"returned"}
    /\ at' = [at EXCEPT ![a].pc = "rejected", ![a].late = TRUE]
    /\ UNCHANGED <<writer, made, stored, sessions, agents, factory>>

\* raceAbortCall: an abort wins over the backend call, which goes on by itself.
Abandon(a) ==
    /\ \/ at[a].pc = "creating" /\ at[a].aborted
       \/ at[a].pc = "opening" /\ LoadAborted(a)
    /\ at[a].back \in Lookups \cup {"returned"}
    /\ at' = [at EXCEPT ![a].pc = "rejected", ![a].late = TRUE]
    /\ UNCHANGED <<writer, made, stored, sessions, agents, factory>>

Abandoned(a) == at[a].late /\ (at[a].back \in Lookups \/ at[a].handle = "open")

AbandonedCloses(a) ==
    /\ Abandoned(a) /\ at[a].handle = "open"
    /\ at' = [at EXCEPT ![a].handle = "closed"]
    /\ writer' = Nobody
    /\ UNCHANGED <<made, stored, sessions, agents, factory>>

OpenReturned(a) ==
    /\ at[a].pc = "opening" /\ at[a].back = "returned"
    /\ Go(a, "reading")
    /\ UNCHANGED <<writer, made, stored, sessions, agents, factory>>

\* sessions.prepare over the repaired log, which may add a marker of its end.
Restored(r) ==
    IF sessions # Nobody THEN {StartClosing(r)}
    ELSE {[r EXCEPT !.pc = "storing", !.len = n, !.batch = n] :
             n \in {r.cursor, r.cursor + 1} \cap (0 .. MaxEvents)}

\* The log is read; an interrupted turn gets its closers (here one event).
Read(a) ==
    /\ at[a].pc = "reading"
    /\ IF LoadAborted(a)
         THEN Put(a, StartClosing(at[a]))
         ELSE \/ \E r \in Restored(at[a]) : Put(a, r)
              \/ /\ 0 < at[a].cursor /\ at[a].cursor < MaxEvents
                 /\ Put(a, [at[a] EXCEPT !.pc = "repairing", !.batch = at[a].cursor + 1])
    /\ UNCHANGED <<writer, made, stored, sessions, agents, factory>>

\* Appends of a resume: the closers, then what the new session adds to them.
Repaired(a) ==
    /\ at[a].pc = "repairing"
    /\ \/ /\ stored' = at[a].batch
          /\ \E r \in Restored([at[a] EXCEPT !.cursor = at[a].batch]) : Put(a, r)
       \/ /\ CanFail
          /\ Put(a, StartClosing(at[a]))
          /\ UNCHANGED stored
    /\ UNCHANGED <<writer, made, sessions, agents, factory>>

Stored(a) ==
    /\ at[a].pc = "storing"
    /\ \/ /\ stored' = at[a].batch
          /\ Put(a, Prepared(a, [at[a] EXCEPT !.cursor = at[a].batch, !.batch = 0]))
       \/ /\ CanFail /\ at[a].batch # at[a].cursor
          /\ Put(a, StartClosing(at[a]))
          /\ UNCHANGED stored
    /\ UNCHANGED <<writer, made, sessions, agents, factory>>

\* A handle whose attempt failed before prepare() took it over is closed.
Closed(a) ==
    /\ at[a].pc = "closing"
    /\ at' = [at EXCEPT ![a].pc = "rejected", ![a].handle = "closed"]
    /\ writer' = Nobody
    /\ UNCHANGED <<made, stored, sessions, agents, factory>>

-----------------------------------------------------------------------------
(* Setup and publication, inside the agent's maintenance.                   *)

\* initializeAgent's rollback: maintenance ends, the shared disposal follows.
RolledBack(r) == Disposing([r EXCEPT !.pc = "rolling", !.machine = "idle"])

StartFlush(a) ==
    /\ at[a].pc = "setup" /\ ~at[a].fused
    /\ at' = [at EXCEPT ![a].pc = "flushing", ![a].batch = at[a].len]
    /\ UNCHANGED <<writer, made, stored, sessions, agents, factory>>

SetupFails(a) ==
    /\ at[a].pc = "setup"
    /\ at[a].fused \/ CanFail
    /\ Put(a, RolledBack(at[a]))
    /\ UNCHANGED <<writer, made, stored, sessions, agents, factory>>

\* Both registries are entered, then both creations announced.
Publish(a, r) ==
    \/ /\ r.fused \/ sessions # Nobody \/ agents # Nobody
       /\ Put(a, RolledBack(r))
       /\ sessions' = IF ~r.fused /\ sessions = Nobody THEN a ELSE sessions
       /\ UNCHANGED agents
    \/ /\ ~r.fused /\ sessions = Nobody /\ agents = Nobody
       /\ sessions' = a /\ agents' = a
       /\ LET entered == [r EXCEPT !.routed = r.len]
          IN  \/ Put(a, [entered EXCEPT !.pc = "announcing"])
              \/ CanFail /\ Put(a, RolledBack(entered))

\* A first write refuses a log that somebody else made meanwhile.
Writable(r) == r.cursor > 0 \/ ~made

\* appendUnstoredSuffix, and publish() right behind its await.
Flushed(a) ==
    /\ at[a].pc = "flushing"
    /\ LET r == at[a]
       IN  \/ /\ r.batch = r.cursor
              /\ Publish(a, [r EXCEPT !.batch = 0])
              /\ UNCHANGED <<made, stored>>
           \/ /\ r.batch # r.cursor /\ Writable(r)
              /\ made' = TRUE /\ stored' = r.batch
              /\ Publish(a, [r EXCEPT !.cursor = r.batch, !.batch = 0])
           \/ /\ r.batch # r.cursor /\ (CanFail \/ ~Writable(r))
              /\ Put(a, RolledBack([r EXCEPT !.batch = 0]))
              /\ UNCHANGED <<made, stored, sessions, agents>>
    /\ UNCHANGED <<writer, factory>>

Announced(a) ==
    /\ at[a].pc = "announcing"
    /\ \/ /\ ~at[a].fused
          /\ at' = [at EXCEPT ![a].pc = "published", ![a].machine = "idle"]
       \/ /\ at[a].fused \/ CanFail
          /\ Put(a, RolledBack(at[a]))
    /\ UNCHANGED <<writer, made, stored, sessions, agents, factory>>

RollbackEnds(a) ==
    /\ at[a].pc = "rolling" /\ at[a].disp = "done"
    /\ Go(a, "rejected")
    /\ UNCHANGED <<writer, made, stored, sessions, agents, factory>>

-----------------------------------------------------------------------------
(* The live agent: its driver, its plugins, its write handle.               *)

\* Room for an event and for the end of a turn behind it.
Room(a) == at[a].len + 2 <= MaxEvents

\* A turn, abstracted to its closing event.
Wake(a) ==
    /\ at[a].pc = "published" /\ at[a].machine = "idle" /\ ~at[a].fused
    /\ at[a].len < MaxEvents
    /\ at' = [at EXCEPT ![a].machine = "running"]
    /\ UNCHANGED <<writer, made, stored, sessions, agents, factory>>

\* A wake latched behind an abort is replayed at once, whoever disposes meanwhile.
TurnEnds(a) ==
    /\ at[a].machine = "running"
    /\ \/ at' = [at EXCEPT ![a].machine = "idle", ![a].len = @ + 1]
       \/ Room(a) /\ at' = [at EXCEPT ![a].len = @ + 1]
    /\ UNCHANGED <<writer, made, stored, sessions, agents, factory>>

\* A plugin mounted by the setup appends until its scope unwinds.
PluginAppends(a) ==
    /\ at[a].scope = "live" /\ Room(a)
    /\ \/ at[a].pc \in {"setup", "announcing", "published"}
       \/ at[a].pc = "flushing" /\ "window" \in Hazards
    /\ at' = [at EXCEPT ![a].len = @ + 1]
    /\ UNCHANGED <<writer, made, stored, sessions, agents, factory>>

\* Events of an entered session are routed to its handle, which writes only
\* what continues its log.
Buffered(r) == r.routed >= 0 /\ r.len > r.routed /\ r.len > r.cursor
Drainable(r) == Buffered(r) /\ r.cursor >= r.routed /\ Writable(r)

Drain(a) ==
    /\ at[a].handle = "open" /\ Drainable(at[a])
    /\ at' = [at EXCEPT ![a].cursor = at[a].len]
    /\ made' = TRUE /\ stored' = at[a].len
    /\ UNCHANGED <<writer, sessions, agents, factory>>

-----------------------------------------------------------------------------
(* The reverse teardown.                                                    *)

\* AgentHandle.dispose, called by whoever holds the handle.
DisposeCalled(a) ==
    /\ at[a].pc = "published" /\ at[a].disp = "none"
    /\ Put(a, Disposing(at[a]))
    /\ UNCHANGED <<writer, made, stored, sessions, agents, factory>>

\* Mutant of DisposeCancels: it waits for the caller's promise, not the publication.
DisposeAwaitsCaller(a) ==
    /\ at[a].disp = "publication" /\ at[a].pc \in Settled
    /\ at' = [at EXCEPT ![a].disp = "idle"]
    /\ UNCHANGED <<writer, made, stored, sessions, agents, factory>>

\* The cancel behind an announcement.  A scope that has unwound meanwhile took the
\* inbox projection along: then the cancel throws, and the waits are skipped.
DisposeCancels(a) ==
    /\ at[a].disp = "publication" /\ at[a].pc # "announcing"
    /\ \/ at' = [at EXCEPT ![a].disp = "idle"]
       \/ /\ at[a].scope # "live"
          /\ at' = [at EXCEPT ![a].disp = "closing", ![a].handle = "closing"]
    /\ UNCHANGED <<writer, made, stored, sessions, agents, factory>>

Unwinding(r) == [r EXCEPT !.scope = IF @ = "live" THEN "unwinding" ELSE @]

\* Mutant of DriverIdle: the scope unwinds right behind the cancel.
DriverCancelled(a) ==
    /\ at[a].disp = "idle"
    /\ Put(a, Unwinding([at[a] EXCEPT !.disp = "scope"]))
    /\ UNCHANGED <<writer, made, stored, sessions, agents, factory>>

DriverIdle(a) ==
    /\ at[a].disp = "idle" /\ at[a].machine = "idle"
    /\ Put(a, Unwinding([at[a] EXCEPT !.disp = "scope"]))
    /\ UNCHANGED <<writer, made, stored, sessions, agents, factory>>

ScopeUnwound(a) ==
    /\ at[a].scope = "unwinding"
    /\ at' = [at EXCEPT ![a].scope = "gone"]
    /\ UNCHANGED <<writer, made, stored, sessions, agents, factory>>

DisposeCloses(a) ==
    /\ at[a].disp = "scope" /\ at[a].scope = "gone"
    /\ at' = [at EXCEPT ![a].disp = "closing", ![a].handle = "closing"]
    /\ UNCHANGED <<writer, made, stored, sessions, agents, factory>>

Without(registry, a) == IF registry = a THEN Nobody ELSE registry

\* Mutant of DisposeEnds: the handle releases without a drain.
DisposeEndsUndrained(a) ==
    /\ at[a].disp = "closing"
    /\ at' = [at EXCEPT ![a].disp = "done", ![a].handle = "closed"]
    /\ writer' = Without(writer, a)
    /\ agents' = Without(agents, a) /\ sessions' = Without(sessions, a)
    /\ UNCHANGED <<made, stored, factory>>

\* close() drains the handle and gives back its claim, also where a write fails or
\* the buffer does not continue the log; then it rejects, which dispose() collects
\* before it leaves the registries.
DisposeEnds(a) ==
    /\ at[a].disp = "closing"
    /\ LET r == at[a]
           ended(how) == [r EXCEPT !.disp = "done", !.handle = how]
       IN  \/ /\ Drainable(r)
              /\ Put(a, [ended("closed") EXCEPT !.cursor = r.len])
              /\ made' = TRUE /\ stored' = r.len
           \/ /\ Buffered(r) /\ (CanFail \/ ~Drainable(r))
              /\ Put(a, ended("failed"))
              /\ UNCHANGED <<made, stored>>
           \/ /\ ~Buffered(r)
              /\ Put(a, ended("closed"))
              /\ UNCHANGED <<made, stored>>
    /\ writer' = Without(writer, a)
    /\ agents' = Without(agents, a) /\ sessions' = Without(sessions, a)
    /\ UNCHANGED factory

-----------------------------------------------------------------------------
(* Aborts and unloads.                                                      *)

OwnedByCaller(a) == at[a].entry \in {"createAgent", "resume"}
IsPrepared(a) == at[a].scope # "none"

CallerAborts(a) ==
    /\ "aborts" \in Hazards
    /\ OwnedByCaller(a) /\ at[a].pc \notin Settled /\ ~at[a].aborted
    /\ at' = [at EXCEPT ![a].aborted = TRUE, ![a].fused = @ \/ IsPrepared(a)]
    /\ UNCHANGED <<writer, made, stored, sessions, agents, factory>>

\* The owner's effect: it joins the disposal it starts, and does not join one
\* that is under way, but unwinds the scope next to it.
OwnerUnloads(a) ==
    /\ "unloads" \in Hazards
    /\ OwnedByCaller(a) /\ at[a].owner = "active"
    /\ at[a].pc # "rejected" /\ at[a].disp # "done"
    /\ LET r == at[a]
       IN  IF ~IsPrepared(a)
             THEN Put(a, [r EXCEPT !.owner = "unloaded"])
           ELSE IF r.disp = "none"
             THEN Put(a, Disposing([r EXCEPT !.owner = "joining"]))
           ELSE Put(a, Unwinding([r EXCEPT !.owner = "unwinding"]))
    /\ UNCHANGED <<writer, made, stored, sessions, agents, factory>>

OwnerUnloaded(a) ==
    /\ at[a].owner \in {"joining", "unwinding"}
    /\ IF at[a].owner = "joining" THEN at[a].disp = "done" ELSE at[a].scope = "gone"
    /\ at' = [at EXCEPT ![a].owner = "unloaded"]
    /\ UNCHANGED <<writer, made, stored, sessions, agents, factory>>

\* Mutant of FactoryUnloads: it only stops accepting.
FactoryUnloadsQuietly ==
    /\ factory = "active"
    /\ factory' = "unloading"
    /\ UNCHANGED <<at, writer, made, stored, sessions, agents>>

\* The factory's fiber minted every scope: its unload starts each disposal, and
\* next to it unwinds the scopes that no effect of its own has adopted.
FactoryUnloads ==
    /\ factory = "active"
    /\ factory' = "unloading"
    /\ at' = [a \in Attempts |->
                 IF ~IsPrepared(a) THEN at[a]
                 ELSE IF OwnedByCaller(a) THEN Unwinding(Disposing(at[a]))
                 ELSE Disposing(at[a])]
    /\ UNCHANGED <<writer, made, stored, sessions, agents>>

\* Mutant of Joined: calls that have no agent yet are not tracked.
JoinedAgents(a) == IsPrepared(a) => at[a].disp = "done" /\ at[a].scope = "gone"

\* It joins every call, every disposal it tracks and every scope.
Joined(a) ==
    /\ at[a].pc \in Settled \cup {"uncalled"}
    /\ IsPrepared(a) => at[a].disp = "done" /\ at[a].scope = "gone"

FactoryUnloaded ==
    /\ factory = "unloading"
    /\ \A a \in Attempts : Joined(a)
    /\ factory' = "disposed"
    /\ UNCHANGED <<at, writer, made, stored, sessions, agents>>

-----------------------------------------------------------------------------

Backend(a) == Find(a) \/ Register(a) \/ Claim(a) \/ Opened(a)

Load(a) ==
    \/ WaitEnds(a) \/ Created(a) \/ LoadFailed(a) \/ Abandon(a) \/ AbandonedCloses(a)
    \/ OpenReturned(a) \/ Read(a) \/ Repaired(a) \/ Stored(a) \/ Closed(a)

Publication(a) == Flushed(a) \/ Announced(a) \/ RollbackEnds(a)

Teardown(a) ==
    \/ DisposeCancels(a) \/ DriverIdle(a) \/ ScopeUnwound(a) \/ DisposeCloses(a)
    \/ DisposeEnds(a) \/ OwnerUnloaded(a)

Environment(a) ==
    \/ CallCreateAgent(a) \/ CallResume(a) \/ CallRestore(a)
    \/ StartFlush(a) \/ SetupFails(a)
    \/ Wake(a) \/ TurnEnds(a) \/ PluginAppends(a) \/ Drain(a)
    \/ DisposeCalled(a) \/ CallerAborts(a) \/ OwnerUnloads(a)

Next ==
    \/ \E a \in Attempts :
          Backend(a) \/ Load(a) \/ Publication(a) \/ Teardown(a) \/ Environment(a)
    \/ FactoryUnloads \/ FactoryUnloaded

Spec == Init /\ [][Next]_vars

\* Continuations run and storage settles, except an open, which nobody needs to
\* settle; a setup may hang until it is aborted; a cancelled turn ends.
Fairness ==
    /\ \A a \in Attempts :
          /\ WF_vars(Find(a) \/ Register(a)) /\ WF_vars(Load(a))
          /\ WF_vars(Publication(a)) /\ WF_vars(Teardown(a))
          /\ WF_vars(at[a].fused /\ (SetupFails(a) \/ TurnEnds(a)))
    /\ WF_vars(FactoryUnloaded)

LiveSpec == Spec /\ Fairness

-----------------------------------------------------------------------------
(* Properties.                                                              *)

AttemptType ==
    [entry : EntryPoints \cup {"none"},
     pc : Places,
     back : Lookups \cup {"none", "returned", "failed", "missing"},
     handle : {"none", "open", "closing", "closed", "failed"},
     len : 0 .. MaxEvents, cursor : 0 .. MaxEvents, batch : 0 .. MaxEvents,
     routed : -1 .. MaxEvents,
     machine : {"none", "maintenance", "idle", "running"},
     scope : {"none", "live", "unwinding", "gone"},
     disp : {"none", "publication", "idle", "scope", "closing", "done"},
     fused : BOOLEAN, aborted : BOOLEAN, late : BOOLEAN,
     owner : {"active", "joining", "unwinding", "unloaded"}]

\* Every variable has its type, and no session is longer than its bound.
TypeOK ==
    /\ at \in [Attempts -> AttemptType]
    /\ writer \in Attempts \cup {Nobody}
    /\ made \in BOOLEAN /\ stored \in 0 .. MaxEvents
    /\ sessions \in Attempts \cup {Nobody} /\ agents \in Attempts \cup {Nobody}
    /\ factory \in {"active", "unloading", "disposed"}

\* Whoever is in a registry owns the id's write path: its handle is the one the
\* backend routes live events to, from before it is entered until it has left
\* (prepare's publish and dispose, registerCreated and claimWrite).
RegisteredOwnsLog ==
    /\ sessions # Nobody => (writer = sessions /\ at[sessions].handle \in {"open", "closing"})
    /\ agents # Nobody => agents = sessions

\* Two fibers unwind a scope without waiting for its disposal: the factory's, of
\* agents that others own, and an owner's that finds a disposal under way.
UnwoundByFiber(a) ==
    /\ OwnedByCaller(a)
    /\ factory # "active" \/ at[a].owner \in {"unwinding", "unloaded"}

\* A settled failure leaves nothing behind, whichever await it failed at and
\* whoever else was tearing it down: no registry entry, no scope, no working
\* driver, no claim on the id (the rollbacks of createAgent, resumeWith,
\* setupAndPublish and initializeAgent).  A backend call that lost its race is
\* exempt until its late handle has been closed.
NoResidue ==
    \A a \in Attempts : at[a].pc = "rejected" /\ ~Abandoned(a) =>
        /\ sessions # a /\ agents # a /\ writer # a
        /\ at[a].scope \in {"none", "gone"} \/ UnwoundByFiber(a)
        /\ at[a].machine \in {"none", "idle"}
        /\ at[a].handle \in {"none", "closed", "failed"}

\* A driver outlives the scope its plugins are mounted in only where a fiber
\* unwinds that scope by itself; every disposal, whoever began it, unwinds it
\* behind whenIdle() (prepare's dispose).
DriverBeforeScope ==
    \A a \in Attempts :
        at[a].scope \in {"unwinding", "gone"} => at[a].machine = "idle" \/ UnwoundByFiber(a)

\* A disposal loses nothing silently: where the close of its handle has resolved,
\* what the session committed is on disk, setup events through appendUnstoredSuffix,
\* live ones through the routed handle, the last turn's through close().  Only what
\* a plugin appended while that suffix was being written is missing, and only if no
\* event followed it: with one behind the gap the close rejects.
EventsStored ==
    \A a \in Attempts :
        (at[a].disp = "done" /\ at[a].handle = "closed" /\ at[a].routed >= 0) =>
            \/ at[a].cursor = at[a].len
            \/ at[a].cursor < at[a].routed /\ at[a].len = at[a].routed

\* A disposed factory is quiescent: no agent, no session, no handle of a settled
\* attempt, and no attempt that could still publish one (FactoryOwnership.dispose
\* joins live agents, startups and public calls).
FactoryQuiescent ==
    factory = "disposed" =>
        /\ sessions = Nobody /\ agents = Nobody
        /\ \A a \in Attempts :
              /\ at[a].handle = "open" => Abandoned(a)
              /\ at[a].pc \in Settled \cup {"uncalled"}

\* Neither a failure nor a disposed factory leaves anything behind.
NothingLeft == NoResidue /\ FactoryQuiescent

\* No agent becomes ready for a caller that has aborted, or under an owner or a
\* factory that has begun to unload, however early in the attempt that was.
NoLatePublication ==
    [][\A a \in Attempts :
          at[a].pc # "published" /\ at'[a].pc = "published" => ~LoadAborted(a)]_vars

\* Whatever began to end does end, and stays so: an aborted attempt is settled,
\* even when the backend's open never is, a disposal leaves the id free for the
\* next attempt, and the factory's unload does not hang on either.
EndingsEnd ==
    <>[](/\ \A a \in Attempts :
              /\ at[a].aborted => at[a].pc \in Settled
              /\ at[a].disp # "none" => at[a].disp = "done" /\ sessions # a
         /\ factory # "unloading")

=============================================================================
