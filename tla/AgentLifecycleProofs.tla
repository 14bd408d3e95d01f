------------------------- MODULE AgentLifecycleProofs -------------------------
(***************************************************************************)
(* Proofs about AgentLifecycle for any number of attempts, any entry       *)
(* points and any hazards.                                                 *)
(***************************************************************************)
EXTENDS AgentLifecycle, TLAPS

-----------------------------------------------------------------------------
(***************************************************************************)
(* The inductive invariant: what one attempt may be at each place, given   *)
(* the factory, and whom the shared registries and the claim belong to.    *)
(***************************************************************************)
Backs     == Lookups \cup {"none", "returned", "failed", "missing"}
Handles   == {"none", "open", "closing", "closed", "failed"}
Machines  == {"none", "maintenance", "idle", "running"}
Scopes    == {"none", "live", "unwinding", "gone"}
Disposals == {"none", "publication", "idle", "scope", "closing", "done"}
Owners    == {"active", "joining", "unwinding", "unloaded"}
Calls     == EntryPoints \cup {"none"}

Attempt ==
    [entry : Calls, pc : Places, back : Backs, handle : Handles,
     len : Nat, cursor : Nat, batch : Nat, routed : Int,
     machine : Machines, scope : Scopes, disp : Disposals,
     fused : BOOLEAN, aborted : BOOLEAN, late : BOOLEAN, owner : Owners]

Typed ==
    /\ at \in [Attempts -> Attempt]
    /\ writer \in Attempts \cup {Nobody} /\ stored \in Nat
    /\ factory \in {"active", "unloading", "disposed"}

Early == {"uncalled", "waiting", "creating", "opening", "reading", "repairing", "storing",
          "closing"}

\* How far an attempt without an agent is with its load, and its handle.
Loading(r) ==
    /\ r.pc \in Early => ~r.late
    /\ r.machine = "none" /\ r.disp = "none" /\ ~r.fused
    /\ r.pc \in Early \cup {"rejected"}
    /\ r.pc \in {"uncalled", "waiting"} => r.back = "none"
    /\ r.pc = "creating" => r.back \in {"looking", "absent", "failed", "missing", "returned"}
    /\ r.pc = "opening" => r.back \in {"opening", "claimed", "failed", "missing", "returned"}
    /\ r.pc \in {"reading", "repairing", "storing", "closing"} => r.back = "returned"
    /\ r.back # "returned" => r.handle = "none"
    /\ r.pc = "closing" => r.handle = "closing"
    /\ r.pc \in Early \ {"closing"} /\ r.back = "returned" => r.handle = "open"
    /\ r.pc = "rejected" => /\ r.handle # "closing"
                            /\ r.back \in Lookups \/ r.handle = "open" => r.late

\* How far an agent is, its driver, its disposal and its handle.
Living(r) ==
    /\ r.back = "returned" /\ ~r.late
    /\ r.disp = "done" => r.handle \in {"closed", "failed"}
    /\ r.disp = "closing" => r.handle = "closing"
    /\ r.disp \notin {"closing", "done"} => r.handle = "open"
    /\ r.disp # "none" => r.fused
    /\ r.disp \in {"scope", "closing", "done"} => r.machine = "idle" /\ r.scope # "live"
    /\ \/ r.pc \in {"setup", "flushing"} /\ r.disp \in {"none", "idle"} /\ r.machine = "maintenance"
       \/ r.pc = "announcing" /\ r.disp \in {"none", "publication"} /\ r.machine = "maintenance"
       \/ r.pc = "published" /\ r.disp # "publication" /\ r.machine \in {"idle", "running"}
       \/ r.pc = "rolling" /\ r.disp # "none" /\ r.machine = "idle"
       \/ r.pc = "rejected" /\ r.disp = "done" /\ r.machine = "idle"

\* A fiber unwinds the scope without waiting for the disposal.
ByFiber(r, f) ==
    /\ r.entry \in {"createAgent", "resume"}
    /\ f # "active" \/ r.owner \in {"unwinding", "unloaded"}

Unwound(r, f) ==
    r.scope \in {"unwinding", "gone"} =>
        \/ ByFiber(r, f)
        \/ r.disp = "scope"
        \/ r.disp \in {"closing", "done"} /\ r.scope = "gone"

\* Whatever ends an agent has aborted its setup.
Warned(r, f) == r.aborted \/ r.owner # "active" \/ f # "active" => r.fused

\* What the factory has joined.
Ended(r) == r.pc \in Settled \cup {"uncalled"} /\ (r.scope # "none" => r.disp = "done" /\ r.scope = "gone")

Sound(r, f) ==
    /\ r.scope = "none" => Loading(r)
    /\ r.scope # "none" => Living(r) /\ Unwound(r, f) /\ Warned(r, f)
    /\ f = "disposed" => Ended(r)

Holds(r) == r.back = "claimed" \/ r.handle \in {"open", "closing"}

Enters(r) == r.scope # "none" /\ r.disp # "done"

Claims == \A a \in Attempts : Holds(at[a]) <=> writer = a

Entered ==
    /\ sessions # Nobody => sessions \in Attempts /\ Enters(at[sessions])
    /\ agents # Nobody => agents = sessions

Inductive ==
    Typed /\ (\A a \in Attempts : Sound(at[a], factory)) /\ Claims /\ Entered

\* What a step of one attempt, from q to r, keeps when it does not touch the claim.
Keeps(q, r, f) ==
    r \in Attempt /\ Sound(r, f) /\ (Holds(r) <=> Holds(q)) /\ (Enters(q) => Enters(r))

-----------------------------------------------------------------------------
LEMMA Values ==
    /\ {"published", "rejected", "uncalled", "waiting", "creating", "opening", "reading",
        "repairing", "storing", "closing", "setup", "flushing", "announcing", "rolling"}
         \subseteq Places
    /\ {"looking", "absent", "opening", "claimed", "none", "returned", "failed", "missing"}
         \subseteq Backs
    /\ {"none", "open", "closing", "closed", "failed"} \subseteq Handles
    /\ {"none", "maintenance", "idle", "running"} \subseteq Machines
    /\ {"none", "live", "unwinding", "gone"} \subseteq Scopes
    /\ {"none", "publication", "idle", "scope", "closing", "done"} \subseteq Disposals
    /\ {"active", "joining", "unwinding", "unloaded"} \subseteq Owners
    /\ {"none", "createAgent", "resume", "restore"} \subseteq Calls
  BY DEF Places, Settled, Backs, Lookups, Handles, Machines, Scopes, Disposals, Owners, Calls,
    EntryPoints

\* A step of one attempt that leaves the claim and the registries alone.
LEMMA Alone ==
    ASSUME Inductive, NEW a \in Attempts, NEW r,
           at' = [at EXCEPT ![a] = r], Keeps(at[a], r, factory), stored' \in Nat,
           UNCHANGED <<writer, sessions, agents, factory>>
    PROVE  Inductive'
<1>1. at \in [Attempts -> Attempt] /\ Typed /\ r \in Attempt
  BY DEF Inductive, Typed, Keeps
<1>2. at'[a] = r /\ \A b \in Attempts : b # a => at'[b] = at[b]
  BY <1>1
<1>3. Typed'
  BY <1>1 DEF Typed
<1>4. \A b \in Attempts : Sound(at'[b], factory')
  BY <1>2 DEF Inductive, Keeps
<1>5. Claims'
  BY <1>2 DEF Inductive, Claims, Keeps
<1>6. Entered'
  BY <1>2 DEF Inductive, Entered, Keeps
<1> QED BY <1>3, <1>4, <1>5, <1>6 DEF Inductive

\* A step of one attempt that takes the claim or gives it back.
LEMMA Claiming ==
    ASSUME Inductive, NEW a \in Attempts, NEW r \in Attempt,
           at' = [at EXCEPT ![a] = r], UNCHANGED <<stored, sessions, agents, factory>>,
           Sound(r, factory), Enters(at[a]) => Enters(r),
           \/ writer = Nobody /\ writer' = a /\ Holds(r)
           \/ writer = a /\ writer' = Nobody /\ ~Holds(r)
    PROVE  Inductive'
<1>1. at \in [Attempts -> Attempt] /\ Typed
  BY DEF Inductive, Typed
<1>2. at'[a] = r /\ \A b \in Attempts : b # a => at'[b] = at[b]
  BY <1>1
<1>3. Typed'
  BY <1>1 DEF Typed
<1>4. \A b \in Attempts : Sound(at'[b], factory')
  BY <1>2 DEF Inductive
<1>5. Claims'
  BY <1>2, ConstantsAssumption DEF Inductive, Claims
<1>6. Entered'
  BY <1>2 DEF Inductive, Entered
<1> QED BY <1>3, <1>4, <1>5, <1>6 DEF Inductive

LEMMA Attempting ==
    ASSUME Inductive, NEW a \in Attempts
    PROVE  /\ at \in [Attempts -> Attempt] /\ at[a] \in Attempt /\ stored \in Nat
           /\ Sound(at[a], factory) /\ (Holds(at[a]) <=> writer = a) /\ a # Nobody
           /\ factory \in {"active", "unloading", "disposed"}
  BY ConstantsAssumption DEF Inductive, Typed, Claims

-----------------------------------------------------------------------------
(***************************************************************************)
(* The backend.                                                            *)
(***************************************************************************)
\* What the backend answers moves nothing but "back", and the handle with it.
LEMMA Answers ==
    ASSUME NEW q \in Attempt, NEW f, Sound(q, f), q.back \in {"looking", "absent", "opening"}
    PROVE  /\ q.back \in {"looking"} => Keeps(q, [q EXCEPT !.back = "absent"], f)
           /\ Keeps(q, [q EXCEPT !.back = "failed"], f)
  BY Values DEF Keeps, Attempt, Sound, Loading, Living, Ended, Holds, Lookups, Enters, Early

\* A lookup that succeeds hands out the handle; only an attempt without an agent
\* has one under way.
LEMMA Acquires ==
    ASSUME NEW q \in Attempt, NEW f, Sound(q, f), q.back \in Lookups,
           NEW r \in Attempt, r.back = "returned", r.handle = "open",
           r.pc = q.pc, r.scope = q.scope, r.machine = q.machine, r.disp = q.disp,
           r.fused = q.fused, r.late = q.late
    PROVE  Sound(r, f) /\ Holds(r) /\ (Enters(q) => Enters(r))
<1>1. q.scope = "none" /\ Loading(q)
  BY DEF Sound, Living, Lookups
<1>2. Loading(r)
  BY <1>1 DEF Loading, Lookups, Early
<1>3. Ended(q) => Ended(r)
  BY <1>1 DEF Ended
<1> QED BY <1>1, <1>2, <1>3 DEF Sound, Holds, Enters

LEMMA FindStep ==
    ASSUME Inductive, NEW a \in Attempts, Find(a)
    PROVE  Inductive'
<1> DEFINE x == IF made \/ Pending \/ at[a].aborted THEN "failed" ELSE "absent"
           r == [at[a] EXCEPT !.back = x]
<1>1. at' = [at EXCEPT ![a] = r] /\ UNCHANGED <<writer, stored, sessions, agents, factory>>
  BY Attempting DEF Find
<1>2. at[a].back = "looking" /\ x \in {"failed", "absent"}
  BY DEF Find
<1>3. Keeps(at[a], r, factory)
  BY <1>2, Attempting, Answers
<1> HIDE DEF r
<1> QED BY <1>1, <1>3, Attempting, Alone

LEMMA RegisterStep ==
    ASSUME Inductive, NEW a \in Attempts, Register(a)
    PROVE  Inductive'
<1>1. at[a].back = "absent"
  BY DEF Register
<1>2. CASE writer # Nobody \/ at[a].aborted
  <2> DEFINE r == [at[a] EXCEPT !.back = "failed"]
  <2>1. at' = [at EXCEPT ![a] = r] /\ UNCHANGED <<writer, stored, sessions, agents, factory>>
    BY <1>2, Attempting DEF Register
  <2>2. Keeps(at[a], r, factory)
    BY <1>1, Attempting, Answers
  <2> HIDE DEF r
  <2> QED BY <2>1, <2>2, Attempting, Alone
<1>3. CASE ~(writer # Nobody \/ at[a].aborted)
  <2> DEFINE r == [at[a] EXCEPT !.back = "returned", !.handle = "open"]
  <2>1. /\ at' = [at EXCEPT ![a] = r] /\ writer = Nobody /\ writer' = a
        /\ UNCHANGED <<stored, sessions, agents, factory>>
    BY <1>3, Attempting DEF Register
  <2>2. /\ r \in Attempt /\ r.back = "returned" /\ r.handle = "open" /\ r.pc = at[a].pc
        /\ r.scope = at[a].scope /\ r.machine = at[a].machine /\ r.disp = at[a].disp
        /\ r.fused = at[a].fused /\ r.late = at[a].late
    <3>1. at[a] \in Attempt /\ stored \in Nat
      BY Attempting
    <3> QED BY <3>1, Values DEF Attempt
  <2> HIDE DEF r
  <2>3. Sound(r, factory) /\ Holds(r) /\ (Enters(at[a]) => Enters(r))
    BY <1>1, <2>2, Attempting, Acquires DEF Lookups
  <2> QED BY <2>1, <2>2, <2>3, Claiming
<1> QED BY <1>2, <1>3

LEMMA ClaimStep ==
    ASSUME Inductive, NEW a \in Attempts, Claim(a)
    PROVE  Inductive'
<1>1. at[a].back = "opening"
  BY DEF Claim
<1>2. CASE writer # Nobody \/ LoadAborted(a)
  <2> DEFINE r == [at[a] EXCEPT !.back = "failed"]
  <2>1. at' = [at EXCEPT ![a] = r] /\ UNCHANGED <<writer, stored, sessions, agents, factory>>
    BY <1>2, Attempting DEF Claim
  <2>2. Keeps(at[a], r, factory)
    BY <1>1, Attempting, Answers
  <2> HIDE DEF r
  <2> QED BY <2>1, <2>2, Attempting, Alone
<1>3. CASE ~(writer # Nobody \/ LoadAborted(a))
  <2> DEFINE r == [at[a] EXCEPT !.back = "claimed"]
  <2>1. /\ at' = [at EXCEPT ![a] = r] /\ writer = Nobody /\ writer' = a
        /\ UNCHANGED <<stored, sessions, agents, factory>>
    BY <1>3, Attempting DEF Claim
  <2>2. r \in Attempt /\ Sound(r, factory) /\ Holds(r) /\ (Enters(at[a]) => Enters(r))
    BY <1>1, Attempting, Values
      DEF Attempt, Sound, Loading, Living, Ended, Holds, Lookups, Enters, Early
  <2> HIDE DEF r
  <2> QED BY <2>1, <2>2, Claiming
<1> QED BY <1>2, <1>3

LEMMA OpenedStep ==
    ASSUME Inductive, NEW a \in Attempts, Opened(a)
    PROVE  Inductive'
<1>1. at[a].back = "claimed" /\ writer = a
  BY Attempting DEF Opened, Holds
<1>2. CASE /\ at' = [at EXCEPT ![a].back = "returned", ![a].handle = "open", ![a].cursor = stored]
           /\ UNCHANGED writer
  <2> DEFINE r == [at[a] EXCEPT !.back = "returned", !.handle = "open", !.cursor = stored]
  <2>1. at' = [at EXCEPT ![a] = r] /\ UNCHANGED <<writer, stored, sessions, agents, factory>>
    BY <1>2, Attempting DEF Opened
  <2>2. /\ r \in Attempt /\ r.back = "returned" /\ r.handle = "open" /\ r.pc = at[a].pc
        /\ r.scope = at[a].scope /\ r.machine = at[a].machine /\ r.disp = at[a].disp
        /\ r.fused = at[a].fused /\ r.late = at[a].late
    <3>1. at[a] \in Attempt /\ stored \in Nat
      BY Attempting
    <3> QED BY <3>1, Values DEF Attempt
  <2> HIDE DEF r
  <2>3. Keeps(at[a], r, factory)
    BY <1>1, <2>2, Attempting, Acquires DEF Lookups, Keeps, Holds
  <2> QED BY <2>1, <2>3, Attempting, Alone
<1>3. ASSUME NEW x \in {"missing", "failed"}, at' = [at EXCEPT ![a].back = x], writer' = Nobody
      PROVE  Inductive'
  <2> DEFINE r == [at[a] EXCEPT !.back = x]
  <2>1. /\ at' = [at EXCEPT ![a] = r] /\ UNCHANGED <<stored, sessions, agents, factory>>
    BY <1>3, Attempting DEF Opened
  <2>2. r \in Attempt /\ Sound(r, factory) /\ ~Holds(r) /\ (Enters(at[a]) => Enters(r))
    BY <1>1, Attempting, Values
      DEF Attempt, Sound, Loading, Living, Ended, Holds, Lookups, Enters, Early
  <2> HIDE DEF r
  <2> QED BY <1>1, <1>3, <2>1, <2>2, Claiming
<1> QED BY <1>2, <1>3 DEF Opened

-----------------------------------------------------------------------------
(***************************************************************************)
(* Calls.                                                                  *)
(***************************************************************************)
LEMMA Begins ==
    ASSUME NEW q \in Attempt, Sound(q, "active"), q.pc \in {"uncalled", "waiting"},
           NEW e \in EntryPoints
    PROVE  LET r == [q EXCEPT !.entry = e]
           IN  /\ Keeps(q, StartOpen(r), "active") /\ Keeps(q, StartOpen(q), "active")
               /\ Keeps(q, [r EXCEPT !.pc = "waiting"], "active")
               /\ Keeps(q, [r EXCEPT !.pc = "rejected"], "active")
               /\ \A n \in Nat :
                    Keeps(q, [r EXCEPT !.pc = "creating", !.back = "looking", !.len = n], "active")
<1> DEFINE r == [q EXCEPT !.entry = e]
<1>1. q.scope = "none" /\ Loading(q) /\ ~Holds(q) /\ ~Enters(q)
  BY DEF Sound, Living, Loading, Early, Holds, Enters
<1>2. r \in Attempt /\ r.pc = q.pc /\ Sound(r, "active") /\ Loading(r) /\ r.scope = "none"
  BY <1>1 DEF Attempt, Sound, Loading, Early, Calls
<1> HIDE DEF r
<1>3. Keeps(q, StartOpen(r), "active") /\ Keeps(q, StartOpen(q), "active")
  BY <1>1, <1>2, Values
    DEF StartOpen, Keeps, Attempt, Sound, Loading, Holds, Enters, Early, Settled, Lookups
<1>4. /\ Keeps(q, [r EXCEPT !.pc = "waiting"], "active")
      /\ Keeps(q, [r EXCEPT !.pc = "rejected"], "active")
  BY <1>1, <1>2, Values
    DEF Keeps, Attempt, Sound, Loading, Holds, Enters, Early, Settled, Lookups
<1>5. ASSUME NEW n \in Nat
      PROVE  Keeps(q, [r EXCEPT !.pc = "creating", !.back = "looking", !.len = n], "active")
  BY <1>1, <1>2, Values
    DEF Keeps, Attempt, Sound, Loading, Holds, Enters, Early, Settled, Lookups
<1> QED BY <1>3, <1>4, <1>5 DEF r

LEMMA CallStep ==
    ASSUME Inductive, NEW a \in Attempts,
           CallCreateAgent(a) \/ CallResume(a) \/ CallRestore(a) \/ WaitEnds(a)
    PROVE  Inductive'
<1> DEFINE q == at[a]
<1>1. q \in Attempt /\ Sound(q, factory) /\ stored' \in Nat
      /\ UNCHANGED <<writer, sessions, agents, factory>>
  BY Attempting DEF CallCreateAgent, CallResume, CallRestore, WaitEnds
<1>2. q.pc \in {"uncalled", "waiting"}
  BY DEF CallCreateAgent, CallResume, CallRestore, WaitEnds, Callable
<1>3. SUFFICES \E r : at' = [at EXCEPT ![a] = r] /\ Keeps(q, r, factory)
  BY <1>1, Alone
<1>4. CASE CallCreateAgent(a)
  <2>1. PICK n \in {0, 1} : Put(a, StartCreate([q EXCEPT !.entry = "createAgent"], n))
    BY <1>4 DEF CallCreateAgent
  <2>2. factory = "active" /\ "createAgent" \in EntryPoints /\ n \in Nat
    BY <1>4 DEF CallCreateAgent, Callable, EntryPoints
  <2> QED BY <1>1, <1>2, <2>1, <2>2, Begins DEF StartCreate, Put
<1>5. CASE CallResume(a)
  <2>1. factory = "active" /\ "resume" \in EntryPoints
    BY <1>5 DEF CallResume, Callable, EntryPoints
  <2> QED BY <1>1, <1>2, <1>5, <2>1, Begins DEF CallResume, Put
<1>6. CASE CallRestore(a)
  <2>1. factory = "active" /\ "restore" \in EntryPoints
    BY <1>6 DEF CallRestore, Callable, EntryPoints
  <2> QED BY <1>1, <1>2, <1>6, <2>1, Begins DEF CallRestore, Put
<1>7. CASE WaitEnds(a)
  <2>1. CASE factory = "active"
    <3>1. "restore" \in EntryPoints
      BY DEF EntryPoints
    <3> QED BY <1>1, <1>2, <1>7, <2>1, <3>1, Begins DEF WaitEnds, Put
  <2>2. CASE factory # "active"
    <3> DEFINE r == [q EXCEPT !.pc = "rejected"]
    <3>1. at' = [at EXCEPT ![a] = r] /\ q.pc = "waiting"
      BY <1>7, <2>2 DEF WaitEnds, Put
    <3>2. q.scope = "none" /\ Loading(q)
      BY <1>1, <1>2 DEF Sound, Living
    <3>3. Keeps(q, r, factory)
      BY <1>1, <3>1, <3>2, Values
        DEF Keeps, Attempt, Sound, Loading, Holds, Enters, Early, Settled, Lookups, Ended
    <3> QED BY <3>1, <3>3
  <2> QED BY <2>1, <2>2
<1> QED BY <1>4, <1>5, <1>6, <1>7

-----------------------------------------------------------------------------
(***************************************************************************)
(* Loads.                                                                  *)
(***************************************************************************)
\* A load goes on with its handle, or closes it.
LEMMA Loads ==
    ASSUME NEW q \in Attempt, NEW f, Sound(q, f), q.back = "returned",
           q.pc \in {"creating", "opening", "reading", "repairing", "storing"},
           NEW r \in Attempt, r.back = q.back, r.late = q.late, r.scope = q.scope,
           r.machine = q.machine, r.disp = q.disp, r.fused = q.fused,
           \/ r.pc \in {"reading", "repairing", "storing"} /\ r.handle = q.handle
           \/ r.pc = "closing" /\ r.handle = "closing"
    PROVE  Keeps(q, r, f)
<1>1. q.scope = "none" /\ Loading(q) /\ q.handle = "open" /\ f # "disposed"
  BY DEF Sound, Living, Loading, Ended, Settled, Early
<1>2. Loading(r)
  BY <1>1 DEF Loading, Early
<1> QED BY <1>1, <1>2 DEF Keeps, Sound, Holds, Enters

\* prepare() mounts the agent of an attempt nobody has refused.
LEMMA Prepares ==
    ASSUME NEW q \in Attempt, NEW f, Sound(q, f), q.back = "returned",
           q.pc \in {"creating", "storing"},
           ~(q.aborted \/ q.owner # "active" \/ f # "active")
    PROVE  Keeps(q, [q EXCEPT !.pc = "setup", !.machine = "maintenance", !.scope = "live"], f)
<1> DEFINE r == [q EXCEPT !.pc = "setup", !.machine = "maintenance", !.scope = "live"]
<1>1. q.scope = "none" /\ q.handle = "open" /\ q.disp = "none" /\ ~q.fused /\ ~q.late
  BY DEF Sound, Living, Loading, Early
<1>2. /\ r \in Attempt /\ r.back = q.back /\ r.late = q.late /\ r.handle = q.handle
      /\ r.disp = q.disp /\ r.fused = q.fused /\ r.pc = "setup" /\ r.scope = "live"
      /\ r.machine = "maintenance" /\ r.aborted = q.aborted /\ r.owner = q.owner
  <2>1. r \in Attempt
    BY Values DEF Attempt
  <2>2. /\ r.back = q.back /\ r.late = q.late /\ r.handle = q.handle
        /\ r.disp = q.disp /\ r.fused = q.fused
    BY Values DEF Attempt
  <2>3. /\ r.pc = "setup" /\ r.scope = "live" /\ r.machine = "maintenance"
        /\ r.aborted = q.aborted /\ r.owner = q.owner
    BY Values DEF Attempt
  <2> QED BY <2>1, <2>2, <2>3
<1> HIDE DEF r
<1>3. Living(r) /\ Unwound(r, f) /\ Warned(r, f)
  BY <1>1, <1>2 DEF Living, Unwound, Warned
<1>4. Keeps(q, r, f)
  BY <1>1, <1>2, <1>3 DEF Keeps, Sound, Holds, Enters
<1> QED BY <1>4 DEF r

LEMMA StartsClosing ==
    ASSUME NEW q \in Attempt, NEW f, Sound(q, f), q.back = "returned",
           q.pc \in {"creating", "opening", "reading", "repairing", "storing"}
    PROVE  Keeps(q, StartClosing(q), f)
<1> DEFINE r == StartClosing(q)
<1>1. /\ r \in Attempt /\ r.back = q.back /\ r.late = q.late /\ r.scope = q.scope
      /\ r.machine = q.machine /\ r.disp = q.disp /\ r.fused = q.fused
      /\ r.pc = "closing" /\ r.handle = "closing"
  BY Values DEF Attempt, StartClosing
<1> HIDE DEF r
<1>2. Keeps(q, r, f)
  BY <1>1, Loads
<1> QED BY <1>2 DEF r

\* A step of a load that keeps the claim, and may write the log.
LEMMA LoadStep ==
    ASSUME Inductive, NEW a \in Attempts, NEW r, Put(a, r),
           UNCHANGED <<writer, sessions, agents, factory>>, stored' \in Nat,
           Keeps(at[a], r, factory)
    PROVE  Inductive'
  BY Alone DEF Put

LEMMA CreatedStep ==
    ASSUME Inductive, NEW a \in Attempts, Created(a)
    PROVE  Inductive'
<1> DEFINE q == at[a]
<1>1. q \in Attempt /\ Sound(q, factory) /\ stored' \in Nat
  BY Attempting DEF Created
<1>2. q.pc = "creating" /\ q.back = "returned"
  BY DEF Created
<1>3. Keeps(q, Prepared(a, q), factory)
  BY <1>1, <1>2, StartsClosing, Prepares DEF Prepared, Refused, LoadAborted
<1> QED BY <1>1, <1>3, LoadStep DEF Created

LEMMA LoadFailedStep ==
    ASSUME Inductive, NEW a \in Attempts, LoadFailed(a)
    PROVE  Inductive'
<1> DEFINE q == at[a]
<1>1. q \in Attempt /\ Sound(q, factory) /\ stored' \in Nat
  BY Attempting DEF LoadFailed
<1>2. q.pc \in {"creating", "opening"} /\ q.back \in {"failed", "missing"}
  BY DEF LoadFailed
<1>3. q.scope = "none" /\ Loading(q) /\ factory # "disposed"
  BY <1>1, <1>2 DEF Sound, Living, Ended, Settled
<1>4. /\ Keeps(q, [q EXCEPT !.pc = "creating", !.back = "looking", !.len = 0], factory)
      /\ Keeps(q, [q EXCEPT !.pc = "rejected"], factory)
  BY <1>1, <1>2, <1>3, Values DEF Keeps, Attempt, Sound, Loading, Holds, Enters, Early, Lookups
<1>5. CASE Go(a, "rejected")
  <2>1. Put(a, [q EXCEPT !.pc = "rejected"])
    BY <1>1, <1>5, Attempting DEF Go, Put
  <2> QED BY <1>1, <1>4, <2>1, LoadStep DEF LoadFailed
<1>6. CASE Put(a, StartCreate(q, 0))
  <2>1. Keeps(q, StartCreate(q, 0), factory)
    BY <1>4 DEF StartCreate
  <2> QED BY <1>1, <1>6, <2>1, LoadStep DEF LoadFailed
<1> QED BY <1>5, <1>6 DEF LoadFailed

LEMMA AbandonStep ==
    ASSUME Inductive, NEW a \in Attempts, Abandon(a)
    PROVE  Inductive'
<1> DEFINE q == at[a]
           r == [q EXCEPT !.pc = "rejected", !.late = TRUE]
<1>1. q \in Attempt /\ Sound(q, factory) /\ stored' \in Nat
  BY Attempting DEF Abandon
<1>2. q.pc \in {"creating", "opening"} /\ q.back \in Lookups \cup {"returned"} /\ Put(a, r)
  BY Attempting DEF Abandon, Put
<1>3. q.scope = "none" /\ Loading(q) /\ factory # "disposed"
  BY <1>1, <1>2 DEF Sound, Living, Ended, Settled
<1>4. Keeps(q, r, factory)
  BY <1>1, <1>2, <1>3, Values DEF Keeps, Attempt, Sound, Loading, Holds, Enters, Early, Lookups
<1> HIDE DEF r
<1> QED BY <1>1, <1>2, <1>4, LoadStep DEF Abandon

\* Handles that nobody serves any more are closed, which gives back the claim.
LEMMA CloseStep ==
    ASSUME Inductive, NEW a \in Attempts, AbandonedCloses(a) \/ Closed(a)
    PROVE  Inductive'
<1> DEFINE q == at[a]
<1>1. q \in Attempt /\ Sound(q, factory) /\ (Holds(q) <=> writer = a)
  BY Attempting
<1>2. CASE AbandonedCloses(a)
  <2> DEFINE r == [q EXCEPT !.handle = "closed"]
  <2>1. q.late /\ q.handle = "open" /\ at' = [at EXCEPT ![a] = r]
        /\ writer' = Nobody /\ UNCHANGED <<stored, sessions, agents, factory>>
    BY <1>2, Attempting DEF AbandonedCloses, Abandoned
  <2>2. q.scope = "none" /\ Loading(q) /\ q.back = "returned" /\ q.pc = "rejected" /\ writer = a
    BY <1>1, <2>1 DEF Sound, Living, Loading, Holds
  <2>3. r \in Attempt /\ Sound(r, factory) /\ ~Holds(r) /\ (Enters(q) => Enters(r))
    BY <1>1, <2>1, <2>2, Values DEF Attempt, Sound, Loading, Ended, Holds, Enters, Early, Lookups
  <2> HIDE DEF r
  <2> QED BY <2>1, <2>2, <2>3, Claiming
<1>3. CASE Closed(a)
  <2> DEFINE r == [q EXCEPT !.pc = "rejected", !.handle = "closed"]
  <2>1. q.pc = "closing" /\ at' = [at EXCEPT ![a] = r]
        /\ writer' = Nobody /\ UNCHANGED <<stored, sessions, agents, factory>>
    BY <1>3, Attempting DEF Closed
  <2>2. /\ q.scope = "none" /\ Loading(q) /\ q.back = "returned" /\ q.handle = "closing"
        /\ writer = a /\ factory # "disposed"
    BY <1>1, <2>1 DEF Sound, Living, Loading, Holds, Ended, Settled
  <2>3. r \in Attempt /\ Sound(r, factory) /\ ~Holds(r) /\ (Enters(q) => Enters(r))
    BY <1>1, <2>1, <2>2, Values DEF Attempt, Sound, Loading, Ended, Holds, Enters, Early, Lookups
  <2> HIDE DEF r
  <2> QED BY <2>1, <2>2, <2>3, Claiming
<1> QED BY <1>2, <1>3

LEMMA OpenReturnedStep ==
    ASSUME Inductive, NEW a \in Attempts, OpenReturned(a)
    PROVE  Inductive'
<1> DEFINE q == at[a]
           r == [q EXCEPT !.pc = "reading"]
<1>1. q \in Attempt /\ Sound(q, factory) /\ stored' \in Nat
  BY Attempting DEF OpenReturned
<1>2. q.pc = "opening" /\ q.back = "returned" /\ Put(a, r)
  BY Attempting DEF OpenReturned, Go, Put
<1>3. /\ r \in Attempt /\ r.back = q.back /\ r.late = q.late /\ r.scope = q.scope
      /\ r.machine = q.machine /\ r.disp = q.disp /\ r.fused = q.fused
      /\ r.pc = "reading" /\ r.handle = q.handle
  BY <1>1, Values DEF Attempt
<1> HIDE DEF r
<1>4. Keeps(q, r, factory)
  BY <1>1, <1>2, <1>3, Loads
<1> QED BY <1>1, <1>2, <1>4, LoadStep DEF OpenReturned

\* A session is prepared over the log, or the id is live already.
LEMMA Restores ==
    ASSUME NEW q \in Attempt, NEW f, Sound(q, f), q.back = "returned",
           q.pc \in {"reading", "repairing"}, NEW n \in Nat,
           NEW r \in Restored([q EXCEPT !.cursor = n]) \cup Restored(q)
    PROVE  Keeps(q, r, f)
<1> DEFINE p == [q EXCEPT !.cursor = n]
<1>1. /\ p \in Attempt /\ p.back = q.back /\ p.late = q.late /\ p.scope = q.scope
      /\ p.machine = q.machine /\ p.disp = q.disp /\ p.fused = q.fused
      /\ p.pc = q.pc /\ p.handle = q.handle
  BY DEF Attempt
<1>2. \A x \in {p, q} :
        /\ x \in Attempt /\ x.back = q.back /\ x.late = q.late /\ x.scope = q.scope
        /\ x.machine = q.machine /\ x.disp = q.disp /\ x.fused = q.fused
        /\ x.pc = q.pc /\ x.handle = q.handle
  BY <1>1
<1> HIDE DEF p
<1>3. PICK x \in {p, q} : r \in Restored(x)
  BY DEF p
<1>4. CASE r = StartClosing(x)
  <2>1. /\ r \in Attempt /\ r.back = x.back /\ r.late = x.late /\ r.scope = x.scope
        /\ r.machine = x.machine /\ r.disp = x.disp /\ r.fused = x.fused
        /\ r.pc = "closing" /\ r.handle = "closing"
    BY <1>2, <1>4, Values DEF Attempt, StartClosing
  <2> QED BY <1>2, <2>1, Loads
<1>5. CASE \E m \in Nat : r = [x EXCEPT !.pc = "storing", !.len = m, !.batch = m]
  <2>1. PICK m \in Nat : r = [x EXCEPT !.pc = "storing", !.len = m, !.batch = m]
    BY <1>5
  <2>2. /\ r \in Attempt /\ r.back = x.back /\ r.late = x.late /\ r.scope = x.scope
        /\ r.machine = x.machine /\ r.disp = x.disp /\ r.fused = x.fused
        /\ r.pc = "storing" /\ r.handle = x.handle
    BY <1>2, <2>1, Values DEF Attempt
  <2>3. /\ r.back = q.back /\ r.late = q.late /\ r.scope = q.scope
        /\ r.machine = q.machine /\ r.disp = q.disp /\ r.fused = q.fused
        /\ r.pc \in {"reading", "repairing", "storing"} /\ r.handle = q.handle
    BY <1>2, <2>2
  <2> QED BY <2>2, <2>3, Loads
<1>6. \/ r = StartClosing(x)
      \/ \E m \in 0 .. MaxEvents : r = [x EXCEPT !.pc = "storing", !.len = m, !.batch = m]
  BY <1>3, Zenon DEF Restored
<1>7. \A m \in 0 .. MaxEvents : m \in Nat
  BY ConstantsAssumption
<1> QED BY <1>4, <1>5, <1>6, <1>7, Zenon

LEMMA ReadStep ==
    ASSUME Inductive, NEW a \in Attempts, Read(a)
    PROVE  Inductive'
<1> DEFINE q == at[a]
<1>1. q \in Attempt /\ Sound(q, factory) /\ stored' \in Nat /\ q.cursor \in Nat
  BY Attempting DEF Read, Attempt
<1>2. q.pc = "reading" /\ q.back = "returned"
  BY <1>1 DEF Read, Sound, Living, Loading
<1>3. CASE Put(a, StartClosing(q))
  BY <1>1, <1>2, <1>3, StartsClosing, LoadStep DEF Read
<1>4. CASE \E r \in Restored(q) : Put(a, r)
  <2>1. PICK r \in Restored(q) : Put(a, r)
    BY <1>4
  <2>2. Keeps(q, r, factory)
    BY <1>1, <1>2, Restores
  <2> QED BY <1>1, <2>1, <2>2, LoadStep DEF Read
<1>5. CASE Put(a, [q EXCEPT !.pc = "repairing", !.batch = q.cursor + 1])
  <2> DEFINE r == [q EXCEPT !.pc = "repairing", !.batch = q.cursor + 1]
  <2>1. /\ r \in Attempt /\ r.back = q.back /\ r.late = q.late /\ r.scope = q.scope
        /\ r.machine = q.machine /\ r.disp = q.disp /\ r.fused = q.fused
        /\ r.pc = "repairing" /\ r.handle = q.handle
    <3>1. PICK m \in Nat : m = q.cursor + 1
      BY <1>1
    <3> QED BY <1>1, <3>1, Values DEF Attempt
  <2> HIDE DEF r
  <2>2. Keeps(q, r, factory)
    BY <1>1, <1>2, <2>1, Loads
  <2> QED BY <1>1, <1>5, <2>2, LoadStep DEF Read, r
<1> QED BY <1>3, <1>4, <1>5 DEF Read

LEMMA RepairedStep ==
    ASSUME Inductive, NEW a \in Attempts, Repaired(a)
    PROVE  Inductive'
<1> DEFINE q == at[a]
<1>1. q \in Attempt /\ Sound(q, factory) /\ stored \in Nat /\ q.batch \in Nat
  BY Attempting DEF Attempt
<1>2. q.pc = "repairing" /\ q.back = "returned"
  BY <1>1 DEF Repaired, Sound, Living, Loading
<1>3. CASE stored' = q.batch /\ \E r \in Restored([q EXCEPT !.cursor = q.batch]) : Put(a, r)
  <2>1. PICK r \in Restored([q EXCEPT !.cursor = q.batch]) : Put(a, r)
    BY <1>3
  <2>2. Keeps(q, r, factory)
    BY <1>1, <1>2, Restores
  <2> QED BY <1>1, <1>3, <2>1, <2>2, LoadStep DEF Repaired
<1>4. CASE Put(a, StartClosing(q)) /\ UNCHANGED stored
  BY <1>1, <1>2, <1>4, StartsClosing, LoadStep DEF Repaired
<1> QED BY <1>3, <1>4 DEF Repaired

LEMMA StoredStep ==
    ASSUME Inductive, NEW a \in Attempts, Stored(a)
    PROVE  Inductive'
<1> DEFINE q == at[a]
           p == [q EXCEPT !.cursor = q.batch, !.batch = 0]
<1>1. q \in Attempt /\ Sound(q, factory) /\ stored \in Nat /\ q.batch \in Nat
  BY Attempting DEF Attempt
<1>2. q.pc = "storing" /\ q.back = "returned"
  BY <1>1 DEF Stored, Sound, Living, Loading
<1>3. CASE stored' = q.batch /\ Put(a, Prepared(a, p))
  <2>1. /\ p \in Attempt /\ p.back = q.back /\ p.late = q.late /\ p.scope = q.scope
        /\ p.machine = q.machine /\ p.disp = q.disp /\ p.fused = q.fused
        /\ p.pc = q.pc /\ p.handle = q.handle
        /\ p.aborted = q.aborted /\ p.owner = q.owner
    BY <1>1 DEF Attempt
  <2> HIDE DEF p
  <2>2. Keeps(q, p, factory)
    BY <1>1, <1>2, <2>1, Loads
  <2>3. Keeps(p, Prepared(a, p), factory)
    BY <1>2, <2>1, <2>2, StartsClosing, Prepares DEF Prepared, Refused, LoadAborted, Keeps
  <2>4. Keeps(q, Prepared(a, p), factory)
    BY <2>2, <2>3 DEF Keeps
  <2> QED BY <1>1, <1>3, <2>4, LoadStep DEF Stored
<1>4. CASE Put(a, StartClosing(q)) /\ UNCHANGED stored
  BY <1>1, <1>2, <1>4, StartsClosing, LoadStep DEF Stored
<1> QED BY <1>3, <1>4 DEF Stored, p

-----------------------------------------------------------------------------
(***************************************************************************)
(* Setup and publication.                                                  *)
(***************************************************************************)
\* Attempts that differ in what they count only.
Alike(r, q) ==
    /\ r \in Attempt
    /\ r.entry = q.entry /\ r.pc = q.pc /\ r.back = q.back /\ r.handle = q.handle
    /\ r.machine = q.machine /\ r.scope = q.scope /\ r.disp = q.disp /\ r.fused = q.fused
    /\ r.aborted = q.aborted /\ r.late = q.late /\ r.owner = q.owner

LEMMA Counting ==
    ASSUME NEW q \in Attempt, NEW n \in Nat, NEW m \in Nat, NEW i \in Int
    PROVE  /\ Alike(q, q) /\ Alike([q EXCEPT !.batch = n], q) /\ Alike([q EXCEPT !.len = n], q)
           /\ Alike([q EXCEPT !.cursor = n], q) /\ Alike([q EXCEPT !.routed = i], q)
           /\ Alike([q EXCEPT !.cursor = n, !.batch = m], q)
  BY DEF Alike, Attempt

LEMMA AlikeKeeps ==
    ASSUME NEW q \in Attempt, NEW f, Sound(q, f), NEW r, Alike(r, q)
    PROVE  Keeps(q, r, f)
<1>1. (Loading(q) => Loading(r)) /\ (Living(q) => Living(r)) /\ (Ended(q) => Ended(r))
  BY DEF Alike, Loading, Living, Ended
<1>2. (Unwound(q, f) => Unwound(r, f)) /\ (Warned(q, f) => Warned(r, f))
  BY DEF Alike, Unwound, ByFiber, Warned
<1> QED BY <1>1, <1>2 DEF Keeps, Sound, Alike, Holds, Enters

\* A rollback ends the maintenance and begins the disposal, or joins it.
LEMMA RollsBack ==
    ASSUME NEW q \in Attempt, NEW f, Sound(q, f), q.pc \in {"setup", "flushing", "announcing"},
           NEW r, Alike(r, q)
    PROVE  Keeps(q, RolledBack(r), f) /\ Enters(RolledBack(r))
<1> DEFINE p == [r EXCEPT !.pc = "rolling", !.machine = "idle"]
           w == Disposing(p)
<1>1. q.scope # "none" /\ Living(q) /\ Unwound(q, f) /\ Warned(q, f) /\ f # "disposed"
  BY DEF Sound, Loading, Ended, Settled, Early
<1>2. /\ p \in Attempt /\ p.pc = "rolling" /\ p.machine = "idle"
      /\ p.entry = q.entry /\ p.back = q.back /\ p.handle = q.handle /\ p.scope = q.scope
      /\ p.disp = q.disp /\ p.fused = q.fused /\ p.aborted = q.aborted /\ p.late = q.late
      /\ p.owner = q.owner
  <2>1. r \in Attempt
    BY DEF Alike
  <2>2. p \in Attempt /\ p.pc = "rolling" /\ p.machine = "idle"
    BY <2>1, Values DEF Attempt
  <2>3. /\ p.entry = r.entry /\ p.back = r.back /\ p.handle = r.handle /\ p.scope = r.scope
        /\ p.disp = r.disp /\ p.fused = r.fused /\ p.aborted = r.aborted /\ p.late = r.late
        /\ p.owner = r.owner
    BY <2>1 DEF Attempt
  <2> HIDE DEF p
  <2> QED BY <2>2, <2>3 DEF Alike
<1> HIDE DEF p
<1>3. /\ w \in Attempt /\ w.pc = "rolling" /\ w.machine = "idle"
      /\ w.entry = q.entry /\ w.back = q.back /\ w.handle = q.handle /\ w.scope = q.scope
      /\ w.aborted = q.aborted /\ w.late = q.late /\ w.owner = q.owner
      /\ w.disp = (IF q.disp = "none" THEN "idle" ELSE q.disp)
      /\ w.fused = (q.fused \/ q.disp = "none")
  <2>1. CASE p.disp = "none"
    <3> DEFINE v == [p EXCEPT !.fused = TRUE, !.disp = "idle"]
    <3>1. w = v
      BY <1>2, <2>1 DEF Disposing
    <3>2. /\ v \in Attempt /\ v.pc = p.pc /\ v.machine = p.machine
          /\ v.entry = p.entry /\ v.back = p.back /\ v.handle = p.handle
          /\ v.scope = p.scope /\ v.aborted = p.aborted /\ v.late = p.late
          /\ v.owner = p.owner /\ v.disp = "idle" /\ v.fused = TRUE
      BY <1>2, Values DEF Attempt
    <3> HIDE DEF v, w
    <3> QED BY <1>2, <2>1, <3>1, <3>2
  <2>2. CASE p.disp # "none"
    <3>1. w = p
      BY <2>2 DEF Disposing
    <3> HIDE DEF w
    <3> QED BY <1>1, <1>2, <2>2, <3>1 DEF Living
  <2> QED BY <2>1, <2>2
<1> HIDE DEF w
<1>4. Living(w) /\ Enters(w)
  BY <1>1, <1>3 DEF Living, Enters
<1>5. Unwound(w, f) /\ Warned(w, f)
  BY <1>1, <1>3 DEF Unwound, ByFiber, Warned, Living
<1>6. Keeps(q, w, f) /\ Enters(w)
  BY <1>1, <1>3, <1>4, <1>5 DEF Keeps, Sound, Holds, Enters, Living
<1> QED BY <1>6 DEF RolledBack, w, p

\* A step that enters the registries, or finds them taken.
LEMMA Entering ==
    ASSUME Inductive, NEW a \in Attempts, NEW r,
           at' = [at EXCEPT ![a] = r], Keeps(at[a], r, factory), stored' \in Nat,
           UNCHANGED <<writer, factory>>, Enters(r),
           \/ UNCHANGED <<sessions, agents>>
           \/ sessions = Nobody /\ sessions' = a /\ agents' \in {agents, a}
    PROVE  Inductive'
<1>1. at \in [Attempts -> Attempt] /\ Typed /\ r \in Attempt
  BY DEF Inductive, Typed, Keeps
<1>2. at'[a] = r /\ \A b \in Attempts : b # a => at'[b] = at[b]
  BY <1>1
<1>3. Typed'
  BY <1>1 DEF Typed
<1>4. \A b \in Attempts : Sound(at'[b], factory')
  BY <1>2 DEF Inductive, Keeps
<1>5. Claims'
  BY <1>2 DEF Inductive, Claims, Keeps
<1>6. Entered'
  BY <1>2 DEF Inductive, Entered, Keeps
<1> QED BY <1>3, <1>4, <1>5, <1>6 DEF Inductive

LEMMA StartFlushStep ==
    ASSUME Inductive, NEW a \in Attempts, StartFlush(a)
    PROVE  Inductive'
<1> DEFINE q == at[a]
           r == [q EXCEPT !.pc = "flushing", !.batch = q.len]
<1>1. q \in Attempt /\ Sound(q, factory) /\ stored' \in Nat /\ q.len \in Nat
  BY Attempting DEF StartFlush, Attempt
<1>2. q.pc = "setup" /\ Put(a, r)
  BY Attempting DEF StartFlush, Put
<1>3. /\ r \in Attempt /\ r.pc = "flushing"
      /\ r.entry = q.entry /\ r.back = q.back /\ r.handle = q.handle /\ r.machine = q.machine
      /\ r.scope = q.scope /\ r.disp = q.disp /\ r.fused = q.fused
      /\ r.aborted = q.aborted /\ r.late = q.late /\ r.owner = q.owner
  BY <1>1, Values DEF Attempt
<1> HIDE DEF r
<1>4. q.scope # "none" /\ Living(q) /\ factory # "disposed"
  BY <1>1, <1>2 DEF Sound, Loading, Ended, Settled, Early
<1>5. Keeps(q, r, factory)
  BY <1>1, <1>2, <1>3, <1>4 DEF Keeps, Sound, Living, Unwound, ByFiber, Warned, Holds, Enters
<1> QED BY <1>1, <1>2, <1>5, LoadStep DEF StartFlush

LEMMA SetupFailsStep ==
    ASSUME Inductive, NEW a \in Attempts, SetupFails(a)
    PROVE  Inductive'
<1> DEFINE q == at[a]
<1>1. q \in Attempt /\ Sound(q, factory) /\ stored' \in Nat /\ q.pc = "setup"
  BY Attempting DEF SetupFails
<1>2. Keeps(q, RolledBack(q), factory)
  <2>1. Alike(q, q)
    BY <1>1 DEF Alike
  <2> QED BY <1>1, <2>1, RollsBack
<1> QED BY <1>1, <1>2, LoadStep DEF SetupFails

LEMMA PublishedStep ==
    ASSUME Inductive, NEW a \in Attempts, NEW r, Alike(r, at[a]), at[a].pc = "flushing",
           Publish(a, r), UNCHANGED <<writer, factory>>, stored' \in Nat
    PROVE  Inductive'
<1> DEFINE q == at[a]
<1>1. q \in Attempt /\ Sound(q, factory) /\ r \in Attempt /\ r.len \in Int
  BY Attempting DEF Alike, Attempt
<1>2. Keeps(q, RolledBack(r), factory) /\ Enters(RolledBack(r))
  BY <1>1, RollsBack
<1>3. CASE /\ Put(a, RolledBack(r))
           /\ sessions' = IF ~r.fused /\ sessions = Nobody THEN a ELSE sessions
           /\ UNCHANGED agents
  BY <1>2, <1>3, Entering DEF Put
<1>4. CASE /\ ~r.fused /\ sessions = Nobody /\ agents = Nobody
           /\ sessions' = a /\ agents' = a
           /\ LET entered == [r EXCEPT !.routed = r.len]
              IN  \/ Put(a, [entered EXCEPT !.pc = "announcing"])
                  \/ CanFail /\ Put(a, RolledBack(entered))
  <2> DEFINE e == [r EXCEPT !.routed = r.len]
             w == [e EXCEPT !.pc = "announcing"]
  <2>1. Alike(e, r)
    BY <1>1, Counting
  <2>2. Alike(e, q)
    BY <2>1 DEF Alike
  <2> HIDE DEF e
  <2>3. /\ w \in Attempt /\ w.pc = "announcing"
        /\ w.entry = q.entry /\ w.back = q.back /\ w.handle = q.handle /\ w.machine = q.machine
        /\ w.scope = q.scope /\ w.disp = q.disp /\ w.fused = q.fused
        /\ w.aborted = q.aborted /\ w.late = q.late /\ w.owner = q.owner
    <3>1. e \in Attempt
      BY <2>2 DEF Alike
    <3>2. /\ w \in Attempt /\ w.pc = "announcing"
          /\ w.entry = e.entry /\ w.back = e.back /\ w.handle = e.handle
          /\ w.machine = e.machine /\ w.scope = e.scope /\ w.disp = e.disp
          /\ w.fused = e.fused /\ w.aborted = e.aborted /\ w.late = e.late
          /\ w.owner = e.owner
      BY <3>1, Values DEF Attempt
    <3> HIDE DEF w
    <3> QED BY <2>2, <3>2 DEF Alike
  <2> HIDE DEF w
  <2>4. q.scope # "none" /\ Living(q) /\ factory # "disposed" /\ ~q.fused
    BY <1>1, <1>4 DEF Sound, Loading, Ended, Settled, Early, Alike
  <2>5. Keeps(q, w, factory) /\ Enters(w)
    BY <1>1, <2>3, <2>4 DEF Keeps, Sound, Living, Unwound, ByFiber, Warned, Holds, Enters
  <2>6. Keeps(q, RolledBack(e), factory) /\ Enters(RolledBack(e))
    BY <1>1, <2>2, RollsBack
  <2>7. Put(a, w) \/ Put(a, RolledBack(e))
    BY <1>4 DEF w, e
  <2> QED BY <1>4, <2>5, <2>6, <2>7, Entering DEF Put
<1> QED BY <1>3, <1>4 DEF Publish

LEMMA FlushedStep ==
    ASSUME Inductive, NEW a \in Attempts, Flushed(a)
    PROVE  Inductive'
<1> DEFINE q == at[a]
<1>1. q \in Attempt /\ Sound(q, factory) /\ stored \in Nat /\ q.batch \in Nat
      /\ q.pc = "flushing" /\ UNCHANGED <<writer, factory>>
  BY Attempting DEF Flushed, Attempt
<1>2. /\ Alike(q, q) /\ Alike([q EXCEPT !.batch = 0], q)
      /\ Alike([q EXCEPT !.cursor = q.batch, !.batch = 0], q)
  <2>1. PICK n \in Nat : n = 0
    OBVIOUS
  <2>2. PICK m \in Nat : m = q.batch
    BY <1>1
  <2> HIDE DEF q
  <2>3. /\ Alike(q, q) /\ Alike([q EXCEPT !.batch = n], q)
        /\ Alike([q EXCEPT !.cursor = m, !.batch = n], q)
    BY <1>1 DEF Alike, Attempt
  <2> QED BY <2>1, <2>2, <2>3
<1>3. CASE Publish(a, [q EXCEPT !.batch = 0]) /\ UNCHANGED <<made, stored>>
  BY <1>1, <1>2, <1>3, PublishedStep
<1>4. CASE stored' = q.batch /\ Publish(a, [q EXCEPT !.cursor = q.batch, !.batch = 0])
  BY <1>1, <1>2, <1>4, PublishedStep
<1>5. CASE Put(a, RolledBack([q EXCEPT !.batch = 0])) /\ UNCHANGED <<made, stored, sessions, agents>>
  <2>1. Keeps(q, RolledBack([q EXCEPT !.batch = 0]), factory)
    BY <1>1, <1>2, RollsBack
  <2> QED BY <1>1, <1>5, <2>1, LoadStep
<1> QED BY <1>3, <1>4, <1>5 DEF Flushed

LEMMA AnnouncedStep ==
    ASSUME Inductive, NEW a \in Attempts, Announced(a)
    PROVE  Inductive'
<1> DEFINE q == at[a]
           r == [q EXCEPT !.pc = "published", !.machine = "idle"]
<1>1. q \in Attempt /\ Sound(q, factory) /\ stored' \in Nat /\ q.pc = "announcing"
  BY Attempting DEF Announced
<1>2. CASE ~q.fused /\ at' = [at EXCEPT ![a].pc = "published", ![a].machine = "idle"]
  <2>1. Put(a, r)
    BY <1>2, Attempting DEF Put
  <2>2. /\ r \in Attempt /\ r.pc = "published" /\ r.machine = "idle"
        /\ r.entry = q.entry /\ r.back = q.back /\ r.handle = q.handle
        /\ r.scope = q.scope /\ r.disp = q.disp /\ r.fused = q.fused
        /\ r.aborted = q.aborted /\ r.late = q.late /\ r.owner = q.owner
    BY <1>1, Values DEF Attempt
  <2> HIDE DEF r
  <2>3. q.scope # "none" /\ Living(q) /\ factory # "disposed"
    BY <1>1 DEF Sound, Loading, Ended, Settled, Early
  <2>4. Keeps(q, r, factory)
    BY <1>1, <1>2, <2>2, <2>3
      DEF Keeps, Sound, Living, Unwound, ByFiber, Warned, Holds, Enters
  <2> QED BY <1>1, <2>1, <2>4, LoadStep DEF Announced
<1>3. CASE Put(a, RolledBack(q))
  <2>1. Keeps(q, RolledBack(q), factory)
    BY <1>1, RollsBack, Counting DEF Alike
  <2> QED BY <1>1, <1>3, <2>1, LoadStep DEF Announced
<1> QED BY <1>2, <1>3 DEF Announced

LEMMA RollbackEndsStep ==
    ASSUME Inductive, NEW a \in Attempts, RollbackEnds(a)
    PROVE  Inductive'
<1> DEFINE q == at[a]
           r == [q EXCEPT !.pc = "rejected"]
<1>1. q \in Attempt /\ Sound(q, factory) /\ stored' \in Nat /\ q.pc = "rolling"
      /\ q.disp = "done" /\ Put(a, r)
  BY Attempting DEF RollbackEnds, Go, Put
<1>2. /\ r \in Attempt /\ r.pc = "rejected" /\ r.machine = q.machine
      /\ r.entry = q.entry /\ r.back = q.back /\ r.handle = q.handle
      /\ r.scope = q.scope /\ r.disp = q.disp /\ r.fused = q.fused
      /\ r.aborted = q.aborted /\ r.late = q.late /\ r.owner = q.owner
  BY <1>1, Values DEF Attempt
<1> HIDE DEF r
<1>3. q.scope # "none" /\ Living(q) /\ factory # "disposed"
  BY <1>1 DEF Sound, Loading, Ended, Settled, Early
<1>4. Keeps(q, r, factory)
  BY <1>1, <1>2, <1>3 DEF Keeps, Sound, Living, Unwound, ByFiber, Warned, Holds, Enters
<1> QED BY <1>1, <1>4, LoadStep DEF RollbackEnds

-----------------------------------------------------------------------------
(***************************************************************************)
(* The live agent.                                                         *)
(***************************************************************************)
\* A step of an agent that only counts.
LEMMA CountStep ==
    ASSUME Inductive, NEW a \in Attempts, NEW r, Put(a, r), Alike(r, at[a]),
           UNCHANGED <<writer, sessions, agents, factory>>, stored' \in Nat
    PROVE  Inductive'
<1>1. at[a] \in Attempt /\ Sound(at[a], factory)
  BY Attempting
<1>2. Keeps(at[a], r, factory)
  BY <1>1, AlikeKeeps
<1> QED BY <1>2, LoadStep

LEMMA AppendStep ==
    ASSUME Inductive, NEW a \in Attempts, PluginAppends(a) \/ Drain(a)
    PROVE  Inductive'
<1> DEFINE q == at[a]
<1>1. q \in Attempt /\ stored \in Nat /\ q.len \in Nat /\ at \in [Attempts -> Attempt]
  BY Attempting DEF Attempt
<1>2. CASE PluginAppends(a)
  <2> DEFINE r == [q EXCEPT !.len = q.len + 1]
  <2>1. Put(a, r)
    BY <1>1, <1>2 DEF PluginAppends, Put
  <2>2. Alike(r, q)
    BY <1>1 DEF Alike, Attempt
  <2> HIDE DEF r
  <2> QED BY <1>1, <1>2, <2>1, <2>2, CountStep DEF PluginAppends
<1>3. CASE Drain(a)
  <2> DEFINE r == [q EXCEPT !.cursor = q.len]
  <2>1. Put(a, r)
    BY <1>1, <1>3 DEF Drain, Put
  <2>2. Alike(r, q)
    BY <1>1 DEF Alike, Attempt
  <2> HIDE DEF r
  <2> QED BY <1>1, <1>3, <2>1, <2>2, CountStep DEF Drain
<1> QED BY <1>2, <1>3

LEMMA TurnStep ==
    ASSUME Inductive, NEW a \in Attempts, Wake(a) \/ TurnEnds(a)
    PROVE  Inductive'
<1> DEFINE q == at[a]
<1>1. q \in Attempt /\ Sound(q, factory) /\ stored' \in Nat /\ q.len \in Nat
      /\ at \in [Attempts -> Attempt] /\ UNCHANGED <<writer, sessions, agents, factory>>
  BY Attempting DEF Attempt, Wake, TurnEnds
<1>2. \/ q.pc = "published" /\ q.machine = "idle" /\ ~q.fused
      \/ q.machine = "running"
  BY DEF Wake, TurnEnds
<1>3. PICK x \in {"idle", "running"}, n \in Nat :
        /\ at' = [at EXCEPT ![a] = [q EXCEPT !.machine = x, !.len = n]]
        /\ x = "running" /\ q.machine = "idle" => ~q.fused
  <2>1. q.len + 1 \in Nat /\ [q EXCEPT !.machine = q.machine] = q /\ [q EXCEPT !.len = q.len] = q
    BY <1>1 DEF Attempt
  <2>2. CASE at' = [at EXCEPT ![a].machine = "running"] /\ ~q.fused
    <3>1. [q EXCEPT !.machine = "running"] = [q EXCEPT !.machine = "running", !.len = q.len]
      BY <1>1 DEF Attempt
    <3> QED BY <1>1, <2>2, <3>1
  <2>3. CASE at' = [at EXCEPT ![a].machine = "idle", ![a].len = @ + 1]
    <3>1. at' = [at EXCEPT ![a] = [[q EXCEPT !.machine = "idle"] EXCEPT !.len = @ + 1]]
      BY <1>1, <2>3
    <3>2. [[q EXCEPT !.machine = "idle"] EXCEPT !.len = @ + 1]
            = [q EXCEPT !.machine = "idle", !.len = q.len + 1]
      BY <1>1 DEF Attempt
    <3> QED BY <2>1, <3>1, <3>2
  <2>4. CASE at' = [at EXCEPT ![a].len = @ + 1] /\ q.machine = "running"
    <3>1. at' = [at EXCEPT ![a] = [q EXCEPT !.len = q.len + 1]]
      BY <1>1, <2>4
    <3>2. [q EXCEPT !.len = q.len + 1] = [q EXCEPT !.machine = "running", !.len = q.len + 1]
      BY <1>1, <2>4 DEF Attempt
    <3> QED BY <2>1, <2>4, <3>1, <3>2
  <2> QED BY <2>2, <2>3, <2>4 DEF Wake, TurnEnds
<1> DEFINE r == [q EXCEPT !.machine = x, !.len = n]
<1>4. /\ r \in Attempt /\ r.pc = q.pc /\ r.machine = x
      /\ r.entry = q.entry /\ r.back = q.back /\ r.handle = q.handle
      /\ r.scope = q.scope /\ r.disp = q.disp /\ r.fused = q.fused
      /\ r.aborted = q.aborted /\ r.late = q.late /\ r.owner = q.owner
  <2>1. x \in Machines
    BY Values
  <2> HIDE DEF q
  <2> QED BY <1>1, <2>1 DEF Attempt
<1>5. Put(a, r)
  BY <1>3 DEF Put
<1> HIDE DEF r
<1>6. q.scope # "none" /\ Living(q)
  BY <1>1, <1>2 DEF Sound, Loading, Early
<1>7. q.pc = "published" /\ (q.machine = "running" \/ ~q.fused) /\ q.disp # "done"
  BY <1>2, <1>6 DEF Living
<1>8. factory # "disposed" /\ Unwound(q, factory) /\ Warned(q, factory)
  BY <1>1, <1>6, <1>7 DEF Sound, Ended
<1>9. Living(r)
  BY <1>2, <1>3, <1>4, <1>6, <1>7 DEF Living
<1>10. Keeps(q, r, factory)
  BY <1>1, <1>4, <1>6, <1>8, <1>9 DEF Keeps, Sound, Unwound, ByFiber, Warned, Holds, Enters
<1> QED BY <1>1, <1>5, <1>10, LoadStep

-----------------------------------------------------------------------------
(***************************************************************************)
(* The teardown.                                                           *)
(***************************************************************************)
\* What the memoized disposal changes, and what the unwinding of a scope does.
LEMMA DisposingFields ==
    ASSUME NEW q \in Attempt
    PROVE  LET w == Disposing(q)
           IN  /\ w \in Attempt /\ w.pc = q.pc /\ w.machine = q.machine
               /\ w.entry = q.entry /\ w.back = q.back /\ w.handle = q.handle
               /\ w.scope = q.scope /\ w.aborted = q.aborted /\ w.late = q.late
               /\ w.owner = q.owner
               /\ w.disp = (IF q.disp # "none" THEN q.disp
                            ELSE IF q.pc = "announcing" THEN "publication" ELSE "idle")
               /\ q.disp = "none" => w.fused
               /\ q.disp # "none" => w.fused = q.fused
<1> DEFINE w == Disposing(q)
<1>1. CASE q.disp # "none"
  <2>1. w = q
    BY <1>1 DEF Disposing
  <2> HIDE DEF w
  <2>2. /\ w \in Attempt /\ w.pc = q.pc /\ w.machine = q.machine
        /\ w.entry = q.entry /\ w.back = q.back /\ w.handle = q.handle
        /\ w.scope = q.scope /\ w.aborted = q.aborted /\ w.late = q.late
        /\ w.owner = q.owner /\ w.disp = q.disp /\ w.fused = q.fused
    BY <2>1
  <2> QED BY <1>1, <2>2 DEF w
<1>2. CASE q.disp = "none"
  <2> DEFINE x == IF q.pc = "announcing" THEN "publication" ELSE "idle"
             v == [q EXCEPT !.fused = TRUE, !.disp = x]
  <2>1. w = v
    BY <1>2 DEF Disposing
  <2>2. x \in Disposals
    BY Values
  <2> HIDE DEF x
  <2>3. /\ v \in Attempt /\ v.pc = q.pc /\ v.machine = q.machine
        /\ v.entry = q.entry /\ v.back = q.back /\ v.handle = q.handle
        /\ v.scope = q.scope /\ v.aborted = q.aborted /\ v.late = q.late
        /\ v.owner = q.owner /\ v.disp = x /\ v.fused = TRUE
    BY <2>2, Values DEF Attempt
  <2> HIDE DEF v, w
  <2>4. /\ w \in Attempt /\ w.pc = q.pc /\ w.machine = q.machine
        /\ w.entry = q.entry /\ w.back = q.back /\ w.handle = q.handle
        /\ w.scope = q.scope /\ w.aborted = q.aborted /\ w.late = q.late
        /\ w.owner = q.owner /\ w.disp = x /\ w.fused
    BY <2>1, <2>3
  <2> QED BY <1>2, <2>4 DEF w, x
<1> QED BY <1>1, <1>2

LEMMA UnwindingFields ==
    ASSUME NEW q \in Attempt
    PROVE  LET w == Unwinding(q)
           IN  /\ w \in Attempt /\ w.pc = q.pc /\ w.machine = q.machine
               /\ w.entry = q.entry /\ w.back = q.back /\ w.handle = q.handle
               /\ w.disp = q.disp /\ w.fused = q.fused /\ w.aborted = q.aborted
               /\ w.late = q.late /\ w.owner = q.owner
               /\ w.scope = IF q.scope = "live" THEN "unwinding" ELSE q.scope
<1> DEFINE x == IF q.scope = "live" THEN "unwinding" ELSE q.scope
           v == [q EXCEPT !.scope = x]
<1>1. Unwinding(q) = v
  BY DEF Unwinding, Attempt
<1>2. x \in Scopes
  BY Values DEF Attempt
<1> HIDE DEF x
<1>3. /\ v \in Attempt /\ v.pc = q.pc /\ v.machine = q.machine
      /\ v.entry = q.entry /\ v.back = q.back /\ v.handle = q.handle
      /\ v.disp = q.disp /\ v.fused = q.fused /\ v.aborted = q.aborted
      /\ v.late = q.late /\ v.owner = q.owner /\ v.scope = x
  BY <1>2 DEF Attempt
<1> HIDE DEF v
<1> QED BY <1>1, <1>3 DEF x

LEMMA DisposeCalledStep ==
    ASSUME Inductive, NEW a \in Attempts, DisposeCalled(a)
    PROVE  Inductive'
<1> DEFINE q == at[a]
           w == Disposing(q)
<1>1. q \in Attempt /\ Sound(q, factory) /\ stored' \in Nat /\ q.pc = "published"
      /\ q.disp = "none" /\ Put(a, w)
  BY Attempting DEF DisposeCalled
<1>2. /\ w \in Attempt /\ w.pc = q.pc /\ w.machine = q.machine
      /\ w.entry = q.entry /\ w.back = q.back /\ w.handle = q.handle
      /\ w.scope = q.scope /\ w.aborted = q.aborted /\ w.late = q.late
      /\ w.owner = q.owner /\ w.disp = "idle" /\ w.fused
  BY <1>1, DisposingFields
<1> HIDE DEF w
<1>3. q.scope # "none" /\ Living(q) /\ factory # "disposed"
  BY <1>1 DEF Sound, Loading, Early, Ended
<1>4. Living(w)
  BY <1>1, <1>2, <1>3 DEF Living
<1>5. Keeps(q, w, factory)
  BY <1>1, <1>2, <1>3, <1>4 DEF Keeps, Sound, Unwound, ByFiber, Warned, Holds, Enters
<1> QED BY <1>1, <1>5, LoadStep DEF DisposeCalled

\* From the end of the driver to the close of the handle the disposal only waits.
LEMMA DisposalStep ==
    ASSUME Inductive, NEW a \in Attempts, NEW r, Put(a, r), Keeps(at[a], r, factory),
           DisposeCancels(a) \/ DriverIdle(a) \/ ScopeUnwound(a) \/ DisposeCloses(a)
    PROVE  Inductive'
  BY Attempting, LoadStep DEF DisposeCancels, DriverIdle, ScopeUnwound, DisposeCloses

LEMMA DisposeCancelsStep ==
    ASSUME Inductive, NEW a \in Attempts, DisposeCancels(a)
    PROVE  Inductive'
<1> DEFINE q == at[a]
<1>1. q \in Attempt /\ Sound(q, factory) /\ at \in [Attempts -> Attempt]
      /\ q.disp = "publication" /\ q.pc # "announcing"
  BY Attempting DEF DisposeCancels
<1>2. /\ q.scope # "none" /\ Living(q) /\ factory # "disposed"
      /\ Unwound(q, factory) /\ Warned(q, factory)
  BY <1>1 DEF Sound, Loading, Ended
<1>3. q.pc = "rolling" /\ q.machine = "idle" /\ q.fused /\ q.handle = "open"
  BY <1>1, <1>2 DEF Living
<1>4. CASE at' = [at EXCEPT ![a].disp = "idle"]
  <2> DEFINE r == [q EXCEPT !.disp = "idle"]
  <2>1. Put(a, r)
    BY <1>1, <1>4 DEF Put
  <2>2. /\ r \in Attempt /\ r.pc = q.pc /\ r.machine = q.machine
        /\ r.entry = q.entry /\ r.back = q.back /\ r.handle = q.handle
        /\ r.scope = q.scope /\ r.aborted = q.aborted /\ r.late = q.late
        /\ r.owner = q.owner /\ r.disp = "idle" /\ r.fused = q.fused
    BY <1>1, Values DEF Attempt
  <2> HIDE DEF r
  <2>3. Living(r)
    BY <1>2, <1>3, <2>2 DEF Living
  <2>4. Keeps(q, r, factory)
    BY <1>1, <1>2, <2>2, <2>3 DEF Keeps, Sound, Unwound, ByFiber, Warned, Holds, Enters
  <2> QED BY <2>1, <2>4, DisposalStep
<1>5. CASE q.scope # "live" /\ at' = [at EXCEPT ![a].disp = "closing", ![a].handle = "closing"]
  <2> DEFINE r == [q EXCEPT !.disp = "closing", !.handle = "closing"]
  <2>1. Put(a, r)
    BY <1>1, <1>5 DEF Put
  <2>2. /\ r \in Attempt /\ r.pc = q.pc /\ r.machine = q.machine
        /\ r.entry = q.entry /\ r.back = q.back /\ r.handle = "closing"
        /\ r.scope = q.scope /\ r.aborted = q.aborted /\ r.late = q.late
        /\ r.owner = q.owner /\ r.disp = "closing" /\ r.fused = q.fused
    BY <1>1, Values DEF Attempt
  <2> HIDE DEF r
  <2>3. Living(r)
    BY <1>2, <1>3, <1>5, <2>2 DEF Living
  <2>4. Keeps(q, r, factory)
    BY <1>1, <1>2, <1>3, <2>2, <2>3 DEF Keeps, Sound, Unwound, ByFiber, Warned, Holds, Enters
  <2> QED BY <2>1, <2>4, DisposalStep
<1> QED BY <1>4, <1>5 DEF DisposeCancels

LEMMA DriverIdleStep ==
    ASSUME Inductive, NEW a \in Attempts, DriverIdle(a)
    PROVE  Inductive'
<1> DEFINE q == at[a]
           p == [q EXCEPT !.disp = "scope"]
           w == Unwinding(p)
<1>1. q \in Attempt /\ Sound(q, factory) /\ q.disp = "idle" /\ q.machine = "idle" /\ Put(a, w)
  BY Attempting DEF DriverIdle
<1>2. q.scope # "none" /\ Living(q) /\ factory # "disposed" /\ Warned(q, factory)
  BY <1>1 DEF Sound, Loading, Ended
<1>3. /\ p \in Attempt /\ p.pc = q.pc /\ p.machine = q.machine
      /\ p.entry = q.entry /\ p.back = q.back /\ p.handle = q.handle
      /\ p.scope = q.scope /\ p.aborted = q.aborted /\ p.late = q.late
      /\ p.owner = q.owner /\ p.disp = "scope" /\ p.fused = q.fused
  BY <1>1, Values DEF Attempt
<1> HIDE DEF p
<1>4. /\ w \in Attempt /\ w.pc = q.pc /\ w.machine = q.machine
      /\ w.entry = q.entry /\ w.back = q.back /\ w.handle = q.handle
      /\ w.aborted = q.aborted /\ w.late = q.late /\ w.owner = q.owner
      /\ w.disp = "scope" /\ w.fused = q.fused
      /\ w.scope = IF q.scope = "live" THEN "unwinding" ELSE q.scope
  BY <1>3, UnwindingFields
<1> HIDE DEF w
<1>5. Living(w)
  BY <1>1, <1>2, <1>4 DEF Living
<1>6. Keeps(q, w, factory)
  BY <1>1, <1>2, <1>4, <1>5 DEF Keeps, Sound, Unwound, Warned, Holds, Enters
<1> QED BY <1>1, <1>6, DisposalStep

LEMMA ScopeUnwoundStep ==
    ASSUME Inductive, NEW a \in Attempts, ScopeUnwound(a)
    PROVE  Inductive'
<1> DEFINE q == at[a]
           r == [q EXCEPT !.scope = "gone"]
<1>1. q \in Attempt /\ Sound(q, factory) /\ q.scope = "unwinding" /\ Put(a, r)
  BY Attempting DEF ScopeUnwound, Put
<1>2. Living(q) /\ factory # "disposed" /\ Unwound(q, factory) /\ Warned(q, factory)
  BY <1>1 DEF Sound, Ended
<1>3. /\ r \in Attempt /\ r.pc = q.pc /\ r.machine = q.machine
      /\ r.entry = q.entry /\ r.back = q.back /\ r.handle = q.handle
      /\ r.scope = "gone" /\ r.aborted = q.aborted /\ r.late = q.late
      /\ r.owner = q.owner /\ r.disp = q.disp /\ r.fused = q.fused
  BY <1>1, Values DEF Attempt
<1> HIDE DEF r
<1>4. Living(r)
  BY <1>1, <1>2, <1>3 DEF Living
<1>5. Keeps(q, r, factory)
  BY <1>1, <1>2, <1>3, <1>4 DEF Keeps, Sound, Unwound, ByFiber, Warned, Holds, Enters
<1> QED BY <1>1, <1>5, DisposalStep

LEMMA DisposeClosesStep ==
    ASSUME Inductive, NEW a \in Attempts, DisposeCloses(a)
    PROVE  Inductive'
<1> DEFINE q == at[a]
           r == [q EXCEPT !.disp = "closing", !.handle = "closing"]
<1>1. q \in Attempt /\ Sound(q, factory) /\ q.scope = "gone" /\ q.disp = "scope" /\ Put(a, r)
  BY Attempting DEF DisposeCloses, Put
<1>2. Living(q) /\ factory # "disposed" /\ Unwound(q, factory) /\ Warned(q, factory)
  BY <1>1 DEF Sound, Ended
<1>3. /\ r \in Attempt /\ r.pc = q.pc /\ r.machine = q.machine
      /\ r.entry = q.entry /\ r.back = q.back /\ r.handle = "closing"
      /\ r.scope = q.scope /\ r.aborted = q.aborted /\ r.late = q.late
      /\ r.owner = q.owner /\ r.disp = "closing" /\ r.fused = q.fused
  BY <1>1, Values DEF Attempt
<1> HIDE DEF r
<1>4. Living(r) /\ q.handle = "open"
  BY <1>1, <1>2, <1>3 DEF Living
<1>5. Keeps(q, r, factory)
  BY <1>1, <1>2, <1>3, <1>4 DEF Keeps, Sound, Unwound, ByFiber, Warned, Holds, Enters
<1> QED BY <1>1, <1>5, DisposalStep

\* The last step of a disposal leaves the registries and gives back the claim.
LEMMA Leaving ==
    ASSUME Inductive, NEW a \in Attempts, NEW r \in Attempt, Put(a, r), stored' \in Nat,
           Sound(r, factory), Holds(at[a]), ~Holds(r), UNCHANGED factory,
           writer' = Without(writer, a), sessions' = Without(sessions, a),
           agents' = Without(agents, a)
    PROVE  Inductive'
<1>1. at \in [Attempts -> Attempt] /\ Typed /\ writer = a
  BY Attempting DEF Inductive, Typed
<1>2. at'[a] = r /\ \A b \in Attempts : b # a => at'[b] = at[b]
  BY <1>1 DEF Put
<1>3. writer' = Nobody
  BY <1>1 DEF Without
<1>4. Typed'
  BY <1>1, <1>3 DEF Typed, Put
<1>5. \A b \in Attempts : Sound(at'[b], factory')
  BY <1>2 DEF Inductive
<1>6. Claims'
  BY <1>1, <1>2, <1>3, ConstantsAssumption DEF Inductive, Claims
<1>7. Entered'
  BY <1>2 DEF Inductive, Entered, Without
<1> QED BY <1>4, <1>5, <1>6, <1>7 DEF Inductive

\* What the end of a disposal changes, however the handle has closed.
EndedAs(q, how, n) == [q EXCEPT !.disp = "done", !.handle = how, !.cursor = n]

LEMMA EndFields ==
    ASSUME NEW q \in Attempt, NEW how \in {"closed", "failed"}, NEW n \in Nat
    PROVE  LET r == EndedAs(q, how, n)
           IN  /\ r \in Attempt /\ r.pc = q.pc /\ r.machine = q.machine
               /\ r.entry = q.entry /\ r.back = q.back /\ r.handle = how
               /\ r.scope = q.scope /\ r.aborted = q.aborted /\ r.late = q.late
               /\ r.owner = q.owner /\ r.disp = "done" /\ r.fused = q.fused
               /\ r.len = q.len /\ r.cursor = n /\ r.batch = q.batch /\ r.routed = q.routed
<1>1. how \in Handles /\ "done" \in Disposals
  BY Values
<1> QED BY <1>1 DEF Attempt, EndedAs

\* It is one of three: everything stored, nothing to store, or a close that rejects.
LEMMA Ends ==
    ASSUME Inductive, NEW a \in Attempts, DisposeEnds(a)
    PROVE  \E how \in {"closed", "failed"}, n \in Nat :
             /\ Put(a, EndedAs(at[a], how, n))
             /\ stored' \in Nat /\ n \in {at[a].cursor, at[a].len}
             /\ how = "closed" => n = at[a].len \/ ~Buffered(at[a])
<1> DEFINE q == at[a]
<1>1. q \in Attempt /\ q.len \in Nat /\ q.cursor \in Nat /\ stored \in Nat
  BY Attempting DEF Attempt
<1>2. \A how \in {"closed", "failed"} :
        [q EXCEPT !.disp = "done", !.handle = how]
          = EndedAs(q, how, q.cursor)
  BY <1>1 DEF Attempt, EndedAs
<1>3. CASE Put(a, [[q EXCEPT !.disp = "done", !.handle = "closed"] EXCEPT !.cursor = q.len])
           /\ stored' = q.len
  <2>1. [[q EXCEPT !.disp = "done", !.handle = "closed"] EXCEPT !.cursor = q.len]
          = EndedAs(q, "closed", q.len)
    BY <1>1 DEF Attempt, EndedAs
  <2> QED BY <1>1, <1>3, <2>1
<1>4. CASE Put(a, [q EXCEPT !.disp = "done", !.handle = "failed"]) /\ stored' = stored
  BY <1>1, <1>2, <1>4
<1>5. CASE Put(a, [q EXCEPT !.disp = "done", !.handle = "closed"]) /\ stored' = stored
           /\ ~Buffered(q)
  BY <1>1, <1>2, <1>5
<1> QED BY <1>3, <1>4, <1>5 DEF DisposeEnds

LEMMA DisposeEndsStep ==
    ASSUME Inductive, NEW a \in Attempts, DisposeEnds(a)
    PROVE  Inductive'
<1> DEFINE q == at[a]
<1>1. q \in Attempt /\ Sound(q, factory) /\ q.disp = "closing"
  BY Attempting DEF DisposeEnds
<1>2. /\ q.scope # "none" /\ Living(q) /\ factory # "disposed"
      /\ Unwound(q, factory) /\ Warned(q, factory)
  BY <1>1 DEF Sound, Loading, Ended
<1>3. PICK how \in {"closed", "failed"}, n \in Nat :
        /\ Put(a, EndedAs(q, how, n))
        /\ stored' \in Nat
  BY Ends
<1> DEFINE r == EndedAs(q, how, n)
<1>4. /\ r \in Attempt /\ r.pc = q.pc /\ r.machine = q.machine
      /\ r.entry = q.entry /\ r.back = q.back /\ r.handle = how
      /\ r.scope = q.scope /\ r.aborted = q.aborted /\ r.late = q.late
      /\ r.owner = q.owner /\ r.disp = "done" /\ r.fused = q.fused
  BY <1>1, EndFields
<1>5. Put(a, r) /\ stored' \in Nat
  BY <1>3
<1> HIDE DEF r
<1>6. Living(r) /\ Unwound(r, factory) /\ Warned(r, factory) /\ Holds(q) /\ ~Holds(r)
  BY <1>1, <1>2, <1>4 DEF Living, Unwound, ByFiber, Warned, Holds
<1>7. Sound(r, factory)
  BY <1>2, <1>4, <1>6 DEF Sound
<1> QED BY <1>4, <1>5, <1>6, <1>7, Leaving DEF DisposeEnds

-----------------------------------------------------------------------------
(***************************************************************************)
(* Aborts and unloads.                                                     *)
(***************************************************************************)
LEMMA CallerAbortsStep ==
    ASSUME Inductive, NEW a \in Attempts, CallerAborts(a)
    PROVE  Inductive'
<1> DEFINE q == at[a]
           x == q.fused \/ IsPrepared(a)
           r == [q EXCEPT !.aborted = TRUE, !.fused = x]
<1>1. q \in Attempt /\ Sound(q, factory) /\ q.pc \notin Settled /\ stored' \in Nat
      /\ at \in [Attempts -> Attempt] /\ UNCHANGED <<writer, sessions, agents, factory>>
  BY Attempting DEF CallerAborts
<1>2. Put(a, r)
  BY <1>1 DEF CallerAborts, Put
<1>3. x \in BOOLEAN /\ (q.scope # "none" => x) /\ (q.scope = "none" => x = q.fused)
  BY <1>1 DEF IsPrepared, Attempt
<1> HIDE DEF x
<1>4. /\ r \in Attempt /\ r.pc = q.pc /\ r.machine = q.machine
      /\ r.entry = q.entry /\ r.back = q.back /\ r.handle = q.handle
      /\ r.scope = q.scope /\ r.aborted /\ r.late = q.late
      /\ r.owner = q.owner /\ r.disp = q.disp /\ r.fused = x
  BY <1>1, <1>3 DEF Attempt
<1> HIDE DEF r
<1>5. CASE q.scope = "none"
  <2>1. Loading(q) /\ (Ended(q) => Ended(r))
    BY <1>1, <1>4, <1>5 DEF Sound, Ended
  <2>2. Loading(r)
    BY <1>3, <1>4, <1>5, <2>1 DEF Loading
  <2>3. Keeps(q, r, factory)
    BY <1>1, <1>4, <1>5, <2>1, <2>2 DEF Keeps, Sound, Holds, Enters
  <2> QED BY <1>1, <1>2, <2>3, LoadStep
<1>6. CASE q.scope # "none"
  <2>1. Living(q) /\ Unwound(q, factory) /\ (Ended(q) => Ended(r))
    BY <1>1, <1>4, <1>6 DEF Sound, Ended
  <2>2. Living(r) /\ Unwound(r, factory) /\ Warned(r, factory)
    BY <1>3, <1>4, <1>6, <2>1 DEF Living, Unwound, ByFiber, Warned
  <2>3. Keeps(q, r, factory)
    BY <1>1, <1>4, <1>6, <2>1, <2>2 DEF Keeps, Sound, Holds, Enters
  <2> QED BY <1>1, <1>2, <2>3, LoadStep
<1> QED BY <1>5, <1>6

\* An owner that has nothing left to wait for.
LEMMA Disowns ==
    ASSUME NEW q \in Attempt, NEW f, Sound(q, f), q.scope = "none" \/ q.fused
    PROVE  Keeps(q, [q EXCEPT !.owner = "unloaded"], f)
<1> DEFINE r == [q EXCEPT !.owner = "unloaded"]
<1>1. /\ r \in Attempt /\ r.pc = q.pc /\ r.machine = q.machine
      /\ r.entry = q.entry /\ r.back = q.back /\ r.handle = q.handle
      /\ r.scope = q.scope /\ r.aborted = q.aborted /\ r.late = q.late
      /\ r.owner = "unloaded" /\ r.disp = q.disp /\ r.fused = q.fused
  BY Values DEF Attempt
<1> HIDE DEF r
<1>2. (Loading(q) => Loading(r)) /\ (Living(q) => Living(r)) /\ (Ended(q) => Ended(r))
  BY <1>1 DEF Loading, Living, Ended
<1>3. (Unwound(q, f) => Unwound(r, f)) /\ (q.scope # "none" => Warned(r, f))
  BY <1>1 DEF Unwound, ByFiber, Warned
<1>4. Keeps(q, r, f)
  BY <1>1, <1>2, <1>3 DEF Keeps, Sound, Holds, Enters
<1> QED BY <1>4 DEF r

LEMMA OwnerUnloadedStep ==
    ASSUME Inductive, NEW a \in Attempts, OwnerUnloaded(a)
    PROVE  Inductive'
<1> DEFINE q == at[a]
           r == [q EXCEPT !.owner = "unloaded"]
<1>1. q \in Attempt /\ Sound(q, factory) /\ q.owner # "active" /\ Put(a, r) /\ stored' \in Nat
  BY Attempting DEF OwnerUnloaded, Put
<1>2. q.scope = "none" \/ q.fused
  BY <1>1 DEF Sound, Warned
<1>3. Keeps(q, r, factory)
  BY <1>1, <1>2, Disowns
<1> HIDE DEF r
<1> QED BY <1>1, <1>3, LoadStep DEF OwnerUnloaded

LEMMA OwnerUnloadsStep ==
    ASSUME Inductive, NEW a \in Attempts, OwnerUnloads(a)
    PROVE  Inductive'
<1> DEFINE q == at[a]
<1>1. q \in Attempt /\ Sound(q, factory) /\ stored' \in Nat
      /\ UNCHANGED <<writer, sessions, agents, factory>>
  BY Attempting DEF OwnerUnloads
<1>2. q.entry \in {"createAgent", "resume"} /\ q.owner = "active" /\ q.disp # "done"
  BY DEF OwnerUnloads, OwnedByCaller
<1>3. SUFFICES \E r : Put(a, r) /\ Keeps(q, r, factory)
  BY <1>1, LoadStep
<1>4. CASE ~IsPrepared(a)
  <2>1. q.scope = "none" \/ q.fused
    BY <1>1, <1>4 DEF IsPrepared, Sound, Living
  <2>2. Keeps(q, [q EXCEPT !.owner = "unloaded"], factory)
    BY <1>1, <2>1, Disowns
  <2> QED BY <1>4, <2>2 DEF OwnerUnloads
<1>5. CASE IsPrepared(a) /\ q.disp = "none"
  <2> DEFINE p == [q EXCEPT !.owner = "joining"]
             w == Disposing(p)
  <2>1. Put(a, w)
    BY <1>5 DEF OwnerUnloads
  <2>2. /\ p \in Attempt /\ p.pc = q.pc /\ p.machine = q.machine
        /\ p.entry = q.entry /\ p.back = q.back /\ p.handle = q.handle
        /\ p.scope = q.scope /\ p.aborted = q.aborted /\ p.late = q.late
        /\ p.owner = "joining" /\ p.disp = q.disp
    BY <1>1, Values DEF Attempt
  <2> HIDE DEF p
  <2>3. /\ w \in Attempt /\ w.pc = q.pc /\ w.machine = q.machine
        /\ w.entry = q.entry /\ w.back = q.back /\ w.handle = q.handle
        /\ w.scope = q.scope /\ w.late = q.late /\ w.fused /\ w.owner = "joining"
        /\ w.disp = IF q.pc = "announcing" THEN "publication" ELSE "idle"
    BY <1>5, <2>2, DisposingFields
  <2> HIDE DEF w
  <2>4. /\ q.scope # "none" /\ Living(q) /\ Unwound(q, factory) /\ factory # "disposed"
    BY <1>1, <1>5 DEF IsPrepared, Sound, Ended
  <2>5. Living(w) /\ Unwound(w, factory) /\ Warned(w, factory)
    BY <1>2, <1>5, <2>3, <2>4 DEF Living, Unwound, ByFiber, Warned
  <2>6. Keeps(q, w, factory)
    BY <1>5, <2>3, <2>4, <2>5 DEF Keeps, Sound, Holds, Enters
  <2> QED BY <2>1, <2>6
<1>6. CASE IsPrepared(a) /\ q.disp # "none"
  <2> DEFINE p == [q EXCEPT !.owner = "unwinding"]
             w == Unwinding(p)
  <2>1. Put(a, w)
    BY <1>6 DEF OwnerUnloads
  <2>2. /\ p \in Attempt /\ p.pc = q.pc /\ p.machine = q.machine
        /\ p.entry = q.entry /\ p.back = q.back /\ p.handle = q.handle
        /\ p.scope = q.scope /\ p.aborted = q.aborted /\ p.late = q.late
        /\ p.owner = "unwinding" /\ p.disp = q.disp /\ p.fused = q.fused
    BY <1>1, Values DEF Attempt
  <2> HIDE DEF p
  <2>3. /\ w \in Attempt /\ w.pc = q.pc /\ w.machine = q.machine
        /\ w.entry = q.entry /\ w.back = q.back /\ w.handle = q.handle
        /\ w.disp = q.disp /\ w.late = q.late /\ w.fused = q.fused /\ w.owner = "unwinding"
        /\ w.scope = IF q.scope = "live" THEN "unwinding" ELSE q.scope
    BY <2>2, UnwindingFields
  <2> HIDE DEF w
  <2>4. /\ q.scope # "none" /\ Living(q) /\ Unwound(q, factory) /\ factory # "disposed"
    BY <1>1, <1>2, <1>6 DEF IsPrepared, Sound, Ended
  <2>5. Living(w) /\ Unwound(w, factory) /\ Warned(w, factory)
    BY <1>2, <1>6, <2>3, <2>4 DEF Living, Unwound, ByFiber, Warned
  <2>6. Keeps(q, w, factory)
    BY <1>2, <1>6, <2>3, <2>4, <2>5 DEF Keeps, Sound, Holds, Enters
  <2> QED BY <2>1, <2>6
<1> QED BY <1>4, <1>5, <1>6

\* The unload of the factory begins every disposal, and unwinds the scopes of
\* the agents that fibers own.
LEMMA Unloads ==
    ASSUME NEW q \in Attempt, Sound(q, "active"), NEW w \in Attempt,
           q.scope # "none", w.pc = q.pc, w.machine = q.machine, w.entry = q.entry,
           w.back = q.back, w.handle = q.handle, w.late = q.late,
           w.disp = (IF q.disp # "none" THEN q.disp
                     ELSE IF q.pc = "announcing" THEN "publication" ELSE "idle"),
           q.disp = "none" => w.fused, q.disp # "none" => w.fused = q.fused,
           \/ w.scope = q.scope
           \/ /\ w.scope = IF q.scope = "live" THEN "unwinding" ELSE q.scope
              /\ q.entry \in {"createAgent", "resume"}
    PROVE  Keeps(q, w, "unloading")
<1>1. Living(q) /\ Unwound(q, "active")
  BY DEF Sound
<1>2. w.fused /\ w.disp # "none" /\ w.scope # "none"
  BY <1>1 DEF Living
<1>3. Living(w)
  BY <1>1, <1>2 DEF Living
<1>4. Unwound(w, "unloading") /\ Warned(w, "unloading")
  BY <1>1, <1>2 DEF Unwound, ByFiber, Warned
<1>5. Holds(w) <=> Holds(q)
  BY DEF Holds
<1>6. Enters(q) => Enters(w)
  BY <1>2 DEF Enters
<1> QED BY <1>2, <1>3, <1>4, <1>5, <1>6 DEF Keeps, Sound

LEMMA FactoryUnloadsStep ==
    ASSUME Inductive, FactoryUnloads
    PROVE  Inductive'
<1>1. Typed /\ factory = "active" /\ factory' = "unloading"
      /\ UNCHANGED <<writer, stored, sessions, agents>>
  BY DEF Inductive, FactoryUnloads
<1>2. ASSUME NEW a \in Attempts
      PROVE  Keeps(at[a], at'[a], "unloading")
  <2> DEFINE q == at[a]
             w == Disposing(q)
             v == Unwinding(w)
  <2>1. q \in Attempt /\ Sound(q, "active")
    BY <1>1, Attempting
  <2>2. CASE q.scope = "none"
    <3>1. at'[a] = q
      BY <2>2 DEF FactoryUnloads, IsPrepared
    <3> QED BY <2>1, <2>2, <3>1 DEF Keeps, Sound
  <2>3. CASE q.scope # "none"
    <3>1. at'[a] = IF q.entry \in {"createAgent", "resume"} THEN v ELSE w
      BY <2>3 DEF FactoryUnloads, IsPrepared, OwnedByCaller
    <3>2. /\ w \in Attempt /\ w.pc = q.pc /\ w.machine = q.machine
          /\ w.entry = q.entry /\ w.back = q.back /\ w.handle = q.handle
          /\ w.scope = q.scope /\ w.late = q.late
          /\ w.disp = (IF q.disp # "none" THEN q.disp
                       ELSE IF q.pc = "announcing" THEN "publication" ELSE "idle")
          /\ q.disp = "none" => w.fused
          /\ q.disp # "none" => w.fused = q.fused
      BY <2>1, DisposingFields
    <3> HIDE DEF w
    <3>3. /\ v \in Attempt /\ v.pc = w.pc /\ v.machine = w.machine
          /\ v.entry = w.entry /\ v.back = w.back /\ v.handle = w.handle
          /\ v.disp = w.disp /\ v.fused = w.fused /\ v.late = w.late
          /\ v.scope = IF w.scope = "live" THEN "unwinding" ELSE w.scope
      BY <3>2, UnwindingFields
    <3> HIDE DEF v
    <3>4. Keeps(q, w, "unloading")
      BY <2>1, <2>3, <3>2, Unloads
    <3>5. ASSUME q.entry \in {"createAgent", "resume"} PROVE Keeps(q, v, "unloading")
      BY <2>1, <2>3, <3>2, <3>3, <3>5, Unloads
    <3> QED BY <3>1, <3>4, <3>5
  <2> QED BY <2>2, <2>3
<1>3. at' \in [Attempts -> Attempt]
  <2>1. \A a \in Attempts : at'[a] \in Attempt
    BY <1>2 DEF Keeps
  <2>2. at' = [a \in Attempts |-> at'[a]]
    BY DEF FactoryUnloads
  <2> HIDE DEF FactoryUnloads
  <2> QED BY <2>1, <2>2
<1>4. Typed'
  BY <1>1, <1>3 DEF Typed
<1>5. \A a \in Attempts : Sound(at'[a], factory')
  BY <1>1, <1>2 DEF Keeps
<1>6. Claims'
  BY <1>1, <1>2 DEF Inductive, Claims, Keeps
<1>7. Entered'
  BY <1>1, <1>2 DEF Inductive, Entered, Keeps
<1> QED BY <1>4, <1>5, <1>6, <1>7 DEF Inductive

LEMMA FactoryUnloadedStep ==
    ASSUME Inductive, FactoryUnloaded
    PROVE  Inductive'
<1>1. factory = "unloading" /\ factory' = "disposed"
      /\ UNCHANGED <<at, writer, stored, sessions, agents>>
  BY DEF FactoryUnloaded
<1>2. ASSUME NEW a \in Attempts
      PROVE  Sound(at[a], "disposed")
  <2>1. Sound(at[a], "unloading")
    BY <1>1, Attempting
  <2>2. Ended(at[a])
    BY DEF FactoryUnloaded, Joined, IsPrepared, Ended
  <2> QED BY <2>1, <2>2 DEF Sound, Unwound, ByFiber, Warned
<1>3. Typed' /\ Claims' /\ Entered'
  BY <1>1 DEF Inductive, Typed, Claims, Entered
<1> QED BY <1>1, <1>2, <1>3 DEF Inductive

-----------------------------------------------------------------------------
(***************************************************************************)
(* The invariant.                                                          *)
(***************************************************************************)
LEMMA InitHolds == Init => Inductive
<1> SUFFICES ASSUME Init PROVE Inductive
  OBVIOUS
<1>1. Uncalled \in Attempt
  <2>1. 0 \in Nat /\ -1 \in Int
    OBVIOUS
  <2> QED BY <2>1, Values DEF Attempt, Uncalled
<1>2. Loading(Uncalled) /\ Uncalled.scope = "none" /\ ~Holds(Uncalled)
  BY DEF Uncalled, Loading, Holds, Early
<1>3. Typed
  BY <1>1 DEF Init, Typed
<1>4. \A a \in Attempts : Sound(at[a], factory)
  BY <1>2 DEF Init, Sound
<1>5. Claims /\ Entered
  BY <1>2, ConstantsAssumption DEF Init, Claims, Entered
<1> QED BY <1>3, <1>4, <1>5 DEF Inductive

LEMMA NextHolds ==
    ASSUME Inductive, [Next]_vars
    PROVE  Inductive'
<1>1. ASSUME NEW a \in Attempts, Backend(a) PROVE Inductive'
  BY <1>1, FindStep, RegisterStep, ClaimStep, OpenedStep DEF Backend
<1>2. ASSUME NEW a \in Attempts, Load(a) PROVE Inductive'
  BY <1>2, CallStep, CreatedStep, LoadFailedStep, AbandonStep, CloseStep, OpenReturnedStep,
     ReadStep, RepairedStep, StoredStep DEF Load
<1>3. ASSUME NEW a \in Attempts, Publication(a) PROVE Inductive'
  BY <1>3, FlushedStep, AnnouncedStep, RollbackEndsStep DEF Publication
<1>4. ASSUME NEW a \in Attempts, Teardown(a) PROVE Inductive'
  BY <1>4, DisposeCancelsStep, DriverIdleStep, ScopeUnwoundStep, DisposeClosesStep,
     DisposeEndsStep, OwnerUnloadedStep DEF Teardown
<1>5. ASSUME NEW a \in Attempts, Environment(a) PROVE Inductive'
  BY <1>5, CallStep, StartFlushStep, SetupFailsStep, TurnStep, AppendStep, DisposeCalledStep,
     CallerAbortsStep, OwnerUnloadsStep DEF Environment
<1>6. CASE UNCHANGED vars
  BY <1>6 DEF vars, Inductive, Typed, Claims, Entered
<1> QED BY <1>1, <1>2, <1>3, <1>4, <1>5, <1>6, FactoryUnloadsStep, FactoryUnloadedStep DEF Next

\* At every place of its coroutine an attempt holds what it has to undo, and the
\* claim and the registry entries belong to attempts that will give them back.
THEOREM InductiveHolds == Spec => []Inductive
<1> QED BY InitHolds, NextHolds, PTL DEF Spec

-----------------------------------------------------------------------------
(***************************************************************************)
(* The properties.                                                         *)
(***************************************************************************)
LEMMA RegisteredOwns == Inductive => RegisteredOwnsLog
<1> SUFFICES ASSUME Inductive PROVE RegisteredOwnsLog
  OBVIOUS
<1>1. agents # Nobody => agents = sessions
  BY DEF Inductive, Entered
<1>2. ASSUME sessions # Nobody
      PROVE  writer = sessions /\ at[sessions].handle \in {"open", "closing"}
  <2>1. sessions \in Attempts /\ Enters(at[sessions])
    BY <1>2 DEF Inductive, Entered
  <2>2. Living(at[sessions]) /\ at[sessions].disp # "done"
    BY <2>1, Attempting DEF Sound, Enters
  <2>3. at[sessions].handle \in {"open", "closing"}
    BY <2>2 DEF Living
  <2> QED BY <2>1, <2>3, Attempting DEF Holds
<1> QED BY <1>1, <1>2 DEF RegisteredOwnsLog

\* Whoever is in a registry holds the claim and a handle that is still served.
THEOREM RegisteredOwnsLogHolds == Spec => []RegisteredOwnsLog
<1> QED BY InductiveHolds, RegisteredOwns, PTL

LEMMA LeavesNothing == Inductive => NothingLeft
<1> SUFFICES ASSUME Inductive PROVE NothingLeft
  OBVIOUS
<1>1. ASSUME NEW a \in Attempts
      PROVE  sessions = a \/ agents = a => Enters(at[a])
  BY ConstantsAssumption DEF Inductive, Entered
<1>2. NoResidue
  <2> SUFFICES ASSUME NEW a \in Attempts, at[a].pc = "rejected", ~Abandoned(a)
               PROVE  /\ sessions # a /\ agents # a /\ writer # a
                      /\ at[a].scope \in {"none", "gone"} \/ UnwoundByFiber(a)
                      /\ at[a].machine \in {"none", "idle"}
                      /\ at[a].handle \in {"none", "closed", "failed"}
    BY DEF NoResidue
  <2>1. at[a].handle \in {"none", "open", "closing", "closed", "failed"}
        /\ at[a].scope \in {"none", "live", "unwinding", "gone"}
    BY Attempting DEF Attempt, Handles, Scopes
  <2>2. CASE at[a].scope = "none"
    <3>1. Loading(at[a]) /\ ~Enters(at[a])
      BY <2>2, Attempting DEF Sound, Enters
    <3>2. at[a].handle \in {"none", "closed", "failed"} /\ at[a].back \notin Lookups
      BY <2>1, <3>1 DEF Loading, Abandoned
    <3>3. writer # a
      BY <3>2, Attempting DEF Holds, Lookups
    <3> QED BY <1>1, <2>2, <3>1, <3>2, <3>3 DEF Loading
  <2>3. CASE at[a].scope # "none"
    <3>1. Living(at[a]) /\ Unwound(at[a], factory)
      BY <2>3, Attempting DEF Sound
    <3>2. at[a].disp = "done" /\ at[a].machine = "idle"
          /\ at[a].handle \in {"closed", "failed"} /\ at[a].back = "returned" /\ at[a].scope # "live"
      BY <3>1 DEF Living
    <3>3. writer # a /\ ~Enters(at[a])
      BY <3>2, Attempting DEF Holds, Enters
    <3>4. at[a].scope \in {"none", "gone"} \/ UnwoundByFiber(a)
      BY <2>1, <3>1, <3>2 DEF Unwound, ByFiber, UnwoundByFiber, OwnedByCaller
    <3> QED BY <1>1, <3>2, <3>3, <3>4
  <2> QED BY <2>2, <2>3
<1>3. FactoryQuiescent
  <2> SUFFICES ASSUME factory = "disposed"
               PROVE  /\ sessions = Nobody /\ agents = Nobody
                      /\ \A a \in Attempts : /\ at[a].handle = "open" => Abandoned(a)
                                             /\ at[a].pc \in Settled \cup {"uncalled"}
    BY DEF FactoryQuiescent
  <2>1. \A a \in Attempts : Ended(at[a]) /\ ~Enters(at[a])
    BY Attempting DEF Sound, Ended, Enters
  <2>2. sessions = Nobody /\ agents = Nobody
    BY <2>1 DEF Inductive, Entered
  <2>3. ASSUME NEW a \in Attempts, at[a].handle = "open"
        PROVE  Abandoned(a)
    <3>1. Sound(at[a], factory) /\ Ended(at[a])
      BY <2>1, Attempting
    <3>2. at[a].scope = "none" /\ Loading(at[a])
      BY <2>3, <3>1 DEF Sound, Ended, Living
    <3> QED BY <2>3, <3>1, <3>2 DEF Loading, Ended, Settled, Early, Abandoned
  <2> QED BY <2>1, <2>2, <2>3 DEF Ended
<1> QED BY <1>2, <1>3 DEF NothingLeft

\* No failure, at whichever await and next to whichever other teardown, and no
\* unload of the factory leaves anything behind.
THEOREM NothingLeftHolds == Spec => []NothingLeft
<1> QED BY InductiveHolds, LeavesNothing, PTL

LEMMA DriverFirst == Inductive => DriverBeforeScope
<1> SUFFICES ASSUME Inductive, NEW a \in Attempts, at[a].scope \in {"unwinding", "gone"}
             PROVE  at[a].machine = "idle" \/ UnwoundByFiber(a)
  BY DEF DriverBeforeScope
<1>1. Living(at[a]) /\ Unwound(at[a], factory)
  BY Attempting DEF Sound
<1> QED BY <1>1 DEF Living, Unwound, ByFiber, UnwoundByFiber, OwnedByCaller

\* Every disposal, whoever began it, unwinds the scope behind the idle driver.
THEOREM DriverBeforeScopeHolds == Spec => []DriverBeforeScope
<1> QED BY InductiveHolds, DriverFirst, PTL

\* Only the end of an announcement that nobody has aborted publishes.
LEMMA Unpublished ==
    ASSUME Inductive, NEW a \in Attempts, NEW r, Put(a, r),
           r.pc = "published" => at[a].pc = "published"
    PROVE  \A b \in Attempts : at'[b].pc = "published" => at[b].pc = "published"
  BY Attempting DEF Put

LEMMA RolledBackPlace ==
    ASSUME NEW q \in Attempt
    PROVE  RolledBack(q).pc = "rolling"
<1> DEFINE p == [q EXCEPT !.pc = "rolling", !.machine = "idle"]
<1>1. p \in Attempt /\ p.pc = "rolling"
  BY Values DEF Attempt
<1> HIDE DEF p
<1>2. Disposing(p).pc = "rolling"
  BY <1>1, DisposingFields
<1> QED BY <1>2 DEF RolledBack, p

LEMMA LoadsQuietly ==
    ASSUME Inductive, NEW a \in Attempts, Backend(a) \/ Load(a)
    PROVE  \A b \in Attempts : at'[b].pc = "published" => at[b].pc = "published"
<1> DEFINE q == at[a]
<1>1. q \in Attempt /\ at \in [Attempts -> Attempt] /\ q.cursor \in Nat /\ q.batch \in Nat
  BY Attempting DEF Attempt
<1>2. \A r \in Restored(q) \cup Restored([q EXCEPT !.cursor = q.batch]) : r.pc # "published"
  BY <1>1 DEF Restored, StartClosing, Attempt
<1>3. CASE Backend(a)
  BY <1>1, <1>3 DEF Backend, Find, Register, Claim, Opened, Attempt
<1>4. CASE Abandon(a) \/ AbandonedCloses(a) \/ OpenReturned(a) \/ Closed(a)
  BY <1>1, <1>4 DEF Abandon, AbandonedCloses, OpenReturned, Closed, Go, Attempt
<1>5. CASE WaitEnds(a) \/ Created(a) \/ LoadFailed(a)
  <2>1. \A n \in Nat : /\ StartOpen(q).pc # "published"
                       /\ StartCreate(q, n).pc # "published"
                       /\ Prepared(a, q).pc # "published"
    BY <1>1 DEF StartOpen, StartCreate, Prepared, StartClosing, Attempt
  <2>2. /\ [q EXCEPT !.pc = "rejected"].pc = "rejected"
        /\ Go(a, "rejected") => Put(a, [q EXCEPT !.pc = "rejected"])
    BY <1>1 DEF Attempt, Go, Put
  <2>3. 0 \in Nat
    OBVIOUS
  <2> QED BY <1>5, <2>1, <2>2, <2>3, Unpublished DEF WaitEnds, Created, LoadFailed
<1>6. CASE Read(a)
  <2>1. StartClosing(q).pc = "closing"
        /\ [q EXCEPT !.pc = "repairing", !.batch = q.cursor + 1].pc = "repairing"
    BY <1>1 DEF StartClosing, Attempt
  <2> QED BY <1>2, <1>6, <2>1, Unpublished DEF Read
<1>7. CASE Repaired(a) \/ Stored(a)
  <2>1. StartClosing(q).pc = "closing"
        /\ Prepared(a, [q EXCEPT !.cursor = q.batch, !.batch = 0]).pc # "published"
    BY <1>1 DEF StartClosing, Prepared, Attempt
  <2> QED BY <1>2, <1>7, <2>1, Unpublished DEF Repaired, Stored
<1> QED BY <1>3, <1>4, <1>5, <1>6, <1>7 DEF Load

LEMMA PublishesOnce ==
    ASSUME Inductive, NEW a \in Attempts, Publication(a)
    PROVE  \A b \in Attempts :
             at[b].pc # "published" /\ at'[b].pc = "published" => ~LoadAborted(b)
<1> DEFINE q == at[a]
<1>1. q \in Attempt /\ at \in [Attempts -> Attempt] /\ q.batch \in Nat
  BY Attempting DEF Attempt
<1>2. CASE RollbackEnds(a)
  BY <1>1, <1>2 DEF RollbackEnds, Go, Attempt
<1>3. CASE Flushed(a)
  <2>1. ASSUME NEW r, Alike(r, q), Publish(a, r)
        PROVE  \A b \in Attempts : at'[b].pc = "published" => at[b].pc = "published"
    <3> DEFINE e == [r EXCEPT !.routed = r.len]
    <3>1. r \in Attempt /\ e \in Attempt
      BY <2>1 DEF Alike, Attempt
    <3>2. [e EXCEPT !.pc = "announcing"].pc = "announcing"
      BY <3>1 DEF Attempt
    <3>3. RolledBack(r).pc = "rolling" /\ RolledBack(e).pc = "rolling"
      BY <3>1, RolledBackPlace
    <3> HIDE DEF e
    <3>4. Put(a, RolledBack(r)) \/ Put(a, RolledBack(e)) \/ Put(a, [e EXCEPT !.pc = "announcing"])
      BY <2>1 DEF Publish, e
    <3> QED BY <3>2, <3>3, <3>4, Unpublished
  <2>2. /\ Alike([q EXCEPT !.batch = 0], q)
        /\ Alike([q EXCEPT !.cursor = q.batch, !.batch = 0], q)
    <3>1. PICK n \in Nat : n = 0
      OBVIOUS
    <3>2. PICK m \in Nat : m = q.batch
      BY <1>1
    <3> HIDE DEF q
    <3>3. Alike([q EXCEPT !.batch = n], q) /\ Alike([q EXCEPT !.cursor = m, !.batch = n], q)
      BY <1>1 DEF Alike, Attempt
    <3> QED BY <3>1, <3>2, <3>3
  <2>3. \/ Publish(a, [q EXCEPT !.batch = 0])
        \/ Publish(a, [q EXCEPT !.cursor = q.batch, !.batch = 0])
        \/ Put(a, RolledBack([q EXCEPT !.batch = 0]))
    BY <1>3 DEF Flushed
  <2>4. [q EXCEPT !.batch = 0] \in Attempt
    BY <2>2 DEF Alike
  <2> QED BY <1>1, <2>1, <2>2, <2>3, <2>4, RolledBackPlace, Unpublished
<1>4. CASE Announced(a)
  <2>1. CASE Put(a, RolledBack(q))
    BY <1>1, <2>1, RolledBackPlace, Unpublished
  <2>2. CASE ~q.fused /\ at' = [at EXCEPT ![a].pc = "published", ![a].machine = "idle"]
    <3>1. \A b \in Attempts : b # a => at'[b] = at[b]
      BY <1>1, <2>2
    <3>2. q.scope # "none"
      BY <1>1, <1>4, Attempting DEF Announced, Sound, Loading, Early
    <3>3. ~LoadAborted(a)
      BY <2>2, <3>2, Attempting DEF Sound, Warned, LoadAborted
    <3> QED BY <3>1, <3>3
  <2> QED BY <1>4, <2>1, <2>2 DEF Announced
<1> QED BY <1>2, <1>3, <1>4 DEF Publication

LEMMA TeardownQuietly ==
    ASSUME Inductive, NEW a \in Attempts, Teardown(a)
    PROVE  \A b \in Attempts : at'[b].pc = "published" => at[b].pc = "published"
<1> DEFINE q == at[a]
<1>1. q \in Attempt /\ at \in [Attempts -> Attempt] /\ q.len \in Nat
  BY Attempting DEF Attempt
<1>2. CASE DisposeCancels(a) \/ ScopeUnwound(a) \/ DisposeCloses(a) \/ OwnerUnloaded(a)
  BY <1>1, <1>2 DEF DisposeCancels, ScopeUnwound, DisposeCloses, OwnerUnloaded, Attempt
<1>3. CASE DriverIdle(a)
  <2> DEFINE p == [q EXCEPT !.disp = "scope"]
  <2>1. p \in Attempt /\ p.pc = q.pc
    BY <1>1, Values DEF Attempt
  <2> HIDE DEF p
  <2>2. Unwinding(p).pc = q.pc
    BY <2>1, UnwindingFields
  <2> QED BY <1>3, <2>2, Unpublished DEF DriverIdle, p
<1>4. CASE DisposeEnds(a)
  <2>1. PICK how \in {"closed", "failed"}, n \in Nat :
          Put(a, EndedAs(q, how, n))
    BY <1>4, Ends
  <2> DEFINE r == EndedAs(q, how, n)
  <2>2. r.pc = q.pc
    BY <1>1 DEF Attempt, EndedAs
  <2>3. Put(a, r)
    BY <2>1
  <2> HIDE DEF r
  <2> QED BY <2>2, <2>3, Unpublished
<1> QED BY <1>2, <1>3, <1>4 DEF Teardown

LEMMA EnvironmentQuietly ==
    ASSUME Inductive, NEW a \in Attempts, Environment(a)
    PROVE  \A b \in Attempts : at'[b].pc = "published" => at[b].pc = "published"
<1> DEFINE q == at[a]
<1>1. q \in Attempt /\ at \in [Attempts -> Attempt]
  BY Attempting
<1>2. CASE StartFlush(a) \/ Wake(a) \/ TurnEnds(a) \/ PluginAppends(a) \/ Drain(a)
           \/ CallerAborts(a)
  BY <1>1, <1>2 DEF StartFlush, Wake, TurnEnds, PluginAppends, Drain, CallerAborts, Attempt
<1>3. CASE SetupFails(a)
  BY <1>1, <1>3, RolledBackPlace, Unpublished DEF SetupFails
<1>4. CASE DisposeCalled(a)
  BY <1>4, Unpublished, <1>1, DisposingFields DEF DisposeCalled
<1>5. CASE CallCreateAgent(a) \/ CallResume(a) \/ CallRestore(a)
  <2>1. ASSUME NEW e \in EntryPoints
        PROVE  LET r == [q EXCEPT !.entry = e]
               IN  /\ StartOpen(r).pc # "published"
                   /\ \A n \in {0, 1} : StartCreate(r, n).pc # "published"
                   /\ [r EXCEPT !.pc = "waiting"].pc # "published"
    <3> DEFINE r == [q EXCEPT !.entry = e]
    <3>1. r \in Attempt
      BY <1>1 DEF Attempt, Calls
    <3> HIDE DEF r
    <3> QED BY <3>1 DEF StartOpen, StartCreate, Attempt
  <2>2. "createAgent" \in EntryPoints /\ "resume" \in EntryPoints /\ "restore" \in EntryPoints
    BY DEF EntryPoints
  <2> QED BY <1>5, <2>1, <2>2, Unpublished DEF CallCreateAgent, CallResume, CallRestore
<1>6. CASE OwnerUnloads(a)
  <2> DEFINE p == [q EXCEPT !.owner = "joining"]
             v == [q EXCEPT !.owner = "unwinding"]
             u == [q EXCEPT !.owner = "unloaded"]
  <2>1. /\ p \in Attempt /\ p.pc = q.pc /\ v \in Attempt /\ v.pc = q.pc
        /\ u \in Attempt /\ u.pc = q.pc
    BY <1>1, Values DEF Attempt
  <2>2. Put(a, u) \/ Put(a, Disposing(p)) \/ Put(a, Unwinding(v))
    BY <1>6 DEF OwnerUnloads
  <2> HIDE DEF p, v, u
  <2>3. Disposing(p).pc = q.pc /\ Unwinding(v).pc = q.pc
    BY <2>1, DisposingFields, UnwindingFields
  <2> QED BY <2>1, <2>2, <2>3, Unpublished
<1> QED BY <1>2, <1>3, <1>4, <1>5, <1>6 DEF Environment

LEMMA FactoryQuietly ==
    ASSUME Inductive, FactoryUnloads
    PROVE  \A b \in Attempts : at'[b].pc = "published" => at[b].pc = "published"
<1> SUFFICES ASSUME NEW b \in Attempts PROVE at'[b].pc = at[b].pc
  OBVIOUS
<1> DEFINE w == Disposing(at[b])
<1>1. at[b] \in Attempt
  BY Attempting
<1>2. w \in Attempt /\ w.pc = at[b].pc
  BY <1>1, DisposingFields
<1> HIDE DEF w
<1>3. Unwinding(w).pc = at[b].pc
  BY <1>2, UnwindingFields
<1>4. at'[b] \in {at[b], w, Unwinding(w)}
  BY DEF FactoryUnloads, w
<1> QED BY <1>2, <1>3, <1>4

\* No agent becomes ready for a caller that has aborted, or under an owner or a
\* factory that has begun to unload.
THEOREM NoLatePublicationHolds == Spec => NoLatePublication
<1>1. ASSUME Inductive, [Next]_vars
      PROVE  [\A a \in Attempts :
                 at[a].pc # "published" /\ at'[a].pc = "published" => ~LoadAborted(a)]_vars
  <2>1. CASE UNCHANGED vars
    BY <2>1
  <2>2. CASE Next
    <3>1. ASSUME NEW b \in Attempts, at[b].pc # "published", at'[b].pc = "published"
          PROVE  ~LoadAborted(b)
      <4>1. \A a \in Attempts : Backend(a) \/ Load(a) \/ Teardown(a) \/ Environment(a) => FALSE
        BY <1>1, <3>1, LoadsQuietly, TeardownQuietly, EnvironmentQuietly
      <4>2. ~FactoryUnloads /\ ~FactoryUnloaded
        BY <1>1, <3>1, FactoryQuietly DEF FactoryUnloaded
      <4>3. PICK a \in Attempts : Publication(a)
        BY <2>2, <4>1, <4>2 DEF Next
      <4> QED BY <1>1, <3>1, <4>3, PublishesOnce
    <3> QED BY <3>1
  <2> QED BY <1>1, <2>1, <2>2
<1> QED BY <1>1, InductiveHolds, PTL DEF Spec, NoLatePublication

-----------------------------------------------------------------------------
(***************************************************************************)
(* What a disposed session has stored.                                     *)
(***************************************************************************)
Counted(r) ==
    /\ r.scope = "none" \/ r.pc \in {"setup", "flushing"} => r.routed = -1
    /\ r.pc = "flushing" => r.batch <= r.len
    /\ r.routed >= 0 =>
         /\ r.routed <= r.len /\ r.cursor <= r.len
         /\ r.disp = "done" /\ r.handle = "closed" =>
              r.cursor = r.len \/ (r.cursor < r.routed /\ r.len = r.routed)

Counts == \A a \in Attempts : Counted(at[a])

\* Attempts that count the same.
Tallied(r, q) ==
    r.len = q.len /\ r.cursor = q.cursor /\ r.batch = q.batch /\ r.routed = q.routed

\* A step that counts nothing, begins no flush and ends no disposal.
Idles(r, q) ==
    /\ Tallied(r, q)
    /\ r.scope = "none" => q.scope = "none"
    /\ r.pc \in {"setup", "flushing"} => r.pc = q.pc
    /\ r.disp = "done" => q.disp = "done" /\ r.handle = q.handle

LEMMA IdlesCounted ==
    ASSUME NEW q, NEW r, Counted(q), Idles(r, q)
    PROVE  Counted(r)
  BY DEF Idles, Tallied, Counted

LEMMA Recounts ==
    ASSUME Inductive, Counts, NEW a \in Attempts, NEW r, Put(a, r), Counted(r)
    PROVE  Counts'
<1>1. at \in [Attempts -> Attempt]
  BY Attempting
<1>2. at'[a] = r /\ \A b \in Attempts : b # a => at'[b] = at[b]
  BY <1>1 DEF Put
<1>3. ASSUME NEW b \in Attempts, b # a
      PROVE  Counted(at'[b])
  BY <1>2, <1>3 DEF Counts
<1> QED BY <1>2, <1>3 DEF Counts

LEMMA IdleStep ==
    ASSUME Inductive, Counts, NEW a \in Attempts, NEW r, Put(a, r),
           Idles(r, at[a])
    PROVE  Counts'
<1>1. Counted(r)
  BY IdlesCounted DEF Counts
<1> QED BY <1>1, Recounts

\* An attempt without an agent has routed nothing.
LEMMA LoadCounts ==
    ASSUME Inductive, Counts, NEW a \in Attempts, NEW r, Put(a, r),
           at[a].scope = "none", r.routed = at[a].routed, r.pc # "flushing"
    PROVE  Counts'
<1>1. Counted(r)
  BY DEF Counts, Counted
<1> QED BY <1>1, Recounts

LEMMA BackendCounts ==
    ASSUME Inductive, Counts, NEW a \in Attempts, Backend(a)
    PROVE  Counts'
<1> DEFINE q == at[a]
<1>1. q \in Attempt /\ at \in [Attempts -> Attempt] /\ Sound(q, factory)
  BY Attempting DEF Backend, Find, Register, Claim, Opened
<1>2. q.back \in Lookups
  BY DEF Backend, Find, Register, Claim, Opened, Lookups
<1>3. q.scope = "none" /\ q.pc # "flushing"
  BY <1>1, <1>2 DEF Sound, Living, Loading, Lookups, Early
<1>4. /\ at' = [at EXCEPT ![a] = at'[a]]
      /\ at'[a].routed = q.routed /\ at'[a].pc = q.pc
  BY <1>1 DEF Backend, Find, Register, Claim, Opened, Attempt
<1> QED BY <1>1, <1>3, <1>4, LoadCounts DEF Put

LEMMA LoadsCounted ==
    ASSUME Inductive, Counts, NEW a \in Attempts, Load(a)
    PROVE  Counts'
<1> DEFINE q == at[a]
           p == [q EXCEPT !.cursor = q.batch]
           s == [q EXCEPT !.cursor = q.batch, !.batch = 0]
<1>1. q \in Attempt /\ at \in [Attempts -> Attempt] /\ Sound(q, factory)
      /\ q.cursor \in Nat /\ q.batch \in Nat
  BY Attempting DEF Attempt, Load, WaitEnds, Created, LoadFailed, Abandon, AbandonedCloses,
     OpenReturned, Read, Repaired, Stored, Closed
<1>2. q.pc \in Early \/ AbandonedCloses(a)
  BY DEF Early, Load, WaitEnds, Created, LoadFailed, Abandon,
     OpenReturned, Read, Repaired, Stored, Closed
<1>3. q.scope = "none" /\ q.pc # "flushing"
  <2>1. CASE q.pc \in Early
    BY <1>1, <2>1 DEF Sound, Living, Early
  <2>2. CASE AbandonedCloses(a)
    BY <1>1, <2>2 DEF AbandonedCloses, Abandoned, Sound, Living, Loading, Early
  <2> QED BY <1>2, <2>1, <2>2
<1>4. SUFFICES \E r : Put(a, r) /\ r.routed = q.routed /\ r.pc # "flushing"
  BY <1>1, <1>3, LoadCounts
<1>5. CASE Abandon(a) \/ AbandonedCloses(a) \/ OpenReturned(a) \/ Closed(a)
  <2>1. /\ at' = [at EXCEPT ![a] = at'[a]]
        /\ at'[a].routed = q.routed /\ at'[a].pc # "flushing"
    BY <1>1, <1>3, <1>5 DEF Abandon, AbandonedCloses, OpenReturned, Closed, Go, Attempt
  <2> QED BY <2>1 DEF Put
<1>6. CASE WaitEnds(a) \/ Created(a) \/ LoadFailed(a)
  <2>1. /\ StartOpen(q).pc = "opening" /\ StartOpen(q).routed = q.routed
        /\ StartCreate(q, 0).pc # "flushing" /\ StartCreate(q, 0).routed = q.routed
        /\ Prepared(a, q).pc # "flushing" /\ Prepared(a, q).routed = q.routed
    BY <1>1 DEF StartOpen, StartCreate, Prepared, StartClosing, Attempt
  <2>2. /\ [q EXCEPT !.pc = "rejected"].pc = "rejected"
        /\ [q EXCEPT !.pc = "rejected"].routed = q.routed
        /\ Go(a, "rejected") => Put(a, [q EXCEPT !.pc = "rejected"])
    BY <1>1 DEF Attempt, Go, Put
  <2> QED BY <1>6, <2>1, <2>2 DEF WaitEnds, Created, LoadFailed
<1>7. CASE Read(a) \/ Repaired(a) \/ Stored(a)
  <2>1. \A r \in Restored(q) \cup Restored(p) : r.pc # "flushing" /\ r.routed = q.routed
    BY <1>1 DEF Restored, StartClosing, Attempt
  <2>2. /\ StartClosing(q).pc = "closing" /\ StartClosing(q).routed = q.routed
        /\ [q EXCEPT !.pc = "repairing", !.batch = q.cursor + 1].pc = "repairing"
        /\ [q EXCEPT !.pc = "repairing", !.batch = q.cursor + 1].routed = q.routed
        /\ Prepared(a, s).pc # "flushing" /\ Prepared(a, s).routed = q.routed
    BY <1>1 DEF StartClosing, Prepared, Attempt
  <2> HIDE DEF q, s
  <2> QED BY <1>7, <2>1, <2>2 DEF Read, Repaired, Stored, q, s
<1> QED BY <1>5, <1>6, <1>7 DEF Load

LEMMA TeardownTallied ==
    ASSUME NEW q \in Attempt
    PROVE  Tallied(Disposing(q), q) /\ Tallied(Unwinding(q), q) /\ Tallied(RolledBack(q), q)
<1>1. Tallied(Disposing(q), q) /\ Tallied(Unwinding(q), q)
  BY DEF Tallied, Disposing, Unwinding, Attempt
<1>2. Tallied(RolledBack(q), q)
  <2> DEFINE p == [q EXCEPT !.pc = "rolling", !.machine = "idle"]
  <2>1. Tallied(p, q)
    BY DEF Tallied, Attempt
  <2>2. Tallied(Disposing(p), p)
    BY DEF Tallied, Disposing, Attempt
  <2> QED BY <2>1, <2>2 DEF Tallied, RolledBack
<1> QED BY <1>1, <1>2

\* A rollback ends no disposal by itself.
LEMMA RollsBackIdle ==
    ASSUME NEW q \in Attempt
    PROVE  Idles(RolledBack(q), q)
<1> DEFINE p == [q EXCEPT !.pc = "rolling", !.machine = "idle"]
           w == Disposing(p)
<1>1. p \in Attempt /\ p.pc = "rolling" /\ p.disp = q.disp /\ p.scope = q.scope
      /\ p.handle = q.handle
  BY Values DEF Attempt
<1> HIDE DEF p
<1>2. w.pc = "rolling" /\ (w.disp = "done" => q.disp = "done") /\ w.scope = q.scope
      /\ w.handle = q.handle
  BY <1>1, DisposingFields
<1> HIDE DEF w
<1>3. RolledBack(q) = w
  BY DEF RolledBack, w, p
<1> QED BY <1>2, <1>3, TeardownTallied DEF Idles

LEMMA PublicationCounts ==
    ASSUME Inductive, Counts, NEW a \in Attempts, Publication(a)
    PROVE  Counts'
<1> DEFINE q == at[a]
<1>1. q \in Attempt /\ at \in [Attempts -> Attempt] /\ Sound(q, factory) /\ Counted(q)
      /\ q.batch \in Nat /\ q.cursor \in Nat /\ q.len \in Nat
  BY Attempting DEF Attempt, Counts
<1>2. CASE RollbackEnds(a)
  <2>1. Put(a, [q EXCEPT !.pc = "rejected"])
    BY <1>1, <1>2 DEF RollbackEnds, Go, Put
  <2>2. Idles([q EXCEPT !.pc = "rejected"], q)
    BY <1>1 DEF Idles, Tallied, Attempt
  <2> QED BY <1>2, <2>1, <2>2, IdleStep DEF RollbackEnds
<1>3. CASE Announced(a)
  <2> DEFINE r == [q EXCEPT !.pc = "published", !.machine = "idle"]
  <2>1. Put(a, r) \/ Put(a, RolledBack(q))
    BY <1>1, <1>3 DEF Announced, Put
  <2>2. Idles(r, q) /\ Idles(RolledBack(q), q)
    <3>1. Idles(r, q)
      BY <1>1 DEF Idles, Tallied, Attempt
    <3> QED BY <1>1, <3>1, RollsBackIdle
  <2> HIDE DEF r
  <2> QED BY <1>3, <2>1, <2>2, IdleStep DEF Announced
<1>4. CASE Flushed(a)
  <2>1. q.pc = "flushing" /\ q.routed = -1 /\ q.batch <= q.len
    BY <1>1, <1>4 DEF Flushed, Counted
  <2>2. Living(q)
    BY <1>1, <2>1 DEF Sound, Loading, Early
  <2>3. q.scope # "none" /\ q.disp # "done"
    BY <1>1, <2>1 DEF Sound, Loading, Living, Early
  <2>4. ASSUME NEW r \in Attempt, Publish(a, r), r.routed = -1, r.cursor <= r.len,
               r.scope = q.scope, r.disp = q.disp
        PROVE  Counts'
    <3> DEFINE e == [r EXCEPT !.routed = r.len]
               w == [e EXCEPT !.pc = "announcing"]
    <3>1. r.len \in Nat /\ r.cursor \in Nat
      BY DEF Attempt
    <3>2. /\ e \in Attempt /\ e.len = r.len /\ e.cursor = r.cursor /\ e.routed = r.len
          /\ e.disp = r.disp /\ e.scope = r.scope
      BY <2>4, <3>1 DEF Attempt
    <3> HIDE DEF e
    <3>3. /\ w.len = r.len /\ w.cursor = r.cursor /\ w.routed = r.len /\ w.pc = "announcing"
          /\ w.disp = r.disp /\ w.scope = r.scope
      BY <3>2 DEF Attempt
    <3> HIDE DEF w
    <3>4. RolledBack(r).routed = -1 /\ RolledBack(r).pc = "rolling"
      BY <2>4, TeardownTallied, RolledBackPlace DEF Tallied
    <3>5. Idles(RolledBack(e), e) /\ RolledBack(e).pc = "rolling"
      BY <3>2, RollsBackIdle, RolledBackPlace
    <3>6. Counted(RolledBack(r))
      BY <3>4 DEF Counted
    <3>7. Counted(w)
      BY <2>3, <2>4, <3>1, <3>3 DEF Counted
    <3>8. Counted(RolledBack(e))
      BY <2>3, <2>4, <3>1, <3>2, <3>5 DEF Counted, Idles, Tallied
    <3>9. Put(a, RolledBack(r)) \/ Put(a, w) \/ Put(a, RolledBack(e))
      BY <2>4 DEF Publish, w, e
    <3> QED BY <2>1, <3>6, <3>7, <3>8, <3>9, Recounts
  <2>5. CASE Publish(a, [q EXCEPT !.batch = 0]) /\ q.batch = q.cursor
    <3> DEFINE r == [q EXCEPT !.batch = 0]
    <3>1. /\ r \in Attempt /\ r.routed = q.routed /\ r.cursor = q.cursor /\ r.len = q.len
          /\ r.scope = q.scope /\ r.disp = q.disp
      <4>1. PICK n \in Nat : n = 0
        OBVIOUS
      <4> HIDE DEF q
      <4> QED BY <1>1, <4>1 DEF Attempt
    <3> HIDE DEF r
    <3>2. r.cursor <= r.len /\ r.routed = -1
      BY <2>1, <2>5, <3>1
    <3>3. Publish(a, r)
      BY <2>5 DEF r
    <3> QED BY <2>4, <3>1, <3>2, <3>3
  <2>6. CASE Publish(a, [q EXCEPT !.cursor = q.batch, !.batch = 0])
    <3> DEFINE r == [q EXCEPT !.cursor = q.batch, !.batch = 0]
    <3>1. /\ r \in Attempt /\ r.routed = q.routed /\ r.cursor = q.batch /\ r.len = q.len
          /\ r.scope = q.scope /\ r.disp = q.disp
      <4>1. PICK n \in Nat : n = 0
        OBVIOUS
      <4>2. PICK m \in Nat : m = q.batch
        BY <1>1
      <4> HIDE DEF q
      <4> QED BY <1>1, <4>1, <4>2 DEF Attempt
    <3> HIDE DEF r
    <3>2. r.cursor <= r.len /\ r.routed = -1
      BY <2>1, <3>1
    <3>3. Publish(a, r)
      BY <2>6 DEF r
    <3> QED BY <2>4, <3>1, <3>2, <3>3
  <2>7. CASE Put(a, RolledBack([q EXCEPT !.batch = 0]))
    <3> DEFINE r == [q EXCEPT !.batch = 0]
    <3>1. r \in Attempt /\ r.routed = q.routed
      <4>1. PICK n \in Nat : n = 0
        OBVIOUS
      <4> HIDE DEF q
      <4> QED BY <1>1, <4>1 DEF Attempt
    <3> HIDE DEF r
    <3>2. Put(a, RolledBack(r))
      BY <2>7 DEF r
    <3>3. RolledBack(r).routed = -1 /\ RolledBack(r).pc = "rolling"
      BY <2>1, <3>1, TeardownTallied, RolledBackPlace DEF Tallied
    <3> HIDE DEF q
    <3>4. Counted(RolledBack(r))
      BY <3>3 DEF Counted
    <3> QED BY <3>2, <3>4, Recounts
  <2> QED BY <1>4, <2>5, <2>6, <2>7 DEF Flushed
<1> QED BY <1>2, <1>3, <1>4 DEF Publication

LEMMA TeardownCounts ==
    ASSUME Inductive, Counts, NEW a \in Attempts, Teardown(a)
    PROVE  Counts'
<1> DEFINE q == at[a]
<1>1. q \in Attempt /\ at \in [Attempts -> Attempt] /\ Sound(q, factory) /\ Counted(q)
      /\ q.cursor \in Nat /\ q.len \in Nat /\ q.routed \in Int
  BY Attempting DEF Attempt, Counts
<1>2. CASE DisposeCancels(a) \/ ScopeUnwound(a) \/ DisposeCloses(a) \/ OwnerUnloaded(a)
  <2>1. at' = [at EXCEPT ![a] = at'[a]]
    BY <1>1, <1>2 DEF DisposeCancels, ScopeUnwound, DisposeCloses, OwnerUnloaded
  <2>2. Idles(at'[a], q)
    BY <1>1, <1>2 DEF DisposeCancels, ScopeUnwound, DisposeCloses, OwnerUnloaded,
       Attempt, Idles, Tallied
  <2> QED BY <2>1, <2>2, IdleStep DEF Put
<1>3. CASE DriverIdle(a)
  <2> DEFINE p == [q EXCEPT !.disp = "scope"]
             w == Unwinding(p)
  <2>1. p \in Attempt /\ p.pc = q.pc /\ p.scope = q.scope /\ p.disp = "scope" /\ Tallied(p, q)
    BY <1>1, Values DEF Attempt, Tallied
  <2>2. Put(a, w)
    BY <1>3 DEF DriverIdle
  <2> HIDE DEF p
  <2>3. w.pc = q.pc /\ w.disp = "scope" /\ (w.scope = "none" => q.scope = "none")
    BY <2>1, UnwindingFields
  <2>4. Tallied(w, q)
    BY <2>1, TeardownTallied DEF Tallied
  <2> QED BY <2>2, <2>3, <2>4, IdleStep DEF Idles
<1>4. CASE DisposeEnds(a)
  <2>1. PICK how \in {"closed", "failed"}, n \in Nat :
          /\ Put(a, EndedAs(q, how, n))
          /\ n \in {q.cursor, q.len}
          /\ how = "closed" => n = q.len \/ ~Buffered(q)
    BY <1>4, Ends
  <2> DEFINE r == EndedAs(q, how, n)
  <2>2. /\ r.pc = q.pc /\ r.scope = q.scope /\ r.handle = how /\ r.routed = q.routed
        /\ r.len = q.len /\ r.cursor = n /\ r.batch = q.batch
    BY <1>1 DEF Attempt, EndedAs
  <2>3. Put(a, r)
    BY <2>1
  <2> HIDE DEF r
  <2>4. n \in Nat /\ (q.routed >= 0 => n <= q.len)
    BY <1>1, <2>1 DEF Counted
  <2>5. how = "closed" /\ q.routed >= 0 => n = q.len \/ (n < q.routed /\ q.len = q.routed)
    <3>1. SUFFICES ASSUME how = "closed", q.routed >= 0, n # q.len
                   PROVE  n < q.routed /\ q.len = q.routed
      OBVIOUS
    <3>2. n = q.cursor /\ ~Buffered(q) /\ q.routed <= q.len /\ q.cursor <= q.len
      BY <1>1, <2>1, <3>1 DEF Counted
    <3> QED BY <1>1, <3>1, <3>2 DEF Buffered
  <2>6. Counted(r)
    BY <1>1, <2>2, <2>4, <2>5 DEF Counted
  <2> QED BY <2>3, <2>6, Recounts
<1> QED BY <1>2, <1>3, <1>4 DEF Teardown

\* The end of the log moves with the session, and only while no disposal has ended.
LEMMA LiveCounts ==
    ASSUME Inductive, Counts, NEW a \in Attempts,
           Wake(a) \/ TurnEnds(a) \/ PluginAppends(a) \/ Drain(a)
    PROVE  Counts'
<1> DEFINE q == at[a]
           r == at'[a]
<1>1. q \in Attempt /\ at \in [Attempts -> Attempt] /\ Sound(q, factory) /\ Counted(q)
      /\ q.cursor \in Nat /\ q.len \in Nat /\ q.routed \in Int /\ q.batch \in Nat
  BY Attempting DEF Attempt, Counts
<1>2. at' = [at EXCEPT ![a] = r]
  BY <1>1 DEF Wake, TurnEnds, PluginAppends, Drain
<1>3. r.routed = q.routed /\ r.pc = q.pc /\ r.scope = q.scope /\ r.disp = q.disp
  BY <1>1 DEF Wake, TurnEnds, PluginAppends, Drain, Attempt
<1>4. CASE Drain(a)
  <2>1. q.disp # "done" \/ q.scope = "none"
    BY <1>1, <1>4 DEF Drain, Sound, Living
  <2>2. r.cursor = q.len /\ r.len = q.len /\ r.batch = q.batch
    BY <1>1, <1>4 DEF Drain, Attempt
  <2>3. Counted(r)
    BY <1>1, <1>3, <1>4, <2>1, <2>2 DEF Counted, Drain, Drainable
  <2> QED BY <1>2, <2>3, Recounts DEF Put
<1>5. CASE Wake(a) \/ TurnEnds(a) \/ PluginAppends(a)
  <2>1. q.scope # "none"
    BY <1>1, <1>5 DEF Wake, TurnEnds, PluginAppends, Sound, Loading, Early
  <2>2. Living(q)
    BY <1>1, <2>1 DEF Sound
  <2>3. q.disp # "done"
    BY <1>5, <2>2 DEF Wake, TurnEnds, PluginAppends, Living
  <2>4. r.cursor = q.cursor /\ r.batch = q.batch /\ r.len \in {q.len, q.len + 1}
    BY <1>1, <1>5 DEF Wake, TurnEnds, PluginAppends, Attempt
  <2>5. Counted(r)
    BY <1>1, <1>3, <2>1, <2>3, <2>4 DEF Counted
  <2> QED BY <1>2, <2>5, Recounts DEF Put
<1> QED BY <1>4, <1>5

LEMMA EnvironmentCounts ==
    ASSUME Inductive, Counts, NEW a \in Attempts, Environment(a)
    PROVE  Counts'
<1> DEFINE q == at[a]
<1>1. q \in Attempt /\ at \in [Attempts -> Attempt] /\ Sound(q, factory) /\ Counted(q)
  BY Attempting DEF Counts
<1>2. CASE CallCreateAgent(a) \/ CallResume(a) \/ CallRestore(a)
  <2>1. q.scope = "none"
    BY <1>1, <1>2 DEF CallCreateAgent, CallResume, CallRestore, Callable, Sound, Living
  <2>2. ASSUME NEW e \in EntryPoints
        PROVE  LET r == [q EXCEPT !.entry = e]
               IN  /\ StartOpen(r).pc # "flushing" /\ StartOpen(r).routed = q.routed
                   /\ \A n \in {0, 1} : /\ StartCreate(r, n).pc # "flushing"
                                        /\ StartCreate(r, n).routed = q.routed
                   /\ [r EXCEPT !.pc = "waiting"].pc # "flushing"
                   /\ [r EXCEPT !.pc = "waiting"].routed = q.routed
    <3> DEFINE r == [q EXCEPT !.entry = e]
    <3>1. r \in Attempt /\ r.routed = q.routed
      BY <1>1 DEF Attempt, Calls
    <3> HIDE DEF r
    <3> QED BY <3>1 DEF StartOpen, StartCreate, Attempt
  <2>3. "createAgent" \in EntryPoints /\ "resume" \in EntryPoints /\ "restore" \in EntryPoints
    BY DEF EntryPoints
  <2> QED BY <1>2, <2>1, <2>2, <2>3, LoadCounts DEF CallCreateAgent, CallResume, CallRestore
<1>3. CASE StartFlush(a)
  <2> DEFINE r == [q EXCEPT !.pc = "flushing", !.batch = q.len]
  <2>1. Put(a, r) /\ q.pc = "setup"
    BY <1>1, <1>3 DEF StartFlush, Put
  <2>2. r.pc = "flushing" /\ r.batch = r.len /\ r.len \in Nat /\ r.routed = -1
    BY <1>1, <2>1 DEF Attempt, Counted
  <2> HIDE DEF r
  <2>3. Counted(r)
    BY <2>2 DEF Counted
  <2> QED BY <2>1, <2>3, Recounts
<1>4. CASE SetupFails(a)
  BY <1>1, <1>4, RollsBackIdle, IdleStep DEF SetupFails
<1>5. CASE DisposeCalled(a)
  <2>1. Disposing(q).disp # "done" /\ Disposing(q).pc = q.pc /\ Disposing(q).scope = q.scope
    BY <1>1, <1>5, DisposingFields DEF DisposeCalled
  <2> QED BY <1>1, <1>5, <2>1, TeardownTallied, IdleStep DEF DisposeCalled, Idles
<1>6. CASE CallerAborts(a)
  <2>1. at' = [at EXCEPT ![a] = at'[a]]
    BY <1>1, <1>6 DEF CallerAborts
  <2>2. Idles(at'[a], q)
    BY <1>1, <1>6 DEF CallerAborts, Attempt, Idles, Tallied
  <2> QED BY <2>1, <2>2, IdleStep DEF Put
<1>7. CASE OwnerUnloads(a)
  <2> DEFINE p == [q EXCEPT !.owner = "joining"]
             v == [q EXCEPT !.owner = "unwinding"]
             u == [q EXCEPT !.owner = "unloaded"]
  <2>1. \A x \in {p, v, u} : /\ x \in Attempt /\ x.pc = q.pc /\ x.scope = q.scope
                             /\ x.disp = q.disp /\ x.handle = q.handle /\ Tallied(x, q)
    BY <1>1, Values DEF Attempt, Tallied
  <2>2. Put(a, u) \/ Put(a, Disposing(p)) \/ Put(a, Unwinding(v))
    BY <1>7 DEF OwnerUnloads
  <2> HIDE DEF p, v, u
  <2>3. Idles(u, q)
    BY <2>1 DEF Idles
  <2>4. Idles(Disposing(p), q)
    <3>1. /\ Disposing(p).pc = q.pc /\ Disposing(p).scope = q.scope
          /\ Disposing(p).disp = "done" => q.disp = "done"
          /\ Disposing(p).handle = q.handle
      BY <2>1, DisposingFields
    <3>2. Tallied(Disposing(p), q)
      BY <2>1, TeardownTallied DEF Tallied
    <3> QED BY <3>1, <3>2 DEF Idles
  <2>5. Idles(Unwinding(v), q)
    <3>1. /\ Unwinding(v).pc = q.pc /\ (Unwinding(v).scope = "none" => q.scope = "none")
          /\ Unwinding(v).disp = q.disp /\ Unwinding(v).handle = q.handle
      BY <2>1, UnwindingFields
    <3>2. Tallied(Unwinding(v), q)
      BY <2>1, TeardownTallied DEF Tallied
    <3> QED BY <3>1, <3>2 DEF Idles
  <2> QED BY <1>7, <2>2, <2>3, <2>4, <2>5, IdleStep DEF OwnerUnloads
<1> QED BY <1>2, <1>3, <1>4, <1>5, <1>6, <1>7, LiveCounts DEF Environment

LEMMA FactoryCounts ==
    ASSUME Inductive, Counts, FactoryUnloads
    PROVE  Counts'
<1> SUFFICES ASSUME NEW b \in Attempts PROVE Counted(at'[b])
  BY DEF Counts, FactoryUnloads
<1> DEFINE q == at[b]
           w == Disposing(q)
           v == Unwinding(w)
<1>1. q \in Attempt /\ Counted(q)
  BY Attempting DEF Counts
<1>2. /\ w \in Attempt /\ w.pc = q.pc /\ w.scope = q.scope /\ Tallied(w, q)
      /\ w.handle = q.handle
      /\ w.disp = "done" => q.disp = "done"
  BY <1>1, DisposingFields, TeardownTallied
<1>3. at'[b] \in {q, w, v}
  BY DEF FactoryUnloads
<1> HIDE DEF w
<1>4. v.pc = q.pc /\ (v.scope = "none" => q.scope = "none") /\ v.disp = w.disp
      /\ v.handle = w.handle /\ Tallied(v, w)
  BY <1>2, UnwindingFields, TeardownTallied
<1> HIDE DEF v
<1>5. Idles(w, q) /\ Idles(v, q)
  BY <1>2, <1>4 DEF Idles, Tallied
<1> QED BY <1>1, <1>3, <1>5, IdlesCounted

\* Whatever fails, and whatever a plugin appends while the unstored suffix is being
\* written, a close that has resolved has stored the session, or all of it but what
\* was appended there and nothing followed.
THEOREM EventsStoredHolds == Spec => []EventsStored
<1>1. ASSUME Init PROVE Counts
  <2>1. Counted(Uncalled)
    BY DEF Uncalled, Counted
  <2> QED BY <1>1, <2>1 DEF Init, Counts
<1>2. ASSUME Inductive, Counts, [Next]_vars PROVE Counts'
  <2>1. CASE UNCHANGED vars \/ FactoryUnloaded
    BY <1>2, <2>1 DEF vars, FactoryUnloaded, Counts
  <2> QED BY <1>2, <2>1, BackendCounts, LoadsCounted, PublicationCounts, TeardownCounts,
        EnvironmentCounts, FactoryCounts DEF Next
<1>3. ASSUME Inductive, Counts PROVE EventsStored
  <2> SUFFICES ASSUME NEW a \in Attempts, at[a].disp = "done",
                      at[a].handle = "closed", at[a].routed >= 0
               PROVE  \/ at[a].cursor = at[a].len
                      \/ at[a].cursor < at[a].routed /\ at[a].len = at[a].routed
    BY DEF EventsStored
  <2> QED BY <1>3 DEF Counts, Counted
<1> QED BY <1>1, <1>2, <1>3, InductiveHolds, PTL DEF Spec

===============================================================================
