------------------------- MODULE DemoLifecycleProofs -------------------------
(***************************************************************************)
(* Proofs about DemoLifecycle for any operators, archives and bounds:      *)
(* however many commands fail, are killed or meet others at the volume.    *)
(***************************************************************************)
EXTENDS DemoLifecycle, TLAPS

(***************************************************************************)
(* The inductive invariant.                                                *)
(***************************************************************************)
\* One command at a time, and the directory is there while it runs.
Exclusive ==
  \A p \in Operators : Active(p) =>
    lock /\ \A q \in Operators : Active(q) => q = p

\* A seeder, waited for or left behind by a kill, keeps the lock from others.
SeederHeld ==
  seeder = "running" =>
    lock /\ \A p \in Operators : Active(p) => at[p] = "seeding"

\* Where a seed has got to, by the call its command is at.
SeedingAt(p) ==
  /\ at[p] \in {"archive", "halt", "seed", "seeding", "receipt"} => Owned
  /\ at[p] \in {"halt", "seed"} => volume.archives[target] = "empty"
  /\ at[p] = "seeding" /\ seeder = "done" => volume.archives[target] = "seeded"
  /\ at[p] = "receipt" => volume.archives[target] = "seeded"
  /\ at[p] \in {"halt", "seed", "seeding", "receipt"} => target \in Archives
  /\ at[p] = "seed" => ~Running

Seeding == \A p \in Operators : SeedingAt(p)

\* What a seeder writes to is the new archive of the demo's volume.
SeederInside ==
  seeder = "running" =>
    Owned /\ target \in Archives /\ volume.archives[target] = "partial" /\ ~Running

\* An archive that a seed is filling is not the one of the receipt.
Unreceipted ==
  /\ seeder = "running" \/ \E p \in Operators : at[p] \in {"halt", "seed"}
  /\ receipt # None
  => receipt.archive # target

\* The demo's container exists only with the demo's volume.
AppInside == ~Owned => app = None

Inductive ==
  /\ TypeOK /\ Exclusive /\ SeederHeld /\ Seeding /\ SeederInside /\ Unreceipted
  /\ AppInside /\ ReceiptTruthful

-----------------------------------------------------------------------------
(***************************************************************************)
(* Type correctness.                                                       *)
(***************************************************************************)
LEMMA FreshTyped ==
  /\ \A label \in {"demo", "foreign"} :
       /\ Fresh(label) \in Volumes /\ Fresh(label).owner = label
       /\ \A a \in Archives : Fresh(label).archives[a] = "none"
  BY DEF Fresh, Volumes, Contents

LEMMA InitTyped == Init => TypeOK
<1>1. 1 \in ImageIds
  BY BoundsAssumption DEF ImageIds
<1>2. Init => volume \in Volumes \cup {None} /\ built \in ImageIds
  BY <1>1, FreshTyped DEF Init
<1>3. Init => at \in [Operators -> Calls]
  BY DEF Init, Calls
<1>4. Init => /\ lock \in BOOLEAN /\ attached \in BOOLEAN /\ app = None /\ seeder = "none"
              /\ target = None /\ receipt = None
              /\ commands = 0 /\ failures = 0 /\ kills = 0 /\ foreign = 0
  BY DEF Init
<1> QED BY <1>2, <1>3, <1>4 DEF TypeOK

\* Filling an archive changes that archive of the volume alone.
LEMMA FillEffect ==
  ASSUME NEW v \in Volumes, NEW a \in Archives,
         NEW c \in {"none", "empty", "partial", "seeded"},
         NEW w, w = [v EXCEPT !.archives[a] = c]
  PROVE  /\ w \in Volumes /\ w.owner = v.owner /\ w.archives[a] = c
         /\ \A b \in Archives \ {a} : w.archives[b] = v.archives[b]
  BY DEF Volumes, Contents

\* A call moves its command on, or to the finally block.
LEMMA GoesEffect ==
  ASSUME TypeOK, NEW p \in Operators, NEW to \in Calls, Goes(p, to)
  PROVE  /\ at' \in [Operators -> Calls] /\ failures' \in Nat
         /\ at'[p] \in {to, "unlock"}
         /\ \A q \in Operators \ {p} : at'[q] = at[q]
<1>1. at' = [at EXCEPT ![p] = to] \/ at' = [at EXCEPT ![p] = "unlock"]
  BY DEF Goes
<1>2. failures' = failures \/ failures' = failures + 1
  BY DEF Goes
<1> QED BY <1>1, <1>2 DEF TypeOK, Calls

-----------------------------------------------------------------------------
(***************************************************************************)
(* A call is made by the one command that holds the lock, and never while  *)
(* a seeder runs; so what it has to keep is about that command alone.      *)
(***************************************************************************)
Kept(p) ==
  /\ TypeOK' /\ SeedingAt(p)'
  /\ seeder' = "running" => at'[p] = "seeding" /\ SeederInside'
  /\ seeder' = "running" \/ at'[p] \in {"halt", "seed"} =>
       (receipt' # None => receipt'.archive # target')
  /\ AppInside' /\ ReceiptTruthful'

LEMMA CallerAlone ==
  ASSUME Inductive, NEW p \in Operators, Active(p), at[p] # "seeding" \/ seeder # "running"
  PROVE  /\ lock /\ seeder # "running"
         /\ \A q \in Operators \ {p} : at[q] \in {"idle", "lock"}
<1>1. lock /\ \A q \in Operators : Active(q) => q = p
  BY DEF Inductive, Exclusive
<1>2. seeder # "running"
  BY DEF Inductive, SeederHeld
<1> QED BY <1>1, <1>2 DEF Active

LEMMA CallKeeps ==
  ASSUME Inductive, NEW p \in Operators, Active(p), at[p] # "seeding" \/ seeder # "running",
         lock' = lock, \A q \in Operators \ {p} : at'[q] = at[q], Kept(p)
  PROVE  Inductive'
<1>1. /\ lock /\ \A q \in Operators \ {p} : at'[q] \in {"idle", "lock"}
  BY CallerAlone
<1>2. \A q \in Operators \ {p} : SeedingAt(q)' /\ ~Active(q)'
  BY <1>1 DEF SeedingAt, Active
<1>3. Exclusive' /\ SeederHeld' /\ Seeding'
  BY <1>1, <1>2 DEF Exclusive, SeederHeld, Seeding, Kept
<1>4. SeederInside' /\ Unreceipted'
  BY <1>1 DEF SeederInside, Unreceipted, Kept
<1> QED BY <1>3, <1>4 DEF Inductive, Kept

\* A call that changes nothing of the volume, the container and the seed.
LEMMA PlainCall ==
  ASSUME Inductive, NEW p \in Operators, seeder # "running",
         UNCHANGED <<lock, volume, attached, app, seeder, target, receipt, bounds>>,
         built' \in ImageIds, failures' \in Nat, at' \in [Operators -> Calls],
         at'[p] \notin {"archive", "halt", "seed", "seeding", "receipt"}
  PROVE  Kept(p)
<1>1. TypeOK'
  BY DEF Inductive, TypeOK, bounds
<1>2. SeedingAt(p)'
  BY DEF SeedingAt
<1>3. AppInside' /\ ReceiptTruthful'
  BY DEF Inductive, AppInside, ReceiptTruthful, Owned
<1> QED BY <1>1, <1>2, <1>3 DEF Kept

LEMMA RefusedCall ==
  ASSUME Inductive, NEW p \in Operators, seeder # "running", Refused(p), UNCHANGED <<lock, bounds>>
  PROVE  Kept(p) /\ \A q \in Operators \ {p} : at'[q] = at[q]
<1>1. /\ at' \in [Operators -> Calls] /\ at'[p] = "unlock"
      /\ \A q \in Operators \ {p} : at'[q] = at[q]
  <2>1. at \in [Operators -> Calls] /\ at' = [at EXCEPT ![p] = "unlock"]
    BY DEF Inductive, TypeOK, Refused
  <2> QED BY <2>1 DEF Calls
<1>2. built \in ImageIds /\ failures \in Nat
  BY DEF Inductive, TypeOK
<1>3. UNCHANGED <<failures, volume, attached, app, seeder, target, built, receipt>>
  BY DEF Refused
<1> QED BY <1>1, <1>2, <1>3, PlainCall

\* The calls that only look, or build.
LEMMA LookingCalls ==
  ASSUME Inductive, NEW p \in Operators, seeder # "running", UNCHANGED <<lock, bounds>>,
         \/ Build(p) \/ Look(p) \/ Smoke(p)
         \/ CheckOwned(p, "owned", "attached") \/ CheckAttached(p)
         \/ CheckOwned(p, "check", "restart")
  PROVE  Kept(p) /\ \A q \in Operators \ {p} : at'[q] = at[q]
<1>1. CASE Smoke(p)
  BY <1>1, RefusedCall DEF Smoke
<1>2. TypeOK /\ built \in ImageIds
  BY DEF Inductive, TypeOK
<1>3. CASE \/ Build(p) \/ Look(p) \/ CheckAttached(p)
           \/ CheckOwned(p, "owned", "attached") \/ CheckOwned(p, "check", "restart")
  <2>1. \/ \E to \in {"look", "create", "start", "unlock", "attached", "down", "restart"} :
             Goes(p, to)
        \/ failures' = failures + 1 /\ at' = [at EXCEPT ![p] = "create"]
    BY <1>3 DEF Build, Look, Uninspected, CheckOwned, CheckAttached
  <2>2. /\ UNCHANGED <<volume, attached, app, seeder, target, receipt>>
        /\ built' \in ImageIds
    BY <1>2, <1>3 DEF Build, Look, CheckOwned, CheckAttached
  <2>3. /\ at' \in [Operators -> Calls] /\ failures' \in Nat
        /\ at'[p] \in {"look", "create", "start", "unlock", "attached", "down", "restart"}
        /\ \A q \in Operators \ {p} : at'[q] = at[q]
    <3>1. CASE failures' = failures + 1 /\ at' = [at EXCEPT ![p] = "create"]
      <4>1. failures \in Nat /\ at \in [Operators -> Calls]
        BY <1>2 DEF TypeOK
      <4> QED BY <3>1, <4>1 DEF Calls
    <3> QED BY <1>2, <2>1, <3>1, GoesEffect DEF Calls
  <2> QED BY <2>2, <2>3, PlainCall
<1> QED BY <1>1, <1>3

\* The calls that start, stop or remove the container.
LEMMA ContainerCalls ==
  ASSUME Inductive, NEW p \in Operators, seeder # "running", UNCHANGED <<lock, bounds>>,
         \/ Up(p, "up", "archive") \/ Up(p, "start", "smoke")
         \/ Stop(p, "halt", "seed") \/ Stop(p, "stop", "unlock")
         \/ ComposeDown(p) \/ Restart(p)
  PROVE  Kept(p) /\ \A q \in Operators \ {p} : at'[q] = at[q]
<1>0. /\ TypeOK /\ AppInside /\ ReceiptTruthful /\ SeedingAt(p) /\ Unreceipted
      /\ app \in Containers \cup {None} /\ built \in ImageIds
  BY DEF Inductive, Seeding, TypeOK
<1>1. CASE Refused(p)
  BY <1>1, RefusedCall
<1>2. CASE ~Refused(p)
  <2>1. PICK to \in {"archive", "smoke", "seed", "unlock", "rm", "start"} :
          Goes(p, to) \/ (to \in {"seed", "unlock"} /\ Uninspected(p, to))
    BY <1>2 DEF Up, Stop, ComposeDown, Restart
  <2>2. /\ UNCHANGED <<volume, attached, seeder, target, built, receipt>>
        /\ \/ Owned /\ app' = [running |-> TRUE, image |-> built]
           \/ app' = IF app = None THEN None ELSE [app EXCEPT !.running = FALSE]
           \/ app' = None
           \/ app' = IF app = None THEN None ELSE [app EXCEPT !.running = TRUE]
    BY <1>2 DEF Up, Stop, ComposeDown, Restart
  <2>3. app' \in Containers \cup {None} /\ (~Owned => app' = None)
    <3>1. CASE Owned /\ app' = [running |-> TRUE, image |-> built]
      BY <1>0, <3>1 DEF Containers
    <3>2. CASE app = None /\ app' = None
      BY <3>2
    <3>3. CASE app # None /\ \E on \in BOOLEAN : app' = [app EXCEPT !.running = on]
      BY <1>0, <3>3 DEF Containers, AppInside
    <3>4. CASE app' = None
      BY <3>4
    <3> QED BY <2>2, <3>1, <3>2, <3>3, <3>4
  <2>4. /\ at' \in [Operators -> Calls] /\ failures' \in Nat
        /\ at'[p] \in {to, "unlock"} /\ \A q \in Operators \ {p} : at'[q] = at[q]
    <3>1. CASE Goes(p, to)
      BY <1>0, <3>1, GoesEffect DEF Calls
    <3>2. CASE to \in {"seed", "unlock"} /\ Uninspected(p, to)
      BY <1>0, <3>2 DEF Uninspected, TypeOK, Calls
    <3> QED BY <2>1, <3>1, <3>2
  <2>5. TypeOK'
    BY <1>0, <2>2, <2>3, <2>4 DEF TypeOK, bounds
  <2>6. AppInside' /\ ReceiptTruthful'
    BY <1>0, <2>2, <2>3 DEF AppInside, ReceiptTruthful, Owned
  <2>7. CASE at'[p] \notin {"archive", "seed"}
    BY <2>2, <2>4, <2>5, <2>6, <2>7 DEF Kept, SeedingAt
  <2>8. CASE at'[p] = "archive"
    <3>1. Owned
      BY <1>2, <2>1, <2>4, <2>8, <1>0 DEF Up, Stop, ComposeDown, Restart, Goes, Uninspected,
         TypeOK
    <3>2. Owned'
      BY <2>2, <3>1 DEF Owned
    <3>3. SeedingAt(p)'
      BY <2>8, <3>2 DEF SeedingAt
    <3> QED BY <2>2, <2>4, <2>5, <2>6, <2>8, <3>3 DEF Kept
  <2>9. CASE at'[p] = "seed"
    <3>1. /\ at[p] = "halt"
          /\ app' = IF app = None THEN None ELSE [app EXCEPT !.running = FALSE]
      BY <1>2, <2>1, <2>4, <2>9, <1>0 DEF Up, Stop, ComposeDown, Restart, Goes, Uninspected,
         TypeOK
    <3>2. ~Running'
      BY <1>0, <3>1 DEF Running, Containers
    <3>3. /\ Owned /\ volume.archives[target] = "empty" /\ target \in Archives
          /\ receipt # None => receipt.archive # target
      BY <1>0, <3>1 DEF SeedingAt, Unreceipted
    <3>4. Owned'
      BY <2>2, <3>3 DEF Owned
    <3>5. SeedingAt(p)'
      BY <2>2, <2>9, <3>2, <3>3, <3>4 DEF SeedingAt
    <3> QED BY <2>2, <2>4, <2>5, <2>6, <2>9, <3>3, <3>5 DEF Kept
  <2> QED BY <2>7, <2>8, <2>9
<1> QED BY <1>1, <1>2

\* The calls that create, fill or remove the volume.
LEMMA VolumeCalls ==
  ASSUME Inductive, NEW p \in Operators, seeder # "running", UNCHANGED <<lock, bounds>>,
         Create(p) \/ CreateArchive(p) \/ RunSeeder(p) \/ Remove(p)
  PROVE  Kept(p) /\ \A q \in Operators \ {p} : at'[q] = at[q]
<1>0. /\ TypeOK /\ AppInside /\ ReceiptTruthful /\ SeedingAt(p) /\ Unreceipted
      /\ volume \in Volumes \cup {None} /\ receipt \in Receipts \cup {None}
  BY DEF Inductive, Seeding, TypeOK
<1>1. CASE Create(p)
  <2>1. /\ volume' = IF volume = None THEN Fresh("demo") ELSE volume
        /\ Goes(p, "up") /\ UNCHANGED <<attached, app, seeder, target, built, receipt>>
    BY <1>1 DEF Create
  <2>2. /\ at' \in [Operators -> Calls] /\ failures' \in Nat
        /\ at'[p] \in {"up", "unlock"} /\ \A q \in Operators \ {p} : at'[q] = at[q]
    BY <1>0, <2>1, GoesEffect DEF Calls
  <2>3. volume' \in Volumes
    BY <1>0, <2>1, FreshTyped
  <2>4. TypeOK'
    BY <1>0, <2>1, <2>2, <2>3 DEF TypeOK, bounds
  <2>5. AppInside'
    BY <1>0, <2>1 DEF AppInside, Owned
  <2>6. ReceiptTruthful'
    <3>1. receipt # None => receipt.archive \in Archives
      BY <1>0 DEF Receipts
    <3> QED BY <1>0, <2>1, <3>1, FreshTyped DEF ReceiptTruthful, Owned
  <2> QED BY <2>1, <2>2, <2>4, <2>5, <2>6 DEF Kept, SeedingAt
<1>2. CASE CreateArchive(p)
  <2>1. /\ at[p] = "archive" /\ Goes(p, "halt")
        /\ UNCHANGED <<attached, app, seeder, built, receipt>>
    BY <1>2 DEF CreateArchive
  <2>2. PICK a \in Archives :
          /\ receipt # None => receipt.archive # a
          /\ volume' = [volume EXCEPT !.archives[a] = "empty"] /\ target' = a
    BY <1>2 DEF CreateArchive
  <2>3. Owned /\ volume \in Volumes
    BY <1>0, <2>1 DEF SeedingAt, Owned
  <2>4. /\ volume' \in Volumes /\ volume'.owner = volume.owner
        /\ volume'.archives[a] = "empty"
        /\ \A b \in Archives \ {a} : volume'.archives[b] = volume.archives[b]
    BY <2>2, <2>3, FillEffect
  <2>5. /\ at' \in [Operators -> Calls] /\ failures' \in Nat
        /\ at'[p] \in {"halt", "unlock"} /\ \A q \in Operators \ {p} : at'[q] = at[q]
    BY <1>0, <2>1, GoesEffect DEF Calls
  <2>6. TypeOK'
    BY <1>0, <2>1, <2>2, <2>4, <2>5 DEF TypeOK, bounds
  <2>7. volume' # None
    BY <2>4, NoneAssumption
  <2>8. Owned' /\ AppInside'
    BY <2>3, <2>4, <2>7 DEF Owned, AppInside
  <2>9. ReceiptTruthful'
    <3>1. receipt # None => receipt.archive \in Archives \ {a}
      BY <1>0, <2>2 DEF Receipts
    <3> QED BY <1>0, <2>1, <2>3, <2>4, <3>1 DEF ReceiptTruthful
  <2> QED BY <2>1, <2>2, <2>4, <2>5, <2>6, <2>8, <2>9 DEF Kept, SeedingAt
<1>3. CASE RunSeeder(p)
  <2>1. /\ at[p] = "seed" /\ seeder' = "running" /\ at' = [at EXCEPT ![p] = "seeding"]
        /\ volume' = [volume EXCEPT !.archives[target] = "partial"]
        /\ UNCHANGED <<attached, app, target, built, receipt, failures>>
    BY <1>3 DEF RunSeeder
  <2>2. /\ Owned /\ volume \in Volumes /\ target \in Archives /\ ~Running
        /\ receipt # None => receipt.archive # target
    BY <1>0, <2>1 DEF SeedingAt, Owned, Unreceipted
  <2>3. /\ volume' \in Volumes /\ volume'.owner = volume.owner
        /\ volume'.archives[target] = "partial"
        /\ \A b \in Archives \ {target} : volume'.archives[b] = volume.archives[b]
    BY <2>1, <2>2, FillEffect
  <2>4. /\ at' \in [Operators -> Calls] /\ at'[p] = "seeding"
        /\ \A q \in Operators \ {p} : at'[q] = at[q]
    <3>1. at \in [Operators -> Calls]
      BY <1>0 DEF TypeOK
    <3> QED BY <2>1, <3>1 DEF Calls
  <2>5. TypeOK'
    BY <1>0, <2>1, <2>3, <2>4 DEF TypeOK, bounds
  <2>6. volume' # None
    BY <2>3, NoneAssumption
  <2>7. Owned' /\ AppInside' /\ ~Running'
    BY <2>1, <2>2, <2>3, <2>6 DEF Owned, AppInside, Running
  <2>8. ReceiptTruthful'
    <3>1. receipt # None => receipt.archive \in Archives \ {target}
      BY <1>0, <2>2 DEF Receipts
    <3> QED BY <1>0, <2>1, <2>2, <2>3, <3>1 DEF ReceiptTruthful
  <2> QED BY <2>1, <2>2, <2>3, <2>4, <2>5, <2>7, <2>8 DEF Kept, SeedingAt, SeederInside
<1>4. CASE Remove(p)
  <2>1. CASE Refused(p)
    BY <2>1, RefusedCall
  <2>2. CASE /\ app = None /\ volume' = None /\ Goes(p, "create")
             /\ UNCHANGED <<attached, app, seeder, target, built, receipt>>
    <3>1. /\ at' \in [Operators -> Calls] /\ failures' \in Nat
          /\ at'[p] \in {"create", "unlock"} /\ \A q \in Operators \ {p} : at'[q] = at[q]
      BY <1>0, <2>2, GoesEffect DEF Calls
    <3>2. TypeOK'
      BY <1>0, <2>2, <3>1 DEF TypeOK, bounds
    <3>3. AppInside' /\ ReceiptTruthful'
      BY <2>2 DEF AppInside, ReceiptTruthful, Owned
    <3> QED BY <2>2, <3>1, <3>2, <3>3 DEF Kept, SeedingAt
  <2> QED BY <1>4, <2>1, <2>2 DEF Remove
<1> QED BY <1>1, <1>2, <1>3, <1>4

\* The seeder has ended, and its archive gets the receipt.
LEMMA SeedCalls ==
  ASSUME Inductive, NEW p \in Operators, seeder # "running", UNCHANGED <<lock, bounds>>,
         SeederReturns(p) \/ WriteReceipt(p)
  PROVE  Kept(p) /\ \A q \in Operators \ {p} : at'[q] = at[q]
<1>0. /\ TypeOK /\ AppInside /\ ReceiptTruthful /\ SeedingAt(p) /\ built \in ImageIds
      /\ at \in [Operators -> Calls] /\ failures \in Nat
  BY DEF Inductive, Seeding, TypeOK
<1>1. CASE SeederReturns(p)
  <2>1. /\ at[p] = "seeding"
        /\ UNCHANGED <<volume, attached, app, seeder, target, built, receipt>>
        /\ \/ seeder = "done" /\ Goes(p, "receipt")
           \/ at' = [at EXCEPT ![p] = "unlock"] /\ UNCHANGED failures
    BY <1>1 DEF SeederReturns
  <2>2. /\ at' \in [Operators -> Calls] /\ failures' \in Nat
        /\ at'[p] = "unlock" \/ (at'[p] = "receipt" /\ seeder = "done")
        /\ \A q \in Operators \ {p} : at'[q] = at[q]
    BY <1>0, <2>1, GoesEffect DEF Calls
  <2>3. Owned /\ target \in Archives /\ (seeder = "done" => volume.archives[target] = "seeded")
    BY <1>0, <2>1 DEF SeedingAt
  <2>4. TypeOK'
    BY <1>0, <2>1, <2>2 DEF TypeOK, bounds
  <2>5. Owned' /\ AppInside' /\ ReceiptTruthful'
    BY <1>0, <2>1, <2>3 DEF Owned, AppInside, ReceiptTruthful
  <2>6. SeedingAt(p)'
    BY <2>1, <2>2, <2>3, <2>5 DEF SeedingAt
  <2> QED BY <2>1, <2>2, <2>4, <2>5, <2>6 DEF Kept
<1>2. CASE WriteReceipt(p)
  <2>1. /\ at[p] = "receipt" /\ receipt' = [archive |-> target, image |-> built]
        /\ Goes(p, "start") /\ UNCHANGED <<volume, attached, app, seeder, target, built>>
    BY <1>2 DEF WriteReceipt
  <2>2. /\ at' \in [Operators -> Calls] /\ failures' \in Nat
        /\ at'[p] \in {"start", "unlock"}
        /\ \A q \in Operators \ {p} : at'[q] = at[q]
    BY <1>0, <2>1, GoesEffect DEF Calls
  <2>3. target \in Archives /\ volume.archives[target] = "seeded"
    BY <1>0, <2>1 DEF SeedingAt
  <2>4. receipt' \in Receipts
    BY <1>0, <2>1, <2>3 DEF Receipts
  <2>5. TypeOK'
    BY <1>0, <2>1, <2>2, <2>4 DEF TypeOK, bounds
  <2>6. AppInside' /\ ReceiptTruthful'
    BY <1>0, <2>1, <2>3 DEF Owned, AppInside, ReceiptTruthful
  <2> QED BY <2>1, <2>2, <2>5, <2>6 DEF Kept, SeedingAt
<1> QED BY <1>1, <1>2

LEMMA CallStep ==
  ASSUME Inductive, NEW p \in Operators, Call(p)
  PROVE  Inductive'
<1>1. Active(p) /\ (at[p] # "seeding" \/ seeder # "running")
  BY DEF Call, Build, Look, Create, Up, CreateArchive, Stop, RunSeeder, SeederReturns,
         WriteReceipt, Smoke, CheckOwned, CheckAttached, ComposeDown, Remove, Restart, Active
<1>2. lock' = lock /\ UNCHANGED bounds /\ seeder # "running"
  BY <1>1, CallerAlone DEF Call
<1>3. Kept(p) /\ \A q \in Operators \ {p} : at'[q] = at[q]
  BY <1>2, LookingCalls, ContainerCalls, VolumeCalls, SeedCalls DEF Call
<1> QED BY <1>1, <1>2, <1>3, CallKeeps

-----------------------------------------------------------------------------
(***************************************************************************)
(* The lock, and what the commands do not control.                         *)
(***************************************************************************)
Rest == <<volume, attached, app, seeder, target, built, receipt>>

\* Steps that move one invocation to a place where no seed is under way.
LEMMA MoveStep ==
  ASSUME Inductive, TypeOK', NEW p \in Operators, UNCHANGED Rest,
         \A q \in Operators \ {p} : at'[q] = at[q],
         at'[p] \notin {"archive", "halt", "seed", "seeding", "receipt"},
         Exclusive', SeederHeld'
  PROVE  Inductive'
<1> USE DEF Rest, Inductive
<1>1. Seeding'
  <2> SUFFICES ASSUME NEW q \in Operators PROVE SeedingAt(q)'
    BY DEF Seeding
  <2>1. CASE q = p
    BY <2>1 DEF SeedingAt
  <2>2. CASE q # p
    BY <2>2 DEF Seeding, SeedingAt, Owned, Running
  <2> QED BY <2>1, <2>2
<1>2. SeederInside' /\ AppInside' /\ ReceiptTruthful'
  BY DEF SeederInside, AppInside, ReceiptTruthful, Owned, Running
<1>3. Unreceipted'
  BY DEF Unreceipted
<1> QED BY <1>1, <1>2, <1>3

LEMMA LockStep ==
  ASSUME Inductive, NEW p \in Operators,
         Invoke(p) \/ Lock(p) \/ Unlock(p) \/ Fail(p) \/ Kill(p) \/ Recover(p)
  PROVE  Inductive'
<1>0. TypeOK /\ Exclusive /\ SeederHeld /\ at \in [Operators -> Calls]
  BY DEF Inductive, TypeOK
<1>1. UNCHANGED Rest
  BY DEF Invoke, Lock, Unlock, Fail, Kill, Recover, Rest
<1>2. /\ at' \in [Operators -> Calls]
      /\ at'[p] \notin {"archive", "halt", "seed", "seeding", "receipt"}
      /\ \A q \in Operators \ {p} : at'[q] = at[q]
  <2>1. \E to \in {"lock", "idle", "unlock", "build", "start", "stop", "check", "owned", "smoke"} :
          at' = [at EXCEPT ![p] = to]
    BY DEF Invoke, Lock, Unlock, Fail, Kill, Recover, First, Commands, Remedy
  <2> QED BY <1>0, <2>1 DEF Calls
<1>3. TypeOK'
  <2>1. /\ lock' \in BOOLEAN /\ commands' \in Nat /\ failures' \in Nat /\ kills' \in Nat
        /\ foreign' \in Nat
    <3>1. /\ lock \in BOOLEAN /\ commands \in Nat /\ failures \in Nat /\ kills \in Nat
          /\ foreign \in Nat
      BY <1>0 DEF TypeOK
    <3>2. lock' = lock \/ lock' = TRUE \/ lock' = FALSE
      BY DEF Invoke, Lock, Unlock, Fail, Kill, Recover
    <3>3. /\ commands' = commands \/ commands' = commands + 1
          /\ failures' = failures \/ failures' = failures + 1
          /\ kills' = kills \/ kills' = kills + 1
          /\ foreign' = foreign
      BY DEF Invoke, Lock, Unlock, Fail, Kill, Recover, bounds
    <3>4. lock' \in BOOLEAN
      BY <3>1, <3>2
    <3>5. commands' \in Nat /\ failures' \in Nat /\ kills' \in Nat /\ foreign' \in Nat
      BY <3>1, <3>3
    <3> QED BY <3>4, <3>5
  <2> QED BY <1>0, <1>1, <1>2, <2>1 DEF TypeOK, Rest
<1>5. CASE Invoke(p)
  <2>1. at'[p] = "lock" /\ lock' = lock /\ ~Active(p)
    BY <1>0, <1>5 DEF Invoke, Active
  <2>2. Exclusive' /\ SeederHeld'
    BY <1>0, <1>1, <1>2, <2>1 DEF Exclusive, SeederHeld, Active, Rest
  <2> QED BY <1>1, <1>2, <1>3, <2>2, MoveStep
<1>6. CASE (Lock(p) /\ ~lock) \/ Recover(p)
  <2>1. ~lock /\ lock' = TRUE
    BY <1>6 DEF Lock, Recover
  <2>2. Exclusive' /\ SeederHeld'
    BY <1>0, <1>1, <1>2, <2>1 DEF Exclusive, SeederHeld, Active, Rest
  <2> QED BY <1>1, <1>2, <1>3, <2>2, MoveStep
<1>7. CASE (Lock(p) /\ lock) \/ Kill(p)
  <2>1. at'[p] = "idle" /\ lock' = lock
    BY <1>0, <1>7 DEF Lock, Kill
  <2>2. Exclusive' /\ SeederHeld'
    BY <1>0, <1>1, <1>2, <2>1 DEF Exclusive, SeederHeld, Active, Rest
  <2> QED BY <1>1, <1>2, <1>3, <2>2, MoveStep
<1>8. CASE Unlock(p)
  <2>1. at'[p] = "idle" /\ Active(p) /\ at[p] # "seeding"
    BY <1>0, <1>8 DEF Unlock, Active
  <2>2. Exclusive' /\ SeederHeld'
    BY <1>0, <1>1, <1>2, <2>1, CallerAlone DEF Exclusive, SeederHeld, Active, Rest
  <2> QED BY <1>1, <1>2, <1>3, <2>2, MoveStep
<1>9. CASE Fail(p)
  <2>1. lock' = lock /\ Active(p) /\ at[p] # "seeding"
    BY <1>9 DEF Fail
  <2>2. Exclusive' /\ SeederHeld'
    BY <1>0, <1>1, <1>2, <2>1, CallerAlone DEF Exclusive, SeederHeld, Active, Rest
  <2> QED BY <1>1, <1>2, <1>3, <2>2, MoveStep
<1> QED BY <1>5, <1>6, <1>7, <1>8, <1>9

LEMMA OutsideStep ==
  ASSUME Inductive, SeederEnds \/ Foreign \/ Detach \/ ClearLock
  PROVE  Inductive'
<1>0. /\ TypeOK /\ Exclusive /\ SeederHeld /\ Seeding /\ SeederInside /\ Unreceipted
      /\ AppInside /\ ReceiptTruthful
      /\ volume \in Volumes \cup {None} /\ receipt \in Receipts \cup {None}
  BY DEF Inductive, TypeOK
<1>1. CASE SeederEnds /\ seeder' = "done"
  <2>1. /\ seeder = "running" /\ seeder' = "done"
        /\ volume' = [volume EXCEPT !.archives[target] = "seeded"]
        /\ UNCHANGED <<lock, at, attached, app, target, built, receipt, failures, bounds>>
    BY <1>1 DEF SeederEnds
  <2>2. /\ Owned /\ volume \in Volumes /\ target \in Archives /\ ~Running
        /\ receipt # None => receipt.archive # target
    BY <1>0, <2>1 DEF SeederInside, Owned, Unreceipted
  <2>3. /\ volume' \in Volumes /\ volume'.owner = volume.owner
        /\ volume'.archives[target] = "seeded"
        /\ \A b \in Archives \ {target} : volume'.archives[b] = volume.archives[b]
    BY <2>1, <2>2, FillEffect
  <2>4. TypeOK'
    BY <1>0, <2>1, <2>3 DEF TypeOK, bounds
  <2>5. Owned'
    BY <2>2, <2>3, NoneAssumption DEF Owned
  <2>6. Exclusive' /\ SeederHeld' /\ SeederInside' /\ AppInside'
    BY <1>0, <2>1, <2>5 DEF Exclusive, SeederHeld, SeederInside, AppInside, Active
  <2>7. \A p \in Operators : at[p] \in {"idle", "lock", "seeding"}
    BY <1>0, <2>1 DEF SeederHeld, Active
  <2>8. Seeding' /\ Unreceipted'
    BY <2>1, <2>2, <2>3, <2>5, <2>7 DEF Seeding, SeedingAt, Unreceipted
  <2>9. ReceiptTruthful'
    <3>1. receipt # None => receipt.archive \in Archives \ {target}
      BY <1>0, <2>2 DEF Receipts
    <3> QED BY <1>0, <2>1, <2>2, <2>3, <3>1 DEF ReceiptTruthful
  <2> QED BY <2>4, <2>6, <2>8, <2>9 DEF Inductive
<1>2. CASE SeederEnds /\ seeder' = "failed"
  <2>1. /\ seeder = "running" /\ seeder' = "failed" /\ failures' = failures + 1
        /\ UNCHANGED <<lock, at, volume, attached, app, target, built, receipt, bounds>>
    BY <1>2 DEF SeederEnds
  <2>2. TypeOK'
    BY <1>0, <2>1 DEF TypeOK, bounds
  <2>3. Exclusive' /\ SeederHeld' /\ SeederInside' /\ AppInside' /\ ReceiptTruthful'
    BY <1>0, <2>1 DEF Exclusive, SeederHeld, SeederInside, AppInside, ReceiptTruthful, Active, Owned
  <2>4. Seeding' /\ Unreceipted'
    BY <1>0, <2>1 DEF Seeding, SeedingAt, Unreceipted, Owned, Running
  <2> QED BY <2>2, <2>3, <2>4 DEF Inductive
<1>3. CASE Foreign
  <2>1. /\ UNCHANGED <<lock, at, app, seeder, target, built, receipt, commands, failures, kills>>
        /\ \/ volume = None /\ volume' = Fresh("foreign") /\ UNCHANGED attached
           \/ attached' = TRUE /\ UNCHANGED volume
    BY <1>3 DEF Foreign
  <2>2. TypeOK'
    <3>1. foreign' \in Nat /\ volume' \in Volumes \cup {None}
      BY <1>0, <1>3, FreshTyped DEF Foreign, TypeOK
    <3> QED BY <1>0, <2>1, <3>1 DEF TypeOK
  <2>3. /\ Owned' <=> Owned
        /\ Owned => volume' = volume
    BY <2>1, FreshTyped DEF Owned
  <2>4. Exclusive' /\ SeederHeld' /\ Unreceipted'
    BY <1>0, <2>1 DEF Exclusive, SeederHeld, Unreceipted, Active
  <2>5. SeederInside' /\ AppInside' /\ ReceiptTruthful'
    BY <1>0, <2>1, <2>3 DEF SeederInside, AppInside, ReceiptTruthful, Running
  <2>6. Seeding'
    BY <1>0, <2>1, <2>3 DEF Seeding, SeedingAt, Running
  <2> QED BY <2>2, <2>4, <2>5, <2>6 DEF Inductive
<1>4. CASE Detach \/ ClearLock
  <2>1. /\ UNCHANGED <<at, volume, app, seeder, target, built, receipt, failures, bounds>>
        /\ lock' = lock \/ (lock' = FALSE /\ seeder # "running" /\ \A p \in Operators : ~Active(p))
        /\ attached' = attached \/ attached' = FALSE
    BY <1>4 DEF Detach, ClearLock, Quiet
  <2>2. TypeOK'
    BY <1>0, <2>1 DEF TypeOK, bounds
  <2>3. Exclusive' /\ SeederHeld'
    BY <1>0, <2>1 DEF Exclusive, SeederHeld, Active
  <2>4. SeederInside' /\ AppInside' /\ ReceiptTruthful' /\ Unreceipted'
    BY <1>0, <2>1 DEF SeederInside, AppInside, ReceiptTruthful, Unreceipted, Owned, Running
  <2>5. Seeding'
    BY <1>0, <2>1 DEF Seeding, SeedingAt, Owned, Running
  <2> QED BY <2>2, <2>3, <2>4, <2>5 DEF Inductive
<1> QED BY <1>1, <1>2, <1>3, <1>4 DEF SeederEnds

-----------------------------------------------------------------------------
(***************************************************************************)
(* The theorems.                                                           *)
(***************************************************************************)
LEMMA InitInductive == Init => Inductive
<1> SUFFICES ASSUME Init PROVE Inductive
  OBVIOUS
<1>1. /\ \A p \in Operators : at[p] = "idle"
      /\ app = None /\ seeder = "none" /\ receipt = None
  BY DEF Init
<1>2. TypeOK
  BY InitTyped
<1>3. Exclusive /\ SeederHeld /\ Seeding /\ SeederInside /\ Unreceipted
  BY <1>1 DEF Exclusive, SeederHeld, Seeding, SeedingAt, SeederInside, Unreceipted, Active
<1>4. AppInside /\ ReceiptTruthful
  BY <1>1 DEF AppInside, ReceiptTruthful
<1> QED BY <1>2, <1>3, <1>4 DEF Inductive

LEMMA StutterKeeps ==
  ASSUME Inductive, UNCHANGED vars
  PROVE  Inductive'
<1> USE DEF vars
<1>1. TypeOK'
  BY DEF Inductive, TypeOK
<1>2. Exclusive' /\ SeederHeld' /\ Unreceipted' /\ AppInside' /\ ReceiptTruthful'
  BY DEF Inductive, Exclusive, SeederHeld, Unreceipted, AppInside, ReceiptTruthful, Active, Owned
<1>3. Seeding' /\ SeederInside'
  BY DEF Inductive, Seeding, SeedingAt, SeederInside, Owned, Running
<1> QED BY <1>1, <1>2, <1>3 DEF Inductive

\* The invariant holds of every behaviour: one command at a time, a seeder
\* keeps the lock, and every call finds the volume, the container and the
\* archive in the state that its command's earlier calls left them in.
THEOREM InductiveHolds == Spec => []Inductive
<1>1. ASSUME Inductive, Next PROVE Inductive'
  <2>1. ASSUME NEW p \in Operators, Invoke(p) \/ Go(p) \/ Fail(p) \/ Kill(p) \/ Recover(p)
        PROVE  Inductive'
    BY <1>1, <2>1, CallStep, LockStep DEF Go
  <2>2. CASE SeederEnds \/ Foreign \/ Detach \/ ClearLock
    BY <1>1, <2>2, OutsideStep
  <2> QED BY <1>1, <2>1, <2>2 DEF Next
<1>2. Inductive /\ [Next]_vars => Inductive'
  BY <1>1, StutterKeeps
<1> QED BY InitInductive, <1>2, PTL DEF Spec

\* Every variable holds a value of its type.
THEOREM TypeCorrect == Spec => []TypeOK
<1>1. Inductive => TypeOK
  BY DEF Inductive
<1> QED BY <1>1, InductiveHolds, PTL

\* The seed that the demo shows is one that ran alone, and to its end.
THEOREM SeedAlwaysIntact == Spec => []SeedIntact
<1>1. Inductive => SeedIntact
  BY DEF Inductive, SeedIntact, SeederAlone, SeederInside
<1> QED BY <1>1, InductiveHolds, PTL

-----------------------------------------------------------------------------
(***************************************************************************)
(* What a step may do to the volume.                                       *)
(***************************************************************************)
\* The seed's own progress, the only change to an archive that stays.
Advances(v, w) ==
  \A a \in Archives :
    v.archives[a] # w.archives[a]
      => <<v.archives[a], w.archives[a]>> \in
           {<<"none", "empty">>, <<"empty", "partial">>, <<"partial", "seeded">>}

VolumeStep ==
  \/ volume' = volume
  \/ volume = None
  \/ /\ Owned /\ ~attached /\ seeder # "running"
     /\ volume' = None
  \/ /\ Owned /\ volume' # None
     /\ Advances(volume, volume')

\* A step of the seed on one archive.
LEMMA FillAdvances ==
  ASSUME NEW v \in Volumes, NEW a \in Archives, NEW w,
         NEW c \in {"none", "empty", "partial", "seeded"}, w = [v EXCEPT !.archives[a] = c],
         <<v.archives[a], c>> \in
           {<<"none", "empty">>, <<"empty", "partial">>, <<"partial", "seeded">>}
  PROVE  w # None /\ Advances(v, w)
<1>1. /\ w \in Volumes /\ w.archives[a] = c
      /\ \A b \in Archives \ {a} : w.archives[b] = v.archives[b]
  BY FillEffect
<1> QED BY <1>1, NoneAssumption DEF Advances

LEMMA CallOnVolume ==
  ASSUME Inductive, NEW p \in Operators, Call(p)
  PROVE  VolumeStep
<1>1. volume \in Volumes \cup {None} /\ SeedingAt(p)
  BY DEF Inductive, TypeOK, Seeding
<1>2. CASE CreateArchive(p)
  <2>1. PICK a \in Archives :
          volume.archives[a] = "none" /\ volume' = [volume EXCEPT !.archives[a] = "empty"]
    BY <1>2 DEF CreateArchive
  <2>2. Owned /\ volume \in Volumes
    BY <1>1, <1>2 DEF CreateArchive, SeedingAt, Owned
  <2>3. volume' # None /\ Advances(volume, volume')
    BY <2>1, <2>2, FillAdvances
  <2> QED BY <2>2, <2>3 DEF VolumeStep
<1>3. CASE RunSeeder(p)
  <2>1. /\ Owned /\ target \in Archives /\ volume.archives[target] = "empty"
        /\ volume \in Volumes /\ volume' = [volume EXCEPT !.archives[target] = "partial"]
    BY <1>1, <1>3 DEF RunSeeder, SeedingAt, Owned
  <2>2. volume' # None /\ Advances(volume, volume')
    BY <2>1, FillAdvances
  <2> QED BY <2>1, <2>2 DEF VolumeStep
<1>4. CASE Create(p) \/ Remove(p)
  BY <1>4 DEF Create, Remove, Refused, VolumeStep
<1>5. CASE ~(CreateArchive(p) \/ RunSeeder(p) \/ Create(p) \/ Remove(p))
  BY <1>5 DEF Call, Build, Look, Up, Stop, SeederReturns, WriteReceipt, Smoke, CheckOwned,
         CheckAttached, ComposeDown, Restart, Refused, VolumeStep
<1> QED BY <1>2, <1>3, <1>4, <1>5

LEMMA EveryStepOnVolume ==
  ASSUME Inductive, [Next]_vars
  PROVE  VolumeStep
<1>1. ASSUME NEW p \in Operators, Invoke(p) \/ Go(p) \/ Fail(p) \/ Kill(p) \/ Recover(p)
      PROVE  VolumeStep
  <2>1. CASE Call(p)
    BY <2>1, CallOnVolume
  <2>2. CASE ~Call(p)
    BY <1>1, <2>2 DEF Go, Invoke, Lock, Unlock, Fail, Kill, Recover, VolumeStep
  <2> QED BY <2>1, <2>2
<1>2. CASE SeederEnds
  <2>1. volume' = volume \/ volume' = [volume EXCEPT !.archives[target] = "seeded"]
    BY <1>2 DEF SeederEnds
  <2>2. /\ Owned /\ volume \in Volumes /\ target \in Archives
        /\ volume.archives[target] = "partial"
    BY <1>2 DEF SeederEnds, Inductive, SeederInside, TypeOK, Owned
  <2>3. CASE volume' = [volume EXCEPT !.archives[target] = "seeded"]
    <3>1. volume' # None /\ Advances(volume, volume')
      BY <2>2, <2>3, FillAdvances
    <3> QED BY <2>2, <3>1 DEF VolumeStep
  <2> QED BY <2>1, <2>3 DEF VolumeStep
<1>3. CASE Foreign \/ Detach \/ ClearLock \/ UNCHANGED vars
  BY <1>3 DEF Foreign, Detach, ClearLock, vars, VolumeStep
<1> QED BY <1>1, <1>2, <1>3 DEF Next

\* The commands spoil neither what others own nor what is already seeded.
THEOREM NothingEverSpoiled == Spec => NothingSpoiled
<1> DEFINE Untouched ==
      /\ volume # None /\ (~Owned \/ attached \/ seeder = "running") => volume' # None
      /\ volume # None /\ ~Owned => volume' = volume /\ ~Running'
    Reseeded ==
      \A a \in Archives :
        /\ volume # None /\ volume' # None
        /\ volume.archives[a] # volume'.archives[a]
        => <<volume.archives[a], volume'.archives[a]>> \in
             {<<"none", "empty">>, <<"empty", "partial">>, <<"partial", "seeded">>}
<1>1. ASSUME Inductive, Inductive', [Next]_vars PROVE Untouched /\ Reseeded
  <2>1. VolumeStep
    BY <1>1, EveryStepOnVolume
  <2>2. volume # None /\ ~Owned => volume' = volume
    BY <2>1 DEF VolumeStep
  <2>3. volume # None /\ ~Owned => ~Running'
    BY <1>1, <2>2 DEF Inductive, AppInside, Owned, Running
  <2>4. Reseeded
    BY <2>1 DEF VolumeStep, Advances
  <2> QED BY <2>1, <2>2, <2>3, <2>4 DEF VolumeStep
<1>2. Inductive /\ Inductive' /\ [Next]_vars => [Untouched]_vars /\ [Reseeded]_vars
  BY <1>1
<1>3. Spec => [][Untouched]_vars /\ [][Reseeded]_vars
  BY <1>2, InductiveHolds, PTL DEF Spec
<1> QED BY <1>3 DEF NothingSpoiled, ForeignUntouched, NeverReseeded
=============================================================================
