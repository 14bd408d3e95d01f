---------------------------- MODULE DemoLifecycle ----------------------------
(***************************************************************************)
(* The demo's command line (demo/demo.mjs): operators run prepare, start,  *)
(* stop, restart, reset and smoke against one Docker volume, one container *)
(* and one receipt file, each a sequence of separate docker calls under a  *)
(* directory lock.  A call may fail, before or after its effect, which     *)
(* ends the command and releases the lock; a command may be killed, which  *)
(* leaves the lock behind, and the container it was waiting for.  Others   *)
(* may take the volume's name while it is free, or attach a container of   *)
(* theirs to the volume, at any time.                                      *)
(*                                                                         *)
(* Docker itself is external: what its calls do is taken from their use.   *)
(***************************************************************************)
EXTENDS Naturals, FiniteSets

CONSTANTS
  Operators,    \* concurrent invocations
  None,
  Archives,     \* names the application gives to archives it creates
  MaxImages,    \* bound on the images that prepare builds
  MaxCommands,  \* bound on the commands operators choose freely
  MaxFailures,  \* bound on failing calls and failing seeders
  MaxKills,     \* bound on killed commands
  MaxForeign    \* bound on what others do

ASSUME BoundsAssumption ==
  /\ MaxImages \in Nat \ {0}
  /\ MaxCommands \in Nat /\ MaxFailures \in Nat /\ MaxKills \in Nat /\ MaxForeign \in Nat

Commands == {"prepare", "start", "stop", "restart", "reset", "smoke"}
ImageIds == 1..MaxImages

VARIABLES
  lock,      \* .private/operation.lock exists
  at,        \* the call each invocation is at
  volume,    \* laorenyun-demo-data: its label, and what is in it
  attached,  \* a container of another project uses the volume
  app,       \* the compose service's container
  seeder,    \* the seeding container: running, or how it ended
  target,    \* the archive that the seed under way is for
  built,     \* the image the tag names
  receipt,   \* .private/receipt.json
  commands, failures, kills, foreign

bounds == <<commands, kills, foreign>>
vars == <<lock, at, volume, attached, app, seeder, target, built, receipt,
          commands, failures, kills, foreign>>

Contents == [Archives -> {"none", "empty", "partial", "seeded"}]
Volumes == [owner : {"demo", "foreign"}, archives : Contents]
Receipts == [archive : Archives, image : ImageIds]
Containers == [running : BOOLEAN, image : ImageIds]

ASSUME NoneAssumption ==
  None \notin Archives /\ None \notin Volumes /\ None \notin Receipts /\ None \notin Containers

Fresh(label) == [owner |-> label, archives |-> [a \in Archives |-> "none"]]

Calls ==
  {"idle", "lock", "build", "look", "create", "up", "archive", "halt", "seed",
   "seeding", "receipt", "start", "smoke", "stop", "owned", "attached", "down",
   "rm", "check", "restart", "unlock"}

\* What a command does first, once it holds the lock.
First == [prepare |-> "build", start |-> "start", stop |-> "stop",
          restart |-> "check", reset |-> "owned", smoke |-> "smoke"]

Active(p) == at[p] \notin {"idle", "lock"}

Init ==
  /\ lock = FALSE
  /\ at = [p \in Operators |-> "idle"]
  /\ volume \in {None} \cup (IF MaxForeign > 0 THEN {Fresh("foreign")} ELSE {})
  /\ attached = FALSE
  /\ app = None
  /\ seeder = "none"
  /\ target = None
  /\ built = 1
  /\ receipt = None
  /\ commands = 0 /\ failures = 0 /\ kills = 0 /\ foreign = 0

-----------------------------------------------------------------------------

Owned == volume # None /\ volume.owner = "demo"
Running == app # None /\ app.running

\* What smoke() asserts: a healthy container of the receipt's image, in which
\* the receipt's archive has the evidence that the seeder writes last.
Ready ==
  /\ Owned /\ Running
  /\ receipt # None /\ receipt.image = app.image
  /\ volume.archives[receipt.archive] = "seeded"

\* The call has its effect; then it returns, or fails all the same.
Goes(p, to) ==
  \/ at' = [at EXCEPT ![p] = to] /\ UNCHANGED failures
  \/ /\ failures < MaxFailures
     /\ failures' = failures + 1
     /\ at' = [at EXCEPT ![p] = "unlock"]

\* inspect() takes a failing docker call for a missing volume.
Uninspected(p, to) ==
  /\ volume # None
  /\ failures < MaxFailures
  /\ failures' = failures + 1
  /\ at' = [at EXCEPT ![p] = to]

\* An assertion fails: the finally block follows.
Refused(p) ==
  /\ at' = [at EXCEPT ![p] = "unlock"]
  /\ UNCHANGED <<failures, volume, attached, app, seeder, target, built, receipt>>

-----------------------------------------------------------------------------
(***************************************************************************)
(* The lock.  Only the invocation that made the directory removes it.      *)
(***************************************************************************)
Invoke(p) ==
  /\ at[p] = "idle"
  /\ commands < MaxCommands
  /\ at' = [at EXCEPT ![p] = "lock"]
  /\ commands' = commands + 1
  /\ UNCHANGED <<failures, kills, foreign>>
  /\ UNCHANGED <<lock, volume, attached, app, seeder, target, built, receipt>>

\* Mutant of Lock: the directory may exist already.
LockAnyway(p) ==
  /\ at[p] = "lock"
  /\ \E command \in Commands : at' = [at EXCEPT ![p] = First[command]]
  /\ lock' = TRUE
  /\ UNCHANGED <<volume, attached, app, seeder, target, built, receipt, failures, bounds>>

Lock(p) ==
  /\ at[p] = "lock"
  /\ IF lock
       THEN at' = [at EXCEPT ![p] = "idle"]
       ELSE \E command \in Commands : at' = [at EXCEPT ![p] = First[command]]
  /\ lock' = TRUE
  /\ UNCHANGED <<volume, attached, app, seeder, target, built, receipt, failures, bounds>>

Unlock(p) ==
  /\ at[p] = "unlock"
  /\ at' = [at EXCEPT ![p] = "idle"]
  /\ lock' = FALSE
  /\ UNCHANGED <<volume, attached, app, seeder, target, built, receipt, failures, bounds>>

-----------------------------------------------------------------------------
(***************************************************************************)
(* The calls.  Each has the effect of one docker call, or of a check and   *)
(* the call behind it, and leads to the command's next call.               *)
(***************************************************************************)
\* prepare: the build is cached, or makes a new image.
Build(p) ==
  /\ at[p] = "build"
  /\ built' \in {built} \cup (ImageIds \cap {built + 1})
  /\ Goes(p, "look")
  /\ UNCHANGED <<volume, attached, app, seeder, target, receipt>>

\* prepare: a volume that exists is started, never seeded again.
Look(p) ==
  /\ at[p] = "look"
  /\ \/ volume = None /\ Goes(p, "create")
     \/ Uninspected(p, "create")
     \/ Owned /\ Goes(p, "start")
     \/ volume # None /\ ~Owned /\ Goes(p, "unlock")
  /\ UNCHANGED <<volume, attached, app, seeder, target, built, receipt>>

\* docker volume create leaves a volume that exists as it is.
Create(p) ==
  /\ at[p] = "create"
  /\ volume' = IF volume = None THEN Fresh("demo") ELSE volume
  /\ Goes(p, "up")
  /\ UNCHANGED <<attached, app, seeder, target, built, receipt>>

\* Mutant of Up: compose up without start()'s look at the label.
UpUnchecked(p, from, to) ==
  /\ at[p] = from
  /\ IF volume # None
       THEN /\ app' = [running |-> TRUE, image |-> built]
            /\ Goes(p, to)
            /\ UNCHANGED <<volume, attached, seeder, target, built, receipt>>
       ELSE Refused(p)

\* start(): the volume must be there and carry the demo's label.  compose up
\* recreates a container whose image is no longer the tag's.
Up(p, from, to) ==
  /\ at[p] = from
  /\ IF Owned
       THEN /\ app' = [running |-> TRUE, image |-> built]
            /\ Goes(p, to)
            /\ UNCHANGED <<volume, attached, seeder, target, built, receipt>>
       ELSE Refused(p)

\* Mutant of CreateArchive: a seed that was interrupted is taken up again.
CreateArchiveAgain(p) ==
  /\ at[p] = "archive"
  /\ \E a \in Archives :
       /\ volume.archives[a] # "seeded"
       /\ receipt # None => receipt.archive # a
       /\ volume' = [volume EXCEPT !.archives[a] = "empty"]
       /\ target' = a
  /\ Goes(p, "halt")
  /\ UNCHANGED <<attached, app, seeder, built, receipt>>

\* seed(): the running application creates the archive to be filled, under a
\* name that neither the volume nor an old receipt holds.
CreateArchive(p) ==
  /\ at[p] = "archive"
  /\ \E a \in Archives :
       /\ volume.archives[a] = "none"
       /\ receipt # None => receipt.archive # a
       /\ volume' = [volume EXCEPT !.archives[a] = "empty"]
       /\ target' = a
  /\ Goes(p, "halt")
  /\ UNCHANGED <<attached, app, seeder, built, receipt>>

\* Mutant of Stop: the container is not waited for.
StopAhead(p, from, to) ==
  /\ at[p] = from
  /\ IF volume # None /\ ~Owned
       THEN Refused(p)
       ELSE Goes(p, to) /\ UNCHANGED <<volume, attached, app, seeder, target, built, receipt>>

\* stop(): a volume that exists must carry the label, if inspect() tells of it;
\* the container stops.
Stop(p, from, to) ==
  /\ at[p] = from
  /\ \/ volume # None /\ ~Owned /\ Refused(p)
     \/ /\ \/ (volume = None \/ Owned) /\ Goes(p, to)
           \/ Uninspected(p, to)
        /\ app' = IF app = None THEN None ELSE [app EXCEPT !.running = FALSE]
        /\ UNCHANGED <<volume, attached, seeder, target, built, receipt>>

\* docker run of the seeder, on the volume the application has left.
RunSeeder(p) ==
  /\ at[p] = "seed"
  /\ seeder' = "running"
  /\ volume' = [volume EXCEPT !.archives[target] = "partial"]
  /\ at' = [at EXCEPT ![p] = "seeding"]
  /\ UNCHANGED <<attached, app, target, built, receipt, failures>>

\* Mutant of SeederReturns: how the seeder ended is not looked at.
SeederReturnsAnyhow(p) ==
  /\ at[p] = "seeding" /\ seeder \in {"done", "failed"}
  /\ Goes(p, "receipt")
  /\ UNCHANGED <<volume, attached, app, seeder, target, built, receipt>>

\* The call returns when the seeder has ended, whether it timed out or not.
SeederReturns(p) ==
  /\ at[p] = "seeding" /\ seeder \in {"done", "failed"}
  /\ IF seeder = "done"
       THEN Goes(p, "receipt")
       ELSE at' = [at EXCEPT ![p] = "unlock"] /\ UNCHANGED failures
  /\ UNCHANGED <<volume, attached, app, seeder, target, built, receipt>>

\* Mutant of WriteReceipt: a receipt that is there is kept.
WriteReceiptOnce(p) ==
  /\ at[p] = "receipt"
  /\ receipt' = IF receipt = None THEN [archive |-> target, image |-> built] ELSE receipt
  /\ Goes(p, "start")
  /\ UNCHANGED <<volume, attached, app, seeder, target, built>>

WriteReceipt(p) ==
  /\ at[p] = "receipt"
  /\ receipt' = [archive |-> target, image |-> built]
  /\ Goes(p, "start")
  /\ UNCHANGED <<volume, attached, app, seeder, target, built>>

\* smoke() changes nothing, whether its assertions hold or not.
Smoke(p) == at[p] = "smoke" /\ Refused(p)

\* reset and restart look at the label first.
CheckOwned(p, from, to) ==
  /\ at[p] = from
  /\ Goes(p, IF Owned THEN to ELSE "unlock")
  /\ UNCHANGED <<volume, attached, app, seeder, target, built, receipt>>

\* reset: a container of no compose project, the seeder's too, is refused.
CheckAttached(p) ==
  /\ at[p] = "attached"
  /\ Goes(p, IF attached \/ seeder = "running" THEN "unlock" ELSE "down")
  /\ UNCHANGED <<volume, attached, app, seeder, target, built, receipt>>

ComposeDown(p) ==
  /\ at[p] = "down"
  /\ app' = None
  /\ Goes(p, "rm")
  /\ UNCHANGED <<volume, attached, seeder, target, built, receipt>>

\* Mutant of Remove: the volume is removed whoever uses it.
RemoveForced(p) ==
  /\ at[p] = "rm"
  /\ volume' = None
  /\ Goes(p, "create")
  /\ UNCHANGED <<attached, app, seeder, target, built, receipt>>

\* owned() again, then docker volume rm, which refuses a volume in use.
Remove(p) ==
  /\ at[p] = "rm"
  /\ IF Owned /\ ~attached /\ seeder # "running" /\ app = None
       THEN /\ volume' = None
            /\ Goes(p, "create")
            /\ UNCHANGED <<attached, app, seeder, target, built, receipt>>
       ELSE Refused(p)

\* compose restart takes the container as it is.
Restart(p) ==
  /\ at[p] = "restart"
  /\ app' = IF app = None THEN None ELSE [app EXCEPT !.running = TRUE]
  /\ Goes(p, "start")
  /\ UNCHANGED <<volume, attached, seeder, target, built, receipt>>

Call(p) ==
  /\ \/ Build(p) \/ Look(p) \/ Create(p)
     \/ Up(p, "up", "archive") \/ CreateArchive(p) \/ Stop(p, "halt", "seed")
     \/ RunSeeder(p) \/ SeederReturns(p) \/ WriteReceipt(p)
     \/ Up(p, "start", "smoke") \/ Smoke(p) \/ Stop(p, "stop", "unlock")
     \/ CheckOwned(p, "owned", "attached") \/ CheckAttached(p)
     \/ ComposeDown(p) \/ Remove(p)
     \/ CheckOwned(p, "check", "restart") \/ Restart(p)
  /\ UNCHANGED <<lock, bounds>>

\* A call fails before it had any effect.
Fail(p) ==
  /\ Active(p) /\ at[p] \notin {"seeding", "unlock"}
  /\ failures < MaxFailures
  /\ failures' = failures + 1
  /\ at' = [at EXCEPT ![p] = "unlock"]
  /\ UNCHANGED <<lock, volume, attached, app, seeder, target, built, receipt, bounds>>

-----------------------------------------------------------------------------
(***************************************************************************)
(* What the commands do not control.                                       *)
(***************************************************************************)
\* The process dies at a call: the lock and the seeder outlive it.
Kill(p) ==
  /\ Active(p)
  /\ kills < MaxKills
  /\ kills' = kills + 1
  /\ at' = [at EXCEPT ![p] = "idle"]
  /\ UNCHANGED <<commands, failures, foreign>>
  /\ UNCHANGED <<lock, volume, attached, app, seeder, target, built, receipt>>

\* The seeder (demo/seed/build.ts) fills the archive, or leaves it half done.
SeederEnds ==
  /\ seeder = "running"
  /\ \/ /\ seeder' = "done"
        /\ volume' = [volume EXCEPT !.archives[target] = "seeded"]
        /\ UNCHANGED failures
     \/ /\ failures < MaxFailures
        /\ failures' = failures + 1
        /\ seeder' = "failed"
        /\ UNCHANGED volume
  /\ UNCHANGED <<lock, at, attached, app, target, built, receipt, bounds>>

\* Others take the free name, or use the volume with a container of theirs.
Foreign ==
  /\ foreign < MaxForeign
  /\ foreign' = foreign + 1
  /\ \/ volume = None /\ volume' = Fresh("foreign") /\ UNCHANGED attached
     \/ volume # None /\ attached' = TRUE /\ UNCHANGED volume
  /\ UNCHANGED <<lock, at, app, seeder, target, built, receipt, commands, failures, kills>>

Detach ==
  /\ attached
  /\ attached' = FALSE
  /\ UNCHANGED <<lock, at, volume, app, seeder, target, built, receipt, failures, bounds>>

\* demo/README.md: a lock left by a killed command is removed by hand once
\* no operation is under way any more, the seeder's included.
Quiet == seeder # "running" /\ \A p \in Operators : ~Active(p)

ClearLock ==
  /\ lock /\ Quiet
  /\ lock' = FALSE
  /\ UNCHANGED <<at, volume, attached, app, seeder, target, built, receipt, failures, bounds>>

\* demo/README.md: without a valid receipt the demo is reset, never resumed.
Remedy ==
  IF volume = None THEN "prepare"
  ELSE IF /\ receipt # None /\ receipt.image = built
          /\ volume.archives[receipt.archive] = "seeded"
       THEN "start"
       ELSE "reset"

Recover(p) ==
  /\ at[p] = "idle" /\ ~lock /\ Quiet /\ ~Ready
  /\ lock' = TRUE
  /\ at' = [at EXCEPT ![p] = First[Remedy]]
  /\ UNCHANGED <<volume, attached, app, seeder, target, built, receipt, failures, bounds>>

-----------------------------------------------------------------------------

Go(p) == Lock(p) \/ Call(p) \/ Unlock(p)

Next ==
  \/ \E p \in Operators : Invoke(p) \/ Go(p) \/ Fail(p) \/ Kill(p) \/ Recover(p)
  \/ SeederEnds \/ Foreign \/ Detach \/ ClearLock

Spec == Init /\ [][Next]_vars

\* Calls return (each has a timeout), the seeder ends, and an operator who
\* follows demo/README.md sees to a lock left behind and to a broken demo.
Fairness ==
  /\ \A p \in Operators : WF_vars(Go(p))
  /\ WF_vars(SeederEnds) /\ WF_vars(Detach) /\ WF_vars(ClearLock)
  /\ WF_vars(\E p \in Operators : Recover(p))

LiveSpec == Spec /\ Fairness

-----------------------------------------------------------------------------
(***************************************************************************)
(* Properties.                                                             *)
(***************************************************************************)
\* Every variable holds a value of its type.
TypeOK ==
  /\ lock \in BOOLEAN
  /\ at \in [Operators -> Calls]
  /\ volume \in Volumes \cup {None}
  /\ attached \in BOOLEAN
  /\ app \in Containers \cup {None}
  /\ seeder \in {"none", "running", "done", "failed"}
  /\ target \in Archives \cup {None}
  /\ built \in ImageIds
  /\ receipt \in Receipts \cup {None}
  /\ commands \in Nat /\ failures \in Nat /\ kills \in Nat /\ foreign \in Nat

\* The application never runs on the volume while a seeder writes its archive
\* into it, whichever commands were killed or failed before: seed() stops the
\* container first, and nothing else starts one until the seeder has ended.
SeederAlone == seeder = "running" => ~Running

\* If the archive that the receipt names is in the volume at all, its seed is
\* complete: an interrupted or failed seed is never the one that smoke() and
\* the guides read, though receipts outlive the volumes they were written for.
ReceiptTruthful ==
  Owned /\ receipt # None /\ volume.archives[receipt.archive] # "none"
    => volume.archives[receipt.archive] = "seeded"

\* The seed that the demo shows is one that ran alone, and to its end.
SeedIntact == SeederAlone /\ ReceiptTruthful

\* A volume of others that took the demo's name is never started on, written
\* or removed; and the demo's own volume is not removed under a container of
\* others, nor under a seeder that a killed command has left behind.
ForeignUntouched ==
  [][/\ (volume # None /\ (~Owned \/ attached \/ seeder = "running") => volume' # None)
     /\ (volume # None /\ ~Owned => volume' = volume /\ ~Running')]_vars

\* A seed is never run into an archive that an earlier seed has begun, and
\* the archive the receipt names is given up only with its whole volume.
NeverReseeded ==
  [][\A a \in Archives :
       /\ volume # None /\ volume' # None
       /\ volume.archives[a] # volume'.archives[a]
       => <<volume.archives[a], volume'.archives[a]>> \in
            {<<"none", "empty">>, <<"empty", "partial">>, <<"partial", "seeded">>}]_vars

\* The commands spoil neither what others own nor what is already seeded.
NothingSpoiled == ForeignUntouched /\ NeverReseeded

\* However commands fail or are killed, an operator who clears the lock left
\* behind, and resets a demo that has no valid receipt, gets it back, unless
\* others have taken the volume's name.
Recovers == []<>(Ready \/ (volume # None /\ ~Owned))
=============================================================================
