--------------------------- MODULE ReleasePublish ---------------------------
(***************************************************************************)
(* The publication job of a container release (scripts/release/publish.mjs)*)
(* and what it leaves at two services that share no transaction: a GitHub  *)
(* release with its assets, and the image registry with its two immutable  *)
(* aliases.  A job may die at any point, and is run again for the same     *)
(* tag, with the image it tested before or with a rebuilt one.  The        *)
(* workflow's concurrency group runs one job for a tag at a time.          *)
(*                                                                         *)
(* An image is named by its config id, which a rebuild changes.  The       *)
(* registry names it by a manifest digest, which also depends on the       *)
(* runner that compressed the layers it pushed.  GitHub documents that the *)
(* lookup of a release by its tag returns published releases only, though  *)
(* attach() looks up the draft that the job has just created: the model    *)
(* takes both kinds of endpoint.                                           *)
(***************************************************************************)
EXTENDS Naturals

CONSTANTS
  Images,      \* config ids that builds of the tag's commit produce
  Runners,     \* what else a pushed manifest's digest depends on
  Sources,     \* assets attached before any push: source bundle, receipts
  Stable,      \* those of them whose bytes a rebuild does not change
  Deployment,  \* assets written from the registry's digest, and the sums
  None,        \* not there
  MaxJobs      \* bound on the jobs of a behaviour

ASSUME FilesAssumption == Stable \subseteq Sources /\ Sources \cap Deployment = {}
ASSUME MaxJobsAssumption == MaxJobs \in Nat

\* The SemVer alias is pushed before the one of the commit.
Refs == {"version", "commit"}
Files == Sources \cup Deployment

Digests == [image : Images, runner : Runners]

\* The bytes of a file: the image and the digest it names, if any.
Bytes == [image : Images \cup {None}, digest : Digests \cup {None}]

ASSUME NoneAssumption == None \notin Images \cup Digests \cup Bytes

SourceBytes(file, image) ==
  [image |-> IF file \in Stable THEN None ELSE image, digest |-> None]

DeploymentBytes(image, digest) == [image |-> image, digest |-> digest]

VARIABLES
  release,   \* the tag's release
  earlier,   \* whether the release was public before any job
  drafts,    \* whether the lookup by tag returns a draft
  assets,    \* the bytes attached under each name
  aliases,   \* the manifest each alias names
  jobs,      \* jobs started so far
  step,      \* where the job is
  image,     \* the tested image it carries
  runner,
  backfill,  \* RELEASE_ALLOW_BACKFILL
  old,       \* whether the job found a release
  existing,  \* the aliases it found, never to be pushed
  ref,       \* the alias it is at
  todo,      \* the files it has still to attach
  digest,    \* the digest its deployment assets name
  verdict    \* how the last job ended

services == <<release, earlier, drafts, assets, aliases>>
input    == <<jobs, image, runner, backfill>>
found    == <<old, existing>>
vars == <<services, input, found, step, ref, todo, digest, verdict>>

Init ==
  /\ earlier \in BOOLEAN /\ drafts \in BOOLEAN
  /\ release = IF earlier THEN "public" ELSE "none"
  /\ assets = [f \in Files |-> None]
  /\ aliases = [r \in Refs |-> None]
  /\ jobs = 0
  /\ step = "ended"
  /\ image \in Images /\ runner \in Runners
  /\ backfill = FALSE /\ old = FALSE /\ existing = {}
  /\ ref = "version"
  /\ todo = {}
  /\ digest = None
  /\ verdict = "none"

-----------------------------------------------------------------------------

End(how) == step' = "ended" /\ verdict' = how

\* A job starts: a first run, a rerun of the tested artifact, or a new build.
Begin ==
  /\ step = "ended" /\ jobs < MaxJobs
  /\ jobs' = jobs + 1
  /\ image' \in Images /\ runner' \in Runners /\ backfill' \in BOOLEAN
  /\ step' = "lookup"
  /\ verdict' = "running"
  /\ old' = FALSE /\ existing' = {} /\ ref' = "version" /\ todo' = {}
  /\ digest' = None
  /\ UNCHANGED services

\* What GET releases/tags/<tag> returns, and does not answer by 404.
Visible == release = "public" \/ (release = "draft" /\ drafts)

\* An existing release needs the explicit permission to add to it.
Lookup ==
  /\ step = "lookup"
  /\ old' = Visible
  /\ IF Visible /\ ~backfill
       THEN End("refused")
       ELSE step' = "preflight" /\ UNCHANGED verdict
  /\ UNCHANGED <<services, input, existing, ref, todo, digest>>

Named(r) == aliases[r] # None

\* Both aliases are read before the job changes anything.
Preflight ==
  /\ step = "preflight"
  /\ IF \E r \in Refs : Named(r) /\ aliases[r].image # image
       THEN End("refused") /\ UNCHANGED existing
       ELSE /\ existing' = {r \in Refs : Named(r)}
            /\ step' = "create"
            /\ UNCHANGED verdict
  /\ UNCHANGED <<services, input, old, ref, todo, digest>>

\* A draft that the lookup did not find gets another beside it, as empty.
CreateDraft ==
  /\ step = "create"
  /\ release' = IF old THEN release ELSE "draft"
  /\ step' = "sources"
  /\ todo' = Sources
  /\ UNCHANGED <<earlier, drafts, assets, aliases, input, found, ref, digest, verdict>>

\* Mutant of Attach: whatever is attached under the name will do.
AttachUncompared(file, bytes) ==
  /\ file \in todo /\ Visible
  /\ assets' = IF assets[file] = None THEN [assets EXCEPT ![file] = bytes] ELSE assets
  /\ todo' = todo \ {file}
  /\ UNCHANGED <<release, earlier, drafts, aliases, input, found, step, ref, digest, verdict>>

\* Mutant of Attach: the upload replaces an asset of that name.
AttachClobber(file, bytes) ==
  /\ file \in todo /\ Visible
  /\ assets' = [assets EXCEPT ![file] = bytes]
  /\ todo' = todo \ {file}
  /\ UNCHANGED <<release, earlier, drafts, aliases, input, found, step, ref, digest, verdict>>

\* attach(): an asset of that name must have the same bytes, and stays.  The 404
\* of a draft that the lookup does not find fails the job (Die).
Attach(file, bytes) ==
  /\ file \in todo /\ Visible
  /\ IF assets[file] \notin {None, bytes}
       THEN End("refused") /\ UNCHANGED <<assets, todo>>
       ELSE /\ assets' = [assets EXCEPT ![file] = bytes]
            /\ todo' = todo \ {file}
            /\ UNCHANGED <<step, verdict>>
  /\ UNCHANGED <<release, earlier, drafts, aliases, input, found, ref, digest>>

AttachSource ==
  step = "sources" /\ \E file \in todo : Attach(file, SourceBytes(file, image))

SourcesAttached ==
  /\ step = "sources" /\ todo = {}
  /\ step' = "push"
  /\ UNCHANGED <<services, input, found, ref, todo, digest, verdict>>

\* An alias that was there in the preflight is never pushed over.
Push ==
  /\ step = "push"
  /\ aliases' = IF ref \in existing
                  THEN aliases
                  ELSE [aliases EXCEPT ![ref] = [image |-> image, runner |-> runner]]
  /\ step' = "pull"
  /\ UNCHANGED <<release, earlier, drafts, assets, input, found, ref, todo, digest, verdict>>

\* Mutant of PullBack: the digest is the one this runner's push computed.
PullBackOwn ==
  /\ step = "pull"
  /\ digest' = [image |-> image, runner |-> runner]
  /\ ref' = "commit"
  /\ IF ref = "version"
       THEN step' = "push" /\ UNCHANGED todo
       ELSE step' = "deployment" /\ todo' = Deployment
  /\ UNCHANGED <<services, input, found, verdict>>

\* Mutant of PullBack: the loop ends after the first alias.
PullBackOnce ==
  /\ step = "pull"
  /\ digest' = aliases[ref]
  /\ step' = "deployment"
  /\ todo' = Deployment
  /\ UNCHANGED <<services, input, found, ref, verdict>>

\* The registry's digest is read back, pulled and compared.
PullBack ==
  /\ step = "pull"
  /\ IF aliases[ref].image # image
       THEN End("refused") /\ UNCHANGED <<ref, digest, todo>>
       ELSE /\ UNCHANGED verdict
            /\ IF ref = "version"
                 THEN /\ digest' = aliases[ref]
                      /\ ref' = "commit"
                      /\ step' = "push"
                      /\ UNCHANGED todo
                 ELSE /\ step' = "deployment"
                      /\ todo' = Deployment
                      /\ UNCHANGED <<ref, digest>>
  /\ UNCHANGED <<services, input, found>>

AttachDeployment ==
  step = "deployment" /\ \E file \in todo : Attach(file, DeploymentBytes(image, digest))

\* Only a release this job created is turned public.
Publish ==
  /\ step = "deployment" /\ todo = {}
  /\ release' = IF old THEN release ELSE "public"
  /\ End("published")
  /\ UNCHANGED <<earlier, drafts, assets, aliases, input, found, ref, todo, digest>>

(***************************************************************************)
(* A call fails or times out, with or without its effect, or the runner    *)
(* dies: the job ends after any prefix of its steps.                       *)
(***************************************************************************)
Die ==
  /\ step # "ended"
  /\ End("failed")
  /\ UNCHANGED <<services, input, found, ref, todo, digest>>

Next ==
  \/ Begin \/ Lookup \/ Preflight \/ CreateDraft
  \/ AttachSource \/ SourcesAttached \/ Push \/ PullBack
  \/ AttachDeployment \/ Publish \/ Die

Spec == Init /\ [][Next]_vars

-----------------------------------------------------------------------------

\* Every variable stays within its type.
TypeOK ==
  /\ release \in {"none", "draft", "public"} /\ earlier \in BOOLEAN
  /\ drafts \in BOOLEAN
  /\ assets \in [Files -> Bytes \cup {None}]
  /\ aliases \in [Refs -> Digests \cup {None}]
  /\ jobs \in 0..MaxJobs
  /\ step \in {"ended", "lookup", "preflight", "create", "sources", "push", "pull",
               "deployment"}
  /\ image \in Images /\ runner \in Runners /\ backfill \in BOOLEAN
  /\ old \in BOOLEAN /\ existing \in SUBSET Refs /\ ref \in Refs
  /\ todo \in SUBSET Files
  /\ digest \in Digests \cup {None}
  /\ verdict \in {"none", "running", "published", "refused", "failed"}

(***************************************************************************)
(* No image can be pulled before the sources and receipts of exactly that  *)
(* image are attached to the tag's release, or to the draft to become it,  *)
(* whichever jobs died before: "publication cannot race ahead of required  *)
(* source delivery" (publish.mjs:44).                                      *)
(***************************************************************************)
SourceBeforeImage ==
  \A r \in Refs : Named(r) =>
    \A f \in Sources : assets[f] = SourceBytes(f, aliases[r].image)

\* Sources, aliases and deployment assets of one image, and its digest.
Complete ==
  \E i \in Images :
    /\ \A r \in Refs : Named(r) /\ aliases[r].image = i
    /\ \A f \in Sources : assets[f] = SourceBytes(f, i)
    /\ \A f \in Deployment : assets[f] = DeploymentBytes(i, aliases["version"])

(***************************************************************************)
(* A release that the jobs made public lacks nothing, and everything on it *)
(* belongs to one image; its Compose file pins the SemVer alias's digest   *)
(* (publish.mjs:62-63, docs/12-release.md:87).                             *)
(***************************************************************************)
PublicIsComplete == release = "public" /\ ~earlier => Complete

\* What the public can get is backed by what was promised with it: an image by
\* its sources, a public release by everything that belongs to its image.
PublishedIsBacked == SourceBeforeImage /\ PublicIsComplete

(***************************************************************************)
(* No job changes an alias or an asset an earlier one left: an existing    *)
(* alias is never pushed over, an asset never overwritten                  *)
(* (publish.mjs:28, 41; docs/12-release.md:83, 89).                        *)
(***************************************************************************)
NothingOverwritten ==
  [][/\ \A r \in Refs : Named(r) => aliases'[r] = aliases[r]
     /\ \A f \in Files : assets[f] # None => assets'[f] = assets[f]]_vars

\* What is delivered so far belongs to the job's image.
Delivered(i) ==
  /\ \A r \in Refs : Named(r) => aliases[r].image = i
  /\ \A f \in Files : assets[f] # None => assets[f].image \in {i, None}

(***************************************************************************)
(* A job that carries the image of the jobs before it, and may backfill,   *)
(* is never refused, wherever they died: no file it compares can differ    *)
(* from theirs, though another runner pushes other manifests               *)
(* (publish.mjs:41, 54-61; docs/12-release.md:87).                         *)
(***************************************************************************)
Resumable ==
  [][verdict' = "refused" /\ verdict = "running" =>
       ~Delivered(image) \/ (~backfill /\ Visible)]_vars

=============================================================================
