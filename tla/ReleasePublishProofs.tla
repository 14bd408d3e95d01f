------------------------ MODULE ReleasePublishProofs ------------------------
(***************************************************************************)
(* Proofs about ReleasePublish for any images, runners and files, and any  *)
(* number of jobs that die anywhere, whether the lookup by tag returns     *)
(* drafts or not.                                                          *)
(***************************************************************************)
EXTENDS ReleasePublish, TLAPS

(***************************************************************************)
(* The inductive invariant: how far a job is says what is delivered and    *)
(* what the job knows of it.                                               *)
(***************************************************************************)
\* Past its preflight, a job meets only aliases of its own image.
OneImage ==
  step \in {"create", "sources", "push", "pull", "deployment"} =>
    \A r \in Refs : Named(r) => aliases[r].image = image

\* An alias not yet pushed exists exactly when the preflight found it.
Preflighted ==
  /\ step \in {"lookup", "preflight", "create", "sources"} => ref = "version"
  /\ step \in {"create", "sources", "push"} /\ ref = "version" =>
       \A r \in Refs : Named(r) <=> r \in existing
  /\ step \in {"push", "pull"} => ("commit" \in existing => Named("commit"))
  /\ step = "push" \/ (step = "pull" /\ ref = "version") =>
       (Named("commit") => "commit" \in existing)

SourcesKnown ==
  /\ step = "sources" =>
       /\ todo \subseteq Sources
       /\ \A f \in Sources \ todo : assets[f] = SourceBytes(f, image)
  /\ step \in {"push", "pull", "deployment"} =>
       \A f \in Sources : assets[f] = SourceBytes(f, image)

DigestKnown ==
  /\ step \in {"push", "pull"} /\ ref = "commit" =>
       Named("version") /\ digest = aliases["version"]
  /\ step = "pull" => Named(ref)
  /\ step = "deployment" =>
       /\ \A r \in Refs : Named(r)
       /\ digest = aliases["version"]
       /\ todo \subseteq Deployment
       /\ \A f \in Deployment \ todo : assets[f] = DeploymentBytes(image, digest)

\* What is attached was made for some image, deployment assets for the alias.
Attached ==
  /\ \A f \in Sources :
       assets[f] # None => \E i \in Images : assets[f] = SourceBytes(f, i)
  /\ \A f \in Deployment : assets[f] # None =>
       /\ Named("version")
       /\ assets[f] = DeploymentBytes(aliases["version"].image, aliases["version"])

Inductive ==
  /\ TypeOK /\ OneImage /\ Preflighted /\ SourcesKnown /\ DigestKnown /\ Attached
  /\ SourceBeforeImage /\ PublicIsComplete

(***************************************************************************)
(* Type correctness.                                                       *)
(***************************************************************************)
LEMMA BytesTyped ==
  ASSUME NEW f \in Files, NEW i \in Images, NEW d \in Digests
  PROVE  SourceBytes(f, i) \in Bytes /\ DeploymentBytes(i, d) \in Bytes
  BY DEF SourceBytes, DeploymentBytes, Bytes

LEMMA InitTyped == Init => TypeOK
<1> SUFFICES ASSUME Init PROVE TypeOK
  OBVIOUS
<1>1. /\ release \in {"none", "draft", "public"}
      /\ image \in Images /\ runner \in Runners
      /\ step = "ended" /\ ref \in Refs /\ verdict = "none"
  BY DEF Init, Refs
<1>2. earlier \in BOOLEAN /\ drafts \in BOOLEAN /\ backfill \in BOOLEAN /\ old \in BOOLEAN
  BY DEF Init
<1>3. /\ assets \in [Files -> Bytes \cup {None}]
      /\ aliases \in [Refs -> Digests \cup {None}]
      /\ existing \in SUBSET Refs /\ todo \in SUBSET Files
      /\ digest \in Digests \cup {None}
  BY DEF Init
<1>4. jobs \in 0..MaxJobs
  BY MaxJobsAssumption DEF Init
<1> QED BY <1>1, <1>2, <1>3, <1>4 DEF TypeOK

LEMMA AttachTyped ==
  ASSUME TypeOK, NEW f \in Files, NEW b \in Bytes, Attach(f, b)
  PROVE  TypeOK'
<1>1. assets' \in [Files -> Bytes \cup {None}] /\ todo' \in SUBSET Files
  BY DEF TypeOK, Attach
<1>2. /\ step' \in {step, "ended"} /\ verdict' \in {verdict, "refused"}
      /\ UNCHANGED <<release, earlier, drafts, aliases, input, found, ref, digest>>
  BY DEF Attach, End
<1> QED BY <1>1, <1>2 DEF TypeOK, input, found

LEMMA NextTyped == TypeOK /\ [Next]_vars => TypeOK'
<1> SUFFICES ASSUME TypeOK, [Next]_vars PROVE TypeOK'
  OBVIOUS
<1> USE DEF TypeOK, services, input, found, End
<1>1. CASE Begin
  <2>1. jobs' \in 0..MaxJobs
    BY <1>1, MaxJobsAssumption DEF Begin
  <2>2. backfill' \in BOOLEAN /\ old' \in BOOLEAN
    BY <1>1 DEF Begin
  <2> QED BY <1>1, <2>1, <2>2 DEF Begin, Refs
<1>2. CASE Lookup \/ Preflight \/ Die
  BY <1>2 DEF Lookup, Visible, Preflight, Die
<1>3. CASE CreateDraft \/ SourcesAttached \/ Publish
  BY <1>3 DEF CreateDraft, SourcesAttached, Publish, Files
<1>4. CASE AttachSource
  BY <1>4, AttachTyped, BytesTyped, todo \subseteq Files DEF AttachSource, Bytes, SourceBytes
<1>5. CASE Push
  <2>1. [image |-> image, runner |-> runner] \in Digests
    BY DEF Digests
  <2> QED BY <1>5, <2>1 DEF Push
<1>6. CASE PullBack
  BY <1>6 DEF PullBack, Refs, Files
<1>7. CASE AttachDeployment
  <2> PICK f \in todo : Attach(f, DeploymentBytes(image, digest))
    BY <1>7 DEF AttachDeployment
  <2>1. DeploymentBytes(image, digest) \in Bytes
    BY DEF DeploymentBytes, Bytes
  <2> QED BY <2>1, AttachTyped
<1>8. CASE UNCHANGED vars
  BY <1>8 DEF vars
<1> QED BY <1>1, <1>2, <1>3, <1>4, <1>5, <1>6, <1>7, <1>8 DEF Next

(***************************************************************************)
(* The inductive step, one step per action.                                *)
(***************************************************************************)
\* Attaching a file changes that file at most, and only from nothing.
LEMMA AttachEffect ==
  ASSUME TypeOK, NEW f \in Files, NEW b, Attach(f, b)
  PROVE  \/ /\ step' = "ended" /\ verdict' = "refused"
            /\ assets[f] \notin {None, b}
            /\ UNCHANGED <<services, input, found, ref, todo, digest>>
         \/ /\ assets[f] \in {None, b} /\ assets'[f] = b
            /\ \A g \in Files \ {f} : assets'[g] = assets[g]
            /\ todo' = todo \ {f} /\ f \in todo
            /\ UNCHANGED <<release, earlier, drafts, aliases, input, found, step, ref,
                           digest, verdict>>
  BY DEF TypeOK, Attach, End, services

\* A job that ends knows nothing: only what is delivered has to stay right.
LEMMA EndStep ==
  ASSUME Inductive, step' = "ended", UNCHANGED services
  PROVE  /\ OneImage' /\ Preflighted' /\ SourcesKnown' /\ DigestKnown'
         /\ Attached' /\ SourceBeforeImage' /\ PublicIsComplete'
<1> USE DEF services
<1>1. \A r \in Refs : Named(r)' <=> Named(r)
  BY DEF Named
<1>2. Complete' <=> Complete
  BY DEF Complete, Named
<1>3. Attached'
  BY <1>1 DEF Inductive, Attached, Refs
<1>4. SourceBeforeImage'
  BY <1>1 DEF Inductive, SourceBeforeImage
<1>5. PublicIsComplete'
  BY <1>2 DEF Inductive, PublicIsComplete
<1> QED BY <1>3, <1>4, <1>5 DEF OneImage, Preflighted, SourcesKnown, DigestKnown

LEMMA SourceStep ==
  ASSUME Inductive, AttachSource
  PROVE  /\ OneImage' /\ Preflighted' /\ SourcesKnown' /\ DigestKnown'
         /\ Attached' /\ SourceBeforeImage' /\ PublicIsComplete'
<1> USE DEF Inductive
<1>1. PICK f \in todo : Attach(f, SourceBytes(f, image))
  BY DEF AttachSource
<1> DEFINE b == SourceBytes(f, image)
<1>2. step = "sources" /\ todo \subseteq Sources /\ f \in Sources /\ f \in Files
  BY <1>1 DEF AttachSource, SourcesKnown, Files
<1>3. CASE step' = "ended" /\ UNCHANGED services
  BY <1>3, EndStep
<1>4. CASE /\ assets[f] \in {None, b} /\ assets'[f] = b
           /\ \A g \in Files \ {f} : assets'[g] = assets[g]
           /\ todo' = todo \ {f} /\ step' = step
           /\ UNCHANGED <<release, earlier, drafts, aliases, input, found, ref, digest>>
  <2> USE DEF input, found
  <2>1. \A r \in Refs : (Named(r)' <=> Named(r)) /\ aliases'[r] = aliases[r]
    BY <1>4 DEF Named
  <2>2. image \in Images
    BY DEF TypeOK
  <2>4. \A g \in Sources, i \in Images :
          assets[g] = SourceBytes(g, i) /\ (g = f => i = image) => assets'[g] = SourceBytes(g, i)
    BY <1>2, <1>4 DEF Files
  <2>5. OneImage' /\ Preflighted' /\ DigestKnown'
    BY <1>2, <1>4, <2>1 DEF OneImage, Preflighted, DigestKnown
  <2>6. SourcesKnown'
    BY <1>2, <1>4 DEF SourcesKnown, Files
  <2>7. Attached'
    <3>1. \A g \in Sources : assets'[g] # None => \E i \in Images : assets'[g] = SourceBytes(g, i)
      BY <1>2, <1>4, <2>2 DEF Attached, Files
    <3>2. \A g \in Deployment : assets'[g] = assets[g]
      BY <1>2, <1>4, FilesAssumption DEF Files
    <3> QED BY <2>1, <3>1, <3>2, "version" \in Refs DEF Attached, Refs
  <2>8. SourceBeforeImage'
    <3> SUFFICES ASSUME NEW r \in Refs, Named(r), NEW g \in Sources
                 PROVE  assets'[g] = SourceBytes(g, aliases[r].image)
      BY <2>1 DEF SourceBeforeImage
    <3>1. aliases[r].image = image
      BY <1>2 DEF OneImage
    <3>2. assets[g] = SourceBytes(g, image)
      BY <3>1 DEF SourceBeforeImage
    <3> QED BY <2>2, <2>4, <3>1, <3>2
  <2>9. PublicIsComplete'
    <3> SUFFICES ASSUME release' = "public", ~earlier' PROVE Complete'
      BY DEF PublicIsComplete
    <3>1. Complete
      BY <1>4 DEF PublicIsComplete
    <3> PICK i \in Images :
          /\ \A r \in Refs : Named(r) /\ aliases[r].image = i
          /\ \A g \in Sources : assets[g] = SourceBytes(g, i)
          /\ \A g \in Deployment : assets[g] = DeploymentBytes(i, aliases["version"])
      BY <3>1 DEF Complete
    <3>2. i = image
      BY <1>2 DEF OneImage, Refs
    <3>3. \A g \in Sources \cup Deployment : assets'[g] = assets[g]
      BY <1>2, <1>4, <3>2 DEF Files
    <3>4. \A r \in Refs : Named(r)' /\ aliases'[r].image = i
      BY <2>1
    <3>5. aliases'["version"] = aliases["version"]
      BY <2>1 DEF Refs
    <3> QED BY <3>3, <3>4, <3>5 DEF Complete
  <2> QED BY <2>5, <2>6, <2>7, <2>8, <2>9
<1> QED BY <1>1, <1>2, <1>3, <1>4, AttachEffect

LEMMA PushStep ==
  ASSUME Inductive, Push
  PROVE  /\ OneImage' /\ Preflighted' /\ SourcesKnown' /\ DigestKnown'
         /\ Attached' /\ SourceBeforeImage' /\ PublicIsComplete'
<1> USE DEF Inductive, input, found
<1> DEFINE manifest == [image |-> image, runner |-> runner]
<1>1. /\ step = "push" /\ step' = "pull"
      /\ UNCHANGED <<release, earlier, drafts, assets, input, found, ref, todo, digest, verdict>>
  BY DEF Push
<1>2. ref \in Refs /\ image \in Images
  BY DEF TypeOK
<1>3. CASE ref \in existing
  <2>1. aliases' = aliases
    BY <1>3 DEF Push
  <2>2. (\A r \in Refs : Named(r)' <=> Named(r)) /\ (Complete' <=> Complete)
    BY <1>1, <2>1 DEF Named, Complete
  <2>3. Named(ref)
    BY <1>1, <1>2, <1>3 DEF Preflighted, Refs
  <2>4. OneImage' /\ Preflighted' /\ SourcesKnown' /\ DigestKnown'
    BY <1>1, <1>2, <2>1, <2>2, <2>3
       DEF OneImage, Preflighted, SourcesKnown, DigestKnown, Refs
  <2>5. Attached'
    BY <1>1, <2>1, <2>2 DEF Attached, Refs
  <2>6. SourceBeforeImage' /\ PublicIsComplete'
    BY <1>1, <2>1, <2>2 DEF SourceBeforeImage, PublicIsComplete
  <2> QED BY <2>4, <2>5, <2>6
<1>4. CASE ref \notin existing
  <2>1. /\ aliases'[ref] = manifest
        /\ \A r \in Refs \ {ref} : aliases'[r] = aliases[r]
    BY <1>2, <1>4 DEF Push, TypeOK
  <2>2. manifest \in Digests /\ manifest # None
    BY NoneAssumption DEF TypeOK, Digests
  <2>3. ~Named(ref)
    BY <1>1, <1>2, <1>4 DEF Preflighted, Refs
  <2>4. /\ Named(ref)' /\ aliases'[ref].image = image
        /\ \A r \in Refs \ {ref} : Named(r)' <=> Named(r)
    BY <1>1, <1>2, <2>1, <2>2 DEF Named
  <2>5. OneImage'
    BY <1>1, <2>1, <2>4 DEF OneImage
  <2>6. Preflighted' /\ SourcesKnown'
    <3>1. Preflighted'
      BY <1>1, <1>2, <1>4, <2>4 DEF Preflighted, Refs
    <3> QED BY <1>1, <3>1 DEF SourcesKnown
  <2>7. DigestKnown'
    BY <1>1, <1>2, <2>1, <2>4 DEF DigestKnown, Refs
  <2>8. Attached'
    \* No deployment asset exists before the alias it would name.
    BY <1>1, <1>2, <2>1, <2>3, <2>4 DEF Attached, Refs
  <2>9. SourceBeforeImage'
    <3> SUFFICES ASSUME NEW r \in Refs, Named(r)', NEW f \in Sources
                 PROVE  assets'[f] = SourceBytes(f, aliases'[r].image)
      BY DEF SourceBeforeImage
    <3>1. aliases'[r].image = image
      BY <1>1, <2>5 DEF OneImage
    <3> QED BY <1>1, <3>1 DEF SourcesKnown
  <2>10. PublicIsComplete'
    BY <1>1, <1>2, <2>3 DEF PublicIsComplete, Complete
  <2> QED BY <2>5, <2>6, <2>7, <2>8, <2>9, <2>10
<1> QED BY <1>3, <1>4

LEMMA PullBackStep ==
  ASSUME Inductive, PullBack
  PROVE  /\ OneImage' /\ Preflighted' /\ SourcesKnown' /\ DigestKnown'
         /\ Attached' /\ SourceBeforeImage' /\ PublicIsComplete'
<1> USE DEF Inductive, input, found, services
<1>1. step = "pull" /\ UNCHANGED <<services, input, found>>
  BY DEF PullBack
<1>2. (\A r \in Refs : Named(r)' <=> Named(r)) /\ (Complete' <=> Complete)
  BY <1>1 DEF Named, Complete
<1>3. Attached' /\ SourceBeforeImage' /\ PublicIsComplete'
  BY <1>1, <1>2 DEF Attached, SourceBeforeImage, PublicIsComplete, Refs
<1>4. aliases[ref].image = image
  BY <1>1 DEF DigestKnown, OneImage, TypeOK
<1>5. CASE ref = "version"
  <2>1. digest' = aliases["version"] /\ ref' = "commit" /\ step' = "push" /\ todo' = todo
    BY <1>4, <1>5 DEF PullBack
  <2>2. Named("version")
    BY <1>1, <1>5 DEF DigestKnown
  <2> QED BY <1>1, <1>2, <1>3, <1>5, <2>1, <2>2
          DEF OneImage, Preflighted, SourcesKnown, DigestKnown, Refs
<1>6. CASE ref = "commit"
  <2>1. digest' = digest /\ ref' = ref /\ step' = "deployment" /\ todo' = Deployment
    BY <1>4, <1>6 DEF PullBack
  <2>2. Named("version") /\ Named("commit") /\ digest = aliases["version"]
    BY <1>1, <1>6 DEF DigestKnown
  <2> QED BY <1>1, <1>2, <1>3, <1>6, <2>1, <2>2
          DEF OneImage, Preflighted, SourcesKnown, DigestKnown, Refs
<1> QED BY <1>5, <1>6 DEF TypeOK, Refs

LEMMA DeploymentStep ==
  ASSUME Inductive, AttachDeployment
  PROVE  /\ OneImage' /\ Preflighted' /\ SourcesKnown' /\ DigestKnown'
         /\ Attached' /\ SourceBeforeImage' /\ PublicIsComplete'
<1> USE DEF Inductive
<1>1. PICK f \in todo : Attach(f, DeploymentBytes(image, digest))
  BY DEF AttachDeployment
<1> DEFINE b == DeploymentBytes(image, digest)
<1>2. step = "deployment" /\ f \in Deployment /\ f \in Files /\ f \notin Sources
  BY <1>1, FilesAssumption DEF AttachDeployment, DigestKnown, Files
<1>3. CASE step' = "ended" /\ UNCHANGED services
  BY <1>3, EndStep
<1>4. CASE /\ assets[f] \in {None, b} /\ assets'[f] = b
           /\ \A g \in Files \ {f} : assets'[g] = assets[g]
           /\ todo' = todo \ {f} /\ step' = step
           /\ UNCHANGED <<release, earlier, drafts, aliases, input, found, ref, digest>>
  <2> USE DEF input, found
  <2>1. \A r \in Refs : (Named(r)' <=> Named(r)) /\ aliases'[r] = aliases[r]
    BY <1>4 DEF Named
  <2>2. \A r \in Refs : Named(r) /\ aliases[r].image = image
    BY <1>2 DEF OneImage, DigestKnown
  <2>3. digest = aliases["version"]
    BY <1>2 DEF DigestKnown
  <2>4. \A g \in Sources : assets'[g] = assets[g]
    BY <1>2, <1>4 DEF Files
  <2>5. OneImage' /\ Preflighted' /\ SourcesKnown'
    BY <1>2, <1>4, <2>1, <2>4 DEF OneImage, Preflighted, SourcesKnown
  <2>6. DigestKnown'
    BY <1>2, <1>4, <2>1 DEF DigestKnown, Files, Refs
  <2>7. Attached'
    <3>1. \A g \in Deployment \ {f} : assets'[g] = assets[g]
      BY <1>4 DEF Files
    <3> QED BY <1>4, <2>1, <2>2, <2>3, <2>4, <3>1 DEF Attached, Refs
  <2>8. SourceBeforeImage'
    BY <2>1, <2>4 DEF SourceBeforeImage
  <2>9. PublicIsComplete'
    <3> SUFFICES ASSUME release' = "public", ~earlier' PROVE Complete'
      BY DEF PublicIsComplete
    <3>1. Complete
      BY <1>4 DEF PublicIsComplete
    <3> PICK i \in Images :
          /\ \A r \in Refs : Named(r) /\ aliases[r].image = i
          /\ \A g \in Sources : assets[g] = SourceBytes(g, i)
          /\ \A g \in Deployment : assets[g] = DeploymentBytes(i, aliases["version"])
      BY <3>1 DEF Complete
    <3>2. i = image
      BY <2>2 DEF Refs
    <3>3. \A g \in Deployment : assets'[g] = assets[g]
      BY <1>2, <1>4, <2>3, <3>2 DEF Files
    <3>4. \A r \in Refs : Named(r)' /\ aliases'[r].image = i
      BY <2>1
    <3>5. aliases'["version"] = aliases["version"]
      BY <2>1 DEF Refs
    <3> QED BY <2>4, <3>3, <3>4, <3>5 DEF Complete
  <2> QED BY <2>5, <2>6, <2>7, <2>8, <2>9
<1> QED BY <1>1, <1>2, <1>3, <1>4, AttachEffect

\* The steps that leave what is delivered alone.
LEMMA QuietStep ==
  ASSUME Inductive,
         Begin \/ Lookup \/ Preflight \/ SourcesAttached \/ Die \/ UNCHANGED vars
  PROVE  /\ OneImage' /\ Preflighted' /\ SourcesKnown' /\ DigestKnown'
         /\ Attached' /\ SourceBeforeImage' /\ PublicIsComplete'
<1> USE DEF Inductive, services, input, found
<1>1. UNCHANGED services
  BY DEF Begin, Lookup, Preflight, SourcesAttached, Die, vars
<1>2. (\A r \in Refs : Named(r)' <=> Named(r)) /\ (Complete' <=> Complete)
  BY <1>1 DEF Named, Complete
<1>3. Attached' /\ SourceBeforeImage' /\ PublicIsComplete'
  BY <1>1, <1>2 DEF Attached, SourceBeforeImage, PublicIsComplete, Refs
<1>4. CASE step' \in {"ended", "lookup", "preflight"}
  <2>1. step' \in {"lookup", "preflight"} => ref' = "version"
    BY <1>4 DEF Begin, Lookup, Preflight, SourcesAttached, Die, vars, End, Preflighted
  <2> QED BY <1>3, <1>4, <2>1 DEF OneImage, Preflighted, SourcesKnown, DigestKnown
<1>5. CASE Preflight /\ step' = "create"
  <2>1. /\ \A r \in Refs : Named(r) => aliases[r].image = image
        /\ existing' = {r \in Refs : Named(r)} /\ ref' = ref /\ image' = image
    BY <1>5 DEF Preflight, End
  <2>2. ref = "version"
    BY <1>5 DEF Preflight, Preflighted
  <2> QED BY <1>1, <1>2, <1>3, <1>5, <2>1, <2>2
          DEF OneImage, Preflighted, SourcesKnown, DigestKnown
<1>6. CASE SourcesAttached
  <2>1. step = "sources" /\ todo = {} /\ step' = "push"
    BY <1>6 DEF SourcesAttached
  <2>2. UNCHANGED <<image, existing, ref, todo, digest>>
    BY <1>6 DEF SourcesAttached
  <2>3. OneImage'
    BY <1>1, <1>2, <2>1, <2>2 DEF OneImage
  <2>4. Preflighted'
    BY <1>1, <1>2, <2>1, <2>2 DEF Preflighted, Refs
  <2>5. SourcesKnown'
    BY <1>1, <2>1, <2>2 DEF SourcesKnown
  <2>6. DigestKnown'
    BY <2>1, <2>2 DEF DigestKnown, Preflighted
  <2> QED BY <1>3, <2>3, <2>4, <2>5, <2>6
<1>7. CASE UNCHANGED vars
  <2> USE DEF vars
  <2>1. OneImage' /\ Preflighted'
    BY <1>2, <1>7 DEF OneImage, Preflighted, Refs
  <2>2. SourcesKnown'
    BY <1>7 DEF SourcesKnown
  <2>3. DigestKnown'
    BY <1>2, <1>7 DEF DigestKnown, Named
  <2> QED BY <1>3, <2>1, <2>2, <2>3
<1> QED BY <1>4, <1>5, <1>6, <1>7 DEF Begin, Lookup, Preflight, Die, End

LEMMA ReleaseStep ==
  ASSUME Inductive, CreateDraft \/ Publish
  PROVE  /\ OneImage' /\ Preflighted' /\ SourcesKnown' /\ DigestKnown'
         /\ Attached' /\ SourceBeforeImage' /\ PublicIsComplete'
<1> USE DEF Inductive, input, found
<1>1. UNCHANGED <<earlier, drafts, assets, aliases, input, found, ref, digest>>
  BY DEF CreateDraft, Publish
<1>2. (\A r \in Refs : Named(r)' <=> Named(r)) /\ (Complete' <=> Complete)
  BY <1>1 DEF Named, Complete
<1>3. Attached' /\ SourceBeforeImage'
  BY <1>1, <1>2 DEF Attached, SourceBeforeImage, Refs
<1>4. CASE CreateDraft
  <2>1. step = "create" /\ step' = "sources" /\ todo' = Sources
    BY <1>4 DEF CreateDraft
  <2>2. PublicIsComplete'
    BY <1>1, <1>2, <1>4 DEF CreateDraft, PublicIsComplete
  <2> QED BY <1>1, <1>2, <1>3, <2>1, <2>2
          DEF OneImage, Preflighted, SourcesKnown, DigestKnown
<1>5. CASE Publish
  <2>1. step = "deployment" /\ todo = {} /\ step' = "ended"
    BY <1>5 DEF Publish, End
  <2>2. Complete
    <3>1. image \in Images
      BY DEF TypeOK
    <3>2. \A r \in Refs : Named(r) /\ aliases[r].image = image
      BY <2>1 DEF OneImage, DigestKnown
    <3>3. /\ \A f \in Sources : assets[f] = SourceBytes(f, image)
          /\ \A f \in Deployment : assets[f] = DeploymentBytes(image, aliases["version"])
      BY <2>1 DEF SourcesKnown, DigestKnown
    <3> QED BY <3>1, <3>2, <3>3 DEF Complete
  <2> QED BY <1>2, <1>3, <2>1, <2>2
          DEF OneImage, Preflighted, SourcesKnown, DigestKnown, PublicIsComplete
<1> QED BY <1>4, <1>5

\* The inductive invariant of the publication.
THEOREM InductiveHolds == Spec => []Inductive
<1>1. Init => Inductive
  BY InitTyped
     DEF Init, Inductive, OneImage, Preflighted, SourcesKnown, DigestKnown, Attached,
         SourceBeforeImage, PublicIsComplete, Named, Refs, Files
<1>2. Inductive /\ [Next]_vars => Inductive'
  BY NextTyped, QuietStep, SourceStep, PushStep, PullBackStep, DeploymentStep, ReleaseStep
     DEF Inductive, Next
<1> QED BY <1>1, <1>2, PTL DEF Spec

\* No image can be pulled without the sources and receipts of exactly that
\* image being attached, however many jobs of whatever images died before.
THEOREM SourceAlwaysBeforeImage == Spec => []SourceBeforeImage
  BY InductiveHolds, PTL DEF Inductive

\* A release that a job turned public carries both aliases, all sources and all
\* deployment assets of one image, pinned to the digest of the SemVer alias.
THEOREM PublicAlwaysComplete == Spec => []PublicIsComplete
  BY InductiveHolds, PTL DEF Inductive

\* What can be pulled or downloaded is backed by all that belongs to it.
THEOREM PublishedAlwaysBacked == Spec => []PublishedIsBacked
  BY SourceAlwaysBeforeImage, PublicAlwaysComplete, PTL DEF PublishedIsBacked

\* Every reachable state of a publication is well typed.
THEOREM TypeCorrect == Spec => []TypeOK
  BY InductiveHolds, PTL DEF Inductive

\* No job ever changes an alias or an asset that is there.
THEOREM NothingEverOverwritten == Spec => NothingOverwritten
<1> DEFINE Kept == /\ \A r \in Refs : Named(r) => aliases'[r] = aliases[r]
                   /\ \A f \in Files : assets[f] # None => assets'[f] = assets[f]
<1>1. Inductive /\ [Next]_vars => [Kept]_vars
  <2> SUFFICES ASSUME Inductive, Next PROVE Kept
    OBVIOUS
  <2> USE DEF Inductive, services
  <2>1. CASE UNCHANGED <<assets, aliases>>
    BY <2>1
  <2>2. CASE Push
    <3>1. UNCHANGED assets
      BY <2>2 DEF Push
    <3>2. CASE ref \in existing
      BY <2>2, <3>1, <3>2 DEF Push
    <3>3. CASE ref \notin existing
      <4>1. ~Named(ref)
        BY <2>2, <3>3 DEF Push, Preflighted, TypeOK, Refs
      <4>2. \A r \in Refs \ {ref} : aliases'[r] = aliases[r]
        BY <2>2, <3>3 DEF Push, TypeOK
      <4> QED BY <3>1, <4>1, <4>2
    <3> QED BY <3>2, <3>3
  <2>3. ASSUME NEW f \in todo, NEW b, Attach(f, b) PROVE Kept
    <3>1. f \in Files
      BY DEF TypeOK
    <3>2. aliases' = aliases
      BY <2>3 DEF Attach
    <3> QED BY <2>3, <3>1, <3>2, AttachEffect
  <2>4. CASE AttachSource \/ AttachDeployment
    BY <2>3, <2>4 DEF AttachSource, AttachDeployment
  <2> QED BY <2>1, <2>2, <2>4
          DEF Next, Begin, Lookup, Preflight, CreateDraft, SourcesAttached, PullBack,
              Publish, Die
<1> QED BY <1>1, InductiveHolds, PTL DEF Spec, NothingOverwritten

\* A job that carries the image delivered so far, and may backfill, is never
\* refused: whatever it compares has the bytes it brings.
THEOREM RetryNeverRefused == Spec => Resumable
<1> DEFINE Refused == verdict' = "refused" /\ verdict = "running"
           Excused == ~Delivered(image) \/ (~backfill /\ Visible)
<1>1. Inductive /\ [Next]_vars => [Refused => Excused]_vars
  <2> SUFFICES ASSUME Inductive, Next, Refused, Delivered(image), ~Excused PROVE FALSE
    OBVIOUS
  <2> USE DEF Inductive
  <2>1. CASE Lookup \/ Preflight
    BY <2>1 DEF Lookup, Preflight, End, Delivered
  <2>2. CASE PullBack
    BY <2>2 DEF PullBack, End, DigestKnown, OneImage, TypeOK
  <2>3. CASE AttachSource
    <3>1. PICK f \in todo : Attach(f, SourceBytes(f, image))
      BY <2>3 DEF AttachSource
    <3>2. f \in Sources /\ f \in Files
      BY <2>3 DEF AttachSource, SourcesKnown, Files
    <3>3. assets[f] \notin {None, SourceBytes(f, image)}
      BY <3>1, <3>2, AttachEffect
    <3>4. PICK i \in Images : assets[f] = SourceBytes(f, i)
      BY <3>2, <3>3 DEF Attached
    <3>5. assets[f].image \in {image, None}
      BY <3>2, <3>3 DEF Delivered
    <3>6. SourceBytes(f, i) = SourceBytes(f, image)
      BY <3>4, <3>5, NoneAssumption DEF SourceBytes
    <3> QED BY <3>3, <3>4, <3>6
  <2>4. CASE AttachDeployment
    <3>1. PICK f \in todo : Attach(f, DeploymentBytes(image, digest))
      BY <2>4 DEF AttachDeployment
    <3>2. f \in Deployment /\ f \in Files /\ digest = aliases["version"]
      BY <2>4 DEF AttachDeployment, DigestKnown, Files
    <3>3. assets[f] \notin {None, DeploymentBytes(image, digest)}
      BY <3>1, <3>2, AttachEffect
    <3>4. /\ Named("version")
          /\ assets[f] = DeploymentBytes(aliases["version"].image, aliases["version"])
      BY <3>2, <3>3 DEF Attached
    <3>5. aliases["version"].image = image
      BY <3>4 DEF Delivered, Refs
    <3> QED BY <3>2, <3>3, <3>4, <3>5
  <2> QED BY <2>1, <2>2, <2>3, <2>4
          DEF Next, Begin, CreateDraft, SourcesAttached, Push, Publish, Die, End
<1> QED BY <1>1, InductiveHolds, PTL DEF Spec, Resumable

=============================================================================
