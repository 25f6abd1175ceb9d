------------------------------- MODULE Golden -------------------------------
(***************************************************************************)
(* The golden image (internal/golden): every warm-up of the pool ensures   *)
(* it before it clones a VM from it (broker.Warm, EnsureGolden).  The      *)
(* pool's workers warm concurrently, and so may the install command, whose *)
(* builder pulls the base by way of a local registry (internal/fastpull).  *)
(* The golden and the staging image have fixed names that all share; the   *)
(* build and the verify VM have a name per warm-up.  An action is one tart *)
(* command, or a sequence of commands on VMs that nobody else names.       *)
(***************************************************************************)
EXTENDS Bounds, FiniteSets

CONSTANTS
  Workers,  \* workers that warm a VM, or the install command in their place
  Bases,    \* values of tart.base_image
  Goldens   \* images the host may have under the golden's name at first

\* raw, alien: the configured base, or another one, not provisioned.
\* stale: baked by another binary.  good, bad: carries this binary's fingerprint
\* and passes the checks, or not.  wrong: good, but made from an alien base.
Images == {"raw", "alien", "stale", "good", "bad", "wrong"}

ASSUME GoldenAssumption ==
  /\ None \notin Images
  /\ Goldens \subseteq {None, "stale", "good"}

VARIABLES
  base,     \* tart.base_image
  layout,   \* base images in the OCI layout that fast pull keeps
  source,   \* base image each warm-up clones its build VM from
  stager,   \* those that are the install command, which has a BaseStager
  golden,   \* the image the pool clones from
  staging,  \* the staging image
  build,    \* build VM of each warm-up
  check,    \* verify VM of each warm-up
  pc,       \* control point of Warm in each worker
  crossed   \* history: warm-ups whose staging image another one changed, between
            \* the clone they check and the promotion

pull == <<base, layout, source, stager>>
goldenVars == <<pull, golden, staging, build, check, pc, crossed, faults, restarts>>

-----------------------------------------------------------------------------
Go(w, to) == pc' = [pc EXCEPT ![w] = to]
Fail(w) == Go(w, "failed")

\* tart delete of VM v[w]: gone, or it fails, which only gets logged.  n
\* failures came before it.
Deleted(v, w, n) ==
  \/ v' = [v EXCEPT ![w] = None] /\ (IF n = 0 THEN NoFault ELSE Fault(n))
  \/ v' = v /\ Fault(n + 1)

\* EnsureGolden lists the VMs.
List(w) ==
  /\ pc[w] = "list"
  /\ \/ golden # None /\ Go(w, "probe") /\ NoFault
     \/ golden = None /\ Go(w, "inputs") /\ NoFault
     \/ Fail(w) /\ Fault(1)
  /\ UNCHANGED <<pull, golden, staging, build, check, restarts>>

\* What the checks of a booted clone let pass: fingerprint, receipt and files.
Passing == {"good", "wrong"}

\* checkCachedGolden on a clone with a random name.  Any doubt rebuilds.
CheckCachedGolden(w) ==
  /\ pc[w] = "probe"
  /\ \/ golden \in Passing /\ Go(w, "warm") /\ NoFault
     \/ golden \notin Passing /\ Go(w, "inputs") /\ NoFault
     \/ golden \in Passing /\ Go(w, "inputs") /\ Fault(1)
  /\ UNCHANGED <<pull, golden, staging, build, check, restarts>>

StageProvisionInputs(w) ==
  /\ pc[w] = "inputs"
  /\ \/ Go(w, "stage") /\ NoFault
     \/ Fail(w) /\ Fault(1)
  /\ UNCHANGED <<pull, golden, staging, build, check, restarts>>

\* Mutant: the layout's manifest is any of those that it lists.
AnyManifest(images) == images

\* readLayoutManifest wants a layout with a single manifest; otherwise the base
\* is cloned directly.
Manifest(images) == IF Cardinality(images) = 1 THEN images ELSE {base}

\* skopeo adds the image to the layout, or it replaces one that has its tag.
Copied == {layout \cup {base}, {base}}

\* Stage copies the base into the layout, which is kept from build to build, and
\* serves it.  Whatever fails, the build goes on with the base itself, as it does
\* without a stager.
StageBase(w) ==
  /\ pc[w] = "stage"
  /\ Go(w, "boot")
  /\ \/ /\ w \notin stager /\ NoFault
        /\ source' = [source EXCEPT ![w] = base] /\ UNCHANGED layout
     \/ /\ w \in stager /\ layout' \in Copied /\ NoFault
        /\ \E image \in Manifest(layout') : source' = [source EXCEPT ![w] = image]
     \/ /\ w \in stager /\ layout' \in Copied \cup {layout} /\ Fault(1)
        /\ source' = [source EXCEPT ![w] = base]
  /\ UNCHANGED <<base, stager, golden, staging, build, check, restarts>>

Cloned(w) == build' = [build EXCEPT ![w] = IF source[w] = base THEN "raw" ELSE "alien"]

\* cloneAndBoot of the build VM.  The clone fails and leaves nothing, or the
\* boot fails and the VM is torn down.
CloneAndBoot(w) ==
  /\ pc[w] = "boot"
  /\ \/ Cloned(w) /\ Go(w, "provision") /\ NoFault
     \/ Fail(w) /\ Fault(1) /\ UNCHANGED build
     \/ Fail(w) /\ Fault(2) /\ Cloned(w)
  /\ UNCHANGED <<pull, golden, staging, check, restarts>>

\* golden-provision inside the build VM reports success: the image carries the
\* verified runner, the agent and the fingerprint, or lost some of it on disk.
ProvisionGolden(w) ==
  \/ build' = [build EXCEPT ![w] = IF @ = "raw" THEN "good" ELSE "wrong"] /\ NoFault
  \/ build' = [build EXCEPT ![w] = "bad"] /\ Fault(1)

\* A step that fails, golden-provision's own included, drops the build VM.
Provision(w) ==
  /\ pc[w] = "provision"
  /\ \/ ProvisionGolden(w) /\ Go(w, "stop")
     \/ Fail(w) /\ Deleted(build, w, 1)
  /\ UNCHANGED <<pull, golden, staging, check, restarts>>

StopBuildVM(w) ==
  /\ pc[w] = "stop"
  /\ \/ Go(w, "clear") /\ NoFault /\ UNCHANGED build
     \/ Fail(w) /\ Deleted(build, w, 1)
  /\ UNCHANGED <<pull, golden, staging, check, restarts>>

\* Mutant: the golden makes room before its replacement is proven.
DeletesGolden(w) ==
  /\ pc[w] = "clear"
  /\ Go(w, "snapshot")
  /\ golden' = None
  /\ UNCHANGED <<pull, staging, build, check, faults, restarts>>

\* snapshot deletes the old staging image, whoever made it.
SnapshotDelete(w) ==
  /\ pc[w] = "clear"
  /\ Go(w, "snapshot")
  /\ \/ staging' = None /\ NoFault
     \/ Fault(1) /\ UNCHANGED staging
  /\ UNCHANGED <<pull, golden, build, check, restarts>>

\* snapshot clones the build VM and removes it.  A failed clone returns with
\* the build VM in place; a clone onto a name in use may fail too.
SnapshotClone(w) ==
  /\ pc[w] = "snapshot"
  /\ \/ staging' = build[w] /\ Go(w, "verify") /\ Deleted(build, w, 0)
     \/ Fail(w) /\ Fault(1) /\ UNCHANGED <<staging, build>>
     \/ staging # None /\ Fail(w) /\ NoFault /\ UNCHANGED <<staging, build>>
  /\ UNCHANGED <<pull, golden, check, restarts>>

\* A failed verification tears the staging image down.
StagingDropped(w, n) ==
  /\ Fail(w)
  /\ \/ staging' = None /\ (IF n = 0 THEN NoFault ELSE Fault(n))
     \/ staging' = staging /\ Fault(n + 1)

\* verify clones the staging image and boots the clone.
VerifyBoot(w) ==
  /\ pc[w] = "verify"
  /\ \/ staging # None /\ check' = [check EXCEPT ![w] = staging]
        /\ Go(w, "check") /\ NoFault /\ UNCHANGED staging
     \/ staging = None /\ StagingDropped(w, 0) /\ UNCHANGED check
     \/ StagingDropped(w, 1) /\ UNCHANGED check
  /\ UNCHANGED <<pull, golden, build, restarts>>

\* Mutant: the checks of the booted clone are skipped.
NothingChecked(w) ==
  /\ pc[w] = "check"
  /\ Go(w, "promote") /\ Deleted(check, w, 0) /\ UNCHANGED staging
  /\ UNCHANGED <<pull, golden, build, restarts>>

\* verifyBooted on the clone, which is torn down in every case.  n checks have
\* failed by accident.
CheckFails(w, n) ==
  \/ StagingDropped(w, n) /\ check' = [check EXCEPT ![w] = None]
  \/ StagingDropped(w, n + 1) /\ UNCHANGED check

VerifyBooted(w) ==
  /\ pc[w] = "check"
  /\ \/ check[w] \in Passing /\ Go(w, "promote") /\ Deleted(check, w, 0) /\ UNCHANGED staging
     \/ check[w] \notin Passing /\ CheckFails(w, 0)
     \/ CheckFails(w, 1)
  /\ UNCHANGED <<pull, golden, build, restarts>>

\* promote deletes the live golden.
PromoteDelete(w) ==
  /\ pc[w] = "promote"
  /\ Go(w, "replace")
  /\ \/ golden' = None /\ NoFault
     \/ golden # None /\ Fault(1) /\ UNCHANGED golden
  /\ UNCHANGED <<pull, staging, build, check, restarts>>

\* ... then clones staging under its name.
PromoteClone(w) ==
  /\ pc[w] = "replace"
  /\ \/ staging # None /\ golden' = staging /\ Go(w, "drop") /\ NoFault
     \/ (staging = None \/ golden # None) /\ Fail(w) /\ NoFault /\ UNCHANGED golden
     \/ Fail(w) /\ Fault(1) /\ UNCHANGED golden
  /\ UNCHANGED <<pull, staging, build, check, restarts>>

PromoteDrop(w) ==
  /\ pc[w] = "drop"
  /\ Go(w, "warm")
  /\ \/ staging' = None /\ NoFault
     \/ Fault(1) /\ UNCHANGED staging
  /\ UNCHANGED <<pull, golden, build, check, restarts>>

\* Warm clones the worker's VM from the golden.
Clone(w) ==
  /\ pc[w] = "warm" /\ w \notin stager
  /\ \/ golden # None /\ Go(w, "done") /\ NoFault
     \/ golden = None /\ Fail(w) /\ NoFault
     \/ Fail(w) /\ Fault(1)
  /\ UNCHANGED <<pull, golden, staging, build, check, crossed, restarts>>

\* warmWorker tries again with names of its own; what it left behind stays on
\* the host under the old names.
RetryGolden(w) ==
  /\ pc[w] = "failed" /\ w \notin stager
  /\ Go(w, "list")
  /\ build' = [build EXCEPT ![w] = None] /\ check' = [check EXCEPT ![w] = None]
  /\ UNCHANGED <<pull, golden, staging, crossed, faults, restarts>>

\* install is done with its golden, or has failed; a worker of the daemon that is
\* started next comes in its place.
InstallEnds(w) ==
  /\ pc[w] \in {"warm", "failed"} /\ w \in stager
  /\ stager' = stager \ {w}
  /\ Go(w, "list")
  /\ build' = [build EXCEPT ![w] = None] /\ check' = [check EXCEPT ![w] = None]
  /\ UNCHANGED <<base, layout, source, golden, staging, crossed, faults, restarts>>

\* The VM is recycled.
Recycle(w) ==
  /\ pc[w] = "done"
  /\ Go(w, "list")
  /\ UNCHANGED <<pull, golden, staging, build, check, crossed, faults, restarts>>

\* A restart with the same build and base, with a new build whose fingerprint no
\* image has yet, or with another base, whose golden has a name of its own.
Reborn ==
  \/ UNCHANGED <<base, source, golden, staging>>
  \/ /\ golden' = IF golden = None THEN None ELSE "stale"
     /\ staging' = IF staging = None THEN None ELSE "stale"
     /\ UNCHANGED <<base, source>>
  \/ /\ base' \in Bases \ {base}
     /\ source' = [w \in Workers |-> base']
     /\ golden' \in Goldens /\ staging' = None

\* The broker dies at any point and starts again, or install is run instead.
Restart ==
  /\ restarts < Restarts
  /\ restarts' = restarts + 1
  /\ pc' = [w \in Workers |-> "list"]
  /\ build' = [w \in Workers |-> None] /\ check' = [w \in Workers |-> None]
  /\ crossed' = {}
  /\ Reborn
  /\ stager' \in SUBSET Workers
  /\ UNCHANGED <<layout, faults>>

-----------------------------------------------------------------------------
GoldenInit ==
  /\ base \in Bases /\ layout = {} /\ source = [w \in Workers |-> base]
  /\ stager \in SUBSET Workers
  /\ golden \in Goldens
  /\ staging = None
  /\ build = [w \in Workers |-> None] /\ check = [w \in Workers |-> None]
  /\ pc = [w \in Workers |-> "list"]
  /\ crossed = {}
  /\ faults = 0 /\ restarts = 0

\* What a warm-up relies on from the clone that it checks to its promotion: the
\* image under the staging name stays the one it checks.
Proving == {"check", "promote", "replace"}

Crossing(w) ==
  crossed' = (IF pc'[w] \in Proving THEN crossed ELSE crossed \ {w})
               \cup (IF staging' = staging THEN {} ELSE {v \in Workers \ {w} : pc[v] \in Proving})

EnsureGolden(w) ==
  /\ \/ List(w) \/ CheckCachedGolden(w) \/ StageProvisionInputs(w) \/ StageBase(w)
     \/ CloneAndBoot(w) \/ Provision(w) \/ StopBuildVM(w) \/ SnapshotDelete(w) \/ SnapshotClone(w)
     \/ VerifyBoot(w) \/ VerifyBooted(w) \/ PromoteDelete(w) \/ PromoteClone(w)
     \/ PromoteDrop(w)
  /\ Crossing(w)

GoldenNext ==
  \/ \E w \in Workers : EnsureGolden(w) \/ Clone(w) \/ RetryGolden(w) \/ InstallEnds(w) \/ Recycle(w)
  \/ Restart

GoldenSpec == GoldenInit /\ [][GoldenNext]_goldenVars

-----------------------------------------------------------------------------
(* Properties *)

\* Types of the images and of the workers' control points; a build VM past its
\* provisioning carries a fingerprint.
GoldenTypeOK ==
  /\ base \in Bases /\ layout \subseteq Bases /\ source \in [Workers -> Bases]
  /\ stager \subseteq Workers
  /\ golden \in Images \cup {None} /\ staging \in Images \cup {None}
  /\ build \in [Workers -> Images \cup {None}]
  /\ check \in [Workers -> Images \cup {None}]
  /\ pc \in [Workers -> {"list", "probe", "inputs", "stage", "boot", "provision", "stop", "clear",
                         "snapshot", "verify", "check", "promote", "replace", "drop",
                         "warm", "done", "failed"}]
  /\ \A w \in Workers : pc[w] \in {"stop", "clear", "snapshot"} => build[w] \in {"good", "bad", "wrong"}
  /\ crossed \subseteq {w \in Workers : pc[w] \in Proving}
  /\ faults \in 0 .. Faults /\ restarts \in 0 .. Restarts

\* A step of a warm-up whose staging image another one has changed.
CrossedStep(from) == \E v \in crossed : pc[v] = from /\ pc'[v] # from

\* No image goes live that has not passed the checks or that was made from
\* another base than its name says, whatever failed on the way, whatever earlier
\* builds left in the layout and however many warm-ups build at a time. The one
\* way in is the shared staging name: a promotion takes what another build has put
\* there after this one's checks (Build, Stage, promote).
OnlyProvenGoesLive ==
  [][golden' \notin {golden, None} /\ restarts' = restarts =>
       golden' = "good" \/ CrossedStep("replace")]_goldenVars

\* The live golden is deleted only when its replacement is on disk and proven,
\* unless another build has changed the staging image after the checks (Build,
\* promote).
ReplacementReady ==
  [][golden # None /\ golden' = None /\ restarts' = restarts =>
       staging = "good" \/ CrossedStep("promote")]_goldenVars

\* What Build's comment says: the golden is never deleted before the replacement
\* is on disk and verified.
ReplacementAlwaysReady ==
  [][golden # None /\ golden' = None /\ restarts' = restarts => staging = "good"]_goldenVars
=============================================================================
