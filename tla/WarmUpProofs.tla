---------------------------- MODULE WarmUpProofs ----------------------------
(* Machine-checked facts about a worker's VM from its image to its jobs, for *)
(* any workers, bases, slot counts, failures and restarts.                    *)
EXTENDS WarmUp, FiniteSetTheorems, TLAPS

USE DEF vars, imageVars, brokerVars, guestVars, jobVars, pull, goldenVars

-----------------------------------------------------------------------------
(* The golden image *)

\* The images that warm-ups make, and where they have made them: each build VM
\* comes from the configured base, and while no other warm-up touches the staging
\* image a verify VM is its clone, and what is about to go live has passed its
\* checks.
ImageControl ==
  /\ IsFiniteSet(layout)
  /\ golden \in {None, "stale", "good", "bad"} /\ staging \in {None, "stale", "good", "bad"}
  /\ \A v \in Workers :
       /\ build[v] \in {None, "raw", "good", "bad"}
       /\ pc[v] = "boot" => source[v] = base
       /\ pc[v] = "provision" => build[v] = "raw"
       /\ pc[v] = "check" /\ v \notin crossed => check[v] = staging
       /\ pc[v] \in {"promote", "replace"} /\ v \notin crossed => staging = "good"
  /\ host # "boot" => pc[w] = "done"

ImageInv == GoldenTypeOK /\ ImageControl

\* The manifest that Stage serves is the configured base.
LEMMA ManifestIsBase ==
  ASSUME IsFiniteSet(layout), NEW images \in Copied, NEW image \in Manifest(images)
  PROVE  IsFiniteSet(images) /\ image = base
<1>1. base \in images /\ IsFiniteSet(images)
  <2>1. IsFiniteSet({base})
    BY FS_Singleton
  <2>2. IsFiniteSet(layout \cup {base})
    BY FS_AddElement
  <2> QED
    BY <2>1, <2>2 DEF Copied
<1>2. ASSUME Cardinality(images) = 1 PROVE images = {base}
  <2>1. \E x : images = {x}
    BY <1>1, <1>2, FS_Singleton
  <2> QED
    BY <1>1, <2>1
<1> QED
  BY <1>1, <1>2 DEF Manifest

\* Counters of failures stay within their bound.
LEMMA FaultTyped ==
  ASSUME faults \in 0 .. Faults, NEW n \in Nat, Fault(n)
  PROVE  faults' \in 0 .. Faults
  BY BoundsAssumption DEF Fault

\* A command of one warm-up leaves another's control point alone, and if it
\* touches the staging image it crosses those that rely on it.
LEMMA Bystander ==
  ASSUME GoldenTypeOK, NEW v \in Workers, EnsureGolden(v), NEW u \in Workers, u # v
  PROVE  /\ pc'[u] = pc[u] /\ build'[u] = build[u] /\ check'[u] = check[u]
         /\ source'[u] = source[u] /\ base' = base
         /\ pc[u] \in Proving /\ u \notin crossed' => staging' = staging /\ u \notin crossed
<1>1. pc'[u] = pc[u] /\ build'[u] = build[u] /\ check'[u] = check[u]
      /\ source'[u] = source[u] /\ base' = base
  BY DEF EnsureGolden, List, CheckCachedGolden, StageProvisionInputs, StageBase, CloneAndBoot,
         Cloned, Provision, ProvisionGolden, StopBuildVM, SnapshotDelete, SnapshotClone,
         VerifyBoot, StagingDropped, VerifyBooted, CheckFails, PromoteDelete, PromoteClone,
         PromoteDrop, Deleted, Go, Fail, GoldenTypeOK
<1>2. Crossing(v)
  BY DEF EnsureGolden
<1>3. pc[u] \in Proving /\ u \notin crossed' => staging' = staging /\ u \notin crossed
  BY <1>2 DEF Crossing
<1> QED
  BY <1>1, <1>3

\* The warm-ups crossed are among those that rely on the staging image.
LEMMA CrossedTyped ==
  ASSUME GoldenTypeOK, NEW v \in Workers, EnsureGolden(v)
  PROVE  crossed' \subseteq {u \in Workers : pc'[u] \in Proving}
<1>1. \A u \in Workers \ {v} : pc'[u] = pc[u]
  BY Bystander
<1> QED
  BY <1>1 DEF EnsureGolden, Crossing, GoldenTypeOK

\* What a warm-up's own command makes of its VMs and of the images.
OwnStep(v) ==
  /\ base' \in Bases /\ layout' \subseteq Bases /\ IsFiniteSet(layout')
  /\ source' \in [Workers -> Bases] /\ stager' \subseteq Workers
  /\ golden' \in {None, "stale", "good", "bad"} /\ staging' \in {None, "stale", "good", "bad"}
  /\ build' \in [Workers -> Images \cup {None}] /\ check' \in [Workers -> Images \cup {None}]
  /\ pc' \in [Workers -> {"list", "probe", "inputs", "stage", "boot", "provision", "stop", "clear",
                          "snapshot", "verify", "check", "promote", "replace", "drop",
                          "warm", "done", "failed"}]
  /\ faults' \in 0 .. Faults /\ restarts' = restarts
  /\ build'[v] \in {None, "raw", "good", "bad"}
  /\ pc'[v] \in {"stop", "clear", "snapshot"} => build'[v] \in {"good", "bad"}
  /\ pc'[v] = "boot" => source'[v] = base'
  /\ pc'[v] = "provision" => build'[v] = "raw"
  /\ pc'[v] = "check" /\ v \notin crossed' => check'[v] = staging'
  /\ pc'[v] \in {"promote", "replace"} /\ v \notin crossed' => staging' = "good"

\* Every command of EnsureGolden keeps its warm-up's images in order.
LEMMA OwnImages == ASSUME ImageInv, NEW v \in Workers, EnsureGolden(v) PROVE OwnStep(v)
<1> USE GoldenAssumption, BoundsAssumption
    DEF ImageInv, ImageControl, GoldenTypeOK, Images, Go, Fail, NoFault, Fault, OwnStep
<1>0. pc'[v] \in Proving /\ v \notin crossed' => v \notin crossed
  BY DEF EnsureGolden, Crossing
<1>1. CASE List(v)                  BY <1>1 DEF List
<1>2. CASE CheckCachedGolden(v)     BY <1>2 DEF CheckCachedGolden
<1>3. CASE StageProvisionInputs(v)  BY <1>3 DEF StageProvisionInputs
<1>4. CASE StageBase(v)
  <2>1. layout' = layout \/ layout' \in Copied
    BY <1>4 DEF StageBase
  <2>2. IsFiniteSet(layout') /\ layout' \subseteq Bases
    <3>1. IsFiniteSet({base}) /\ IsFiniteSet(layout \cup {base})
      BY FS_AddElement, FS_Singleton
    <3> QED
      BY <2>1, <3>1 DEF Copied
  <2>3. source' = [source EXCEPT ![v] = base]
    BY <1>4, ManifestIsBase DEF StageBase
  <2> QED
    BY <1>4, <2>2, <2>3 DEF StageBase
<1>5. CASE CloneAndBoot(v)    BY <1>5 DEF CloneAndBoot, Cloned
<1>6. CASE Provision(v)       BY <1>6 DEF Provision, ProvisionGolden, Deleted
<1>7. CASE StopBuildVM(v)     BY <1>7 DEF StopBuildVM, Deleted
<1>8. CASE SnapshotDelete(v)  BY <1>8 DEF SnapshotDelete
<1>9. CASE SnapshotClone(v)   BY <1>9 DEF SnapshotClone, Deleted
<1>10. CASE VerifyBoot(v)     BY <1>10 DEF VerifyBoot, StagingDropped
<1>11. CASE VerifyBooted(v)
  BY <1>0, <1>11 DEF VerifyBooted, StagingDropped, CheckFails, Deleted, Passing, Proving
<1>12. CASE PromoteDelete(v)  BY <1>0, <1>12 DEF PromoteDelete, Proving
<1>13. CASE PromoteClone(v)   BY <1>13 DEF PromoteClone
<1>14. CASE PromoteDrop(v)    BY <1>14 DEF PromoteDrop
<1> QED
  BY <1>1, <1>2, <1>3, <1>4, <1>5, <1>6, <1>7, <1>8, <1>9, <1>10, <1>11, <1>12, <1>13, <1>14
     DEF EnsureGolden

\* ... and every warm-up's.
LEMMA EnsureStep ==
  ASSUME ImageInv, NEW v \in Workers, EnsureGolden(v), UNCHANGED host, v = w => host = "boot"
  PROVE  ImageInv'
<1>1. OwnStep(v)
  BY OwnImages
<1>2. \A u \in Workers \ {v} :
        /\ pc'[u] = pc[u] /\ build'[u] = build[u] /\ check'[u] = check[u]
        /\ source'[u] = source[u] /\ base' = base
        /\ pc[u] \in Proving /\ u \notin crossed' => staging' = staging /\ u \notin crossed
  BY Bystander DEF ImageInv
<1>3. GoldenTypeOK'
  <2>1. \A u \in Workers : pc'[u] \in {"stop", "clear", "snapshot"} => build'[u] \in {"good", "bad", "wrong"}
    BY <1>1, <1>2 DEF OwnStep, ImageInv, GoldenTypeOK
  <2>2. crossed' \subseteq {u \in Workers : pc'[u] \in Proving}
    BY CrossedTyped DEF ImageInv
  <2> QED
    BY <1>1, <2>1, <2>2 DEF OwnStep, ImageInv, GoldenTypeOK, Images
<1>4. ASSUME NEW u \in Workers
      PROVE  /\ build'[u] \in {None, "raw", "good", "bad"}
             /\ pc'[u] = "boot" => source'[u] = base'
             /\ pc'[u] = "provision" => build'[u] = "raw"
             /\ pc'[u] = "check" /\ u \notin crossed' => check'[u] = staging'
             /\ pc'[u] \in {"promote", "replace"} /\ u \notin crossed' => staging' = "good"
  <2>1. CASE u = v
    BY <1>1, <2>1 DEF OwnStep
  <2>2. CASE u # v
    BY <1>2, <2>2 DEF ImageInv, ImageControl, Proving
  <2> QED
    BY <2>1, <2>2
<1>5. host' # "boot" => pc'[w] = "done"
  BY <1>2, WorkerAssumption DEF ImageInv, ImageControl
<1> QED
  BY <1>1, <1>3, <1>4, <1>5 DEF ImageInv, ImageControl, OwnStep

\* Between two warm-ups: the images stay as they are.
LEMMA BetweenStep ==
  ASSUME ImageInv, NEW v \in Workers, host' = "boot" \/ (v # w /\ host' = host),
         Clone(v) \/ RetryGolden(v) \/ InstallEnds(v) \/ Recycle(v) \/ RivalAgain(v)
  PROVE  ImageInv'
<1> USE DEF Go, Fail, NoFault
<1>1. /\ UNCHANGED <<base, layout, source, golden, staging, crossed, restarts>>
      /\ stager' \subseteq Workers /\ faults' \in 0 .. Faults
      /\ \/ UNCHANGED <<build, check>>
         \/ build' = [build EXCEPT ![v] = None] /\ check' = [check EXCEPT ![v] = None]
  BY FaultTyped DEF Clone, RetryGolden, InstallEnds, Recycle, RivalAgain, ImageInv, GoldenTypeOK
<1>2. \/ pc' = [pc EXCEPT ![v] = "list"] \/ pc' = [pc EXCEPT ![v] = "done"]
      \/ pc' = [pc EXCEPT ![v] = "failed"]
  BY DEF Clone, RetryGolden, InstallEnds, Recycle, RivalAgain
<1>3. pc[v] \notin Proving
  BY DEF Clone, RetryGolden, InstallEnds, Recycle, RivalAgain, Proving
<1>4. \A u \in Workers \ {v} : pc'[u] = pc[u] /\ build'[u] = build[u] /\ check'[u] = check[u]
  BY <1>1, <1>2 DEF ImageInv, GoldenTypeOK
<1>5. pc'[v] \in {"list", "done", "failed"} /\ build'[v] \in {None, "raw", "good", "bad"}
  BY <1>1, <1>2 DEF ImageInv, ImageControl, GoldenTypeOK
<1>6. GoldenTypeOK'
  <2>1. crossed' \subseteq {u \in Workers : pc'[u] \in Proving}
    BY <1>1, <1>3, <1>4 DEF ImageInv, GoldenTypeOK
  <2>2. build' \in [Workers -> Images \cup {None}] /\ check' \in [Workers -> Images \cup {None}]
    BY <1>1 DEF ImageInv, GoldenTypeOK
  <2>3. \A u \in Workers : pc'[u] \in {"stop", "clear", "snapshot"} => build'[u] \in {"good", "bad", "wrong"}
    BY <1>4, <1>5 DEF ImageInv, GoldenTypeOK
  <2> QED
    BY <1>1, <1>2, <2>1, <2>2, <2>3 DEF ImageInv, GoldenTypeOK
<1>7. ImageControl'
  <2>1. ASSUME NEW u \in Workers
        PROVE  /\ build'[u] \in {None, "raw", "good", "bad"}
               /\ pc'[u] = "boot" => source'[u] = base'
               /\ pc'[u] = "provision" => build'[u] = "raw"
               /\ pc'[u] = "check" /\ u \notin crossed' => check'[u] = staging'
               /\ pc'[u] \in {"promote", "replace"} /\ u \notin crossed' => staging' = "good"
    BY <1>1, <1>4, <1>5 DEF ImageInv, ImageControl
  <2>2. host' # "boot" => pc'[w] = "done"
    BY <1>4, WorkerAssumption DEF ImageInv, ImageControl
  <2> QED
    BY <1>1, <2>1, <2>2 DEF ImageInv, ImageControl
<1> QED
  BY <1>6, <1>7 DEF ImageInv

\* What a new process finds under the golden's and the staging image's name.
LEMMA RebornImages ==
  ASSUME ImageInv, Reborn
  PROVE  /\ base' \in Bases /\ source' \in [Workers -> Bases]
         /\ golden' \in {None, "stale", "good", "bad"} /\ golden' \in Images \cup {None}
         /\ staging' \in {None, "stale", "good", "bad"} /\ staging' \in Images \cup {None}
  BY GoldenAssumption DEF Reborn, ImageInv, ImageControl, GoldenTypeOK, Images

\* A new process begins every warm-up anew, but for that of the VM it adopts.
LEMMA RebornStep ==
  ASSUME ImageInv, Reborn, restarts' \in 0 .. Restarts, UNCHANGED <<layout, faults>>,
         stager' \subseteq Workers, crossed' = {},
         pc' \in [Workers -> {"list", "done"}], host' # "boot" => pc'[w] = "done",
         build' \in [Workers -> {None, "raw", "good", "bad"}],
         check' \in [Workers -> Images \cup {None}]
  PROVE  ImageInv'
<1>1. GoldenTypeOK'
  <2>1. build' \in [Workers -> Images \cup {None}]
    BY DEF Images
  <2> QED
    BY <2>1, RebornImages DEF ImageInv, GoldenTypeOK
<1>2. ImageControl'
  BY RebornImages DEF ImageInv, ImageControl
<1> QED
  BY <1>1, <1>2 DEF ImageInv

\* Every step keeps the images in order.
LEMMA ImageStep == ASSUME ImageInv, [Next]_vars PROVE ImageInv'
<1> USE WorkerAssumption
<1>1. CASE UNCHANGED vars
  BY <1>1 DEF ImageInv, ImageControl, GoldenTypeOK
<1>2. CASE Ensures
  BY <1>2, EnsureStep, BetweenStep DEF Ensures
<1>3. ASSUME NEW x \in Workers \ {w}, Rival(x) PROVE ImageInv'
  BY <1>3, EnsureStep, BetweenStep DEF Rival
<1>4. ASSUME UNCHANGED imageVars, pc[w] = "done" \/ UNCHANGED host,
             faults' \in 0 .. Faults, restarts' = restarts
      PROVE  ImageInv'
  BY <1>4 DEF ImageInv, ImageControl, GoldenTypeOK
<1>5. CASE BringsUp
  <2>1. faults' \in 0 .. Faults /\ restarts' = restarts
    BY <1>5, FaultTyped DEF BringsUp, Warm, Boot, WaitForReady, SeedSlotCount, ReadGuestToken,
                WaitForGuestHello, Step, NoFault, ImageInv, GoldenTypeOK
  <2> QED
    BY <1>4, <1>5, <2>1 DEF BringsUp
<1>6. CASE Retry \/ CheckHealth \/ IdleExpires
  BY <1>6, BetweenStep DEF Retry, CheckHealth, IdleExpires, Afresh
<1>7. CASE GuestRuns
  <2>1. faults' \in 0 .. Faults /\ restarts' = restarts /\ UNCHANGED host
    BY <1>7, FaultTyped DEF GuestRuns, Agent, AgentStarts, EnsureBootToken, AgentServes, NoFault,
                ImageInv, GoldenTypeOK
  <2> QED
    BY <1>4, <1>7, <2>1 DEF GuestRuns
<1>8. CASE AgentCrashes
  BY <1>4, <1>8, FaultTyped DEF AgentCrashes, AgentDies, ImageInv, GoldenTypeOK
<1>9. ASSUME NEW s \in Slots, Mint(s) \/ RunJob(s) \/ RunnerConnects(s) \/ RunnerExits(s)
      PROVE  ImageInv'
  <2>1. UNCHANGED <<imageVars, host, restarts>> /\ faults' \in 0 .. Faults
    BY <1>9, FaultTyped DEF Mint, RunJob, Dispatch, RunnerConnects, RunnerExits, JobEnds, NoFault,
                ImageInv, GoldenTypeOK
  <2> QED
    BY <1>4, <2>1
<1>10. CASE RestartAdopts
  <2>1. /\ Reborn /\ UNCHANGED <<layout, stager, faults>> /\ OthersBegin
        /\ host # "boot" /\ restarts < Restarts /\ restarts' = restarts + 1
    BY <1>10 DEF RestartAdopts, Adopt
  <2>2. restarts' \in 0 .. Restarts /\ pc[w] = "done"
    BY <2>1, BoundsAssumption DEF ImageInv, ImageControl, GoldenTypeOK
  <2>3. /\ pc' \in [Workers -> {"list", "done"}] /\ pc'[w] = "done" /\ crossed' = {}
        /\ build' \in [Workers -> {None, "raw", "good", "bad"}]
        /\ check' \in [Workers -> Images \cup {None}] /\ stager' \subseteq Workers
    BY <2>1, <2>2 DEF OthersBegin, ImageInv, ImageControl, GoldenTypeOK
  <2> QED
    BY <2>1, <2>2, <2>3, RebornStep
<1>11. CASE RestartCold
  <2>1. /\ Reborn /\ UNCHANGED <<layout, faults>> /\ stager' \subseteq Workers
        /\ host' = "boot" /\ restarts < Restarts /\ restarts' = restarts + 1
        /\ pc' = [v \in Workers |-> "list"] /\ crossed' = {}
        /\ build' = [v \in Workers |-> None] /\ check' = [v \in Workers |-> None]
    BY <1>11 DEF RestartCold, Restart, Afresh
  <2>2. restarts' \in 0 .. Restarts
    BY <2>1, BoundsAssumption DEF ImageInv, GoldenTypeOK
  <2>3. /\ pc' \in [Workers -> {"list", "done"}]
        /\ build' \in [Workers -> {None, "raw", "good", "bad"}]
        /\ check' \in [Workers -> Images \cup {None}]
    BY <2>1
  <2> QED
    BY <2>1, <2>2, <2>3, RebornStep
<1> QED
  BY <1>1, <1>2, <1>3, <1>5, <1>6, <1>7, <1>8, <1>9, <1>10, <1>11 DEF Next, Worker

\* The images are in order from the start.
LEMMA ImageInit == Init => ImageInv
  BY WorkerAssumption, GoldenAssumption, BoundsAssumption, FS_EmptySet
     DEF Init, GoldenInit, BootInit, ImageInv, ImageControl, GoldenTypeOK, Images

\* In every reachable state the images are what the warm-ups' control points say.
LEMMA ImagesHold == Spec => []ImageInv
  BY ImageInit, ImageStep, PTL DEF Spec

\* Who may put an image under the golden's name, and who may take it away.
LEMMA GoldenMoves ==
  ASSUME ImageInv, [Next]_vars, golden' # golden, restarts' = restarts
  PROVE  \E v \in Workers :
           \/ pc[v] = "promote" /\ pc'[v] = "replace" /\ golden' = None
           \/ pc[v] = "replace" /\ pc'[v] = "drop" /\ golden' = staging /\ staging # None
<1> USE WorkerAssumption
<1>1. ASSUME NEW v \in Workers, EnsureGolden(v)
      PROVE  \/ pc[v] = "promote" /\ pc'[v] = "replace" /\ golden' = None
             \/ pc[v] = "replace" /\ pc'[v] = "drop" /\ golden' = staging /\ staging # None
  BY <1>1 DEF EnsureGolden, List, CheckCachedGolden, StageProvisionInputs, StageBase, CloneAndBoot,
     Provision, StopBuildVM, SnapshotDelete, SnapshotClone, VerifyBoot, VerifyBooted, PromoteDelete,
     PromoteClone, PromoteDrop, Go, ImageInv, GoldenTypeOK
<1>2. CASE Ensures
  BY <1>1, <1>2 DEF Ensures, Clone, RetryGolden, InstallEnds
<1>3. ASSUME NEW x \in Workers \ {w}, Rival(x)
      PROVE  \E v \in Workers :
               \/ pc[v] = "promote" /\ pc'[v] = "replace" /\ golden' = None
               \/ pc[v] = "replace" /\ pc'[v] = "drop" /\ golden' = staging /\ staging # None
  BY <1>1, <1>3 DEF Rival, Clone, InstallEnds, RivalAgain
<1>4. CASE RestartAdopts \/ RestartCold
  BY <1>4 DEF RestartAdopts, Adopt, RestartCold, Restart, ImageInv, GoldenTypeOK
<1> QED
  BY <1>2, <1>3, <1>4 DEF Next, Worker, BringsUp, Retry, Recycle, GuestRuns, AgentCrashes,
     Mint, RunJob, RunnerConnects, RunnerExits, CheckHealth, IdleExpires

\* Only an image that has passed its checks, made from the configured base, goes
\* live, for any number of workers, failures and restarts and any layouts, unless
\* another build has changed the staging image since (Build, Stage, promote).
THEOREM ProvenGoesLive == Spec => OnlyProvenGoesLive
<1>1. ASSUME ImageInv, [Next]_vars, golden' \notin {golden, None}, restarts' = restarts
      PROVE  golden' = "good" \/ CrossedStep("replace")
  <2>1. PICK v \in Workers : pc[v] = "replace" /\ pc'[v] = "drop" /\ golden' = staging /\ staging # None
    BY <1>1, GoldenMoves
  <2> QED
    BY <1>1, <2>1 DEF ImageInv, ImageControl, CrossedStep
<1>2. ImageInv /\ [Next]_vars =>
        [golden' \notin {golden, None} /\ restarts' = restarts =>
           golden' = "good" \/ CrossedStep("replace")]_goldenVars
  BY <1>1
<1> QED
  BY <1>2, ImagesHold, PTL DEF Spec, OnlyProvenGoesLive

\* The live golden goes only when its replacement is proven and on disk, for any
\* number of workers, unless another build has changed the staging image since it
\* was checked (Build, promote).
THEOREM ReplacementHolds == Spec => ReplacementReady
<1>1. ASSUME ImageInv, [Next]_vars, golden # None, golden' = None, restarts' = restarts
      PROVE  staging = "good" \/ CrossedStep("promote")
  <2>1. PICK v \in Workers : \/ pc[v] = "promote" /\ pc'[v] = "replace"
                             \/ pc[v] = "replace" /\ pc'[v] = "drop" /\ golden' = staging /\ staging # None
    BY <1>1, GoldenMoves
  <2>2. CASE pc[v] = "promote" /\ pc'[v] = "replace"
    BY <1>1, <2>2 DEF ImageInv, ImageControl, CrossedStep
  <2> QED
    BY <1>1, <2>1, <2>2
<1>2. ImageInv /\ [Next]_vars =>
        [golden # None /\ golden' = None /\ restarts' = restarts =>
           staging = "good" \/ CrossedStep("promote")]_goldenVars
  BY <1>1
<1> QED
  BY <1>2, ImagesHold, PTL DEF Spec, ReplacementReady

-----------------------------------------------------------------------------
(* The guest's token and the homes of its jobs *)

\* The agent checks the token of the file, and the broker has read that one; an
\* agent that waited for its seed serves the broker's slots, and each job has
\* the home that goes with them.
GuestControl ==
  /\ want \in Counts /\ minted \in Nat /\ home \in [Slots -> Nat \cup {None}]
  /\ agent \in {"off", "down", "await", "serve"}
  /\ misfit \in BOOLEAN /\ reminted \in BOOLEAN
  /\ host = "boot" => agent = "off"
  /\ agent \in {"await", "serve"} => tokenFile # None /\ token = tokenFile
  /\ host \in {"hello", "warm"} => tokenFile # None /\ (~reminted => cached = tokenFile)
  /\ \A s \in Slots : home[s] # None => agent = "serve"
  /\ ~misfit =>
       /\ seedFile \in {0, want}
       /\ agent = "serve" => count = want
       /\ \A s \in Slots : home[s] # None =>
            s < want /\ home[s] = IF want <= 1 THEN 0 ELSE s + 1

\* Slots and slot counts are numbers.
LEMMA CountsTyped == Slots \subseteq Nat /\ Counts \subseteq Nat \ {0} /\ 0 \notin Counts
  BY BootAssumption DEF Slots

\* A slot without a job has no name, not even the VM's.
LEMMA FreeIsNoName == Free # None /\ Free \notin Slots
  BY WorkerAssumption DEF Names

\* Another VM has no token, no seed and no jobs.
LEMMA AfreshGuest == ASSUME want' \in Counts, Afresh PROVE GuestControl'
  BY BoundsAssumption, CountsTyped DEF Afresh, GuestControl, NoJobs

\* Every step keeps token, seed and homes in order.
LEMMA GuestStep == ASSUME GuestControl, [Next]_vars PROVE GuestControl'
<1> USE BoundsAssumption, CountsTyped
<1>1. CASE UNCHANGED <<brokerVars, guestVars>>
  BY <1>1 DEF GuestControl
<1>2. CASE BringsUp
  <2>1. CASE Boot            BY <2>1 DEF Boot, GuestControl
  <2>2. CASE WaitForReady    BY <2>2 DEF WaitForReady, Step, GuestControl
  <2>3. CASE SeedSlotCount   BY <2>3 DEF SeedSlotCount, Step, GuestControl
  <2>4. CASE ReadGuestToken  BY <2>4 DEF ReadGuestToken, Step, GuestControl
  <2>5. CASE WaitForGuestHello
    BY <2>5 DEF WaitForGuestHello, Step, GuestControl
  <2> QED
    BY <1>2, <2>1, <2>2, <2>3, <2>4, <2>5 DEF BringsUp, Warm
<1>3. CASE Retry \/ CheckHealth \/ IdleExpires \/ RestartCold
  BY <1>3, AfreshGuest DEF Retry, CheckHealth, IdleExpires, RestartCold, GuestControl
<1>4. CASE GuestRuns
  <2>1. CASE AgentStarts
    <3>1. \/ tokenFile # None /\ tokenFile' = tokenFile /\ UNCHANGED <<minted, reminted>>
          \/ tokenFile = None /\ tokenFile' = minted + 1 /\ minted' = minted + 1 /\ UNCHANGED reminted
          \/ tokenFile' = minted + 1 /\ minted' = minted + 1 /\ reminted' = TRUE
      BY <2>1 DEF AgentStarts, EnsureBootToken, MintToken, Present
    <3>2. /\ agent = "down" /\ agent' = "await" /\ token' = tokenFile' /\ host # "boot"
          /\ UNCHANGED <<want, host, cached, seedFile, count, home, misfit>>
      BY <2>1 DEF AgentStarts, EnsureBootToken, MintToken, Present, GuestControl
    <3>3. minted' \in Nat /\ tokenFile' # None /\ reminted' \in BOOLEAN
          /\ (host \in {"hello", "warm"} /\ ~reminted' => cached = tokenFile')
      <4>1. minted \in Nat /\ minted + 1 \in Nat /\ minted + 1 # None /\ reminted \in BOOLEAN
        BY DEF GuestControl
      <4>2. host \in {"hello", "warm"} => tokenFile # None /\ (~reminted => cached = tokenFile)
        BY DEF GuestControl
      <4> QED
        BY <3>1, <4>1, <4>2
    <3> QED
      BY <3>2, <3>3 DEF GuestControl
  <2>2. CASE AgentServes
    BY <2>2 DEF AgentServes, AwaitSlotCount, GuestControl
  <2> QED
    BY <1>4, <2>1, <2>2 DEF GuestRuns, Agent
<1>5. CASE AgentCrashes
  BY <1>5 DEF AgentCrashes, AgentDies, NoJobs, GuestControl
<1>6. ASSUME NEW s \in Slots, RunJob(s) PROVE GuestControl'
  <2>1. CASE Dispatch(s)
    BY <2>1 DEF Dispatch, Authorized, HomeOf, GuestControl
  <2> QED
    BY <1>1, <1>6, <2>1 DEF RunJob
<1>7. ASSUME NEW s \in Slots, RunnerExits(s) PROVE GuestControl'
  BY <1>7 DEF RunnerExits, JobEnds, GuestControl
<1>8. CASE RestartAdopts
  BY <1>8 DEF RestartAdopts, Adopt, GuestControl
<1>9. CASE Ensures \/ \E x \in Workers \ {w} : Rival(x)
  BY <1>1, <1>9 DEF Ensures, Rival
<1>10. ASSUME NEW s \in Slots, Mint(s) \/ RunnerConnects(s) PROVE GuestControl'
  BY <1>1, <1>10 DEF Mint, RunnerConnects
<1> QED
  BY <1>1, <1>2, <1>3, <1>4, <1>5, <1>6, <1>7, <1>8, <1>9, <1>10 DEF Next, Worker

\* In every reachable state token, seed and homes are in order.
LEMMA GuestHolds == Spec => []GuestControl
<1>1. Init => GuestControl
  <2> SUFFICES ASSUME BootInit PROVE GuestControl
    BY DEF Init
  <2> QED
    BY BoundsAssumption, CountsTyped DEF BootInit, NoJobs, GuestControl
<1> QED
  BY <1>1, GuestStep, PTL DEF Spec

\* A warm VM's agent accepts the broker's token, over any number of deaths of
\* the agent and restarts of the broker (EnsureBootToken, resolveGuest).
THEOREM TokenHolds == Spec => []TokenAccepted
<1>1. GuestControl => TokenAccepted
  BY DEF GuestControl, TokenAccepted
<1> QED
  BY <1>1, GuestHolds, PTL

\* Jobs that run at the same time never share a home, for any slot counts, unless
\* the agent served without its seed or the VM was adopted under another
\* jobs_per_vm (AwaitSlotCount, runnerEnv).
THEOREM HomesHold == Spec => []HomesApart
<1>1. ASSUME GuestControl, NEW s \in Slots, NEW t \in Slots, s # t,
             home[s] # None, home[t] # None, ~misfit
      PROVE  home[s] # home[t]
  BY <1>1, CountsTyped DEF GuestControl
<1>2. GuestControl => HomesApart
  BY <1>1 DEF HomesApart
<1> QED
  BY <1>2, GuestHolds, PTL

-----------------------------------------------------------------------------
(* Runner registrations *)

\* A slot has registered its own name, or the VM's when it is the only slot;
\* GitHub knows the name until the job ends, unless a restart cut it off.
RunnerControl ==
  /\ reg \in [Names -> {"none", "offline", "online"}]
  /\ runner \in [Slots -> Names \cup {Free}]
  /\ \A s \in Slots :
       /\ runner[s] \in {Free, s, None} /\ (runner[s] = None => s = 0)
       /\ home[s] # None => runner[s] # Free
       /\ s \in cut => home[s] # None
       /\ runner[s] # Free /\ s \notin cut => reg[runner[s]] # "none"

\* Two slots never have registered one name.
LEMMA NamesDistinct ==
  ASSUME RunnerControl, NEW s \in Slots, NEW t \in Slots, runner[s] # Free, runner[s] = runner[t]
  PROVE  s = t
  BY BoundsAssumption, CountsTyped DEF RunnerControl

\* Another VM has no runners.
LEMMA FreshRunners == ASSUME NoRunners, home' = NoJobs PROVE RunnerControl'
  BY WorkerAssumption DEF NoRunners, NoJobs, RunnerControl, Names

\* Every step keeps the registrations of jobs that run.
LEMMA RunnerStep == ASSUME GuestControl, RunnerControl, [Next]_vars PROVE RunnerControl'
<1> USE BoundsAssumption, WorkerAssumption, CountsTyped, FreeIsNoName
<1>1. CASE UNCHANGED <<home, jobVars>>
  BY <1>1 DEF RunnerControl
<1>2. CASE Ensures \/ BringsUp \/ GuestRuns \/ \E x \in Workers \ {w} : Rival(x)
  <2>1. CASE BringsUp
    BY <1>1, <2>1 DEF BringsUp, Warm, Boot, WaitForReady, SeedSlotCount, ReadGuestToken,
                      WaitForGuestHello
  <2> QED
    BY <1>1, <1>2, <2>1 DEF Ensures, Rival, GuestRuns, Agent, AgentStarts, AgentServes
<1>3. CASE Retry \/ CheckHealth \/ IdleExpires \/ RestartCold
  BY <1>3, FreshRunners DEF Retry, CheckHealth, IdleExpires, RestartCold, Afresh
<1>4. CASE AgentCrashes
  <2>1. /\ home' = NoJobs /\ cut' = {}
        /\ reg' = [n \in Names |-> IF reg[n] = "online" THEN "offline" ELSE reg[n]]
        /\ runner' = [s \in Slots |-> IF home[s] = None THEN runner[s] ELSE Free]
    BY <1>4 DEF AgentCrashes, AgentDies
  <2>2. \A s \in Slots : home'[s] = None
    BY <2>1 DEF NoJobs
  <2>3. reg' \in [Names -> {"none", "offline", "online"}] /\ runner' \in [Slots -> Names \cup {Free}]
    BY <2>1 DEF RunnerControl
  <2>4. ASSUME NEW s \in Slots, runner'[s] # Free
        PROVE  s \notin cut /\ runner'[s] = runner[s] /\ reg'[runner[s]] # "none"
    BY <2>1, <2>4 DEF RunnerControl
  <2>5. \A s \in Slots : runner'[s] \in {Free, s, None} /\ (runner'[s] = None => s = 0)
    BY <2>1 DEF RunnerControl
  <2> QED
    BY <2>1, <2>2, <2>3, <2>4, <2>5 DEF RunnerControl
<1>5. ASSUME NEW s \in Slots, Mint(s) PROVE RunnerControl'
  <2>1. /\ s < want /\ runner[s] = Free /\ reg[NameOf(s)] = "none"
        /\ reg' = [reg EXCEPT ![NameOf(s)] = "offline"]
        /\ runner' = [runner EXCEPT ![s] = NameOf(s)]
        /\ UNCHANGED <<home, cut>>
    BY <1>5 DEF Mint, GenerateJITConfig
  <2>2. NameOf(s) \in Names /\ NameOf(s) \in {s, None} /\ (NameOf(s) = None => s = 0)
    BY <2>1 DEF NameOf, Names, GuestControl
  <2> QED
    BY <2>1, <2>2 DEF RunnerControl
<1>6. ASSUME NEW s \in Slots, RunJob(s) PROVE RunnerControl'
  <2>1. CASE Dispatch(s) /\ UNCHANGED jobVars
    BY <1>6, <2>1 DEF RunJob, Dispatch, HomeOf, RunnerControl, GuestControl
  <2>2. CASE runner' = [runner EXCEPT ![s] = Free] /\ UNCHANGED <<guestVars, reg, cut>>
    <3>1. home[s] = None
      BY <1>6 DEF RunJob
    <3> QED
      BY <2>2, <3>1 DEF RunnerControl
  <2> QED
    BY <1>6, <2>1, <2>2 DEF RunJob
<1>7. ASSUME NEW s \in Slots, RunnerConnects(s) PROVE RunnerControl'
  BY <1>7 DEF RunnerConnects, RunnerControl
<1>8. ASSUME NEW s \in Slots, RunnerExits(s) PROVE RunnerControl'
  <2>1. /\ home[s] # None /\ home' = [home EXCEPT ![s] = None]
        /\ reg' = [reg EXCEPT ![runner[s]] = IF @ = "online" THEN "none" ELSE @]
        /\ runner' = [runner EXCEPT ![s] = Free] /\ cut' = cut \ {s}
    BY <1>8 DEF RunnerExits, JobEnds
  <2>2. \A t \in Slots \ {s} : runner[t] # Free => runner[t] # runner[s]
    BY NamesDistinct
  <2>3. runner[s] \in Names
    BY <2>1 DEF RunnerControl
  <2>4. reg' \in [Names -> {"none", "offline", "online"}] /\ runner' \in [Slots -> Names \cup {Free}]
    BY <2>1, <2>3 DEF RunnerControl
  <2>5. ASSUME NEW t \in Slots \ {s}
        PROVE  /\ home'[t] = home[t] /\ runner'[t] = runner[t] /\ (t \in cut' <=> t \in cut)
               /\ runner[t] # Free => reg'[runner[t]] = reg[runner[t]]
    BY <2>1, <2>2, <2>3 DEF RunnerControl, GuestControl
  <2>6. home'[s] = None /\ runner'[s] = Free /\ s \notin cut'
    BY <2>1 DEF RunnerControl, GuestControl
  <2> QED
    BY <2>4, <2>5, <2>6 DEF RunnerControl
<1>9. CASE RestartAdopts
  <2>1. PICK gone \in {Stale, {}} : DeleteStaleRunners(gone)
    BY <1>9 DEF RestartAdopts
  <2>2. UNCHANGED home
    BY <1>9 DEF RestartAdopts, Adopt
  <2>3. /\ reg' = [n \in Names |-> IF n \in gone THEN "none" ELSE reg[n]]
        /\ runner' = [s \in Slots |-> IF home[s] = None THEN Free ELSE runner[s]]
        /\ cut' = cut \cup {s \in Slots : home[s] # None /\ runner[s] \in gone
                                          /\ reg[runner[s]] = "offline"}
    BY <2>1 DEF DeleteStaleRunners, DeleteRunners
  <2>4. \A n \in gone : n \in Names /\ reg[n] = "offline"
    BY <2>1 DEF Stale, ListRunners
  <2>5. reg' \in [Names -> {"none", "offline", "online"}] /\ runner' \in [Slots -> Names \cup {Free}]
    BY <2>3 DEF RunnerControl
  <2>6. ASSUME NEW s \in Slots, runner'[s] # Free, s \notin cut'
        PROVE  reg'[runner'[s]] # "none"
    <3>1. runner'[s] = runner[s] /\ home[s] # None /\ s \notin cut /\ runner[s] \in Names
      BY <2>3, <2>6 DEF RunnerControl
    <3>2. runner[s] \notin gone
      BY <2>3, <2>4, <2>6, <3>1
    <3> QED
      BY <2>3, <3>1, <3>2 DEF RunnerControl
  <2>7. ASSUME NEW s \in Slots
        PROVE  /\ runner'[s] \in {Free, s, None} /\ (runner'[s] = None => s = 0)
               /\ home'[s] # None => runner'[s] # Free
               /\ s \in cut' => home'[s] # None
    BY <2>2, <2>3 DEF RunnerControl
  <2> QED
    BY <2>5, <2>6, <2>7 DEF RunnerControl
<1> QED
  BY <1>1, <1>2, <1>3, <1>4, <1>5, <1>6, <1>7, <1>8, <1>9 DEF Next, Worker

\* A job's runner stays registered while the job runs, over any number of
\* restarts of the broker that found it connected (deleteStaleRunners).
THEOREM RunnersHold == Spec => []RunnerKept
<1>1. Init => RunnerControl
  BY BoundsAssumption, WorkerAssumption DEF Init, BootInit, NoJobs, RunnerControl, Names
<1>2. GuestControl /\ RunnerControl /\ [Next]_vars => RunnerControl'
  BY RunnerStep
<1>3. RunnerControl => RunnerKept
  BY DEF RunnerControl, RunnerKept
<1> QED
  BY <1>1, <1>2, <1>3, GuestHolds, PTL DEF Spec
=============================================================================
