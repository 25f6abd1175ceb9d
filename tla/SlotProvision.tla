---------------------------- MODULE SlotProvision ----------------------------
(***************************************************************************)
(* runnerExecutor.Build (internal/guestagent/runner.go): what a RunJob     *)
(* does to its slot before it forks the runner.  The Homebrew index is     *)
(* refreshed once per boot, the slot is provisioned once per agent, its    *)
(* keychain is set up for every job.  Builds of different slots run        *)
(* concurrently; the handler's slot lock makes those of one slot follow    *)
(* each other, and a build fails when a command fails or its RunJob call   *)
(* is cancelled.  The slots of an agent that has several get a HOME each.  *)
(***************************************************************************)
EXTENDS Naturals, Sequences, FiniteSets

CONSTANTS
  Slots,      \* slots an agent may have
  Caches,     \* how many of the warmCachePaths the real home has
  Occupants,  \* what the boot may find at the marker's path
  Attempts,   \* brewRefreshMaxAttempts
  Faults,     \* bound: commands that fail
  Deaths,     \* bound: the agent dies and is started again
  Own, Other  \* the slot's keychain; another one

ASSUME ProvisionAssumption ==
  /\ IsFiniteSet(Slots) /\ Caches \in Nat
  /\ Occupants \subseteq {"absent", "baked", "link", "stuck"}
  /\ Attempts \in Nat \ {0} /\ Faults \in Nat /\ Deaths \in Nat
  /\ Own # Other

VARIABLES
  served,      \* the agent's slots
  marker,      \* the boot refresh marker's path
  cleared,     \* clearMarkerOnce has run
  refreshed,   \* history: an update of this boot succeeded
  provisioned, \* provisionedSlots
  runnerDir,   \* the slot's runner directory
  tmpDir,      \* the slot's TMPDIR
  slotHome,    \* 0: no slot HOME; n + 1: it exists, with n caches seeded
  half,        \* history: slots whose HOME was left half seeded
  keychains,   \* the slot's keychain search list
  pc,          \* control point of the slot's Build
  attempt,     \* its update attempt
  faults, deaths

brewVars == <<marker, cleared, refreshed, attempt>>
dirVars  == <<provisioned, runnerDir, tmpDir, slotHome, half>>
vars == <<served, brewVars, dirVars, keychains, pc, faults, deaths>>

SingleSlot == Cardinality(served) <= 1

Go(s, to) == pc' = [pc EXCEPT ![s] = to]
Fault == faults < Faults /\ faults' = faults + 1

\* A step of provisioning succeeds, or its command fails and so does the build.
Then(s, to) == Go(s, to) /\ UNCHANGED faults
Aborts(s)   == Go(s, "failed") /\ Fault

-----------------------------------------------------------------------------
(* The Homebrew index *)

\* clearStaleMarker: the first build of this agent removes whatever is there.
ClearStaleMarker ==
  \/ cleared /\ UNCHANGED <<marker, cleared>>
  \/ /\ ~cleared
     /\ cleared' = TRUE
     /\ marker' = IF marker = "stuck" THEN marker ELSE "absent"

Begin(s) ==
  /\ pc[s] = "idle" /\ s \in served
  /\ ClearStaleMarker
  /\ Go(s, "marker")
  /\ attempt' = [attempt EXCEPT ![s] = 1]
  /\ UNCHANGED <<served, refreshed, dirVars, keychains, faults, deaths>>

\* markerPresent: only a regular file counts.
MarkerPresent == marker \in {"baked", "stuck", "written"}

\* ensureHomebrewRefreshed; without brew on the path there is nothing to do.
EnsureHomebrewRefreshed(s) ==
  /\ pc[s] = "marker"
  /\ \/ MarkerPresent /\ Go(s, "provision")
     \/ ~MarkerPresent /\ Go(s, "update")
     \/ ~MarkerPresent /\ Go(s, "provision")
  /\ UNCHANGED <<served, brewVars, dirVars, keychains, faults, deaths>>

\* writeBootRefreshMarker: O_EXCL refuses a path that exists.
WriteBootRefreshMarker == marker' = IF marker = "absent" THEN "written" ELSE marker

Updated(s) ==
  /\ refreshed' = TRUE
  /\ WriteBootRefreshMarker
  /\ Go(s, "provision")
  /\ UNCHANGED attempt

\* Mutant: the attempts start over.
RetryForever(s) ==
  /\ pc[s] = "update"
  /\ \/ Updated(s)
     \/ /\ attempt' = [attempt EXCEPT ![s] = (@ % Attempts) + 1]
        /\ UNCHANGED <<marker, refreshed, pc>>
  /\ UNCHANGED <<served, cleared, dirVars, keychains, faults, deaths>>

\* Mutant: the marker is written whatever the update returned.
MarkerAnyway(s) ==
  /\ pc[s] = "update"
  /\ WriteBootRefreshMarker /\ Go(s, "provision")
  /\ UNCHANGED <<served, cleared, refreshed, attempt, dirVars, keychains, faults, deaths>>

\* refreshHomebrewIndex: brew update succeeds, fails, or finds Homebrew locked
\* by the update of another slot or of a job, and then tries again.
RefreshHomebrewIndex(s) ==
  /\ pc[s] = "update"
  /\ \/ Updated(s)
     \/ Go(s, "provision") /\ UNCHANGED <<marker, refreshed, attempt>>
     \/ /\ attempt[s] < Attempts
        /\ attempt' = [attempt EXCEPT ![s] = @ + 1]
        /\ UNCHANGED <<marker, refreshed, pc>>
  /\ UNCHANGED <<served, cleared, dirVars, keychains, faults, deaths>>

-----------------------------------------------------------------------------
(* The slot's directories *)

EnsureSlotProvisioned(s) ==
  /\ pc[s] = "provision"
  /\ \/ provisioned[s] /\ Go(s, "keychain")
     \/ ~provisioned[s] /\ Go(s, "remove")
  /\ UNCHANGED <<served, brewVars, dirVars, keychains, faults, deaths>>

\* Mutant: a retry builds on what the failed attempt has left.
KeepDirs(s) ==
  /\ pc[s] = "remove"
  /\ Then(s, "clone")
  /\ UNCHANGED <<served, brewVars, dirVars, keychains, deaths>>

\* provisionSlot removes the runner directory and TMPDIR; a removal that fails
\* has removed something.
RemoveDirs(s) ==
  /\ pc[s] = "remove"
  /\ \/ /\ Then(s, "clone")
        /\ runnerDir' = [runnerDir EXCEPT ![s] = "absent"]
        /\ tmpDir' = [tmpDir EXCEPT ![s] = "absent"]
     \/ /\ Aborts(s)
        /\ \/ runnerDir' = [runnerDir EXCEPT ![s] = IF @ = "absent" THEN @ ELSE "partial"]
           \/ runnerDir' = [runnerDir EXCEPT ![s] = "absent"]
        /\ UNCHANGED tmpDir
  /\ UNCHANGED <<served, brewVars, provisioned, slotHome, half, keychains, deaths>>

\* ... and clones the golden's runner; a clone onto what is there nests it.
CloneRunner(s) ==
  /\ pc[s] = "clone"
  /\ \/ /\ Then(s, "tmp")
        /\ runnerDir' = [runnerDir EXCEPT ![s] = IF @ = "absent" THEN "whole" ELSE "partial"]
     \/ Aborts(s) /\ runnerDir' = [runnerDir EXCEPT ![s] = "partial"]
  /\ UNCHANGED <<served, brewVars, provisioned, tmpDir, slotHome, half, keychains, deaths>>

AfterTmp == IF SingleSlot THEN "record" ELSE "home"

MakeTmpDir(s) ==
  /\ pc[s] = "tmp"
  /\ \/ Then(s, AfterTmp) /\ tmpDir' = [tmpDir EXCEPT ![s] = "fresh"]
     \/ Aborts(s) /\ UNCHANGED tmpDir
  /\ UNCHANGED <<served, brewVars, provisioned, runnerDir, slotHome, half, keychains, deaths>>

\* A HOME that exists is not seeded; otherwise it is made first.
StatSlotHome(s) ==
  /\ pc[s] = "home"
  /\ \/ slotHome[s] > 0 /\ Then(s, "record") /\ UNCHANGED slotHome
     \/ slotHome[s] = 0 /\ Then(s, "seed") /\ slotHome' = [slotHome EXCEPT ![s] = 1]
     \/ Aborts(s) /\ UNCHANGED slotHome
  /\ UNCHANGED <<served, brewVars, provisioned, runnerDir, tmpDir, half, keychains, deaths>>

\* seedSlotHome, one cache at a time: the clone works, or the copy it falls
\* back to does, or the build fails half way.
SeedSlotHome(s) ==
  /\ pc[s] = "seed"
  /\ \/ slotHome[s] = Caches + 1 /\ Then(s, "record") /\ UNCHANGED <<slotHome, half>>
     \/ /\ slotHome[s] <= Caches /\ Then(s, "seed")
        /\ slotHome' = [slotHome EXCEPT ![s] = @ + 1] /\ UNCHANGED half
     \/ /\ slotHome[s] <= Caches /\ Aborts(s)
        /\ half' = half \cup {s} /\ UNCHANGED slotHome
  /\ UNCHANGED <<served, brewVars, provisioned, runnerDir, tmpDir, keychains, deaths>>

\* The slot is recorded only after all of that.
RecordSlot(s) ==
  /\ pc[s] = "record"
  /\ provisioned' = [provisioned EXCEPT ![s] = TRUE]
  /\ Go(s, "keychain")
  /\ UNCHANGED <<served, brewVars, runnerDir, tmpDir, slotHome, half, keychains, faults, deaths>>

-----------------------------------------------------------------------------
(* The slot's keychain *)

\* userKeychains: the list in its order, without the slot's keychain.
UserKeychains(list) ==
  LET kept[n \in 0 .. Len(list)] ==
        IF n = 0 THEN <<>>
        ELSE IF list[n] = Own THEN kept[n - 1] ELSE Append(kept[n - 1], list[n])
  IN kept[Len(list)]

\* The slot's keychain is put in front.
SearchList(list) == <<Own>> \o UserKeychains(list)

\* setupSlotKeychain, best effort: a failure leaves the search list as it was
\* or as it should be, and the build goes on.
SetupSlotKeychain(s) ==
  /\ pc[s] = "keychain"
  /\ \/ ~SingleSlot /\ keychains' = [keychains EXCEPT ![s] = SearchList(@)] /\ Then(s, "built")
     \/ ~SingleSlot /\ UNCHANGED keychains /\ Go(s, "unsigned") /\ Fault
     \/ SingleSlot /\ UNCHANGED keychains /\ Then(s, "built")
  /\ UNCHANGED <<served, brewVars, dirVars, deaths>>

\* The job runs; its signing action may set a search list of its own.
JobRuns(s) ==
  /\ pc[s] \in {"built", "unsigned"}
  /\ Go(s, "idle")
  /\ \/ UNCHANGED keychains
     \/ keychains' = [keychains EXCEPT ![s] = <<Other, Own>>]
  /\ UNCHANGED <<served, brewVars, dirVars, faults, deaths>>

\* A later RunJob on the slot.
Again(s) ==
  /\ pc[s] = "failed"
  /\ Go(s, "idle")
  /\ UNCHANGED <<served, brewVars, dirVars, keychains, faults, deaths>>

\* The agent is started again in the same boot: its memory is gone.
AgentDies ==
  /\ deaths < Deaths
  /\ deaths' = deaths + 1
  /\ cleared' = FALSE
  /\ provisioned' = [s \in Slots |-> FALSE]
  /\ runnerDir' = [s \in Slots |-> IF pc[s] = "clone" THEN "partial" ELSE runnerDir[s]]
  /\ pc' = [s \in Slots |-> "idle"]
  /\ half' = half \cup {s \in Slots : pc[s] = "seed" /\ slotHome[s] <= Caches}
  /\ UNCHANGED <<served, marker, refreshed, attempt, tmpDir, slotHome, keychains, faults>>

-----------------------------------------------------------------------------
Init ==
  /\ served \in SUBSET Slots \ {{}}
  /\ marker \in Occupants /\ cleared = FALSE /\ refreshed = FALSE
  /\ attempt = [s \in Slots |-> 1]
  /\ provisioned = [s \in Slots |-> FALSE]
  /\ runnerDir = [s \in Slots |-> "absent"] /\ tmpDir = [s \in Slots |-> "absent"]
  /\ slotHome = [s \in Slots |-> 0] /\ half = {}
  /\ keychains = [s \in Slots |-> <<Other>>]
  /\ pc = [s \in Slots |-> "idle"]
  /\ faults = 0 /\ deaths = 0

ProvisionSlot(s) ==
  RemoveDirs(s) \/ CloneRunner(s) \/ MakeTmpDir(s) \/ StatSlotHome(s) \/ SeedSlotHome(s)

Build(s) ==
  \/ EnsureHomebrewRefreshed(s) \/ RefreshHomebrewIndex(s)
  \/ EnsureSlotProvisioned(s) \/ ProvisionSlot(s) \/ RecordSlot(s) \/ SetupSlotKeychain(s)

Next ==
  \/ \E s \in Slots : Begin(s) \/ Build(s) \/ JobRuns(s) \/ Again(s)
  \/ AgentDies

Spec == Init /\ [][Next]_vars

\* A build that has begun goes on: every command returns.
FairSpec == Spec /\ \A s \in Slots : WF_vars(Build(s))

-----------------------------------------------------------------------------
(* Properties *)

Returned == {"built", "unsigned"}

\* Types of the marker, the directories and the builds.
TypeOK ==
  /\ served \subseteq Slots /\ served # {}
  /\ marker \in {"absent", "baked", "link", "stuck", "written"}
  /\ cleared \in BOOLEAN /\ refreshed \in BOOLEAN
  /\ attempt \in [Slots -> 1 .. Attempts]
  /\ provisioned \in [Slots -> BOOLEAN]
  /\ runnerDir \in [Slots -> {"absent", "partial", "whole"}]
  /\ tmpDir \in [Slots -> {"absent", "fresh"}]
  /\ slotHome \in [Slots -> 0 .. Caches + 1] /\ half \subseteq Slots
  /\ keychains \in [Slots -> Seq({Own, Other})]
  /\ pc \in [Slots -> {"idle", "marker", "update", "provision", "remove", "clone", "tmp", "home",
                       "seed", "record", "keychain", "built", "unsigned", "failed"}]
  /\ faults \in 0 .. Faults /\ deaths \in 0 .. Deaths

\* A build that returns has a whole runner directory, a TMPDIR and a HOME with
\* every cache in it, and, unless signing could not be set up, a search list with
\* the slot's own keychain in front, once, and the others behind it, however many
\* attempts, agents and earlier jobs it took. The one HOME that falls short is one
\* whose seeding was broken off, which the next attempt takes for complete
\* (provisionSlot, seedSlotHome, setupSlotKeychain).
LaunchesOnWholeSlot ==
  \A s \in Slots : pc[s] \in Returned =>
    /\ runnerDir[s] = "whole" /\ tmpDir[s] = "fresh"
    /\ SingleSlot \/ slotHome[s] = Caches + 1 \/ s \in half
    /\ pc[s] = "built" /\ ~SingleSlot => keychains[s] = <<Own, Other>>

\* A refresh is skipped on account of the marker only if an update of this boot
\* succeeded, unless the marker cannot be removed (ensureHomebrewRefreshed).
SkipMeansRefreshed ==
  \A s \in Slots : pc[s] = "marker" /\ MarkerPresent => refreshed \/ marker = "stuck"

\* A build ends: a locked Homebrew cannot hold a job back for ever
\* (refreshHomebrewIndex).
BuildEnds == \A s \in Slots : pc[s] = "marker" ~> pc[s] \in Returned \cup {"failed", "idle"}
=============================================================================
