---------------------------- MODULE ConfigReload ----------------------------
(***************************************************************************)
(* The daemon's configuration (cmd serve, cmd reload): read at the start,  *)
(* then watched.  A poll stats the file, and once two polls in a row have  *)
(* seen the same new modification time it loads the file and applies it to *)
(* the binder, the pool, the server and the sampler one after the other.   *)
(* An editor writes the file at any moment, between stat and load too, and *)
(* every write has a modification time of its own.                         *)
(***************************************************************************)
EXTENDS Naturals

CONSTANTS
  Images,  \* values of tart.base_image
  Sizes,   \* values of jobs_per_vm
  Broken,  \* a file that does not load: torn, or invalid
  Writes,  \* bound: writes of the file
  Faults   \* bound: calls that fail: stat, load, the reading of a secret

Configs == [image : Images, size : Sizes]

ASSUME ReloadAssumption ==
  /\ Broken \notin Configs
  /\ Writes \in Nat /\ Faults \in Nat

VARIABLES
  file,     \* contents of the config file
  mtime,    \* its modification time; 0 is the time of nothing
  pc,       \* control point of serveDaemon, later of poll
  seen,     \* modTime in poll; initialConfigModTime before
  cfg,      \* the configuration loaded
  applied,  \* appliedModTime, 0 while not initialized
  pending,  \* pendingModTime, 0 without one
  binder,   \* the binder's configuration
  pool,     \* the pool's options: image and size
  server,   \* the server's configuration
  sampler,  \* the sampler's options come from this configuration
  glitched, \* history: the first stat failed, or the load of a good file
  faults

live    == <<binder, pool, server, sampler>>
watcher == <<applied, pending>>
vars == <<file, mtime, pc, seen, cfg, watcher, live, glitched, faults>>

Fault == faults < Faults /\ faults' = faults + 1

-----------------------------------------------------------------------------
\* The editor saves a file, good or bad.
Write(c) ==
  /\ mtime <= Writes
  /\ c # file
  /\ file' = c /\ mtime' = mtime + 1
  /\ UNCHANGED <<pc, seen, cfg, watcher, live, glitched, faults>>

-----------------------------------------------------------------------------
(* serveDaemon *)

\* configInitialModTime; a stat that fails leaves it to the first poll.
InitialModTime ==
  /\ pc = "start"
  /\ pc' = "read"
  /\ \/ seen' = mtime /\ UNCHANGED faults
     \/ seen' = 0 /\ Fault
  /\ glitched' = (glitched \/ seen' = 0)
  /\ UNCHANGED <<file, mtime, cfg, watcher, live>>

\* loadDeps, then the components are made from what it returned.
LoadDeps ==
  /\ pc = "read" /\ file # Broken
  /\ pc' = "idle"
  /\ cfg' = file /\ binder' = file /\ pool' = file /\ server' = file /\ sampler' = file
  /\ applied' = seen /\ pending' = 0
  /\ UNCHANGED <<file, mtime, seen, glitched, faults>>

\* The daemon exits; launchd starts it again.
StartFails ==
  /\ pc = "read"
  /\ pc' = "start"
  /\ \/ file = Broken /\ UNCHANGED faults
     \/ Fault
  /\ UNCHANGED <<file, mtime, seen, cfg, watcher, live, glitched>>

-----------------------------------------------------------------------------
(* poll *)

\* What poll makes of the modification time: the first one is taken as
\* applied, an applied one ends what was pending, a new one becomes pending,
\* and the pending one is loaded.
Judge ==
  \/ /\ applied = 0
     /\ applied' = mtime /\ pending' = 0 /\ pc' = "idle"
  \/ /\ applied # 0 /\ mtime = applied
     /\ pending' = 0 /\ pc' = "idle"
     /\ UNCHANGED applied
  \/ /\ applied # 0 /\ mtime # applied /\ pending # mtime
     /\ pending' = mtime /\ pc' = "idle"
     /\ UNCHANGED applied
  \/ /\ applied # 0 /\ mtime # applied /\ pending = mtime
     /\ pc' = "load"
     /\ UNCHANGED watcher

Stat ==
  /\ pc = "idle"
  /\ \/ Judge /\ seen' = mtime /\ UNCHANGED faults
     \/ Fault /\ UNCHANGED <<pc, seen, watcher>>
  /\ UNCHANGED <<file, mtime, cfg, live, glitched>>

\* A file that does not load counts as applied.
GiveUp == pc' = "idle" /\ applied' = seen /\ pending' = 0

\* config.Load: whatever is in the file by now.
Load ==
  /\ pc = "load"
  /\ \/ file # Broken /\ pc' = "secrets" /\ cfg' = file /\ UNCHANGED <<watcher, glitched, faults>>
     \/ file = Broken /\ GiveUp /\ UNCHANGED <<cfg, glitched, faults>>
     \/ file # Broken /\ GiveUp /\ Fault /\ glitched' = TRUE /\ UNCHANGED cfg
  /\ UNCHANGED <<file, mtime, seen, live>>

\* Mutant: the binder gets its configuration before the secrets are read.
BinderFirst ==
  /\ pc = "secrets"
  /\ binder' = cfg
  /\ \/ pc' = "binder" /\ UNCHANGED faults
     \/ pc' = "idle" /\ Fault
  /\ UNCHANGED <<file, mtime, seen, cfg, watcher, pool, server, sampler, glitched>>

\* applyReloadedConfig reads the secrets first.  If one cannot be read the
\* modification time stays pending, and the next poll loads again.
ReadSecrets ==
  /\ pc = "secrets"
  /\ \/ pc' = "binder" /\ UNCHANGED faults
     \/ pc' = "idle" /\ Fault
  /\ UNCHANGED <<file, mtime, seen, cfg, watcher, live, glitched>>

ReconfigureBinder ==
  /\ pc = "binder"
  /\ pc' = "pool" /\ binder' = cfg
  /\ UNCHANGED <<file, mtime, seen, cfg, watcher, pool, server, sampler, glitched, faults>>

\* Pool.Reconfigure keeps its image.
ReconfigurePool ==
  /\ pc = "pool"
  /\ pc' = "server" /\ pool' = [image |-> pool.image, size |-> cfg.size]
  /\ UNCHANGED <<file, mtime, seen, cfg, watcher, binder, server, sampler, glitched, faults>>

\* handleCapacity turns down every image but the one the server knows.
Offers(image) == image = server.image

ReconfigureServer ==
  /\ pc = "server"
  /\ pc' = "sampler" /\ server' = cfg
  /\ UNCHANGED <<file, mtime, seen, cfg, watcher, binder, pool, sampler, glitched, faults>>

\* The modification time seen before the load is the one that is applied.
TakeSeen == applied' = seen

ReconfigureSampler ==
  /\ pc = "sampler"
  /\ pc' = "idle" /\ sampler' = cfg
  /\ TakeSeen /\ pending' = 0
  /\ UNCHANGED <<file, mtime, seen, cfg, binder, pool, server, glitched, faults>>

-----------------------------------------------------------------------------
Init ==
  /\ file \in Configs /\ mtime = 1
  /\ pc = "start" /\ seen = 0 /\ applied = 0 /\ pending = 0
  /\ cfg = file /\ binder = file /\ pool = file /\ server = file /\ sampler = file
  /\ glitched = FALSE
  /\ faults = 0

Serve == InitialModTime \/ LoadDeps \/ StartFails

Poll ==
  \/ Stat \/ Load \/ ReadSecrets
  \/ ReconfigureBinder \/ ReconfigurePool \/ ReconfigureServer \/ ReconfigureSampler

Next == (\E c \in Configs \cup {Broken} : Write(c)) \/ Serve \/ Poll

Spec == Init /\ [][Next]_vars

-----------------------------------------------------------------------------
(* Properties *)

\* Types of the file, the watcher and the live configurations.
TypeOK ==
  /\ file \in Configs \cup {Broken} /\ mtime \in 1 .. Writes + 1
  /\ pc \in {"start", "read", "idle", "load", "secrets", "binder", "pool", "server", "sampler"}
  /\ seen \in 0 .. mtime /\ applied \in 0 .. mtime /\ pending \in 0 .. mtime
  /\ {cfg, binder, pool, server, sampler} \subseteq Configs
  /\ glitched \in BOOLEAN
  /\ faults \in 0 .. Faults

\* Between two polls server and sampler work with the binder's configuration and
\* the pool with its size, whatever failed on the way (applyReloadedConfig). The
\* pool's image is another matter: CapacityTellsImage.
ComponentsAgree ==
  pc = "idle" => server = binder /\ sampler = binder /\ pool.size = binder.size

\* What /capacity offers, and so what jobs are sent here for, is the image the
\* machines of the pool are made from (handleCapacity, server.go:379).
CapacityTellsImage ==
  pc = "idle" => \A image \in Images : Offers(image) => image = pool.image
=============================================================================
