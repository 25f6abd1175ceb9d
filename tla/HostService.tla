---------------------------- MODULE HostService ----------------------------
(***************************************************************************)
(* The daemon as a service of its host (cmd serve, deploy, install and     *)
(* update; packages install and deploy).  launchd keeps the job's process  *)
(* running and starts it from whatever binary is on disk.  The daemon's    *)
(* update scheduler replaces that binary and stops its own process, and    *)
(* the operator's commands replace it or restart, install and remove the   *)
(* job by way of launchctl.  Inside the process runs the configuration     *)
(* watcher of ConfigReload, which starts anew with every process.          *)
(*                                                                         *)
(* The host has been installed once: its secrets, its webhook ranges and   *)
(* its configuration file exist.                                           *)
(***************************************************************************)
EXTENDS ConfigReload

CONSTANTS
  Releases, \* bound: versions published
  Commands  \* bound: commands of the operator

ASSUME HostAssumption ==
  Releases \in Nat \ {0} /\ Commands \in Nat

VARIABLES
  release, \* the latest version published
  disk,    \* version of the installed binary
  job,     \* launchd's job: "in", "leaving" (booted out, still has a process), "out"
  plist,   \* the plist is there
  proc,    \* serveDaemon: "none", "up", "http" and "pool" while it shuts down
  runs,    \* version of the process
  deaf,    \* stop() has been called: SIGTERM has its default action again
  upd,     \* the scheduler has applied an update, and is about to stop
  cli,     \* control point of the operator's command
  said,    \* the version a command says it has restarted the service with, or 0
  told,    \* a command failed once the service may have been down
  commands

host    == <<release, disk, job, plist>>
process == <<proc, runs, deaf, upd>>
command == <<cli, said, told, commands>>
reload  == vars
hostVars == <<host, process, command, reload>>

\* signal.NotifyContext: after the listener is bound, before the loops.
Notified == pc \notin {"start", "read"}
Serving  == proc = "up" /\ Notified

-----------------------------------------------------------------------------
(* launchd and the releases *)

Publish ==
  /\ release < Releases
  /\ release' = release + 1
  /\ UNCHANGED <<disk, job, plist, process, command, reload>>

\* RunAtLoad and KeepAlive: a process of the job, with a watcher of its own.
Launch ==
  /\ job = "in" /\ proc = "none"
  /\ proc' = "up" /\ runs' = disk /\ deaf' = FALSE /\ upd' = FALSE
  /\ pc' = "start" /\ seen' = 0 /\ applied' = 0 /\ pending' = 0 /\ glitched' = FALSE
  /\ UNCHANGED <<host, command, file, mtime, cfg, live, faults>>

\* A job that was booted out is gone when its process is.
Unload ==
  /\ job = "leaving" /\ proc = "none"
  /\ job' = "out"
  /\ UNCHANGED <<release, disk, plist, process, command, reload>>

\* SIGKILL, once a job that leaves has overstayed launchd's exit timeout.
Kill ==
  /\ job = "leaving" /\ proc # "none"
  /\ proc' = "none"
  /\ UNCHANGED <<host, runs, deaf, upd, command, reload>>

\* SIGTERM: it cancels the context, unless nobody listens.
Terminated ==
  proc' = IF ~Notified \/ deaf THEN "none" ELSE IF proc = "up" THEN "http" ELSE proc

-----------------------------------------------------------------------------
(* serveDaemon *)

Starts ==
  /\ proc = "up"
  /\ InitialModTime \/ LoadDeps
  /\ UNCHANGED <<host, process, command>>

\* The configuration, a secret or the listener: the process exits.
StartExits ==
  /\ proc = "up"
  /\ StartFails
  /\ proc' = "none"
  /\ UNCHANGED <<host, runs, deaf, upd, command>>

\* A poll may be under way, or be chosen over Done, when the context ends.
Watches ==
  /\ proc # "none"
  /\ Poll
  /\ UNCHANGED <<host, process, command>>

\* httpServe returns an error of its own accord: the pool is shut down.
ServeError ==
  /\ Serving /\ Fault
  /\ proc' = "pool"
  /\ UNCHANGED <<host, runs, deaf, upd, command, file, mtime, pc, seen, cfg, watcher, live, glitched>>

\* httpSrv.Shutdown and then Pool.Shutdown, each within shutdownTimeout.
HttpShutdown ==
  /\ proc = "http"
  /\ proc' = "pool"
  /\ UNCHANGED <<host, runs, deaf, upd, command, reload>>

PoolShutdown ==
  /\ proc = "pool"
  /\ proc' = "none"
  /\ UNCHANGED <<host, runs, deaf, upd, command, reload>>

Crash ==
  /\ proc # "none" /\ Fault
  /\ proc' = "none"
  /\ UNCHANGED <<host, runs, deaf, upd, command, file, mtime, pc, seen, cfg, watcher, live, glitched>>

\* Mutant: compared with the binary on disk.
NewerThanDisk == release > disk

\* options.Config.CurrentVersion: the version compiled into the process.
NewerThanProcess == release > runs

\* The scheduler replaces the binary, also while the daemon shuts down.
ApplyUpdate ==
  /\ proc # "none" /\ Notified /\ ~upd /\ ~deaf
  /\ NewerThanProcess
  /\ disk' = release /\ upd' = TRUE
  /\ UNCHANGED <<release, job, plist, proc, runs, deaf, command, reload>>

\* It calls stop: the context ends and the signals are no longer caught.
StopForRelaunch ==
  /\ proc # "none" /\ upd
  /\ proc' = IF proc = "up" THEN "http" ELSE proc
  /\ deaf' = TRUE /\ upd' = FALSE
  /\ UNCHANGED <<host, runs, command, reload>>

-----------------------------------------------------------------------------
(* deploy.Decide *)

\* What differs between the artifact and what is running.
Differences == SUBSET {"base", "guest", "protocol", "host"}

Decide(diff, supervisor) ==
  CASE "base" \in diff -> "golden-rebuild-recycle"
    [] "base" \notin diff /\ "guest" \in diff ->
         IF "protocol" \in diff THEN "golden-rebuild-recycle" ELSE "guest-reload"
    [] diff \cap {"base", "guest"} = {} /\ "host" \in diff ->
         IF supervisor THEN "worker-reload" ELSE "service-restart"
    [] OTHER -> "noop"

-----------------------------------------------------------------------------
(* The operator's commands, one at a time *)

Begin(at) ==
  /\ cli = "idle" /\ commands < Commands
  /\ cli' = at /\ commands' = commands + 1 /\ said' = 0
  /\ UNCHANGED told

\* update apply, by the installed binary; without a newer release it ends.
RunUpdateApply ==
  /\ release > disk
  /\ Begin("stat")
  /\ disk' = release
  /\ UNCHANGED <<release, job, plist, process, reload>>

\* Guest and base actions are held for the operator.
ExecuteDeploy(action) ==
  /\ action \in {"worker-reload", "service-restart"}
  /\ Begin("stat")

\* deploy -execute; there is no host supervisor.
RunDeploy(diff) ==
  /\ file # Broken
  /\ ExecuteDeploy(Decide(diff, FALSE))
  /\ UNCHANGED <<host, process, reload>>

\* A copy beside the binary, renamed over it.
InstallRunningBinary(v) == disk' = v

\* install, by a binary of some published version, which it copies first.
RunInstall(v) ==
  /\ Begin("load")
  /\ InstallRunningBinary(v)
  /\ UNCHANGED <<release, job, plist, process, reload>>

RunUninstall ==
  /\ Begin("unload")
  /\ UNCHANGED <<host, process, reload>>

Step(at) == cli' = at /\ UNCHANGED <<said, told, commands>>

\* restartLaunchd: without a plist there is no service to restart.
RestartLaunchd ==
  /\ cli = "stat"
  /\ Step(IF plist THEN "bootout" ELSE "idle")
  /\ UNCHANGED <<host, process, reload>>

\* config.Load, then buildGoldenIfAbsent; either one may end the command.
InstallGolden ==
  /\ cli = "load"
  /\ \/ file # Broken /\ Step("plist") /\ UNCHANGED reload
     \/ file = Broken /\ Step("idle") /\ UNCHANGED reload
     \/ Fault /\ Step("idle") /\ UNCHANGED <<file, mtime, pc, seen, cfg, watcher, live, glitched>>
  /\ UNCHANGED <<host, process>>

\* installLaunchd
InstallPlist ==
  /\ cli = "plist"
  /\ plist' = TRUE
  /\ Step("bootout")
  /\ UNCHANGED <<release, disk, job, process, reload>>

\* launchctl bootout, whose error is ignored; the job need not be loaded.
Bootout ==
  /\ cli \in {"bootout", "unload"}
  /\ \/ job = "in" /\ job' = "leaving" /\ Terminated /\ UNCHANGED reload
     \/ job # "in" /\ UNCHANGED <<job, proc, reload>>
     \/ Fault /\ UNCHANGED <<job, proc, file, mtime, pc, seen, cfg, watcher, live, glitched>>
  /\ Step(IF cli = "unload" THEN "remove" ELSE "bootstrap")
  /\ UNCHANGED <<release, disk, plist, runs, deaf, upd>>

Done ==
  /\ cli' = "idle" /\ said' = disk /\ told' = FALSE
  /\ UNCHANGED commands

Failed ==
  /\ cli' = "idle" /\ told' = TRUE
  /\ UNCHANGED <<said, commands>>

\* Mutant: a bootstrap that finds the job loaded counts as done.
BootstrapAnyway ==
  /\ cli = "bootstrap"
  /\ \/ job = "out" /\ job' = "in" /\ Done /\ UNCHANGED reload
     \/ job # "out" /\ Done /\ UNCHANGED <<job, reload>>
     \/ Fault /\ Failed /\ UNCHANGED <<job, file, mtime, pc, seen, cfg, watcher, live, glitched>>
  /\ UNCHANGED <<release, disk, plist, process>>

\* waitForLaunchdUnload and launchctl bootstrap: the wait gives up after its
\* polls, and a job that is still loaded by then cannot be bootstrapped.
Bootstrap ==
  /\ cli = "bootstrap"
  /\ \/ job = "out" /\ job' = "in" /\ Done /\ UNCHANGED reload
     \/ job # "out" /\ Failed /\ UNCHANGED <<job, reload>>
     \/ Fault /\ Failed /\ UNCHANGED <<job, file, mtime, pc, seen, cfg, watcher, live, glitched>>
  /\ UNCHANGED <<release, disk, plist, process>>

\* uninstallLaunchd removes the plist, whatever came of the bootout.
RemovePlist ==
  /\ cli = "remove"
  /\ \/ plist' = FALSE /\ Step("idle") /\ UNCHANGED reload
     \/ Fault /\ Failed /\ UNCHANGED <<plist, file, mtime, pc, seen, cfg, watcher, live, glitched>>
  /\ UNCHANGED <<release, disk, job, process>>

\* The operator interrupts the command, or it dies.
Interrupted ==
  /\ cli # "idle" /\ Fault
  /\ cli' = "idle" /\ told' = (told \/ cli \in {"bootout", "bootstrap", "remove"})
  /\ UNCHANGED <<host, process, said, commands,
                 file, mtime, pc, seen, cfg, watcher, live, glitched>>

-----------------------------------------------------------------------------
HostInit ==
  /\ Init
  /\ release = 1 /\ disk = 1 /\ job = "in" /\ plist = TRUE
  /\ proc = "none" /\ runs = 1 /\ deaf = FALSE /\ upd = FALSE
  /\ cli = "idle" /\ said = 0 /\ told = FALSE /\ commands = 0

EditorWrites == \E c \in Configs \cup {Broken} : Write(c) /\ UNCHANGED <<host, process, command>>

CommandBegins ==
  \/ RunUpdateApply \/ RunUninstall
  \/ \E diff \in Differences : RunDeploy(diff)
  \/ \E v \in 1 .. release : RunInstall(v)

Daemon   == Starts \/ StartExits \/ HttpShutdown \/ PoolShutdown
Updater  == ApplyUpdate \/ StopForRelaunch
Launchd  == Launch \/ Unload \/ Kill
Command  == RestartLaunchd \/ InstallGolden \/ InstallPlist \/ Bootout \/ Bootstrap \/ RemovePlist
Mishap   == ServeError \/ Crash \/ Interrupted

HostNext ==
  \/ Publish \/ EditorWrites \/ CommandBegins \/ Mishap
  \/ Launchd \/ Daemon \/ Watches \/ Updater \/ Command

\* The processes run, the tickers fire and launchd keeps its job alive; no
\* command hangs.
HostSpec ==
  /\ HostInit /\ [][HostNext]_hostVars
  /\ WF_hostVars(Daemon) /\ WF_hostVars(Watches) /\ WF_hostVars(Updater)
  /\ WF_hostVars(Launch \/ Unload) /\ WF_hostVars(Command)

-----------------------------------------------------------------------------
(* Properties *)

\* What a command says about the restart stays true until the next command:
\* the job is loaded, and its process, if it has one, was started from the
\* binary that was installed then, or from a later one (bootoutThenBootstrap).
RestartedMeansNew ==
  said # 0 => job = "in" /\ (proc # "none" => runs >= said)

\* The service is installed, no command has told the operator that it may be
\* down, and the configuration can be loaded.
InOrder == plist /\ ~told /\ file # Broken

\* Whatever crashed, whichever version was installed, however a restart of the
\* scheduler fell together with one of a command and whatever was written to the
\* file meanwhile: the service comes to run the latest release, with the
\* configuration of the file unless the watcher failed to read it, or a command
\* has reported the failure (bootoutThenBootstrap, startUpdateScheduler, poll).
ServiceSettles ==
  <>[](InOrder => /\ Serving /\ runs = release
                  /\ ~glitched => pc = "idle" /\ binder = file)
=============================================================================
