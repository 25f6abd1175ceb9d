------------------------- MODULE HostServiceProofs -------------------------
(* Machine-checked facts about the daemon as a service of its host, for any  *)
(* number of releases, commands, writes and failures.                        *)
EXTENDS HostService, TLAPS

USE DEF host, process, command, reload, hostVars, vars, watcher, live

-----------------------------------------------------------------------------
(* The configuration *)

Agree(c) == server = c /\ sampler = c /\ pool.size = c.size

\* Outside an application the components agree; within one, those that have had
\* their turn hold the configuration that was loaded.
ApplyControl ==
  /\ pc \in {"idle", "load", "secrets", "binder"} => Agree(binder)
  /\ pc \in {"pool", "server", "sampler"} => binder = cfg
  /\ pc \in {"server", "sampler"} => pool.size = cfg.size
  /\ pc = "sampler" => server = cfg

\* A step of the watcher keeps the order of an application.
LEMMA PollStep == ASSUME ApplyControl, Poll PROVE ApplyControl'
<1> USE DEF ApplyControl, Agree
<1>1. CASE Stat               BY <1>1 DEF Stat, Judge
<1>2. CASE Load               BY <1>2 DEF Load, GiveUp
<1>3. CASE ReadSecrets        BY <1>3 DEF ReadSecrets
<1>4. CASE ReconfigureBinder  BY <1>4 DEF ReconfigureBinder
<1>5. CASE ReconfigurePool    BY <1>5 DEF ReconfigurePool
<1>6. CASE ReconfigureServer  BY <1>6 DEF ReconfigureServer
<1>7. CASE ReconfigureSampler BY <1>7 DEF ReconfigureSampler
<1> QED
  BY <1>1, <1>2, <1>3, <1>4, <1>5, <1>6, <1>7 DEF Poll

\* So does a step of the daemon's start, which makes the components anew.
LEMMA StartStep ==
  ASSUME ApplyControl, InitialModTime \/ LoadDeps \/ StartFails PROVE ApplyControl'
  BY DEF ApplyControl, Agree, InitialModTime, LoadDeps, StartFails

\* Every other step leaves the application alone, or starts a process.
LEMMA ApplyStep == ASSUME ApplyControl, [HostNext]_hostVars PROVE ApplyControl'
<1> DEFINE Still == UNCHANGED <<pc, cfg, binder, pool, server, sampler>>
<1>1. CASE Watches     BY <1>1, PollStep DEF Watches
<1>2. CASE Starts      BY <1>2, StartStep DEF Starts
<1>3. CASE StartExits  BY <1>3, StartStep DEF StartExits
<1>4. CASE Launch
  BY <1>4 DEF Launch, ApplyControl, Agree
<1>5. CASE Still
  BY <1>5 DEF ApplyControl, Agree
<1>6. CASE UNCHANGED hostVars
  BY <1>6, <1>5
<1>7. CASE Publish \/ EditorWrites
  BY <1>7, <1>5 DEF Publish, EditorWrites, Write
<1>8. CASE CommandBegins
  BY <1>8, <1>5 DEF CommandBegins, RunUpdateApply, RunUninstall, RunDeploy, RunInstall
<1>9. CASE Mishap
  BY <1>9, <1>5 DEF Mishap, ServeError, Crash, Interrupted
<1>10. CASE Unload \/ Kill
  BY <1>10, <1>5 DEF Unload, Kill
<1>11. CASE HttpShutdown \/ PoolShutdown \/ Updater
  BY <1>11, <1>5 DEF HttpShutdown, PoolShutdown, Updater, ApplyUpdate, StopForRelaunch
<1>12. CASE Command
  <2>1. CASE RestartLaunchd \/ InstallPlist
    BY <2>1, <1>5 DEF RestartLaunchd, InstallPlist
  <2>2. CASE InstallGolden  BY <2>2, <1>5 DEF InstallGolden
  <2>3. CASE Bootout        BY <2>3, <1>5 DEF Bootout
  <2>4. CASE Bootstrap      BY <2>4, <1>5 DEF Bootstrap
  <2>5. CASE RemovePlist    BY <2>5, <1>5 DEF RemovePlist
  <2> QED
    BY <1>12, <2>1, <2>2, <2>3, <2>4, <2>5 DEF Command
<1> QED
  BY <1>1, <1>2, <1>3, <1>4, <1>6, <1>7, <1>8, <1>9, <1>10, <1>11, <1>12
     DEF HostNext, Launchd, Daemon

\* Between two polls server, sampler and the pool's size are those of the
\* configuration the binder holds, over crashes, restarts, torn files and secrets
\* that cannot be read (applyReloadedConfig).
THEOREM ComponentsHold == HostSpec => []ComponentsAgree
<1>1. HostInit => ApplyControl
  BY DEF HostInit, Init, ApplyControl, Agree
<1>2. ApplyControl /\ [HostNext]_hostVars => ApplyControl'
  BY ApplyStep
<1>3. ApplyControl => ComponentsAgree
  BY DEF ApplyControl, Agree, ComponentsAgree
<1> QED
  BY <1>1, <1>2, <1>3, PTL DEF HostSpec

-----------------------------------------------------------------------------
(* What a command says of a restart *)

\* The versions are numbers, and nothing runs or is installed that was not
\* published.
VersionsOK ==
  /\ release \in Nat \ {0} /\ disk \in 1 .. release /\ runs \in 1 .. release
  /\ said \in Nat

\* A job that is out has no process, a command under way has said nothing yet,
\* and what was said is still on disk.
RestartControl ==
  /\ job = "out" => proc = "none"
  /\ cli # "idle" => said = 0
  /\ said # 0 => disk >= said

ServiceInv == VersionsOK /\ RestartControl /\ RestartedMeansNew

\* A step that touches neither versions nor what was said, and starts no process.
LEMMA ServiceFrame ==
  ASSUME ServiceInv,
         UNCHANGED <<release, disk, runs, said, cli, job>>,
         proc' = proc \/ proc' = "none" \/ proc # "none"
  PROVE  ServiceInv'
  BY DEF ServiceInv, VersionsOK, RestartControl, RestartedMeansNew

\* What a command does as it begins: nothing is said any more.
LEMMA BeginStep ==
  ASSUME ServiceInv, NEW at, Begin(at), UNCHANGED <<release, job, proc, runs>>,
         disk' = disk \/ disk' \in 1 .. release
  PROVE  ServiceInv'
  BY DEF ServiceInv, VersionsOK, RestartControl, RestartedMeansNew, Begin

\* Every step keeps versions, job and process in order.
LEMMA ServiceStep == ASSUME ServiceInv, [HostNext]_hostVars PROVE ServiceInv'
<1> USE DEF ServiceInv
<1>1. CASE UNCHANGED hostVars
  BY <1>1, ServiceFrame
<1>2. CASE Publish
  BY <1>2 DEF Publish, VersionsOK, RestartControl, RestartedMeansNew
<1>3. CASE EditorWrites
  BY <1>3, ServiceFrame DEF EditorWrites, Write
<1>4. CASE CommandBegins
  <2>1. CASE RunUpdateApply
    BY <2>1, BeginStep DEF RunUpdateApply, VersionsOK
  <2>2. CASE RunUninstall
    BY <2>2, BeginStep DEF RunUninstall
  <2>3. ASSUME NEW diff \in Differences, RunDeploy(diff) PROVE ServiceInv'
    BY <2>3, BeginStep DEF RunDeploy, ExecuteDeploy
  <2>4. ASSUME NEW v \in 1 .. release, RunInstall(v) PROVE ServiceInv'
    BY <2>4, BeginStep DEF RunInstall, InstallRunningBinary
  <2> QED
    BY <1>4, <2>1, <2>2, <2>3, <2>4 DEF CommandBegins
<1>5. CASE ServeError
  BY <1>5, ServiceFrame DEF ServeError, Serving
<1>6. CASE Crash
  BY <1>6, ServiceFrame DEF Crash
<1>7. CASE Interrupted
  BY <1>7 DEF Interrupted, VersionsOK, RestartControl, RestartedMeansNew
<1>8. CASE Launch
  BY <1>8 DEF Launch, VersionsOK, RestartControl, RestartedMeansNew
<1>9. CASE Unload
  BY <1>9 DEF Unload, VersionsOK, RestartControl, RestartedMeansNew
<1>10. CASE Kill
  BY <1>10, ServiceFrame DEF Kill
<1>11. CASE Daemon
  BY <1>11, ServiceFrame DEF Daemon, Starts, StartExits, HttpShutdown, PoolShutdown
<1>12. CASE Watches
  BY <1>12, ServiceFrame DEF Watches
<1>13. CASE ApplyUpdate
  BY <1>13 DEF ApplyUpdate, VersionsOK, RestartControl, RestartedMeansNew
<1>14. CASE StopForRelaunch
  BY <1>14, ServiceFrame DEF StopForRelaunch
<1>15. CASE Command
  <2>1. CASE RestartLaunchd \/ InstallPlist \/ InstallGolden
    BY <2>1 DEF RestartLaunchd, InstallPlist, InstallGolden, Step,
                VersionsOK, RestartControl, RestartedMeansNew
  <2>2. CASE Bootout
    BY <2>2 DEF Bootout, Terminated, Step, VersionsOK, RestartControl, RestartedMeansNew
  <2>3. CASE Bootstrap
    BY <2>3 DEF Bootstrap, Done, Failed, VersionsOK, RestartControl, RestartedMeansNew
  <2>4. CASE RemovePlist
    BY <2>4 DEF RemovePlist, Step, Failed, VersionsOK, RestartControl, RestartedMeansNew
  <2> QED
    BY <1>15, <2>1, <2>2, <2>3, <2>4 DEF Command
<1> QED
  BY <1>1, <1>2, <1>3, <1>4, <1>5, <1>6, <1>7, <1>8, <1>9, <1>10, <1>11, <1>12, <1>13,
     <1>14, <1>15 DEF HostNext, Mishap, Launchd, Updater

\* What a command has said about a restart is true until the next command, for
\* any number of releases and whatever scheduler, signals, crashes and launchd
\* do meanwhile (bootoutThenBootstrap).
THEOREM RestartsHold == HostSpec => []RestartedMeansNew
<1>1. HostInit => ServiceInv
  BY DEF HostInit, ServiceInv, VersionsOK, RestartControl, RestartedMeansNew
<1>2. ServiceInv /\ [HostNext]_hostVars => ServiceInv'
  BY ServiceStep
<1>3. ServiceInv => RestartedMeansNew
  BY DEF ServiceInv
<1> QED
  BY <1>1, <1>2, <1>3, PTL DEF HostSpec
=============================================================================
