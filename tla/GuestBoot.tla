------------------------------ MODULE GuestBoot ------------------------------
(***************************************************************************)
(* How a VM comes into service: the broker boots it, seeds its slot count, *)
(* reads its token and waits for Hello (broker.Warm, resolveGuest), while  *)
(* in the guest launchd starts the agent, which resolves the token, waits  *)
(* for the slot count and serves (cmd guest-agent, internal/               *)
(* guestsupervisor).  The agent may die and be started again; the broker   *)
(* may restart and adopt the VM.  The slot count decides in which HOME a   *)
(* job runs (guestagent.runnerEnv).                                        *)
(***************************************************************************)
EXTENDS Bounds, FiniteSets

CONSTANT Counts \* values of jobs_per_vm

ASSUME BootAssumption == Counts \subseteq Nat \ {0}

Slots == UNION {0 .. n - 1 : n \in Counts}

VARIABLES
  want,      \* jobs_per_vm, as the broker has it
  host,      \* control point of Warm or Adopt
  cached,    \* token in the broker's cached client
  seedFile,  \* the guest's slot-count file, 0 when absent
  tokenFile, \* the guest's token file
  minted,    \* tokens minted so far
  agent,     \* control point of runGuestAgent
  token,     \* token the agent checks
  count,     \* slots the agent serves
  home,      \* HOME of the job running on each slot
  misfit,    \* history: an agent did without its seed, or a broker with another
             \* jobs_per_vm adopted the VM
  reminted   \* history: an agent could not read its token file and minted another
             \* token than the broker has read

guestVars == <<seedFile, tokenFile, minted, agent, token, count, home>>
bootVars == <<want, host, cached, guestVars, misfit, reminted, faults, restarts>>

NoJobs == [s \in Slots |-> None]

-----------------------------------------------------------------------------
(* The broker *)

\* Boot the clone.
Boot ==
  /\ host = "boot"
  /\ \/ host' = "ready" /\ agent' = "down" /\ NoFault
     \/ host' = "failed" /\ Fault(1) /\ UNCHANGED agent
  /\ UNCHANGED <<want, cached, seedFile, tokenFile, minted, token, count, home, misfit, reminted, restarts>>

\* The next step of Warm: it succeeds, or it fails or times out, and the VM is
\* torn down.
Step(from, to) ==
  /\ host = from
  /\ \/ host' = to /\ NoFault
     \/ host' = "failed" /\ Fault(1)
  /\ UNCHANGED <<want, misfit, restarts>>

WaitForReady ==
  /\ Step("ready", "seed")
  /\ UNCHANGED <<cached, guestVars, reminted>>

\* guest-write-slots writes a temporary file and renames it.
SeedSlotCount ==
  /\ Step("seed", "token")
  /\ seedFile' = IF host' = "token" THEN want ELSE seedFile
  /\ UNCHANGED <<cached, tokenFile, minted, agent, token, count, home, reminted>>

ReadGuestToken ==
  /\ Step("token", "hello")
  /\ host' = "hello" => tokenFile # None
  /\ cached' = IF host' = "hello" THEN tokenFile ELSE cached
  /\ reminted' = (reminted /\ host' # "hello")
  /\ UNCHANGED guestVars

Authorized == agent = "serve" /\ token = cached

\* Hello answers, or the wait times out, as it does when the agent has another
\* token.
WaitForGuestHello ==
  /\ \/ Step("hello", "warm") /\ (host' = "warm" => Authorized)
     \/ /\ host = "hello" /\ agent = "serve" /\ ~Authorized
        /\ host' = "failed" /\ NoFault
        /\ UNCHANGED <<want, misfit, restarts>>
  /\ UNCHANGED <<cached, guestVars, reminted>>

\* Another VM.
Afresh ==
  /\ host' = "boot" /\ cached' = None
  /\ seedFile' = 0 /\ tokenFile' = None /\ minted' = 0
  /\ agent' = "off" /\ token' = None /\ count' = 0 /\ home' = NoJobs
  /\ misfit' = FALSE /\ reminted' = FALSE

\* The broker restarts and adopts the VM it finds running, be it warm or not:
\* token, Hello and Reattach, and its own slot count.
Adopt ==
  /\ host \notin {"boot", "failed"} /\ restarts < Restarts
  /\ restarts' = restarts + 1
  /\ host' = "token" /\ cached' = None
  /\ want' \in Counts
  /\ misfit' = (misfit \/ want' # want)
  /\ UNCHANGED <<guestVars, reminted, faults>>

-----------------------------------------------------------------------------
(* The guest *)

Present(file) ==
  /\ token' = file
  /\ tokenFile' = file

MintToken == Present(minted + 1) /\ minted' = minted + 1

\* Mutant: every start of the agent mints.
AlwaysMint == MintToken /\ NoFault /\ UNCHANGED reminted

\* An existing token is used again; a file that is there and cannot be read, or is
\* empty, counts for none.
EnsureBootToken ==
  \/ tokenFile # None /\ Present(tokenFile) /\ NoFault /\ UNCHANGED <<minted, reminted>>
  \/ tokenFile = None /\ MintToken /\ NoFault /\ UNCHANGED reminted
  \/ tokenFile # None /\ MintToken /\ Fault(1) /\ reminted' = TRUE

AgentStarts ==
  /\ agent = "down"
  /\ agent' = "await"
  /\ EnsureBootToken
  /\ UNCHANGED <<want, host, cached, seedFile, count, home, misfit, restarts>>

\* Mutant: the agent takes the default at once.
ServesDefault == count' = 1

\* AwaitSlotCount: the seeded count, or the -slots default when time is up.
AwaitSlotCount ==
  \/ seedFile # 0 /\ count' = seedFile
  \/ seedFile = 0 /\ count' = 1

AgentServes ==
  /\ agent = "await"
  /\ AwaitSlotCount
  /\ agent' = "serve"
  /\ misfit' = (misfit \/ seedFile = 0)
  /\ UNCHANGED <<want, host, cached, seedFile, tokenFile, minted, token, home, reminted, faults, restarts>>

\* The agent dies, its jobs with it; launchd starts it again.
AgentDies ==
  /\ agent \in {"await", "serve"}
  /\ Fault(1)
  /\ agent' = "down"
  /\ home' = NoJobs
  /\ UNCHANGED <<want, host, cached, seedFile, tokenFile, minted, token, count, misfit, reminted, restarts>>

\* runnerEnv: the only slot uses the real home, here 0; one of several slots
\* has a home of its own, here s + 1.
HomeOf(s) == IF count <= 1 THEN 0 ELSE s + 1

\* RunJob on a slot of the broker's choice; the agent does not compare it with
\* its own slot count.
Dispatch(s) ==
  /\ host = "warm" /\ s < want /\ home[s] = None
  /\ Authorized
  /\ home' = [home EXCEPT ![s] = HomeOf(s)]
  /\ UNCHANGED <<want, host, cached, seedFile, tokenFile, minted, agent, token, count,
                 misfit, reminted, faults, restarts>>

JobEnds(s) ==
  /\ home[s] # None
  /\ home' = [home EXCEPT ![s] = None]
  /\ UNCHANGED <<want, host, cached, seedFile, tokenFile, minted, agent, token, count,
                 misfit, reminted, faults, restarts>>

-----------------------------------------------------------------------------
BootInit ==
  /\ want \in Counts
  /\ host = "boot" /\ cached = None
  /\ seedFile = 0 /\ tokenFile = None /\ minted = 0
  /\ agent = "off" /\ token = None /\ count = 0 /\ home = NoJobs
  /\ misfit = FALSE /\ reminted = FALSE

Warm  == Boot \/ WaitForReady \/ SeedSlotCount \/ ReadGuestToken \/ WaitForGuestHello
Agent == AgentStarts \/ AgentServes

-----------------------------------------------------------------------------
(* Properties *)

\* Types of the broker's view and of the guest's files and agent.
BootTypeOK ==
  /\ want \in Counts
  /\ host \in {"boot", "ready", "seed", "token", "hello", "warm", "failed"}
  /\ cached \in Nat \cup {None} /\ tokenFile \in Nat \cup {None} /\ token \in Nat \cup {None}
  /\ seedFile \in Counts \cup {0} /\ minted \in Nat
  /\ home \in [Slots -> (0 .. Cardinality(Slots)) \cup {None}]
  /\ agent \in {"off", "down", "await", "serve"} /\ count \in Counts \cup {0, 1}
  /\ misfit \in BOOLEAN /\ reminted \in BOOLEAN
  /\ faults \in 0 .. Faults /\ restarts \in 0 .. Restarts

\* A warm VM's agent accepts the broker's cached token, however often either of
\* them was started again, unless the agent has found its token file unreadable
\* since (EnsureBootToken, resolveGuest).
TokenAccepted == host = "warm" /\ agent = "serve" /\ ~reminted => token = cached

\* Jobs that run at the same time have homes of their own, unless the agent did
\* without its seed, or the VM was adopted under another jobs_per_vm (Warm,
\* AwaitSlotCount, runnerEnv).
HomesApart ==
  \A s, t \in Slots :
    s # t /\ home[s] # None /\ home[t] # None /\ ~misfit => home[s] # home[t]
=============================================================================
