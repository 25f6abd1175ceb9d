---------------------------- MODULE StatusStream ----------------------------
(***************************************************************************)
(* How the broker learns what became of one guest execution: the event log *)
(* the guest agent keeps of it (internal/guestexec), the status stream it  *)
(* serves (guestagent.JobStatus), and the broker's drain of that stream    *)
(* (broker.drainJob), across dropped streams, silence, a cancel, retention *)
(* and a restart of the broker that adopts the execution.                  *)
(*                                                                         *)
(* Chunks are abstracted to their sizes.  Sequence numbers are positions   *)
(* in the log, which is what appendEventLocked makes them.                 *)
(***************************************************************************)
EXTENDS Integers, Sequences

CONSTANTS
  Sizes,     \* sizes of captured log chunks
  Cap,       \* maxRetainedLogBytes
  Codes,     \* exit codes the wait can report
  MaxCode,   \* maximumProcessExitCode
  MaxEvents, \* bound: events the running job writes
  Drops,     \* bound: streams that break or fail to open
  Restarts   \* bound: broker restarts

\* A chunk is at most outputReadBufferSize, which is below the cap.
ASSUME StreamAssumption ==
  /\ Cap \in Nat /\ Sizes \subseteq 1 .. Cap
  /\ Codes \subseteq Int /\ MaxCode \in Nat
  /\ MaxEvents \in Nat /\ Drops \in Nat /\ Restarts \in Nat

VARIABLES
  events,    \* execution.events
  retained,  \* execution.retainedLogBytes
  capCursor, \* execution.logCapCursor, counted from one
  notified,  \* how often execution.notify was closed and replaced
  running,   \* execution.running
  eof,       \* the process is gone and the readers have returned
  exitCode,  \* execution.exitCode
  listed,    \* the registry's table still has the execution
  sub,       \* the subscriber goroutine of the open stream
  wire,      \* events sent and not yet received
  link,      \* the open stream, as the broker's Receive sees it
  drain,     \* control point of drainToTerminal
  ctx,       \* why the drain's context is done
  cursor,    \* drainJob's cursor
  from,      \* the cursor the drain started at
  mirror,    \* positions of the chunks written to the run log
  result,    \* what drainJob returned
  drops,     \* streams lost so far
  restarts   \* broker restarts so far

logVars    == <<events, retained, capCursor, notified>>
execVars   == <<running, eof, exitCode, listed>>
streamVars == <<sub, wire, link>>
drainVars  == <<drain, ctx, cursor, from, mirror, result>>
vars == <<logVars, execVars, streamVars, drainVars, drops, restarts>>

NoSub == [pc |-> "none", next |-> 0, seen |-> 0]

-----------------------------------------------------------------------------
(* The event log *)

Phase     == [kind |-> "phase", size |-> 0, code |-> 0]
Beat      == [kind |-> "beat", size |-> 0, code |-> 0]
Log(n)    == [kind |-> "log", size |-> n, code |-> 0]
Result(c) == [kind |-> "result", size |-> 0, code |-> c]

\* The bytes of the first n events, for each n.
Bytes(evs) ==
  LET upto[n \in 0 .. Len(evs)] == IF n = 0 THEN 0 ELSE upto[n - 1] + evs[n].size
  IN upto

\* The bytes still retained when the eviction scan arrives at position n.
Left(evs, bytes, n) == bytes - (Bytes(evs)[n - 1] - Bytes(evs)[capCursor - 1])

\* enforceLogByteCapLocked: the first position at which the scan stops.
Stop(evs, bytes) ==
  CHOOSE n \in capCursor .. Len(evs) + 1 :
    /\ n = Len(evs) + 1 \/ Left(evs, bytes, n) <= Cap
    /\ \A k \in capCursor .. n - 1 : Left(evs, bytes, k) > Cap

\* Mutant: the scan empties the chunks but forgets to count them off.
EnforceUncounted(evs, bytes) ==
  LET stop == Stop(evs, bytes) IN
  /\ events' = [n \in DOMAIN evs |->
                  IF n \in capCursor .. stop - 1 /\ evs[n].kind = "log" THEN Log(0) ELSE evs[n]]
  /\ retained' = bytes
  /\ capCursor' = stop

EnforceLogByteCap(evs, bytes) ==
  LET stop == Stop(evs, bytes) IN
  /\ events' = [n \in DOMAIN evs |->
                  IF n \in capCursor .. stop - 1 /\ evs[n].kind = "log" THEN Log(0) ELSE evs[n]]
  /\ retained' = Left(evs, bytes, stop)
  /\ capCursor' = stop

\* appendEventLocked of a log chunk: the cap is enforced, then subscribers
\* wake up.
AppendLog(size) ==
  /\ EnforceLogByteCap(Append(events, Log(size)), retained + size)
  /\ notified' = notified + 1

\* Mutant: subscribers are not told.
AppendQuietly(more) ==
  /\ events' = events \o more
  /\ UNCHANGED <<retained, capCursor, notified>>

\* appendEventLocked of anything else.
AppendOther(more) ==
  /\ events' = events \o more
  /\ notified' = notified + 1
  /\ UNCHANGED <<retained, capCursor>>

\* captureOutput read a chunk.
CaptureOutput(size) ==
  /\ ~eof /\ Len(events) < MaxEvents
  /\ AppendLog(size)
  /\ UNCHANGED <<execVars, streamVars, drainVars, drops, restarts>>

Tick ==
  /\ Len(events) < MaxEvents
  /\ AppendOther(<<Beat>>)
  /\ UNCHANGED <<execVars, streamVars, drainVars, drops, restarts>>

\* Mutant: the ticker does not look whether the execution still runs.
HeartbeatAlways == Tick

\* appendHeartbeat
Heartbeat == running /\ Tick

\* The exit report is recorded and both readers reach the end of their pipe.
ReapAndDrain(code) ==
  /\ ~eof
  /\ eof' = TRUE
  /\ exitCode' = code
  /\ UNCHANGED <<logVars, running, listed, streamVars, drainVars, drops, restarts>>

\* Mutant: the code is narrowed to the bits that fit.
Truncated(code) == code % (MaxCode + 1)

\* clampExitCode
ClampExitCode(code) == IF code < 0 \/ code > MaxCode THEN -1 ELSE code

\* completeExecution: phase, terminal and running change under one lock.
CompleteExecution ==
  /\ eof /\ running
  /\ running' = FALSE
  /\ AppendOther(<<Phase, Result(ClampExitCode(exitCode))>>)
  /\ UNCHANGED <<eof, exitCode, listed, streamVars, drainVars, drops, restarts>>

Expire ==
  /\ ~running /\ listed
  /\ listed' = FALSE
  /\ UNCHANGED <<logVars, running, eof, exitCode, streamVars, drainVars, drops, restarts>>

-----------------------------------------------------------------------------
(* The guest's side of a stream *)

\* stream finds the next event under the lock and JobStatus sends it; after
\* the terminal JobStatus returns.
StreamSend ==
  /\ sub.pc = "look" /\ sub.next <= Len(events)
  /\ wire' = Append(wire, [seq |-> sub.next, event |-> events[sub.next]])
  /\ \/ /\ events[sub.next].kind = "result"
        /\ sub' = NoSub /\ link' = "ended"
     \/ /\ events[sub.next].kind # "result"
        /\ sub' = [pc |-> "look", next |-> sub.next + 1, seen |-> 0]
        /\ UNCHANGED link
  /\ UNCHANGED <<logVars, execVars, drainVars, drops, restarts>>

\* Nothing to send: the channel closes if the execution is over, otherwise the
\* goroutine parks on the notify channel it took under the lock.
StreamWaits ==
  /\ sub.pc = "look" /\ sub.next > Len(events)
  /\ sub' = IF running THEN [pc |-> "park", next |-> sub.next, seen |-> notified] ELSE NoSub
  /\ link' = IF running THEN link ELSE "ended"
  /\ UNCHANGED <<logVars, execVars, wire, drainVars, drops, restarts>>

StreamWake ==
  /\ sub.pc = "park" /\ notified # sub.seen
  /\ sub' = [pc |-> "look", next |-> sub.next, seen |-> 0]
  /\ UNCHANGED <<logVars, execVars, wire, link, drainVars, drops, restarts>>

\* The connection breaks: what was under way is lost.
StreamDrops ==
  /\ link \in {"open", "ended"}
  /\ drops < Drops
  /\ drops' = drops + 1
  /\ sub' = NoSub /\ wire' = <<>> /\ link' = "broken"
  /\ UNCHANGED <<logVars, execVars, drainVars, restarts>>

-----------------------------------------------------------------------------
(* The broker's drain *)

Close == sub' = NoSub /\ wire' = <<>> /\ link' = "none"

Return(what) ==
  /\ drain' = "returned"
  /\ result' = what
  /\ Close

\* Mutant: a reconnect starts over.
OpenFromStart ==
  /\ drain = "open" /\ ctx = "live" /\ listed
  /\ drain' = "receive"
  /\ sub' = [pc |-> "look", next |-> from + 1, seen |-> 0]
  /\ wire' = <<>> /\ link' = "open"
  /\ UNCHANGED <<logVars, execVars, ctx, cursor, from, mirror, result, drops, restarts>>

\* client.JobStatus from the cursor: the guest subscribes.
Open ==
  /\ drain = "open" /\ ctx = "live" /\ listed
  /\ drain' = "receive"
  /\ sub' = [pc |-> "look", next |-> cursor + 1, seen |-> 0]
  /\ wire' = <<>> /\ link' = "open"
  /\ UNCHANGED <<logVars, execVars, ctx, cursor, from, mirror, result, drops, restarts>>

\* The guest no longer knows the execution, which opening the stream or its
\* first Receive tells: drainToTerminal returns nil, as for a zero exit.
OpenNotFound ==
  /\ drain = "open" /\ ctx = "live" /\ ~listed
  /\ Return("success")
  /\ UNCHANGED <<logVars, execVars, ctx, cursor, from, mirror, drops, restarts>>

\* The guest cannot be reached: back off and try again.
OpenFails ==
  /\ drain = "open" /\ ctx = "live" /\ drops < Drops
  /\ drops' = drops + 1
  /\ UNCHANGED <<logVars, execVars, streamVars, drainVars, restarts>>

\* terminalToError
Verdict(code) == IF code = 0 THEN "success" ELSE "failure"

\* drainStream receives an event, moves the cursor, mirrors a chunk that has
\* data, and returns on the terminal.
Receive ==
  /\ drain = "receive" /\ wire # <<>>
  /\ LET head == Head(wire) IN
       /\ cursor' = head.seq
       /\ mirror' = IF head.event.kind = "log" /\ head.event.size > 0
                      THEN Append(mirror, head.seq) ELSE mirror
       /\ \/ head.event.kind = "result" /\ Return(Verdict(head.event.code))
          \/ /\ head.event.kind # "result"
             /\ wire' = Tail(wire)
             /\ UNCHANGED <<drain, result, sub, link>>
  /\ UNCHANGED <<logVars, execVars, ctx, from, drops, restarts>>

\* The stream ended, or broke, without a terminal: reconnect.
Reconnect ==
  /\ drain = "receive" /\ wire = <<>> /\ link \in {"ended", "broken"}
  /\ ctx = "live"
  /\ drain' = "open"
  /\ Close
  /\ UNCHANGED <<logVars, execVars, ctx, cursor, from, mirror, result, drops, restarts>>

\* The idle watchdog: nothing came for drainIdleTimeout.
Stall ==
  /\ drain = "receive" /\ wire = <<>> /\ ctx = "live"
  /\ Return("stalled")
  /\ UNCHANGED <<logVars, execVars, ctx, cursor, from, mirror, drops, restarts>>

\* A job is cancelled once: by a shutdown, or by a recycle or cancel-run cause.
CancelDrain(cause) ==
  /\ drain \in {"open", "receive"} /\ ctx = "live" /\ result = "none"
  /\ ctx' = cause
  /\ UNCHANGED <<logVars, execVars, streamVars, drain, cursor, from, mirror, result,
                 drops, restarts>>

\* drainJob on a plain cancellation: let go, the guest job keeps running.
DetachDrain ==
  /\ drain \in {"open", "receive"} /\ ctx = "shutdown"
  /\ Return("detached")
  /\ UNCHANGED <<logVars, execVars, ctx, cursor, from, mirror, drops, restarts>>

\* drainJob on a custom cause: CancelJob kills the process group, if it gets
\* through and the execution is still there; the drain goes on from the cursor
\* under a context of its own.
TeardownDrain ==
  /\ drain \in {"open", "receive"} /\ ctx = "recycle"
  /\ \/ ~eof /\ eof' = TRUE /\ exitCode' = -1
     \/ UNCHANGED <<eof, exitCode>>
  /\ ctx' = "live"
  /\ drain' = "open"
  /\ result' = "cancelling"
  /\ Close
  /\ UNCHANGED <<logVars, running, listed, cursor, from, mirror, drops, restarts>>

\* The teardown drain ran out of time.
TeardownTimeout ==
  /\ drain \in {"open", "receive"} /\ result = "cancelling"
  /\ Return("timedout")
  /\ UNCHANGED <<logVars, execVars, ctx, cursor, from, mirror, drops, restarts>>

\* Mutant: a retained terminal is adopted like a running execution.
Adoptable == listed

\* reattachSlots: only running executions occupy a slot.
Resumable == listed /\ running

\* The broker restarts.  Reattach reports the last sequence of a running
\* execution, and a resume drain starts there with a fresh run log.
Restart ==
  /\ restarts < Restarts
  /\ restarts' = restarts + 1
  /\ Close
  /\ cursor' = Len(events) /\ from' = Len(events) /\ mirror' = <<>>
  /\ ctx' = "live"
  /\ \/ Resumable /\ drain' = "open" /\ result' = "none"
     \/ ~Resumable /\ drain' = "returned" /\ result' = "idle"
  /\ UNCHANGED <<logVars, execVars, drops>>

-----------------------------------------------------------------------------
\* Register has recorded the execution and RunJob starts to drain it.
Init ==
  /\ events = <<Phase>> /\ retained = 0 /\ capCursor = 1 /\ notified = 0
  /\ running = TRUE /\ eof = FALSE /\ exitCode = 0 /\ listed = TRUE
  /\ sub = NoSub /\ wire = <<>> /\ link = "none"
  /\ drain = "open" /\ ctx = "live" /\ cursor = 0 /\ from = 0
  /\ mirror = <<>> /\ result = "none"
  /\ drops = 0 /\ restarts = 0

Guest ==
  \/ \E n \in Sizes : CaptureOutput(n)
  \/ \E code \in Codes : ReapAndDrain(code)
  \/ Heartbeat \/ CompleteExecution \/ Expire

Stream == StreamSend \/ StreamWaits \/ StreamWake

Broker ==
  \/ Open \/ OpenNotFound \/ OpenFails \/ Receive \/ Reconnect \/ Stall
  \/ \E cause \in {"shutdown", "recycle"} : CancelDrain(cause)
  \/ DetachDrain \/ TeardownDrain \/ TeardownTimeout

Next == Guest \/ Stream \/ StreamDrops \/ Broker \/ Restart

Spec == Init /\ [][Next]_vars

\* Goroutines run, and a drain that can go on does.
FairSpec ==
  /\ Spec
  /\ WF_vars(Stream)
  /\ WF_vars(Open \/ OpenNotFound \/ Receive \/ Reconnect)
  /\ WF_vars(DetachDrain \/ TeardownDrain)

-----------------------------------------------------------------------------
(* Properties *)

\* The log chunks that still have their data.
LiveChunks == {n \in 1 .. Len(events) : events[n].size > 0}

\* The retained bytes are counted exactly and stay within the cap; the oldest
\* chunks are the ones given up, and the scan never has to look back
\* (enforceLogByteCapLocked).
LogCapExact ==
  /\ retained = Bytes(events)[Len(events)]
  /\ retained <= Cap
  /\ \A n \in LiveChunks : n >= capCursor
  /\ \A n \in LiveChunks, k \in 1 .. Len(events) :
       k > n /\ events[k].kind = "log" => k \in LiveChunks

\* Types of the log, the stream and the drain.
TypeOK ==
  /\ events \in Seq([kind : {"phase", "beat", "log", "result"}, size : Nat, code : Int])
  /\ retained \in Nat /\ capCursor \in Nat /\ notified \in Nat
  /\ running \in BOOLEAN /\ eof \in BOOLEAN /\ exitCode \in Int /\ listed \in BOOLEAN
  /\ sub \in [pc : {"none", "look", "park"}, next : Nat, seen : Nat]
  /\ link \in {"none", "open", "ended", "broken"}
  /\ drain \in {"open", "receive", "returned"}
  /\ ctx \in {"live", "shutdown", "recycle"}
  /\ cursor \in Nat /\ from \in Nat /\ mirror \in Seq(Nat)
  /\ result \in {"none", "cancelling", "success", "failure", "stalled",
                 "detached", "timedout", "idle"}
  /\ drops \in Nat /\ restarts \in Nat

\* Nothing follows the terminal result, and it is there as soon as the
\* execution no longer runs (completeExecution, appendHeartbeat).
TerminalIsLast ==
  \A n \in 1 .. Len(events) :
    events[n].kind = "result" <=> n = Len(events) /\ ~running

\* However often the stream breaks, a drain sees every event after its starting
\* cursor exactly once and in order: the run log has each chunk once, except
\* those the guest had already given up (drainToTerminal, stream).
MirrorExact ==
  /\ cursor <= Len(events)
  /\ \A i, j \in 1 .. Len(mirror) : i < j => mirror[i] < mirror[j]
  /\ \A n \in from + 1 .. cursor : events[n].kind = "log" =>
       (\E i \in 1 .. Len(mirror) : mirror[i] = n) \/ events[n].size = 0

\* A stream that the guest ends carries the terminal, so that a drain never
\* circles on a finished execution (stream, reattachSlots).
EndCarriesTerminal ==
  link = "ended" => wire # <<>> /\ wire[Len(wire)].event.kind = "result"

\* What the broker takes a job for is what its process did, whenever the terminal
\* reaches it. A drain that finds the execution expired before it has received
\* the terminal takes the job for a success, whatever the process left
\* (drainToTerminal, terminalToError, clampExitCode).
ExitCodeKept ==
  /\ result = "success" => exitCode = 0 \/ (~listed /\ cursor < Len(events))
  /\ result = "failure" => exitCode # 0

\* A drain returns once the execution is over: the terminal arrives, or the
\* guest has forgotten the execution, or the drain was told to let go.
DrainReturns == ~running ~> drain = "returned"
=============================================================================
