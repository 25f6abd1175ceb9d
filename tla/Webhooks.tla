------------------------------ MODULE Webhooks ------------------------------
(***************************************************************************)
(* What GitHub tells the broker and what the broker asks GitHub            *)
(* (internal/server, internal/hostedload, internal/ghapp).  Webhooks about *)
(* workflow jobs are lost, duplicated and reordered; they keep the set of  *)
(* GitHub-hosted macOS jobs in progress, which a sweep of the API replaces *)
(* from time to time (cmd startHostedLoadReconcile).  A closed pull        *)
(* request makes the broker cancel the runs of its head commit.  The API   *)
(* lists runs page by page, newest first, and the list changes between two *)
(* pages.  All runs belong to one repository.  What a queued or a          *)
(* cancelled job does to the pool is Enqueue and CancelRun of module Pool. *)
(***************************************************************************)
EXTENDS Naturals, FiniteSets

CONSTANTS
  Runs,     \* workflow run ids; a newer run has a greater one
  Jobs,     \* workflow job ids
  RunOf,    \* the run of each job
  Hosted,   \* the jobs that ask for a GitHub-hosted macOS runner
  HeadRuns, \* the runs on the pull request's head commit
  PageSize, \* actionsListPageSize
  Closers   \* goroutines that cancel a closed pull request's runs

ASSUME WebhooksAssumption ==
  /\ Runs \subseteq Nat /\ IsFiniteSet(Runs) /\ IsFiniteSet(Jobs)
  /\ RunOf \in [Jobs -> Runs]
  /\ Hosted \subseteq Jobs /\ HeadRuns \subseteq Runs
  /\ PageSize \in Nat \ {0}

VARIABLES
  status,   \* GitHub's status of each job
  closed,   \* the pull request is closed
  net,      \* webhooks on their way
  tracker,  \* Tracker.jobs
  sweep,    \* the API sweep: control point, page, fetched count, jobs to read, jobs found
  closing,  \* each cancellation: control point, page, fetched count, runs found;
            \* history: runs active when it began, runs it has asked to cancel
  quiet     \* history: nothing has changed since the sweep began

github  == <<status, closed>>
vars == <<github, net, tracker, sweep, closing, quiet>>

Webhook(j, action) == [job |-> j, action |-> action]
Closed == [action |-> "closed"]

Asleep == [pc |-> "idle", page |-> 1, fetched |-> 0, todo |-> {}, found |-> {}]
Unasked == [pc |-> "idle", page |-> 1, fetched |-> 0, runs |-> {}, known |-> {}, asked |-> {}]

-----------------------------------------------------------------------------
(* GitHub *)

JobsOf(r) == {j \in Jobs : RunOf[j] = r}
Exists(r) == \E j \in JobsOf(r) : status[j] # "none"
Active(r) == \E j \in JobsOf(r) : status[j] \in {"queued", "in_progress"}
InProgress(r) == Active(r) /\ \E j \in JobsOf(r) : status[j] \in {"in_progress", "completed"}

\* A run and its jobs come into being together.
RunStarts(r) ==
  /\ JobsOf(r) # {} /\ \A j \in JobsOf(r) : status[j] = "none"
  /\ status' = [j \in Jobs |-> IF RunOf[j] = r THEN "queued" ELSE status[j]]
  /\ quiet' = FALSE
  /\ UNCHANGED <<closed, net, tracker, sweep, closing>>

\* The deliveries about these jobs that the handler does not turn away: those
\* about a job IsHostedMacOSJob refuses change nothing here.
Deliveries(jobs, action) == {Webhook(j, action) : j \in jobs \cap Hosted}

JobMoves(j, from, to) ==
  /\ status[j] = from
  /\ status' = [status EXCEPT ![j] = to]
  /\ net' = net \cup Deliveries({j}, to)
  /\ quiet' = FALSE
  /\ UNCHANGED <<closed, tracker, sweep, closing>>

PullRequestCloses ==
  /\ ~closed
  /\ closed' = TRUE
  /\ net' = net \cup {Closed}
  /\ UNCHANGED <<status, tracker, sweep, closing, quiet>>

\* One page of a list of runs, newest first.
PageOf(runs, page) ==
  {r \in runs : LET rank == Cardinality({q \in runs : q >= r})
                IN (page - 1) * PageSize < rank /\ rank <= page * PageSize}

-----------------------------------------------------------------------------
(* The webhook handler *)

\* A delivery that arrives stays on its way if it is sent once more.
Arrives(m) ==
  /\ m \in net
  /\ net' \in {net, net \ {m}}

\* A delivery is lost, or refused: wrong address, secret or body.
Lose(m) ==
  /\ m \in net
  /\ net' = net \ {m}
  /\ UNCHANGED <<github, tracker, sweep, closing, quiet>>

HandleInProgress(j) ==
  /\ Arrives(Webhook(j, "in_progress"))
  /\ tracker' = tracker \cup {j}
  /\ quiet' = FALSE
  /\ UNCHANGED <<github, sweep, closing>>

HandleCompleted(j) ==
  /\ Arrives(Webhook(j, "completed"))
  /\ tracker' = tracker \ {j}
  /\ quiet' = FALSE
  /\ UNCHANGED <<github, sweep, closing>>

\* handlePullRequestClose answers at once and starts a cancellation, whether or
\* not one is under way for an earlier delivery.
HandlePullRequestClose(c) ==
  /\ Arrives(Closed)
  /\ closing[c].pc = "idle"
  /\ closing' = [closing EXCEPT ![c] = [Unasked EXCEPT !.pc = "list",
                                         !.known = {r \in HeadRuns : Active(r)}]]
  /\ UNCHANGED <<github, tracker, sweep, quiet>>

-----------------------------------------------------------------------------
(* Cancelling a closed pull request's runs *)

\* Mutant: a page without an active run ends the listing.
StopsAtIdlePage(c, page, total) == {r \in page : Active(r)} = {} \/ closing[c].fetched >= total

\* The listing is over after an empty page, or when as many runs have come as
\* GitHub counts, completed ones included.
ListingOver(c, page, total) == page = {} \/ closing[c].fetched + Cardinality(page) >= total

\* One page of listActiveRunIDsForHeadSHA, which keeps the active runs.
ListActiveRunIDsForHeadSHA(c) ==
  LET list == {r \in HeadRuns : Exists(r)}
      page == PageOf(list, closing[c].page)
  IN /\ closing[c].pc = "list"
     /\ closing' = [closing EXCEPT
                      ![c].pc = IF ListingOver(c, page, Cardinality(list)) THEN "cancel" ELSE "list",
                      ![c].page = @ + 1, ![c].fetched = @ + Cardinality(page),
                      ![c].runs = @ \cup {r \in page : Active(r)}]
     /\ UNCHANGED <<github, net, tracker, sweep, quiet>>

\* One cancel call.  It fails for a run that has ended, and may fail for any
\* other; the next run's turn comes all the same.
CancelRun(c, r) ==
  /\ closing[c].pc = "cancel" /\ r \in closing[c].runs
  /\ closing' = [closing EXCEPT ![c].runs = @ \ {r}, ![c].asked = @ \cup {r}]
  /\ \/ /\ Active(r)
        /\ status' = [j \in Jobs |-> IF RunOf[j] = r THEN "completed" ELSE status[j]]
        /\ net' = net \cup Deliveries({j \in JobsOf(r) : status[j] # "completed"}, "completed")
        /\ quiet' = FALSE
     \/ UNCHANGED <<status, net, quiet>>
  /\ UNCHANGED <<closed, tracker, sweep>>

\* All calls are made, or a listing call failed, or time is up.
CancellationEnds(c) ==
  /\ closing[c].pc # "idle"
  /\ closing' = [closing EXCEPT ![c] = Unasked]
  /\ UNCHANGED <<github, net, tracker, sweep, quiet>>

-----------------------------------------------------------------------------
(* The sweep *)

SweepBegins ==
  /\ sweep.pc = "idle"
  /\ sweep' = [Asleep EXCEPT !.pc = "runs"]
  /\ quiet' = TRUE
  /\ UNCHANGED <<github, net, tracker, closing>>

\* Mutant: a page short of GitHub's count ends the listing.
OneShort(page, total) == page = {} \/ sweep.fetched + Cardinality(page) + 1 >= total

\* The last page is an empty one, or as many runs have come as GitHub counts.
LastPage(page, total) == page = {} \/ sweep.fetched + Cardinality(page) >= total

\* One page of listInProgressRunIDs.
ListInProgressRunIDs ==
  LET list == {r \in Runs : InProgress(r)}
      page == PageOf(list, sweep.page)
  IN /\ sweep.pc = "runs"
     /\ sweep' = [sweep EXCEPT !.pc = IF LastPage(page, Cardinality(list)) THEN "jobs" ELSE "runs",
                    !.page = @ + 1, !.fetched = @ + Cardinality(page),
                    !.todo = @ \cup {j \in Jobs : RunOf[j] \in page}]
     /\ UNCHANGED <<github, net, tracker, closing, quiet>>

\* collectHostedMacOSJobs, a job at a time: the jobs of a run do not move
\* between its pages, their status changes.
CollectHostedMacOSJobs(j) ==
  /\ sweep.pc = "jobs" /\ j \in sweep.todo
  /\ sweep' = [sweep EXCEPT !.todo = @ \ {j},
                 !.found = IF status[j] = "in_progress" /\ j \in Hosted THEN @ \cup {j} ELSE @]
  /\ UNCHANGED <<github, net, tracker, closing, quiet>>

\* Tracker.Reconcile replaces the set.
SweepEnds ==
  /\ sweep.pc = "jobs" /\ sweep.todo = {}
  /\ tracker' = sweep.found
  /\ sweep' = [Asleep EXCEPT !.pc = "swept"]
  /\ UNCHANGED <<github, net, closing, quiet>>

\* Any error keeps the live set.
SweepFails ==
  /\ sweep.pc \in {"runs", "jobs"}
  /\ sweep' = [Asleep EXCEPT !.pc = "swept"]
  /\ quiet' = FALSE
  /\ UNCHANGED <<github, net, tracker, closing>>

\* Until the ticker fires.
Ticker ==
  /\ sweep.pc = "swept"
  /\ sweep' = Asleep
  /\ UNCHANGED <<github, net, tracker, closing, quiet>>

Restart ==
  /\ tracker' = {} /\ sweep' = Asleep /\ closing' = [c \in Closers |-> Unasked]
  /\ quiet' = FALSE
  /\ UNCHANGED <<github, net>>

-----------------------------------------------------------------------------
Init ==
  /\ status = [j \in Jobs |-> "none"]
  /\ closed = FALSE /\ net = {} /\ tracker = {}
  /\ sweep = Asleep /\ closing = [c \in Closers |-> Unasked]
  /\ quiet = FALSE

Handle ==
  \/ \E j \in Hosted : HandleInProgress(j) \/ HandleCompleted(j)
  \/ \E c \in Closers : HandlePullRequestClose(c)
  \/ \E m \in net : Lose(m)

Cancel(c) ==
  \/ ListActiveRunIDsForHeadSHA(c)
  \/ \E r \in Runs : CancelRun(c, r)
  \/ CancellationEnds(c)

Sweep ==
  \/ SweepBegins \/ ListInProgressRunIDs
  \/ \E j \in Jobs : CollectHostedMacOSJobs(j)
  \/ SweepEnds \/ SweepFails \/ Ticker

Next ==
  \/ \E r \in Runs : RunStarts(r)
  \/ \E j \in Jobs : JobMoves(j, "queued", "in_progress") \/ JobMoves(j, "in_progress", "completed")
  \/ PullRequestCloses
  \/ Handle \/ Sweep \/ Restart
  \/ \E c \in Closers : Cancel(c)

Spec == Init /\ [][Next]_vars

-----------------------------------------------------------------------------
(* Properties *)

HostedInProgress == {j \in Hosted : status[j] = "in_progress"}

\* Types of GitHub's state, the webhooks and the broker's two conversations;
\* the tracker holds hosted jobs only (IsHostedMacOSJob).
TypeOK ==
  /\ status \in [Jobs -> {"none", "queued", "in_progress", "completed"}]
  /\ net \subseteq {Webhook(j, a) : j \in Hosted, a \in {"in_progress", "completed"}} \cup {Closed}
  /\ tracker \subseteq Hosted
  /\ sweep.pc \in {"idle", "runs", "jobs", "swept"} /\ sweep.page \in Nat \ {0}
  /\ sweep.fetched \in Nat /\ sweep.todo \subseteq Jobs /\ sweep.found \subseteq Hosted
  /\ \A c \in Closers :
       /\ closing[c].pc \in {"idle", "list", "cancel"} /\ closing[c].page \in Nat \ {0}
       /\ closing[c].fetched \in Nat
       /\ closing[c].runs \cup closing[c].known \cup closing[c].asked \subseteq Runs
  /\ closed \in BOOLEAN /\ quiet \in BOOLEAN

\* A sweep during which nothing happened leaves the tracker exact, however many
\* pages it took and whatever webhooks were lost before
\* (ListInProgressHostedMacOSJobs, Tracker.Reconcile).
QuietSweepExact == sweep.pc = "swept" /\ quiet => tracker = HostedInProgress

\* The cancellation of a closed pull request finds every run of its head that
\* has been active since the cancellation began, although runs start and end
\* between the pages (listActiveRunIDsForHeadSHA).
HeadListingComplete ==
  \A c \in Closers : closing[c].pc = "cancel" =>
    \A r \in closing[c].known : Active(r) => r \in closing[c].runs \cup closing[c].asked
=============================================================================
