--------------------------- MODULE WebhooksProofs ---------------------------
(* Machine-checked facts about the webhook intake, for any runs, jobs, page  *)
(* size and number of cancellations under way.                               *)
EXTENDS Webhooks, NaturalOrder, FiniteSetTheorems

USE DEF vars, github

-----------------------------------------------------------------------------
(* Pages *)

\* The place of a run in a list, newest first.
Rank(runs, r) == Cardinality({q \in runs : q >= r})

\* Places are numbers up to the length of the list, and an older run comes later.
LEMMA RankFacts ==
  ASSUME NEW runs, runs \subseteq Nat, IsFiniteSet(runs)
  PROVE  /\ Cardinality(runs) \in Nat
         /\ \A r \in runs : Rank(runs, r) \in 1 .. Cardinality(runs)
         /\ \A r, q \in runs : q > r => Rank(runs, q) < Rank(runs, r)
<1>1. Cardinality(runs) \in Nat
  BY FS_CardinalityType
<1>2. ASSUME NEW r \in runs PROVE Rank(runs, r) \in 1 .. Cardinality(runs)
  <2> DEFINE A == {q \in runs : q >= r}
  <2>1. IsFiniteSet(A) /\ Cardinality(A) <= Cardinality(runs)
    BY FS_Subset
  <2>2. Cardinality(A) \in Nat /\ Cardinality(A) # 0
    <3>1. r \in A
      OBVIOUS
    <3> QED
      BY <2>1, <3>1, FS_CardinalityType, FS_EmptySet
  <2> QED
    BY <1>1, <2>1, <2>2 DEF Rank
<1>3. ASSUME NEW r \in runs, NEW q \in runs, q > r PROVE Rank(runs, q) < Rank(runs, r)
  <2> DEFINE A == {x \in runs : x >= r}
             B == {x \in runs : x >= q}
  <2>1. B \subseteq A /\ r \in A /\ r \notin B
    <3>1. r \in Nat /\ q \in Nat /\ \A x \in runs : x \in Nat
      OBVIOUS
    <3>2. \A x \in runs : x >= q => x >= r
      BY <1>3, <3>1
    <3>3. r >= r /\ ~ (r >= q)
      BY <1>3, <3>1
    <3> QED
      BY <3>2, <3>3
  <2>2. IsFiniteSet(A)
    BY FS_Subset
  <2>3. IsFiniteSet(B) /\ Cardinality(B) <= Cardinality(A) /\ Cardinality(A) # Cardinality(B)
    BY <2>1, <2>2, FS_Subset
  <2>4. Cardinality(A) \in Nat /\ Cardinality(B) \in Nat
    BY <2>2, <2>3, FS_CardinalityType
  <2> QED
    BY <2>3, <2>4 DEF Rank
<1> QED
  BY <1>1, <1>2, <1>3

\* A list that goes on behind a place has a run at the next place.
LEMMA NextPlace ==
  ASSUME NEW runs, runs \subseteq Nat, IsFiniteSet(runs), NEW k \in Nat,
         NEW r \in runs, Rank(runs, r) > k
  PROVE  \E m \in runs : Rank(runs, m) = k + 1
<1> DEFINE T == {Rank(runs, q) : q \in {x \in runs : Rank(runs, x) > k}}
<1>1. \A q \in runs : Rank(runs, q) \in Nat \ {0}
  <2>1. \A q \in runs : Rank(runs, q) \in 1 .. Cardinality(runs)
    BY RankFacts
  <2>2. Cardinality(runs) \in Nat
    BY RankFacts
  <2> QED
    BY <2>1, <2>2
<1>2. T \subseteq Nat /\ T # {}
  BY <1>1
<1>3. PICK m \in runs : Rank(runs, m) > k /\ \A q \in runs : Rank(runs, q) > k => Rank(runs, m) <= Rank(runs, q)
  <2>1. PICK t \in T : \A u \in T : t <= u
    BY <1>2, LeastNumber
  <2> QED
    BY <2>1
<1> HIDE DEF T
<1> DEFINE above == {q \in runs : q > m}
<1>4. IsFiniteSet(above) /\ above \subseteq Nat
  BY FS_Subset
<1>5. Rank(runs, m) = Cardinality(above) + 1
  <2>1. {q \in runs : q >= m} = above \cup {m} /\ m \notin above
    <3>1. m \in Nat /\ \A q \in runs : q \in Nat
      OBVIOUS
    <3>2. \A q \in runs : q >= m <=> q > m \/ q = m
      BY <3>1
    <3>3. ~ (m > m)
      BY <3>1
    <3> QED
      BY <3>2, <3>3
  <2> QED
    BY <1>4, <2>1, FS_AddElement DEF Rank
<1>6. Cardinality(above) <= k
  <2>1. CASE above = {}
    BY <2>1, FS_EmptySet
  <2>2. CASE above # {}
    <3>1. PICK n \in above : \A q \in above : n <= q
      BY <1>4, <2>2, LeastNumber
    <3>2. {q \in runs : q >= n} = above
      <4>1. ASSUME NEW q \in runs, q >= n PROVE q \in above
        BY <3>1, <4>1
      <4> QED
        BY <3>1, <4>1
    <3>3. n \in runs /\ Rank(runs, n) = Cardinality(above)
      BY <3>2 DEF Rank
    <3>4. Cardinality(above) \in Nat
      BY <1>4, FS_CardinalityType
    <3>5. ~ (Rank(runs, n) > k)
      BY <1>3, <1>5, <3>3, <3>4
    <3> QED
      BY <3>3, <3>4, <3>5
  <2> QED
    BY <2>1, <2>2
<1> QED
  BY <1>1, <1>3, <1>4, <1>5, <1>6, FS_CardinalityType

\* A run keeps or loses its place when runs are added.
LEMMA RankGrows ==
  ASSUME NEW runs, NEW more, runs \subseteq more, more \subseteq Nat, IsFiniteSet(more), NEW r \in runs
  PROVE  Rank(runs, r) \in Nat /\ Rank(more, r) \in Nat /\ Rank(runs, r) <= Rank(more, r)
<1> DEFINE A == {q \in runs : q >= r}
           B == {q \in more : q >= r}
<1>1. IsFiniteSet(B)
  BY FS_Subset
<1>2. A \subseteq B
  OBVIOUS
<1>3. IsFiniteSet(A) /\ Cardinality(A) <= Cardinality(B)
  BY <1>1, <1>2, FS_Subset
<1> QED
  BY <1>1, <1>3, FS_CardinalityType DEF Rank

Offset(page) == (page - 1) * PageSize

LEMMA OffsetFacts ==
  /\ Offset(1) = 0
  /\ \A page \in Nat \ {0} :
       /\ Offset(page) \in Nat /\ Offset(page + 1) = Offset(page) + PageSize
       /\ Offset(page + 1) = page * PageSize
  BY WebhooksAssumption DEF Offset

\* A page holds no more than its size, and the listing does not stop before a
\* run whose place is still to come, provided that no more runs were counted
\* than the pages so far can hold.
LEMMA PageFacts ==
  ASSUME NEW runs, runs \subseteq Nat, IsFiniteSet(runs), NEW page \in Nat \ {0}
  PROVE  /\ PageOf(runs, page) \subseteq runs
         /\ Cardinality(PageOf(runs, page)) \in Nat
         /\ Cardinality(PageOf(runs, page)) <= PageSize
         /\ \A r \in runs : r \in PageOf(runs, page) <=>
              Offset(page) < Rank(runs, r) /\ Rank(runs, r) <= Offset(page + 1)
         /\ \A fetched \in Nat :
              /\ fetched <= Offset(page)
              /\ PageOf(runs, page) = {} \/ fetched + Cardinality(PageOf(runs, page)) >= Cardinality(runs)
              => \A r \in runs : Rank(runs, r) <= Offset(page + 1)
<1> DEFINE P == PageOf(runs, page)
           lo == Offset(page)
           hi == Offset(page + 1)
<1>1. /\ lo \in Nat /\ hi = lo + PageSize /\ hi \in Nat /\ PageSize \in Nat \ {0}
      /\ hi = page * PageSize
  <2>1. PageSize \in Nat \ {0}
    BY WebhooksAssumption
  <2>2. lo \in Nat /\ hi = lo + PageSize /\ hi = page * PageSize
    BY OffsetFacts
  <2> HIDE DEF lo, hi
  <2> QED
    BY <2>1, <2>2
<1>2. P \subseteq runs /\ \A r \in runs : r \in P <=> lo < Rank(runs, r) /\ Rank(runs, r) <= hi
  BY <1>1 DEF PageOf, Rank, Offset
<1> HIDE DEF P, lo, hi
<1>3. \A r \in runs : Rank(runs, r) \in Nat /\ Rank(runs, r) <= Cardinality(runs)
  <2>1. \A r \in runs : Rank(runs, r) \in 1 .. Cardinality(runs)
    BY RankFacts
  <2>2. Cardinality(runs) \in Nat
    BY RankFacts
  <2> QED
    BY <2>1, <2>2
<1>4. Cardinality(P) \in Nat /\ Cardinality(P) <= PageSize
  <2> DEFINE I == (lo + 1) .. hi
             f == [r \in P |-> Rank(runs, r)]
  <2>1. IsFiniteSet(I) /\ Cardinality(I) = PageSize
    BY <1>1, FS_Interval
  <2>2. f \in [P -> I]
    BY <1>1, <1>2, <1>3
  <2>3. ASSUME NEW r \in P, NEW q \in P, r # q PROVE f[r] # f[q]
    <3>1. r \in runs /\ q \in runs /\ r \in Nat /\ q \in Nat
      BY <1>2
    <3>2. q > r \/ r > q
      BY <2>3, <3>1
    <3>3. Rank(runs, q) < Rank(runs, r) \/ Rank(runs, r) < Rank(runs, q)
      BY <3>1, <3>2, RankFacts
    <3> QED
      BY <1>3, <3>1, <3>3
  <2>4. f \in Injection(P, I)
    BY <2>2, <2>3 DEF Injection, IsInjective
  <2>5. IsFiniteSet(P) /\ Cardinality(P) <= Cardinality(I)
    BY <2>1, <2>4, FS_Injection
  <2> QED
    BY <2>1, <2>5, FS_CardinalityType
<1>5. ASSUME NEW fetched \in Nat, fetched <= lo,
             P = {} \/ fetched + Cardinality(P) >= Cardinality(runs), NEW r \in runs
      PROVE  Rank(runs, r) <= hi
  <2>1. CASE fetched + Cardinality(P) >= Cardinality(runs)
    <3>1. Cardinality(runs) \in Nat
      BY RankFacts
    <3> QED
      BY <1>1, <1>3, <1>4, <1>5, <2>1, <3>1
  <2>2. CASE P = {}
    <3>1. SUFFICES ASSUME Rank(runs, r) > hi PROVE FALSE
      BY <1>1, <1>3
    <3>2. Rank(runs, r) > lo
      BY <1>1, <1>3, <3>1
    <3>3. PICK m \in runs : Rank(runs, m) = lo + 1
      BY <1>1, <3>2, NextPlace
    <3>4. m \in P
      BY <1>1, <1>2, <3>3
    <3> QED
      BY <2>2, <3>4
  <2> QED
    BY <1>5, <2>1, <2>2
<1> QED
  BY <1>2, <1>4, <1>5 DEF P, lo, hi

-----------------------------------------------------------------------------
(* GitHub's runs *)

SweepRecords ==
  [pc : {"idle", "runs", "jobs", "swept"}, page : Nat \ {0}, fetched : Nat,
   todo : SUBSET Jobs, found : SUBSET Jobs]
CloseRecords ==
  [pc : {"idle", "list", "cancel"}, page : Nat \ {0}, fetched : Nat,
   runs : SUBSET Runs, known : SUBSET Runs, asked : SUBSET Runs]

WebhookTypes ==
  /\ status \in [Jobs -> {"none", "queued", "in_progress", "completed"}]
  /\ sweep \in SweepRecords
  /\ closing \in [Closers -> CloseRecords]
  /\ quiet \in BOOLEAN

LEMMA IdleRecords ==
  /\ Asleep \in SweepRecords /\ Unasked \in CloseRecords
  /\ \A k \in {"runs", "swept"} : [Asleep EXCEPT !.pc = k] \in SweepRecords
  /\ \A S \in SUBSET Runs : [Unasked EXCEPT !.pc = "list", !.known = S] \in CloseRecords
<1>1. Asleep \in SweepRecords /\ Unasked \in CloseRecords
  BY DEF Asleep, Unasked, SweepRecords, CloseRecords
<1>2. ASSUME NEW k \in {"runs", "swept"} PROVE [Asleep EXCEPT !.pc = k] \in SweepRecords
  BY <1>1 DEF SweepRecords
<1>3. ASSUME NEW S \in SUBSET Runs PROVE [Unasked EXCEPT !.pc = "list", !.known = S] \in CloseRecords
  BY <1>1 DEF CloseRecords
<1> QED
  BY <1>1, <1>2, <1>3

\* A page that is taken in.
LEMMA PageTaken ==
  ASSUME NEW page \in Nat \ {0}, NEW fetched \in Nat
  PROVE  /\ \A k \in CloseRecords, to \in {"list", "cancel"}, S \in SUBSET Runs :
              [k EXCEPT !.pc = to, !.page = page, !.fetched = fetched, !.runs = S] \in CloseRecords
         /\ \A k \in SweepRecords, to \in {"runs", "jobs"}, S \in SUBSET Jobs :
              [k EXCEPT !.pc = to, !.page = page, !.fetched = fetched, !.todo = S] \in SweepRecords
  BY DEF CloseRecords, SweepRecords

HeadList  == {r \in HeadRuns : Exists(r)}
SweepList == {r \in Runs : InProgress(r)}

LEMMA ListsFinite ==
  /\ HeadList \subseteq Nat /\ IsFiniteSet(HeadList) /\ HeadList \subseteq Runs
  /\ HeadList' \subseteq Nat /\ IsFiniteSet(HeadList')
  /\ SweepList \subseteq Nat /\ IsFiniteSet(SweepList) /\ SweepList \subseteq Runs
<1>1. HeadList \subseteq Runs /\ HeadList' \subseteq Runs /\ SweepList \subseteq Runs
  BY WebhooksAssumption DEF HeadList, SweepList
<1>2. Runs \subseteq Nat /\ IsFiniteSet(Runs)
  BY WebhooksAssumption
<1> QED
  BY <1>1, <1>2, FS_Subset

\* The steps that change a job's status.
StatusMoves ==
  \/ UNCHANGED status
  \/ \E r \in Runs : /\ \A j \in JobsOf(r) : status[j] = "none"
                     /\ status' = [j \in Jobs |-> IF RunOf[j] = r THEN "queued" ELSE status[j]]
  \/ \E r \in Runs : status' = [j \in Jobs |-> IF RunOf[j] = r THEN "completed" ELSE status[j]]
  \/ \E j \in Jobs : /\ status[j] \in {"queued", "in_progress"}
                     /\ status' \in {[status EXCEPT ![j] = "in_progress"], [status EXCEPT ![j] = "completed"]}

LEMMA StatusStep == ASSUME [Next]_vars PROVE StatusMoves
  BY DEF StatusMoves, Next, RunStarts, JobMoves, PullRequestCloses, Handle, HandleInProgress,
         HandleCompleted, HandlePullRequestClose, Lose, Cancel, ListActiveRunIDsForHeadSHA, CancelRun,
         CancellationEnds, Sweep, SweepBegins, ListInProgressRunIDs, CollectHostedMacOSJobs,
         SweepEnds, SweepFails, Ticker, Restart

\* A run stays in GitHub's list, and one that has ended stays ended.
LEMMA RunsStay ==
  ASSUME WebhookTypes, StatusMoves, NEW r \in Runs, Exists(r)
  PROVE  Exists(r)' /\ (Active(r)' => Active(r))
<1> USE DEF Exists, Active, JobsOf, WebhookTypes
<1>1. CASE UNCHANGED status
  BY <1>1
<1>2. ASSUME NEW q \in Runs, \A j \in JobsOf(q) : status[j] = "none",
             status' = [j \in Jobs |-> IF RunOf[j] = q THEN "queued" ELSE status[j]]
      PROVE  Exists(r)' /\ (Active(r)' => Active(r))
  BY <1>2
<1>3. ASSUME NEW q \in Runs, status' = [j \in Jobs |-> IF RunOf[j] = q THEN "completed" ELSE status[j]]
      PROVE  Exists(r)' /\ (Active(r)' => Active(r))
  BY <1>3
<1>4. ASSUME NEW j \in Jobs, status[j] \in {"queued", "in_progress"},
             status' \in {[status EXCEPT ![j] = "in_progress"], [status EXCEPT ![j] = "completed"]}
      PROVE  Exists(r)' /\ (Active(r)' => Active(r))
  BY <1>4
<1> QED
  BY <1>1, <1>2, <1>3, <1>4 DEF StatusMoves

-----------------------------------------------------------------------------
(* The listing of a closed pull request's runs *)

\* Every run that was active when cancellation c began, and still is, has been
\* found, or its place is still to come.
FoundOrToCome(c) ==
  /\ closing[c].fetched <= Offset(closing[c].page)
  /\ \A r \in closing[c].known :
       Active(r) => r \in closing[c].runs \/ Rank(HeadList, r) > Offset(closing[c].page)

ClosingControl ==
  \A c \in Closers :
    /\ closing[c].known \subseteq HeadList
    /\ closing[c].pc = "list" => FoundOrToCome(c)
    /\ closing[c].pc = "cancel" =>
         \A r \in closing[c].known : Active(r) => r \in closing[c].runs \cup closing[c].asked

\* Every step keeps the state well typed.
LEMMA TypeStep == ASSUME WebhookTypes, [Next]_vars PROVE WebhookTypes'
<1> USE DEF WebhookTypes
<1>1. status' \in [Jobs -> {"none", "queued", "in_progress", "completed"}]
  BY StatusStep DEF StatusMoves
<1>2. CASE UNCHANGED vars
  BY <1>2
<1>3. CASE \E r \in Runs : RunStarts(r)
  BY <1>1, <1>3 DEF RunStarts
<1>4. CASE \E j \in Jobs : JobMoves(j, "queued", "in_progress") \/ JobMoves(j, "in_progress", "completed")
  BY <1>1, <1>4 DEF JobMoves
<1>5. CASE PullRequestCloses
  BY <1>1, <1>5 DEF PullRequestCloses
<1>6. CASE \E j \in Hosted : HandleInProgress(j) \/ HandleCompleted(j)
  BY <1>1, <1>6 DEF HandleInProgress, HandleCompleted
<1>7. ASSUME NEW c \in Closers, HandlePullRequestClose(c) PROVE WebhookTypes'
  <2>1. {r \in HeadRuns : Active(r)} \in SUBSET Runs
    BY WebhooksAssumption
  <2> QED
    BY <1>1, <1>7, <2>1, IdleRecords DEF HandlePullRequestClose
<1>8. CASE \E m \in net : Lose(m)
  BY <1>1, <1>8 DEF Lose
<1>9. ASSUME NEW c \in Closers, ListActiveRunIDsForHeadSHA(c) PROVE WebhookTypes'
  <2> DEFINE k == closing[c]
             page == PageOf(HeadList, k.page)
             next == closing'[c]
  <2>1. k \in CloseRecords
    OBVIOUS
  <2>2. k.page \in Nat \ {0} /\ k.fetched \in Nat /\ k.runs \in SUBSET Runs
    BY <2>1 DEF CloseRecords
  <2>3. page \subseteq Runs /\ Cardinality(page) \in Nat
    <3>1. page \subseteq HeadList /\ Cardinality(page) \in Nat
      BY <2>2, ListsFinite, PageFacts, ZenonT(60)
    <3> QED
      BY <3>1, ListsFinite
  <2>4. PICK to \in {"list", "cancel"} :
          closing' = [closing EXCEPT ![c] = [k EXCEPT !.pc = to, !.page = k.page + 1,
                        !.fetched = k.fetched + Cardinality(page),
                        !.runs = k.runs \cup {r \in page : Active(r)}]]
    BY <1>9, ZenonT(60) DEF ListActiveRunIDsForHeadSHA, HeadList
  <2>5. [k EXCEPT !.pc = to, !.page = k.page + 1, !.fetched = k.fetched + Cardinality(page),
                  !.runs = k.runs \cup {r \in page : Active(r)}] \in CloseRecords
    <3>1. k.page + 1 \in Nat \ {0} /\ k.fetched + Cardinality(page) \in Nat
      BY <2>2, <2>3
    <3>2. k.runs \cup {r \in page : Active(r)} \in SUBSET Runs
      BY <2>2, <2>3
    <3> HIDE DEF page, k
    <3> QED
      BY <2>1, <3>1, <3>2, PageTaken
  <2>6. closing' \in [Closers -> CloseRecords]
    BY <2>4, <2>5
  <2> QED
    BY <1>1, <1>9, <2>6 DEF ListActiveRunIDsForHeadSHA
<1>10. ASSUME NEW c \in Closers, NEW r \in Runs, CancelRun(c, r) PROVE WebhookTypes'
  <2> DEFINE k == closing[c]
  <2>1. k \in CloseRecords
    OBVIOUS
  <2>2. [k EXCEPT !.runs = k.runs \ {r}, !.asked = k.asked \cup {r}] \in CloseRecords
    BY <2>1 DEF CloseRecords
  <2>3. closing' = [closing EXCEPT ![c] = [k EXCEPT !.runs = k.runs \ {r}, !.asked = k.asked \cup {r}]]
    BY <1>10 DEF CancelRun
  <2>4. quiet' \in BOOLEAN /\ sweep' = sweep
    BY <1>10 DEF CancelRun
  <2> QED
    BY <1>1, <2>2, <2>3, <2>4
<1>11. ASSUME NEW c \in Closers, CancellationEnds(c) PROVE WebhookTypes'
  BY <1>1, <1>11, IdleRecords DEF CancellationEnds
<1>12. CASE SweepBegins
  BY <1>1, <1>12, IdleRecords DEF SweepBegins
<1>13. CASE ListInProgressRunIDs
  <2> DEFINE page == PageOf(SweepList, sweep.page)
  <2>1. sweep.page \in Nat \ {0} /\ sweep.fetched \in Nat /\ sweep.todo \in SUBSET Jobs
    BY DEF SweepRecords
  <2>2. Cardinality(page) \in Nat
    BY <2>1, ListsFinite, PageFacts
  <2>3. PICK to \in {"runs", "jobs"} :
          sweep' = [sweep EXCEPT !.pc = to, !.page = sweep.page + 1,
                      !.fetched = sweep.fetched + Cardinality(page),
                      !.todo = sweep.todo \cup {j \in Jobs : RunOf[j] \in page}]
    BY <1>13 DEF ListInProgressRunIDs, SweepList
  <2>4. sweep' \in SweepRecords
    <3>1. sweep.page + 1 \in Nat \ {0} /\ sweep.fetched + Cardinality(page) \in Nat
      BY <2>1, <2>2
    <3>2. sweep.todo \cup {j \in Jobs : RunOf[j] \in page} \in SUBSET Jobs
      BY <2>1
    <3> HIDE DEF page
    <3> QED
      BY <2>3, <3>1, <3>2, PageTaken
  <2> QED
    BY <1>1, <1>13, <2>4 DEF ListInProgressRunIDs
<1>14. ASSUME NEW j \in Jobs, CollectHostedMacOSJobs(j) PROVE WebhookTypes'
  <2>1. PICK found \in {sweep.found, sweep.found \cup {j}} :
          sweep' = [sweep EXCEPT !.todo = sweep.todo \ {j}, !.found = found]
    BY <1>14 DEF CollectHostedMacOSJobs
  <2>2. sweep' \in SweepRecords
    BY <2>1 DEF SweepRecords
  <2> QED
    BY <1>1, <1>14, <2>2 DEF CollectHostedMacOSJobs
<1>15. CASE SweepEnds \/ SweepFails \/ Ticker
  BY <1>1, <1>15, IdleRecords DEF SweepEnds, SweepFails, Ticker
<1>16. CASE Restart
  BY <1>1, <1>16, IdleRecords DEF Restart
<1> QED
  BY <1>2, <1>3, <1>4, <1>5, <1>6, <1>7, <1>8, <1>9, <1>10, <1>11, <1>12, <1>13, <1>14, <1>15, <1>16
     DEF Next, Handle, Cancel, Sweep

\* What GitHub does between two pages loses no run: those behind stay behind.
LEMMA ClosingSteady ==
  ASSUME WebhookTypes, ClosingControl, StatusMoves, NEW c \in Closers, closing'[c] = closing[c]
  PROVE  /\ closing'[c].known \subseteq HeadList'
         /\ closing'[c].pc = "list" => FoundOrToCome(c)'
         /\ closing'[c].pc = "cancel" =>
              \A r \in closing'[c].known : Active(r)' => r \in closing'[c].runs \cup closing'[c].asked
<1>1. closing[c].known \subseteq HeadList
  BY DEF ClosingControl
<1>2. \A r \in HeadList : r \in HeadList' /\ (Active(r)' => Active(r))
  BY RunsStay, WebhooksAssumption DEF HeadList
<1>3. \A r \in HeadList : Rank(HeadList, r) \in Nat /\ Rank(HeadList', r) \in Nat
                          /\ Rank(HeadList, r) <= Rank(HeadList', r)
  BY <1>2, ListsFinite, RankGrows
<1>4. closing[c].page \in Nat \ {0}
  BY DEF WebhookTypes, CloseRecords
<1>5. Offset(closing[c].page) \in Nat
  BY <1>4, OffsetFacts
<1>6. ASSUME closing'[c].pc = "list" PROVE FoundOrToCome(c)'
  <2>1. FoundOrToCome(c)
    BY <1>6 DEF ClosingControl
  <2>2. ASSUME NEW r \in closing[c].known, Active(r)', r \notin closing[c].runs
        PROVE  Rank(HeadList', r) > Offset(closing[c].page)
    <3>1. r \in HeadList /\ Active(r)
      BY <1>1, <1>2, <2>2
    <3>2. Rank(HeadList, r) > Offset(closing[c].page)
      BY <2>1, <2>2, <3>1 DEF FoundOrToCome
    <3> QED
      BY <1>3, <1>5, <3>1, <3>2
  <2> QED
    BY <2>1, <2>2 DEF FoundOrToCome
<1> QED
  BY <1>1, <1>2, <1>6 DEF ClosingControl

\* The part of ClosingControl about cancellation c.
ClosingOf(c) ==
  /\ closing[c].known \subseteq HeadList
  /\ closing[c].pc = "list" => FoundOrToCome(c)
  /\ closing[c].pc = "cancel" =>
       \A r \in closing[c].known : Active(r) => r \in closing[c].runs \cup closing[c].asked

\* A page takes what is on it; a listing that is over has nothing to come.
LEMMA PageStep ==
  ASSUME WebhookTypes, ClosingControl, NEW c \in Closers, ListActiveRunIDsForHeadSHA(c)
  PROVE  ClosingOf(c)'
<1> DEFINE k == closing[c]
           n == closing'[c]
           page == PageOf(HeadList, k.page)
<1>1. k \in CloseRecords /\ k.pc = "list" /\ k.page \in Nat \ {0} /\ k.fetched \in Nat
  BY DEF ListActiveRunIDsForHeadSHA, WebhookTypes, CloseRecords
<1>2. k.known \subseteq HeadList /\ FoundOrToCome(c)
  BY <1>1 DEF ClosingControl
<1>3. /\ n.pc = IF ListingOver(c, page, Cardinality(HeadList)) THEN "cancel" ELSE "list"
      /\ n.page = k.page + 1 /\ n.fetched = k.fetched + Cardinality(page)
      /\ n.runs = k.runs \cup {r \in page : Active(r)}
      /\ n.known = k.known /\ n.asked = k.asked
  BY <1>1 DEF ListActiveRunIDsForHeadSHA, HeadList, WebhookTypes, CloseRecords
<1>4. HeadList' = HeadList /\ \A r : Active(r)' = Active(r)
  BY DEF ListActiveRunIDsForHeadSHA, HeadList, Exists, Active
<1>5. /\ page \subseteq HeadList /\ Cardinality(page) \in Nat /\ Cardinality(page) <= PageSize
      /\ \A r \in HeadList : r \in page <=>
           Offset(k.page) < Rank(HeadList, r) /\ Rank(HeadList, r) <= Offset(k.page + 1)
      /\ k.fetched <= Offset(k.page) /\ ListingOver(c, page, Cardinality(HeadList))
           => \A r \in HeadList : Rank(HeadList, r) <= Offset(k.page + 1)
  BY <1>1, ListsFinite, PageFacts DEF ListingOver
<1>6. \A r \in HeadList : Rank(HeadList, r) \in Nat
  <2>1. HeadList \subseteq HeadList
    OBVIOUS
  <2> QED
    BY <2>1, ListsFinite, RankGrows
<1>7. /\ Offset(k.page) \in Nat /\ Offset(k.page + 1) = Offset(k.page) + PageSize
      /\ PageSize \in Nat
  BY <1>1, OffsetFacts, WebhooksAssumption
<1>8. k.fetched <= Offset(k.page)
  BY <1>2 DEF FoundOrToCome
<1>9. ASSUME NEW r \in k.known, Active(r) PROVE r \in n.runs \/ Rank(HeadList, r) > Offset(n.page)
  <2>1. r \in HeadList
    BY <1>2
  <2>2. r \in k.runs \/ Rank(HeadList, r) > Offset(k.page)
    BY <1>2, <1>9 DEF FoundOrToCome
  <2>3. CASE r \in k.runs \/ r \in page
    BY <1>3, <1>9, <2>3
  <2>4. CASE Rank(HeadList, r) > Offset(k.page) /\ r \notin page
    BY <1>3, <1>5, <1>6, <1>7, <2>1, <2>4
  <2> QED
    BY <2>2, <2>3, <2>4
<1> HIDE DEF page, k, n
<1>10. CASE ListingOver(c, page, Cardinality(HeadList))
  <2>1. n.pc = "cancel"
    BY <1>3, <1>10
  <2>2. ASSUME NEW r \in k.known, Active(r) PROVE r \in n.runs
    <3>1. r \in HeadList /\ Rank(HeadList, r) <= Offset(n.page)
      BY <1>2, <1>3, <1>5, <1>8, <1>10 DEF k
    <3> QED
      BY <1>3, <1>6, <1>7, <1>9, <2>2, <3>1
  <2> QED
    BY <1>2, <1>3, <1>4, <2>1, <2>2 DEF ClosingOf, k, n
<1>11. CASE ~ ListingOver(c, page, Cardinality(HeadList))
  <2>1. n.pc = "list"
    BY <1>3, <1>11
  <2>2. n.fetched <= Offset(n.page)
    BY <1>1, <1>3, <1>5, <1>7, <1>8
  <2>3. FoundOrToCome(c)'
    BY <1>3, <1>4, <1>9, <2>2 DEF FoundOrToCome, n
  <2> QED
    BY <1>2, <1>3, <1>4, <2>1, <2>3 DEF ClosingOf, k, n
<1> QED
  BY <1>10, <1>11

\* Every step keeps every cancellation's listing on course.
LEMMA ClosingStep == ASSUME WebhookTypes, ClosingControl, [Next]_vars PROVE ClosingControl'
<1>1. SUFFICES ASSUME NEW c \in Closers PROVE ClosingOf(c)'
  BY DEF ClosingControl, ClosingOf
<1>2. StatusMoves
  BY StatusStep
<1>3. CASE closing'[c] = closing[c]
  BY <1>2, <1>3, ClosingSteady DEF ClosingOf
<1>4. CASE ListActiveRunIDsForHeadSHA(c)
  BY <1>4, PageStep
<1>5. CASE closing'[c] = Unasked
  BY <1>5 DEF ClosingOf, Unasked
<1>6. CASE HandlePullRequestClose(c)
  <2> DEFINE K == {r \in HeadRuns : Active(r)}
  <2>1. closing'[c] = [Unasked EXCEPT !.pc = "list", !.known = K]
    BY <1>6 DEF HandlePullRequestClose, WebhookTypes
  <2>2. /\ closing'[c].pc = "list" /\ closing'[c].known = K /\ closing'[c].page = 1
        /\ closing'[c].fetched = 0
    BY <2>1 DEF Unasked
  <2>3. HeadList' = HeadList
    BY <1>6 DEF HandlePullRequestClose, HeadList, Exists
  <2>4. K \subseteq HeadList
    BY DEF HeadList, Exists, Active
  <2>5. \A r \in HeadList : Rank(HeadList, r) > 0
    <3>1. \A r \in HeadList : Rank(HeadList, r) \in 1 .. Cardinality(HeadList)
      BY ListsFinite, RankFacts
    <3>2. Cardinality(HeadList) \in Nat
      BY ListsFinite, RankFacts
    <3> QED
      BY <3>1, <3>2
  <2> HIDE DEF K
  <2>6. FoundOrToCome(c)'
    BY <2>2, <2>3, <2>4, <2>5, OffsetFacts DEF FoundOrToCome
  <2> QED
    BY <2>2, <2>3, <2>4, <2>6 DEF ClosingOf
<1>7. ASSUME NEW q \in Runs, CancelRun(c, q) PROVE ClosingOf(c)'
  <2>1. /\ closing[c].pc = "cancel" /\ closing'[c].pc = "cancel"
        /\ closing'[c].runs = closing[c].runs \ {q} /\ closing'[c].asked = closing[c].asked \cup {q}
        /\ closing'[c].known = closing[c].known
    BY <1>7 DEF CancelRun, WebhookTypes, CloseRecords
  <2>2. /\ closing[c].known \subseteq HeadList
        /\ \A r \in closing[c].known : Active(r) => r \in closing[c].runs \cup closing[c].asked
    BY <2>1 DEF ClosingControl
  <2>3. \A r \in HeadList : r \in HeadList' /\ (Active(r)' => Active(r))
    BY <1>2, RunsStay, WebhooksAssumption DEF HeadList
  <2> QED
    BY <2>1, <2>2, <2>3 DEF ClosingOf
<1>8. \/ closing'[c] = closing[c] \/ ListActiveRunIDsForHeadSHA(c) \/ closing'[c] = Unasked
      \/ HandlePullRequestClose(c) \/ \E q \in Runs : CancelRun(c, q)
  <2> USE DEF WebhookTypes
  <2>1. CASE \E d \in Closers : Cancel(d)
    <3>1. PICK d \in Closers : Cancel(d)
      BY <2>1, SMTT(30)
    <3>2. CASE ListActiveRunIDsForHeadSHA(d)
      BY <3>2 DEF ListActiveRunIDsForHeadSHA
    <3>3. CASE \E q \in Runs : CancelRun(d, q)
      <4>1. d # c => closing'[c] = closing[c]
        BY <3>3 DEF CancelRun
      <4> QED
        BY <3>3, <4>1
    <3>4. CASE CancellationEnds(d)
      BY <3>4 DEF CancellationEnds
    <3> QED
      BY <3>1, <3>2, <3>3, <3>4 DEF Cancel
  <2>2. CASE Handle
    BY <2>2 DEF Handle, HandleInProgress, HandleCompleted, HandlePullRequestClose, Lose
  <2>3. CASE Sweep \/ Restart
    BY <2>3 DEF Sweep, SweepBegins, ListInProgressRunIDs, CollectHostedMacOSJobs, SweepEnds,
                SweepFails, Ticker, Restart
  <2>4. CASE UNCHANGED vars \/ PullRequestCloses \/ (\E r \in Runs : RunStarts(r))
             \/ \E j \in Jobs : JobMoves(j, "queued", "in_progress") \/ JobMoves(j, "in_progress", "completed")
    BY <2>4 DEF PullRequestCloses, RunStarts, JobMoves
  <2> QED
    BY <2>1, <2>2, <2>3, <2>4 DEF Next
<1> QED
  BY <1>3, <1>4, <1>5, <1>6, <1>7, <1>8

-----------------------------------------------------------------------------
(* A sweep during which nothing happens *)

\* A hosted job in progress has been read or found, or its run's place is still
\* to come.
SweepControl ==
  quiet =>
    /\ sweep.pc = "runs" =>
         /\ sweep.fetched <= Offset(sweep.page) /\ sweep.found = {}
         /\ \A j \in HostedInProgress :
              j \in sweep.todo \/ Rank(SweepList, RunOf[j]) > Offset(sweep.page)
    /\ sweep.pc = "jobs" =>
         sweep.found \subseteq HostedInProgress /\ HostedInProgress \subseteq sweep.todo \cup sweep.found
    /\ sweep.pc = "swept" => tracker = HostedInProgress

\* The run of a hosted job in progress is in the list that a sweep reads.
LEMMA HostedListed ==
  ASSUME WebhookTypes, NEW j \in HostedInProgress
  PROVE  j \in Jobs /\ RunOf[j] \in SweepList
  BY WebhooksAssumption DEF HostedInProgress, SweepList, InProgress, Active, JobsOf, WebhookTypes

LEMMA SweepPage ==
  ASSUME WebhookTypes, SweepControl, quiet, ListInProgressRunIDs PROVE SweepControl'
<1> DEFINE page == PageOf(SweepList, sweep.page)
           H == HostedInProgress
<1>1. sweep.pc = "runs" /\ sweep.page \in Nat \ {0} /\ sweep.fetched \in Nat
  BY DEF ListInProgressRunIDs, WebhookTypes, SweepRecords
<1>2. /\ sweep.fetched <= Offset(sweep.page) /\ sweep.found = {}
      /\ \A j \in H : j \in sweep.todo \/ Rank(SweepList, RunOf[j]) > Offset(sweep.page)
  BY <1>1 DEF SweepControl
<1>3. /\ sweep'.pc = IF LastPage(page, Cardinality(SweepList)) THEN "jobs" ELSE "runs"
      /\ sweep'.page = sweep.page + 1 /\ sweep'.fetched = sweep.fetched + Cardinality(page)
      /\ sweep'.todo = sweep.todo \cup {j \in Jobs : RunOf[j] \in page}
      /\ sweep'.found = sweep.found
  BY DEF ListInProgressRunIDs, SweepList, WebhookTypes, SweepRecords
<1>4. SweepList' = SweepList /\ HostedInProgress' = H
  BY DEF ListInProgressRunIDs, SweepList, HostedInProgress, InProgress, Active
<1>5. /\ Cardinality(page) \in Nat /\ Cardinality(page) <= PageSize
      /\ \A r \in SweepList : r \in page <=>
           Offset(sweep.page) < Rank(SweepList, r) /\ Rank(SweepList, r) <= Offset(sweep.page + 1)
      /\ sweep.fetched <= Offset(sweep.page) /\ LastPage(page, Cardinality(SweepList))
           => \A r \in SweepList : Rank(SweepList, r) <= Offset(sweep.page + 1)
  BY <1>1, ListsFinite, PageFacts DEF LastPage
<1>6. \A r \in SweepList : Rank(SweepList, r) \in Nat
  <2>1. SweepList \subseteq SweepList
    OBVIOUS
  <2> QED
    BY <2>1, ListsFinite, RankGrows
<1>7. /\ Offset(sweep.page) \in Nat /\ Offset(sweep.page + 1) = Offset(sweep.page) + PageSize
      /\ PageSize \in Nat
  BY <1>1, OffsetFacts, WebhooksAssumption
<1>8. \A j \in H : j \in Jobs /\ RunOf[j] \in SweepList
  BY HostedListed
<1> HIDE DEF page, H
<1>9. ASSUME NEW j \in H PROVE j \in sweep'.todo \/ Rank(SweepList, RunOf[j]) > Offset(sweep'.page)
  <2>1. CASE j \in sweep.todo \/ RunOf[j] \in page
    BY <1>3, <1>8, <2>1
  <2>2. CASE j \notin sweep.todo /\ RunOf[j] \notin page
    <3>1. Rank(SweepList, RunOf[j]) > Offset(sweep.page)
      BY <1>2, <2>2
    <3> QED
      BY <1>3, <1>5, <1>6, <1>7, <1>8, <2>2, <3>1
  <2> QED
    BY <2>1, <2>2
<1>10. CASE LastPage(page, Cardinality(SweepList))
  <2>1. \A j \in H : ~ (Rank(SweepList, RunOf[j]) > Offset(sweep'.page))
    BY <1>2, <1>3, <1>5, <1>6, <1>7, <1>8, <1>10
  <2>2. H \subseteq sweep'.todo
    BY <1>9, <2>1
  <2> QED
    BY <1>2, <1>3, <1>4, <1>10, <2>2 DEF SweepControl
<1>11. CASE ~ LastPage(page, Cardinality(SweepList))
  <2>1. sweep'.fetched <= Offset(sweep'.page)
    BY <1>1, <1>2, <1>3, <1>5, <1>7
  <2> QED
    BY <1>2, <1>3, <1>4, <1>9, <1>11, <2>1 DEF SweepControl
<1> QED
  BY <1>10, <1>11

\* Every step keeps a quiet sweep on course.
LEMMA SweepStep == ASSUME WebhookTypes, SweepControl, [Next]_vars PROVE SweepControl'
<1>1. SUFFICES ASSUME quiet' PROVE SweepControl'
  BY DEF SweepControl
<1>2. ASSUME quiet' = quiet, sweep' = sweep, tracker' = tracker, status' = status PROVE SweepControl'
  BY <1>2 DEF SweepControl, HostedInProgress, SweepList, InProgress, Active
<1>3. CASE UNCHANGED vars \/ PullRequestCloses \/ (\E r \in Runs : RunStarts(r))
           \/ \E j \in Jobs : JobMoves(j, "queued", "in_progress") \/ JobMoves(j, "in_progress", "completed")
  BY <1>1, <1>2, <1>3 DEF PullRequestCloses, RunStarts, JobMoves
<1>4. CASE Handle
  BY <1>1, <1>2, <1>4 DEF Handle, HandleInProgress, HandleCompleted, HandlePullRequestClose, Lose
<1>5. CASE \E c \in Closers : Cancel(c)
  <2>1. PICK c \in Closers : Cancel(c)
    BY <1>5, SMTT(30)
  <2>2. quiet' = quiet /\ sweep' = sweep /\ tracker' = tracker /\ status' = status
    BY <1>1, <2>1 DEF Cancel, ListActiveRunIDsForHeadSHA, CancelRun, CancellationEnds
  <2> QED
    BY <1>2, <2>2
<1>6. CASE SweepBegins
  <2>1. sweep'.pc = "runs" /\ sweep'.page = 1 /\ sweep'.fetched = 0 /\ sweep'.found = {}
    BY <1>6 DEF SweepBegins, Asleep
  <2>2. SweepList' = SweepList /\ HostedInProgress' = HostedInProgress
    BY <1>6 DEF SweepBegins, SweepList, HostedInProgress, InProgress, Active
  <2>3. \A r \in SweepList : Rank(SweepList, r) > 0
    <3>1. \A r \in SweepList : Rank(SweepList, r) \in 1 .. Cardinality(SweepList)
      BY ListsFinite, RankFacts
    <3>2. Cardinality(SweepList) \in Nat
      BY ListsFinite, RankFacts
    <3> QED
      BY <3>1, <3>2
  <2>4. \A j \in HostedInProgress : RunOf[j] \in SweepList
    BY HostedListed
  <2> QED
    BY <2>1, <2>2, <2>3, <2>4, OffsetFacts DEF SweepControl
<1>7. CASE ListInProgressRunIDs
  <2>1. quiet
    BY <1>1, <1>7 DEF ListInProgressRunIDs
  <2> QED
    BY <1>7, <2>1, SweepPage
<1>8. ASSUME NEW j \in Jobs, CollectHostedMacOSJobs(j) PROVE SweepControl'
  <2>1. /\ sweep.pc = "jobs" /\ sweep'.pc = "jobs" /\ sweep'.todo = sweep.todo \ {j}
        /\ sweep'.found = IF j \in HostedInProgress THEN sweep.found \cup {j} ELSE sweep.found
    BY <1>8 DEF CollectHostedMacOSJobs, HostedInProgress, WebhookTypes, SweepRecords
  <2>2. HostedInProgress' = HostedInProgress /\ quiet
    BY <1>1, <1>8 DEF CollectHostedMacOSJobs, HostedInProgress
  <2> QED
    BY <2>1, <2>2 DEF SweepControl
<1>9. CASE SweepEnds
  <2>1. /\ sweep.pc = "jobs" /\ sweep.todo = {} /\ tracker' = sweep.found /\ sweep'.pc = "swept"
        /\ quiet /\ HostedInProgress' = HostedInProgress
    BY <1>1, <1>9 DEF SweepEnds, Asleep, HostedInProgress
  <2> QED
    BY <2>1 DEF SweepControl
<1>10. CASE SweepFails \/ Restart
  BY <1>1, <1>10 DEF SweepFails, Restart
<1>11. CASE Ticker
  <2>1. sweep'.pc = "idle"
    BY <1>11 DEF Ticker, Asleep
  <2> QED
    BY <2>1 DEF SweepControl
<1> QED
  BY <1>3, <1>4, <1>5, <1>6, <1>7, <1>8, <1>9, <1>10, <1>11 DEF Next, Sweep

-----------------------------------------------------------------------------
WebhookInv == WebhookTypes /\ ClosingControl /\ SweepControl

LEMMA IntakeHolds == Spec => []WebhookInv
<1>1. Init => WebhookInv
  <2> SUFFICES ASSUME Init PROVE WebhookInv
    OBVIOUS
  <2>1. WebhookTypes
    BY IdleRecords DEF Init, WebhookTypes
  <2>2. ClosingControl
    BY DEF Init, ClosingControl, Unasked
  <2>3. SweepControl
    BY DEF Init, SweepControl
  <2> QED
    BY <2>1, <2>2, <2>3 DEF WebhookInv
<1>2. WebhookInv /\ [Next]_vars => WebhookInv'
  BY TypeStep, ClosingStep, SweepStep DEF WebhookInv
<1> QED
  BY <1>1, <1>2, PTL DEF Spec

\* The cancellation of a closed pull request finds every run of the head that
\* has been active throughout, for any number of runs, pages and cancellations
\* (listActiveRunIDsForHeadSHA).
THEOREM HeadListingHolds == Spec => []HeadListingComplete
<1>1. WebhookInv => HeadListingComplete
  BY DEF WebhookInv, ClosingControl, HeadListingComplete
<1> QED
  BY <1>1, IntakeHolds, PTL

\* A sweep during which nothing happened leaves the tracker exact, for any
\* number of runs and jobs and any page size (Tracker.Reconcile).
THEOREM QuietSweepHolds == Spec => []QuietSweepExact
<1>1. WebhookInv => QuietSweepExact
  BY DEF WebhookInv, SweepControl, QuietSweepExact
<1> QED
  BY <1>1, IntakeHolds, PTL
=============================================================================
