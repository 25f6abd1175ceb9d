------------------------ MODULE SlotProvisionProofs ------------------------
(* Machine-checked facts about the provisioning of slots, for any slots,     *)
(* caches and attempts and any number of failures and deaths of the agent.   *)
EXTENDS SlotProvision, SequenceTheorems, TLAPS

USE DEF vars, brewVars, dirVars

-----------------------------------------------------------------------------
(* Search lists *)

Kept(list, k) == IF k = Own THEN list ELSE Append(list, k)

\* What userKeychains makes of a list of one or two keychains.
LEMMA UserKeychainsOf ==
  ASSUME NEW list, Len(list) \in {1, 2}
  PROVE  UserKeychains(list) = IF Len(list) = 1 THEN Kept(<<>>, list[1])
                               ELSE Kept(Kept(<<>>, list[1]), list[2])
<1> DEFINE x == Kept(<<>>, list[1])
           y == Kept(x, list[2])
           g == [n \in 0 .. Len(list) |-> IF n = 0 THEN <<>> ELSE IF n = 1 THEN x ELSE y]
           Body(f, n) == IF n = 0 THEN <<>>
                         ELSE IF list[n] = Own THEN f[n - 1] ELSE Append(f[n - 1], list[n])
           P(f) == f = [n \in 0 .. Len(list) |-> Body(f, n)]
           h == CHOOSE f : P(f)
<1>1. x = Kept(<<>>, list[1]) /\ y = Kept(x, list[2])
  OBVIOUS
<1>2. UserKeychains(list) = h[Len(list)]
  BY DEF UserKeychains
<1> HIDE DEF x, y
<1>3. \E f : P(f)
  <2>1. /\ g[0] = <<>> /\ g[1] = x /\ (Len(list) = 2 => g[2] = y)
        /\ g = [n \in 0 .. Len(list) |-> g[n]]
    OBVIOUS
  <2> HIDE DEF g
  <2>2. ASSUME NEW n \in 0 .. Len(list) PROVE g[n] = Body(g, n)
    <3>1. CASE n = 0  BY <2>1, <3>1
    <3>2. CASE n = 1  BY <1>1, <2>1, <3>2 DEF Kept
    <3>3. CASE n = 2
      <4>1. Len(list) = 2 /\ g[2] = y /\ g[2 - 1] = x
        BY <2>1, <2>2, <3>3
      <4> QED
        BY <1>1, <3>3, <4>1 DEF Kept
    <3> QED
      BY <3>1, <3>2, <3>3
  <2>3. P(g)
    BY <2>1, <2>2
  <2> QED
    BY <2>3, Zenon
<1>4. P(h)
  BY <1>3, Zenon
<1> HIDE DEF h
<1>5. \A n \in 0 .. Len(list) : h[n] = Body(h, n)
  BY <1>4
<1>6. h[0] = <<>>
  BY <1>5
<1>7. h[1] = IF list[1] = Own THEN h[0] ELSE Append(h[0], list[1])
  BY <1>5
<1>8. h[1] = x
  BY <1>1, <1>6, <1>7 DEF Kept
<1>9. ASSUME Len(list) = 2 PROVE h[2] = y
  <2>1. h[2] = IF list[2] = Own THEN h[1] ELSE Append(h[1], list[2])
    BY <1>5, <1>9
  <2> QED
    BY <1>1, <1>8, <2>1 DEF Kept
<1> QED
  BY <1>1, <1>2, <1>8, <1>9

SearchLists == {<<Other>>, <<Own, Other>>, <<Other, Own>>}

\* The slot's keychain comes to the front of each list that can occur, once.
LEMMA SearchListOf ==
  ASSUME NEW list \in SearchLists PROVE SearchList(list) = <<Own, Other>>
<1>1. UserKeychains(list) = <<Other>>
  <2> USE ProvisionAssumption
  <2>1. Kept(<<>>, Own) = <<>> /\ Kept(<<>>, Other) = Append(<<>>, Other)
    BY DEF Kept
  <2>2. Append(<<>>, Other) = <<Other>>
    OBVIOUS
  <2>3. Kept(<<Other>>, Own) = <<Other>>
    BY DEF Kept
  <2> HIDE DEF Kept
  <2>4. CASE list = <<Other>>
    <3>1. Len(list) = 1 /\ list[1] = Other
      BY <2>4
    <3> QED
      BY <2>1, <2>2, <3>1, UserKeychainsOf
  <2>5. CASE list = <<Own, Other>>
    <3>1. Len(list) = 2 /\ list[1] = Own /\ list[2] = Other
      BY <2>5
    <3>2. UserKeychains(list) = Kept(Kept(<<>>, Own), Other)
      BY <3>1, UserKeychainsOf
    <3> QED
      BY <2>1, <2>2, <3>2
  <2>6. CASE list = <<Other, Own>>
    <3>1. Len(list) = 2 /\ list[1] = Other /\ list[2] = Own
      BY <2>6
    <3>2. UserKeychains(list) = Kept(Kept(<<>>, Other), Own)
      BY <3>1, UserKeychainsOf
    <3> QED
      BY <2>1, <2>2, <2>3, <3>2
  <2> QED
    BY <2>4, <2>5, <2>6 DEF SearchLists
<1>2. <<Own>> \o <<Other>> = <<Own, Other>>
  <2> DEFINE K == {Own, Other}
             a == <<Own>>
             b == <<Other>>
             c == <<Own, Other>>
  <2>1. a \in Seq(K) /\ b \in Seq(K) /\ c \in Seq(K)
    OBVIOUS
  <2>2. Len(a) = 1 /\ Len(b) = 1 /\ Len(c) = 2 /\ a[1] = Own /\ b[1] = Other
        /\ c[1] = Own /\ c[2] = Other
    OBVIOUS
  <2> HIDE DEF a, b, c
  <2>3. a \o b \in Seq(K) /\ Len(a \o b) = 2 /\ (a \o b)[1] = Own /\ (a \o b)[2] = Other
    BY <2>1, <2>2
  <2>4. \A i \in 1 .. Len(c) : (a \o b)[i] = c[i]
    BY <2>2, <2>3
  <2>5. a \o b = c
    BY <2>1, <2>2, <2>3, <2>4, SeqEqual
  <2> QED
    BY <2>5 DEF a, b, c
<1> QED
  BY <1>1, <1>2 DEF SearchList

-----------------------------------------------------------------------------
(* The directories and the marker *)

\* The types of what a build reads and writes.
ProvisionTypes ==
  /\ pc \in [Slots -> {"idle", "marker", "update", "provision", "remove", "clone", "tmp", "home",
                       "seed", "record", "keychain", "built", "unsigned", "failed"}]
  /\ provisioned \in [Slots -> BOOLEAN]
  /\ runnerDir \in [Slots -> {"absent", "partial", "whole"}]
  /\ tmpDir \in [Slots -> {"absent", "fresh"}]
  /\ slotHome \in [Slots -> 0 .. Caches + 1]
  /\ keychains \in [Slots -> SearchLists]

\* How far a slot's directories are at each control point of its build, and that
\* a slot on record is whole.
ProvisionControl ==
  \A s \in Slots :
    /\ pc[s] = "clone" => runnerDir[s] = "absent"
    /\ pc[s] \in {"tmp", "home", "seed", "record"} \/ provisioned[s] => runnerDir[s] = "whole"
    /\ pc[s] \in {"home", "seed", "record"} \/ provisioned[s] => tmpDir[s] = "fresh"
    /\ pc[s] = "seed" => slotHome[s] > 0
    /\ s \in half \/ slotHome[s] \in {0, Caches + 1} \/ pc[s] = "seed"
    /\ pc[s] = "record" \/ provisioned[s] => SingleSlot \/ slotHome[s] = Caches + 1 \/ s \in half
    /\ pc[s] \in {"remove", "clone", "tmp", "home", "seed", "record"} => ~provisioned[s]
    /\ pc[s] \in {"keychain", "built", "unsigned"} => provisioned[s]
    /\ pc[s] = "built" /\ ~SingleSlot => keychains[s] = <<Own, Other>>

\* A marker of this boot means an update; a cleared path holds no older one.
MarkerControl ==
  /\ marker = "written" => refreshed
  /\ cleared => marker \in {"absent", "written", "stuck"}
  /\ \A s \in Slots : pc[s] = "marker" => cleared

ProvisionInv == ProvisionTypes /\ ProvisionControl /\ MarkerControl

\* The lists that a build or a job leaves are of those that can occur.
LEMMA SetupLists ==
  /\ \A list \in SearchLists : SearchList(list) = <<Own, Other>>
  /\ <<Own, Other>> \in SearchLists /\ <<Other, Own>> \in SearchLists
  BY SearchListOf DEF SearchLists

\* An agent keeps its slots.
LEMMA ServedStep == ASSUME [Next]_vars PROVE served' = served /\ (SingleSlot' <=> SingleSlot)
<1>1. served' = served
  BY DEF Next, Build, ProvisionSlot, Begin, EnsureHomebrewRefreshed, RefreshHomebrewIndex,
         EnsureSlotProvisioned, RemoveDirs, CloneRunner, MakeTmpDir, StatSlotHome, SeedSlotHome,
         RecordSlot, SetupSlotKeychain, JobRuns, Again, AgentDies
<1> QED
  BY <1>1 DEF SingleSlot

\* Every step keeps the state well typed.
LEMMA TypeStep == ASSUME ProvisionTypes, [Next]_vars PROVE ProvisionTypes'
<1> USE ProvisionAssumption DEF Go, Then, Aborts, Fault, ProvisionTypes
<1>1. CASE UNCHANGED vars
  BY <1>1
<1>2. ASSUME NEW s \in Slots, Begin(s) PROVE ProvisionTypes'
  BY <1>2 DEF Begin, ClearStaleMarker
<1>3. ASSUME NEW s \in Slots, EnsureHomebrewRefreshed(s) PROVE ProvisionTypes'
  BY <1>3 DEF EnsureHomebrewRefreshed
<1>4. ASSUME NEW s \in Slots, RefreshHomebrewIndex(s) PROVE ProvisionTypes'
  BY <1>4 DEF RefreshHomebrewIndex, Updated, WriteBootRefreshMarker
<1>5. ASSUME NEW s \in Slots, EnsureSlotProvisioned(s) PROVE ProvisionTypes'
  BY <1>5 DEF EnsureSlotProvisioned
<1>6. ASSUME NEW s \in Slots, RemoveDirs(s) PROVE ProvisionTypes'
  BY <1>6 DEF RemoveDirs
<1>7. ASSUME NEW s \in Slots, CloneRunner(s) PROVE ProvisionTypes'
  BY <1>7 DEF CloneRunner
<1>8. ASSUME NEW s \in Slots, MakeTmpDir(s) PROVE ProvisionTypes'
  BY <1>8 DEF MakeTmpDir, AfterTmp
<1>9. ASSUME NEW s \in Slots, StatSlotHome(s) PROVE ProvisionTypes'
  BY <1>9 DEF StatSlotHome
<1>10. ASSUME NEW s \in Slots, SeedSlotHome(s) PROVE ProvisionTypes'
  BY <1>10 DEF SeedSlotHome
<1>11. ASSUME NEW s \in Slots, RecordSlot(s) PROVE ProvisionTypes'
  BY <1>11 DEF RecordSlot
<1>12. ASSUME NEW s \in Slots, SetupSlotKeychain(s) PROVE ProvisionTypes'
  <2>1. keychains[s] \in SearchLists
    OBVIOUS
  <2>2. SearchList(keychains[s]) \in SearchLists
    BY <2>1, SetupLists
  <2>3. keychains' \in [Slots -> SearchLists]
    BY <1>12, <2>2 DEF SetupSlotKeychain
  <2> QED
    BY <1>12, <2>3 DEF SetupSlotKeychain
<1>13. ASSUME NEW s \in Slots, JobRuns(s) PROVE ProvisionTypes'
  BY <1>13, SetupLists, SMTT(30) DEF JobRuns
<1>14. ASSUME NEW s \in Slots, Again(s) PROVE ProvisionTypes'
  BY <1>14 DEF Again
<1>15. CASE AgentDies
  BY <1>15 DEF AgentDies
<1> QED
  BY <1>1, <1>2, <1>3, <1>4, <1>5, <1>6, <1>7, <1>8, <1>9, <1>10, <1>11, <1>12, <1>13, <1>14, <1>15 DEF Next, Build, ProvisionSlot

\* Every step keeps the slots' directories and search lists in order.
LEMMA ControlStep == ASSUME ProvisionTypes, ProvisionControl, [Next]_vars PROVE ProvisionControl'
<1> USE ProvisionAssumption, ServedStep DEF Go, Then, Aborts, Fault, ProvisionTypes, ProvisionControl
<1>1. CASE UNCHANGED vars
  BY <1>1
<1>2. ASSUME NEW s \in Slots, Begin(s) PROVE ProvisionControl'
  BY <1>2 DEF Begin, ClearStaleMarker
<1>3. ASSUME NEW s \in Slots, EnsureHomebrewRefreshed(s) PROVE ProvisionControl'
  BY <1>3 DEF EnsureHomebrewRefreshed
<1>4. ASSUME NEW s \in Slots, RefreshHomebrewIndex(s) PROVE ProvisionControl'
  BY <1>4 DEF RefreshHomebrewIndex, Updated, WriteBootRefreshMarker
<1>5. ASSUME NEW s \in Slots, EnsureSlotProvisioned(s) PROVE ProvisionControl'
  BY <1>5 DEF EnsureSlotProvisioned
<1>6. ASSUME NEW s \in Slots, RemoveDirs(s) PROVE ProvisionControl'
  BY <1>6 DEF RemoveDirs
<1>7. ASSUME NEW s \in Slots, CloneRunner(s) PROVE ProvisionControl'
  BY <1>7 DEF CloneRunner
<1>8. ASSUME NEW s \in Slots, MakeTmpDir(s) PROVE ProvisionControl'
  BY <1>8 DEF MakeTmpDir, AfterTmp
<1>9. ASSUME NEW s \in Slots, StatSlotHome(s) PROVE ProvisionControl'
  BY <1>9 DEF StatSlotHome
<1>10. ASSUME NEW s \in Slots, SeedSlotHome(s) PROVE ProvisionControl'
  BY <1>10 DEF SeedSlotHome
<1>11. ASSUME NEW s \in Slots, RecordSlot(s) PROVE ProvisionControl'
  BY <1>11 DEF RecordSlot
<1>12. ASSUME NEW s \in Slots, SetupSlotKeychain(s) PROVE ProvisionControl'
  BY <1>12, SetupLists DEF SetupSlotKeychain
<1>13. ASSUME NEW s \in Slots, JobRuns(s) PROVE ProvisionControl'
  BY <1>13, SetupLists DEF JobRuns
<1>14. ASSUME NEW s \in Slots, Again(s) PROVE ProvisionControl'
  BY <1>14 DEF Again
<1>15. CASE AgentDies
  BY <1>15 DEF AgentDies
<1> QED
  BY <1>1, <1>2, <1>3, <1>4, <1>5, <1>6, <1>7, <1>8, <1>9, <1>10, <1>11, <1>12, <1>13, <1>14, <1>15 DEF Next, Build, ProvisionSlot

\* Every step keeps the marker in order.
LEMMA MarkerStep == ASSUME ProvisionTypes, MarkerControl, [Next]_vars PROVE MarkerControl'
<1> USE ProvisionAssumption DEF Go, Then, Aborts, Fault, ProvisionTypes, MarkerControl
<1>1. CASE UNCHANGED vars
  BY <1>1
<1>2. ASSUME NEW s \in Slots, Begin(s) PROVE MarkerControl'
  BY <1>2 DEF Begin, ClearStaleMarker
<1>3. ASSUME NEW s \in Slots, EnsureHomebrewRefreshed(s) PROVE MarkerControl'
  BY <1>3 DEF EnsureHomebrewRefreshed
<1>4. ASSUME NEW s \in Slots, RefreshHomebrewIndex(s) PROVE MarkerControl'
  BY <1>4 DEF RefreshHomebrewIndex, Updated, WriteBootRefreshMarker
<1>5. ASSUME NEW s \in Slots, EnsureSlotProvisioned(s) PROVE MarkerControl'
  BY <1>5 DEF EnsureSlotProvisioned
<1>6. ASSUME NEW s \in Slots, RemoveDirs(s) PROVE MarkerControl'
  BY <1>6 DEF RemoveDirs
<1>7. ASSUME NEW s \in Slots, CloneRunner(s) PROVE MarkerControl'
  BY <1>7 DEF CloneRunner
<1>8. ASSUME NEW s \in Slots, MakeTmpDir(s) PROVE MarkerControl'
  BY <1>8 DEF MakeTmpDir, AfterTmp
<1>9. ASSUME NEW s \in Slots, StatSlotHome(s) PROVE MarkerControl'
  BY <1>9 DEF StatSlotHome
<1>10. ASSUME NEW s \in Slots, SeedSlotHome(s) PROVE MarkerControl'
  BY <1>10 DEF SeedSlotHome
<1>11. ASSUME NEW s \in Slots, RecordSlot(s) PROVE MarkerControl'
  BY <1>11 DEF RecordSlot
<1>12. ASSUME NEW s \in Slots, SetupSlotKeychain(s) PROVE MarkerControl'
  BY <1>12, SetupLists DEF SetupSlotKeychain
<1>13. ASSUME NEW s \in Slots, JobRuns(s) PROVE MarkerControl'
  BY <1>13, SetupLists DEF JobRuns
<1>14. ASSUME NEW s \in Slots, Again(s) PROVE MarkerControl'
  BY <1>14 DEF Again
<1>15. CASE AgentDies
  BY <1>15 DEF AgentDies
<1> QED
  BY <1>1, <1>2, <1>3, <1>4, <1>5, <1>6, <1>7, <1>8, <1>9, <1>10, <1>11, <1>12, <1>13, <1>14, <1>15 DEF Next, Build, ProvisionSlot

\* Slots and marker are in order in every reachable state.
LEMMA ProvisionHolds == Spec => []ProvisionInv
<1>1. Init => ProvisionInv
  BY ProvisionAssumption
     DEF Init, ProvisionInv, ProvisionTypes, ProvisionControl, MarkerControl, SearchLists
<1>2. ProvisionInv /\ [Next]_vars => ProvisionInv'
  BY TypeStep, ControlStep, MarkerStep DEF ProvisionInv
<1> QED
  BY <1>1, <1>2, PTL DEF Spec

\* A build that returns has its directories whole, every cache in its HOME unless
\* an earlier seeding of it was broken off, and its keychain in front unless its
\* setup failed, after any number of failures, deaths of the agent and earlier
\* jobs (provisionSlot, seedSlotHome, setupSlotKeychain).
THEOREM WholeSlotHolds == Spec => []LaunchesOnWholeSlot
<1>1. ProvisionInv => LaunchesOnWholeSlot
  BY DEF ProvisionInv, ProvisionControl, LaunchesOnWholeSlot, Returned
<1> QED
  BY <1>1, ProvisionHolds, PTL

\* A refresh that is skipped was done in this boot, unless the marker could not
\* be removed (clearStaleMarker, ensureHomebrewRefreshed).
THEOREM SkipHolds == Spec => []SkipMeansRefreshed
<1>1. ProvisionInv => SkipMeansRefreshed
  BY DEF ProvisionInv, MarkerControl, SkipMeansRefreshed, MarkerPresent
<1> QED
  BY <1>1, ProvisionHolds, PTL
=============================================================================
