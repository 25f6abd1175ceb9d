------------------------- MODULE StatusStreamProofs -------------------------
(* Machine-checked facts about the status stream, for any chunk sizes, cap,  *)
(* exit codes and number of events, broken streams and broker restarts.      *)
EXTENDS StatusStream, NaturalOrder, SequenceTheorems

USE DEF vars, logVars, execVars, streamVars, drainVars

-----------------------------------------------------------------------------
(* Bytes *)

Sized(evs) == Len(evs) \in Nat /\ \A n \in 1 .. Len(evs) : evs[n].size \in Nat

\* The running sum of a log's sizes exists and is what its definition says.
LEMMA BytesSteps ==
  ASSUME NEW evs, Sized(evs)
  PROVE  /\ Bytes(evs)[0] = 0
         /\ \A n \in 1 .. Len(evs) : Bytes(evs)[n] = Bytes(evs)[n - 1] + evs[n].size
<1> DEFINE N == Len(evs)
           Body(f, n) == IF n = 0 THEN 0 ELSE f[n - 1] + evs[n].size
           P(f, m) == f = [n \in 0 .. m |-> Body(f, n)]
           S == {m \in Nat : \E f : P(f, m)}
           h == CHOOSE f : P(f, N)
<1>1. N \in Nat
  BY DEF Sized
<1>2. 0 \in S
  <2> DEFINE g == [n \in 0 .. 0 |-> 0]
  <2>1. P(g, 0)
    OBVIOUS
  <2> QED
    BY <2>1
<1>3. ASSUME NEW m \in 0 .. N, m \in S, m < N PROVE m + 1 \in S
  <2>1. PICK f : P(f, m)
    BY <1>3
  <2> DEFINE g == [n \in 0 .. m + 1 |-> IF n <= m THEN f[n] ELSE f[m] + evs[m + 1].size]
  <2>2. \A n \in 0 .. m : f[n] = Body(f, n)
    BY <2>1
  <2>3. \A n \in 0 .. m : g[n] = f[n]
    BY <1>1, <1>3
  <2>4. g[m + 1] = f[m] + evs[m + 1].size
    BY <1>1, <1>3
  <2>5. g = [n \in 0 .. m + 1 |-> g[n]]
    OBVIOUS
  <2> HIDE DEF g
  <2>6. ASSUME NEW n \in 0 .. m + 1 PROVE g[n] = Body(g, n)
    <3>1. CASE n = 0
      BY <2>2, <2>3, <3>1, <1>3
    <3>2. CASE n \in 1 .. m
      <4>1. n \in 0 .. m /\ n - 1 \in 0 .. m /\ n # 0
        BY <1>1, <1>3, <3>2
      <4> QED
        BY <2>2, <2>3, <4>1
    <3>3. CASE n = m + 1
      <4>1. n # 0 /\ n - 1 = m /\ m \in 0 .. m
        BY <1>1, <1>3, <3>3
      <4> QED
        BY <2>3, <2>4, <3>3, <4>1
    <3> QED
      BY <1>1, <1>3, <3>1, <3>2, <3>3
  <2>7. P(g, m + 1)
    BY <2>5, <2>6
  <2>8. \E f2 : P(f2, m + 1)
    BY <2>7, Zenon
  <2> HIDE DEF P
  <2> QED
    BY <1>1, <1>3, <2>8
<1>4. 0 .. N \subseteq S
  <2> HIDE DEF S
  <2> QED
    BY <1>1, <1>2, <1>3, Upwards
<1>5. N \in S
  BY <1>1, <1>4
<1>6. P(h, N)
  BY <1>5, Zenon
<1>7. Bytes(evs) = h
  BY DEF Bytes
<1> HIDE DEF h
<1>8. \A n \in 0 .. N : h[n] = Body(h, n)
  BY <1>6
<1> QED
  BY <1>1, <1>7, <1>8

\* Two logs with the same sizes between two positions differ by as much after
\* them as before.
LEMMA BytesDiffer ==
  ASSUME NEW a, NEW b, Sized(a), Sized(b), NEW s \in Nat, NEW m \in Nat,
         s <= m, m <= Len(a), m <= Len(b),
         \A n \in s + 1 .. m : a[n].size = b[n].size,
         Bytes(a)[s] \in Nat, Bytes(b)[s] \in Nat
  PROVE  /\ Bytes(a)[m] \in Nat /\ Bytes(b)[m] \in Nat
         /\ Bytes(a)[m] - Bytes(b)[m] = Bytes(a)[s] - Bytes(b)[s]
<1> DEFINE A == Bytes(a)
           B == Bytes(b)
           S == {n \in Nat : A[n] \in Nat /\ B[n] \in Nat /\ A[n] - B[n] = A[s] - B[s]}
<1>1. \A n \in 1 .. m : /\ A[n] = A[n - 1] + a[n].size /\ B[n] = B[n - 1] + b[n].size
                        /\ a[n].size \in Nat /\ b[n].size \in Nat
  <2>1. \A n \in 1 .. m : A[n] = A[n - 1] + a[n].size /\ a[n].size \in Nat
    BY BytesSteps DEF Sized
  <2>2. \A n \in 1 .. m : B[n] = B[n - 1] + b[n].size /\ b[n].size \in Nat
    BY BytesSteps DEF Sized
  <2> QED
    BY <2>1, <2>2
<1>2. A[s] \in Nat /\ B[s] \in Nat
  OBVIOUS
<1> HIDE DEF A, B
<1>3. s \in S
  BY <1>2
<1>4. ASSUME NEW n \in s .. m, n \in S, n < m PROVE n + 1 \in S
  <2>1. PICK i \in 1 .. m : i = n + 1 /\ i - 1 = n /\ i \in s + 1 .. m /\ i \in Nat
    BY <1>4
  <2>2. A[i] = A[n] + a[i].size /\ B[i] = B[n] + b[i].size
    BY <1>1, <2>1
  <2>3. a[i].size = b[i].size /\ a[i].size \in Nat
    BY <1>1, <2>1
  <2>4. A[n] \in Nat /\ B[n] \in Nat /\ A[n] - B[n] = A[s] - B[s]
    BY <1>4
  <2>5. A[i] \in Nat /\ B[i] \in Nat
    <3>1. \A x, y \in Nat : x + y \in Nat
      OBVIOUS
    <3>2. A[n] + a[i].size \in Nat
      BY <2>3, <2>4, <3>1
    <3>3. B[n] + b[i].size \in Nat
      BY <2>3, <2>4, <3>1
    <3> QED
      BY <2>2, <3>2, <3>3
  <2>6. A[i] - B[i] = A[n] - B[n]
    BY <2>2, <2>3, <2>4, SMTT(30)
  <2> QED
    BY <2>1, <2>4, <2>5, <2>6
<1>5. s .. m \subseteq S
  <2> HIDE DEF S
  <2> QED
    BY <1>3, <1>4, Upwards
<1>6. m \in S
  BY <1>5
<1> QED
  BY <1>6 DEF A, B

\* Where no event has bytes the sum stays as it is.
LEMMA BytesSame ==
  ASSUME NEW a, Sized(a), NEW s \in Nat, NEW m \in Nat, s <= m, m <= Len(a),
         \A n \in s + 1 .. m : a[n].size = 0, Bytes(a)[s] \in Nat
  PROVE  Bytes(a)[m] = Bytes(a)[s]
<1> DEFINE A == Bytes(a)
           S == {n \in Nat : A[n] = A[s]}
<1>1. \A n \in 1 .. m : A[n] = A[n - 1] + a[n].size
  BY BytesSteps DEF Sized
<1> HIDE DEF A
<1>2. s \in S
  OBVIOUS
<1>3. ASSUME NEW n \in s .. m, n \in S, n < m PROVE n + 1 \in S
  <2>1. n + 1 \in 1 .. m /\ (n + 1) - 1 = n /\ n + 1 \in s + 1 .. m
    BY <1>3
  <2>2. A[n + 1] = A[n] + a[n + 1].size /\ a[n + 1].size = 0
    BY <1>1, <2>1
  <2>3. A[n] \in Nat /\ A[n] = A[s]
    BY <1>3 DEF A
  <2> QED
    BY <2>1, <2>2, <2>3
<1>4. s .. m \subseteq S
  <2> HIDE DEF S
  <2> QED
    BY <1>2, <1>3, Upwards
<1>5. m \in S
  BY <1>4
<1> QED
  BY <1>5 DEF A

-----------------------------------------------------------------------------
(* The log *)

Event == [kind : {"phase", "beat", "log", "result"}, size : Nat, code : Int]

LogTypes == events \in Seq(Event) /\ retained \in Nat /\ capCursor \in Nat

\* What the scan has passed is empty, what it has not passed is whole, and the
\* count is the sum of what is there.
CapControl ==
  /\ capCursor \in 1 .. Len(events) + 1
  /\ retained = Bytes(events)[Len(events)]
  /\ retained <= Cap
  /\ \A n \in 1 .. Len(events) :
       /\ n < capCursor => events[n].size = 0
       /\ events[n].kind # "log" => events[n].size = 0
       /\ events[n].kind = "log" => events[n].code = 0
       /\ n >= capCursor /\ events[n].kind = "log" => events[n].size > 0

\* The log only grows, and a chunk's data may only be given up.
LogGrows ==
  /\ events' \in Seq(Event) /\ Len(events') >= Len(events)
  /\ \A n \in 1 .. Len(events) :
       /\ events'[n].kind = events[n].kind /\ events'[n].code = events[n].code
       /\ events'[n].size = events[n].size \/ events'[n].size = 0

\* The events of a well typed log.
LEMMA EventFacts ==
  ASSUME NEW evs \in Seq(Event)
  PROVE  /\ Sized(evs) /\ DOMAIN evs = 1 .. Len(evs)
         /\ \A n \in 1 .. Len(evs) : evs[n] \in Event
<1>1. Len(evs) \in Nat /\ DOMAIN evs = 1 .. Len(evs)
  BY LenProperties
<1>2. \A n \in 1 .. Len(evs) : evs[n] \in Event
  BY ElementOfSeq
<1>3. \A n \in 1 .. Len(evs) : evs[n].size \in Nat
  BY <1>2 DEF Event
<1> QED
  BY <1>1, <1>2, <1>3 DEF Sized

\* The sum over a log without bytes before a position starts at zero there.
LEMMA BytesBefore ==
  ASSUME NEW evs \in Seq(Event), NEW m \in 0 .. Len(evs), \A n \in 1 .. m : evs[n].size = 0
  PROVE  Bytes(evs)[m] = 0
<1>1. Sized(evs) /\ Bytes(evs)[0] = 0
  BY EventFacts, BytesSteps
<1>2. \A n \in 0 + 1 .. m : evs[n].size = 0
  OBVIOUS
<1> QED
  BY <1>1, <1>2, BytesSame

\* appendEventLocked of anything but a chunk.
LEMMA OtherAppended ==
  ASSUME LogTypes, CapControl, NEW more \in Seq(Event), AppendOther(more),
         \A i \in 1 .. Len(more) : more[i].kind # "log" /\ more[i].size = 0
  PROVE  /\ LogGrows /\ LogTypes' /\ CapControl'
         /\ Len(events') = Len(events) + Len(more)
         /\ \A i \in 1 .. Len(more) : events'[Len(events) + i] = more[i]
<1> DEFINE L == Len(events)
           M == Len(more)
<1>1. L \in Nat /\ M \in Nat
  BY DEF LogTypes
<1>2. /\ events' \in Seq(Event) /\ Len(events') = L + M
      /\ \A n \in 1 .. L + M : events'[n] = IF n <= L THEN events[n] ELSE more[n - L]
  BY ConcatProperties DEF AppendOther, LogTypes
<1>3. \A n \in 1 .. L : events'[n] = events[n]
  BY <1>1, <1>2
<1>4. \A i \in 1 .. M : events'[L + i] = more[i]
  BY <1>1, <1>2
<1>5. \A n \in L + 1 .. L + M : events'[n].kind # "log" /\ events'[n].size = 0
  <2> TAKE n \in L + 1 .. L + M
  <2>1. n - L \in 1 .. M /\ n \in 1 .. L + M /\ ~ (n <= L)
    BY <1>1
  <2> QED
    BY <1>2, <2>1
<1>6. Sized(events) /\ Sized(events')
  BY <1>2, EventFacts DEF LogTypes
<1>7. Bytes(events')[L] = Bytes(events)[L] /\ Bytes(events')[L] \in Nat
  <2>1. Bytes(events)[0] = 0 /\ Bytes(events')[0] = 0
    BY <1>6, BytesSteps
  <2>2. \A n \in 0 + 1 .. L : events'[n].size = events[n].size
    BY <1>3
  <2>3. /\ Bytes(events')[L] \in Nat /\ Bytes(events)[L] \in Nat
        /\ Bytes(events')[L] - Bytes(events)[L] = Bytes(events')[0] - Bytes(events)[0]
    <3>1. 0 \in Nat /\ 0 <= L /\ L <= Len(events') /\ L <= Len(events)
      BY <1>1, <1>2
    <3>2. Bytes(events')[0] \in Nat /\ Bytes(events)[0] \in Nat
      BY <2>1
    <3> HIDE DEF L
    <3> QED
      BY <1>1, <1>6, <2>2, <3>1, <3>2, BytesDiffer
  <2> QED
    BY <2>1, <2>3
<1>8. Bytes(events')[L + M] = Bytes(events')[L]
  BY <1>1, <1>2, <1>5, <1>6, <1>7, BytesSame, SMTT(30)
<1>9. retained' = retained /\ capCursor' = capCursor
  BY DEF AppendOther
<1>10. LogGrows
  BY <1>1, <1>2, <1>3 DEF LogGrows
<1>11. CapControl'
  <2>1. retained' = Bytes(events')[Len(events')] /\ retained' <= Cap
    BY <1>2, <1>7, <1>8, <1>9 DEF CapControl
  <2>2. capCursor' \in 1 .. Len(events') + 1
    BY <1>1, <1>2, <1>9 DEF CapControl
  <2>3. ASSUME NEW n \in 1 .. Len(events')
        PROVE  /\ n < capCursor' => events'[n].size = 0
               /\ events'[n].kind # "log" => events'[n].size = 0
               /\ events'[n].kind = "log" => events'[n].code = 0
               /\ n >= capCursor' /\ events'[n].kind = "log" => events'[n].size > 0
    <3>1. CASE n \in 1 .. L
      BY <1>3, <1>9, <3>1 DEF CapControl
    <3>2. CASE n \in L + 1 .. L + M
      BY <1>5, <3>2
    <3> QED
      BY <1>1, <1>2, <3>1, <3>2
  <2> QED
    BY <2>1, <2>2, <2>3 DEF CapControl
<1> QED
  BY <1>2, <1>4, <1>9, <1>10, <1>11 DEF LogTypes

\* The eviction scan stops, at the end of the log or where the cap is met.
LEMMA StopFacts ==
  ASSUME NEW evs, NEW bytes, Len(evs) \in Nat, capCursor \in 1 .. Len(evs) + 1,
         \A n \in capCursor .. Len(evs) + 1 : Left(evs, bytes, n) \in Int
  PROVE  /\ Stop(evs, bytes) \in capCursor .. Len(evs) + 1
         /\ Stop(evs, bytes) = Len(evs) + 1 \/ Left(evs, bytes, Stop(evs, bytes)) <= Cap
<1> DEFINE W == capCursor .. Len(evs) + 1
           P(n) == n = Len(evs) + 1 \/ Left(evs, bytes, n) <= Cap
           Q(n) == P(n) /\ \A k \in capCursor .. n - 1 : Left(evs, bytes, k) > Cap
           T == {n \in W : P(n)}
<1>1. T \subseteq Nat /\ T # {}
  <2>1. Len(evs) + 1 \in T
    OBVIOUS
  <2> QED
    BY <2>1
<1>2. PICK m \in T : \A n \in T : m <= n
  BY <1>1, LeastNumber
<1>3. Q(m)
  <2>1. ASSUME NEW k \in capCursor .. m - 1 PROVE Left(evs, bytes, k) > Cap
    <3>1. k \in W /\ ~ (m <= k)
      BY <1>2
    <3>2. ~ P(k)
      BY <1>2, <3>1
    <3> QED
      BY <3>1, <3>2, StreamAssumption
  <2> QED
    BY <1>2, <2>1
<1>4. \E n \in W : Q(n)
  BY <1>2, <1>3
<1>5. Stop(evs, bytes) = CHOOSE n \in W : Q(n)
  BY DEF Stop
<1> HIDE DEF Q, W
<1>6. Stop(evs, bytes) \in W /\ Q(Stop(evs, bytes))
  BY <1>4, <1>5, Zenon
<1> QED
  BY <1>6 DEF Q, W

\* captureOutput's append: the chunk comes in whole or empty, older chunks are
\* given up in order, and the count stays exact and within the cap.
LEMMA ChunkAppended ==
  ASSUME LogTypes, CapControl, NEW size \in Sizes, AppendLog(size)
  PROVE  /\ LogGrows /\ LogTypes' /\ CapControl'
         /\ Len(events') = Len(events) + 1 /\ events'[Len(events) + 1].kind = "log"
<1> DEFINE L == Len(events)
           evs == Append(events, Log(size))
           bytes == retained + size
           c == capCursor
           B == Bytes(evs)
           s == Stop(evs, bytes)
<1>1. L \in Nat /\ size \in Nat \ {0} /\ c \in 1 .. L + 1 /\ Cap \in Nat /\ bytes \in Nat
  BY StreamAssumption DEF LogTypes, CapControl
<1>2. /\ evs \in Seq(Event) /\ Len(evs) = L + 1
      /\ \A n \in 1 .. L : evs[n] = events[n]
      /\ evs[L + 1] = Log(size)
  <2>1. Log(size) \in Event
    BY <1>1 DEF Log, Event
  <2> QED
    BY <1>1, <2>1 DEF LogTypes
<1>3. Log(size).size = size /\ Log(size).kind = "log" /\ Log(0).size = 0 /\ Log(0).kind = "log"
      /\ Log(size).code = 0 /\ Log(0).code = 0 /\ Log(0) \in Event
  BY DEF Log, Event
<1>4. Sized(events) /\ Sized(evs) /\ DOMAIN evs = 1 .. L + 1 /\ \A n \in 1 .. L + 1 : evs[n] \in Event
  BY <1>2, EventFacts DEF LogTypes
<1> HIDE DEF evs, bytes
<1>5. B[0] = 0 /\ \A n \in 1 .. L + 1 : B[n] = B[n - 1] + evs[n].size
  BY <1>2, <1>4, BytesSteps
<1>6. \A n \in 0 .. L + 1 : B[n] \in Nat
  <2> TAKE n \in 0 .. L + 1
  <2>1. n \in Nat /\ 0 <= n /\ n <= Len(evs)
    BY <1>1, <1>2
  <2> QED
    BY <1>4, <1>5, <2>1, BytesDiffer
<1>7. B[L] = retained /\ B[L + 1] = bytes
  <2>1. Bytes(events)[0] = 0
    BY <1>4, BytesSteps
  <2>2. \A n \in 0 + 1 .. L : evs[n].size = events[n].size
    BY <1>2
  <2>3. 0 <= L /\ L <= Len(evs) /\ L <= Len(events) /\ 0 \in Nat /\ B[0] \in Nat /\ Bytes(events)[0] \in Nat
    BY <1>1, <1>2, <1>5, <2>1
  <2>4. Bytes(events)[L] \in Nat /\ B[L] - Bytes(events)[L] = B[0] - Bytes(events)[0]
    <3> HIDE DEF L
    <3> QED
      BY <1>1, <1>4, <2>2, <2>3, BytesDiffer
  <2>5. B[L] = Bytes(events)[L]
    BY <1>1, <1>5, <1>6, <2>1, <2>4
  <2>6. B[L] = retained
    BY <2>5 DEF CapControl
  <2>7. B[L + 1] = B[L] + size
    BY <1>1, <1>2, <1>3, <1>5
  <2> QED
    BY <2>6, <2>7 DEF bytes
<1>8. B[c - 1] = 0
  <2>1. c - 1 \in 0 .. Len(evs)
    BY <1>1, <1>2
  <2>2. \A n \in 1 .. c - 1 : evs[n].size = 0
    BY <1>1, <1>2 DEF CapControl
  <2> QED
    BY <1>2, <2>1, <2>2, BytesBefore
<1>9. \A n \in c .. L + 2 : Left(evs, bytes, n) = bytes - B[n - 1] /\ Left(evs, bytes, n) \in Int
  <2> TAKE n \in c .. L + 2
  <2>1. n \in Int /\ n - 1 \in 0 .. L + 1
    BY <1>1
  <2>2. B[n - 1] \in Nat
    BY <1>6, <2>1
  <2>3. Left(evs, bytes, n) = bytes - (B[n - 1] - B[c - 1])
    BY DEF Left
  <2> HIDE DEF B
  <2> QED
    BY <1>1, <1>8, <2>2, <2>3
<1>10. s \in c .. L + 2 /\ (s = L + 2 \/ Left(evs, bytes, s) <= Cap)
  BY <1>1, <1>2, <1>9, StopFacts
<1> HIDE DEF s
<1>11. /\ events' = [n \in 1 .. L + 1 |-> IF n \in c .. s - 1 /\ evs[n].kind = "log" THEN Log(0) ELSE evs[n]]
       /\ retained' = Left(evs, bytes, s) /\ capCursor' = s
  BY <1>4 DEF AppendLog, EnforceLogByteCap, evs, bytes, s
<1>12. events' \in Seq(Event) /\ Len(events') = L + 1
  <2>1. events' \in [1 .. L + 1 -> Event]
    BY <1>3, <1>4, <1>11
  <2>2. L + 1 \in Nat
    BY <1>1
  <2>3. events' \in Seq(Event)
    BY <2>1, <2>2, SeqDef
  <2>4. Len(events') \in Nat /\ 1 .. Len(events') = 1 .. L + 1
    BY <2>1, <2>3, LenProperties
  <2> QED
    BY <2>2, <2>3, <2>4
<1>13. \A n \in 1 .. L + 1 :
         /\ events'[n].kind = evs[n].kind
         /\ evs[n].kind = "log" => events'[n].code = 0
         /\ n < s => events'[n].size = 0
         /\ n >= s => events'[n] = evs[n]
  <2> TAKE n \in 1 .. L + 1
  <2>1. events'[n] = IF n \in c .. s - 1 /\ evs[n].kind = "log" THEN Log(0) ELSE evs[n]
    BY <1>11
  <2>2. /\ n < c \/ evs[n].kind # "log" => evs[n].size = 0
        /\ evs[n].kind = "log" => evs[n].code = 0
    <3>1. CASE n \in 1 .. L
      BY <1>1, <1>2, <3>1 DEF CapControl
    <3>2. CASE n = L + 1
      BY <1>1, <1>2, <1>3, <3>2
    <3> QED
      BY <1>1, <3>1, <3>2
  <2> QED
    BY <1>1, <1>3, <1>10, <2>1, <2>2
<1>14. Bytes(events')[L + 1] = bytes - B[s - 1] /\ bytes - B[s - 1] \in Nat
  <2>1. s - 1 \in Nat /\ s - 1 <= L + 1 /\ s - 1 \in 0 .. L + 1 /\ L + 1 \in Nat
    BY <1>1, <1>10
  <2>2. Sized(events')
    BY <1>12, EventFacts
  <2>3. Bytes(events')[s - 1] = 0
    <3>1. \A n \in 1 .. s - 1 : events'[n].size = 0
      BY <1>1, <1>10, <1>13
    <3> QED
      BY <1>12, <2>1, <3>1, BytesBefore
  <2>4. \A n \in (s - 1) + 1 .. L + 1 : events'[n].size = evs[n].size
    BY <1>1, <1>10, <1>13
  <2>5. B[s - 1] \in Nat /\ Bytes(events')[s - 1] \in Nat
    BY <1>6, <2>1, <2>3
  <2>6. /\ Bytes(events')[L + 1] \in Nat
        /\ Bytes(events')[L + 1] - B[L + 1] = Bytes(events')[s - 1] - B[s - 1]
    <3> DEFINE x == s - 1
               y == L + 1
    <3>1. x \in Nat /\ y \in Nat /\ x <= y /\ y <= Len(events') /\ y <= Len(evs)
      BY <1>2, <1>12, <2>1
    <3>2. (\A n \in x + 1 .. y : events'[n].size = evs[n].size) /\ B[x] \in Nat /\ Bytes(events')[x] \in Nat
      BY <2>4, <2>5
    <3>3. Sized(evs)
      BY <1>4
    <3> HIDE DEF x, y
    <3>4. Bytes(events')[y] \in Nat /\ Bytes(events')[y] - B[y] = Bytes(events')[x] - B[x]
      BY <2>2, <3>1, <3>2, <3>3, BytesDiffer
    <3> QED
      BY <3>4 DEF x, y
  <2> QED
    BY <1>1, <1>7, <2>3, <2>5, <2>6, SMTT(30)
<1>15. retained' = bytes - B[s - 1] /\ retained' <= Cap
  <2>1. retained' = bytes - B[s - 1]
    BY <1>9, <1>10, <1>11
  <2>2. CASE s = L + 2
    <3>1. B[s - 1] = bytes
      BY <1>1, <1>7, <2>2
    <3> QED
      BY <1>1, <2>1, <3>1
  <2>3. CASE Left(evs, bytes, s) <= Cap
    BY <1>11, <2>1, <2>3
  <2> QED
    BY <1>10, <2>1, <2>2, <2>3
<1>16. LogTypes'
  BY <1>1, <1>10, <1>11, <1>12, <1>14, <1>15 DEF LogTypes
<1>17. LogGrows
  <2>1. ASSUME NEW n \in 1 .. L
        PROVE  /\ events'[n].kind = events[n].kind /\ events'[n].code = events[n].code
               /\ events'[n].size = events[n].size \/ events'[n].size = 0
    <3>1. evs[n] = events[n] /\ n \in 1 .. L + 1
      BY <1>1, <1>2
    <3>2. events'[n] = IF n \in c .. s - 1 /\ evs[n].kind = "log" THEN Log(0) ELSE evs[n]
      BY <1>11, <3>1
    <3>3. events[n].kind = "log" => events[n].code = 0
      BY DEF CapControl
    <3> QED
      BY <1>3, <3>1, <3>2, <3>3
  <2> QED
    BY <1>1, <1>12, <2>1 DEF LogGrows
<1>18. CapControl'
  <2>1. capCursor' \in 1 .. Len(events') + 1
    BY <1>1, <1>10, <1>11, <1>12
  <2>2. ASSUME NEW n \in 1 .. L + 1
        PROVE  /\ n < s => events'[n].size = 0
               /\ events'[n].kind # "log" => events'[n].size = 0
               /\ events'[n].kind = "log" => events'[n].code = 0
               /\ n >= s /\ events'[n].kind = "log" => events'[n].size > 0
    <3>1. CASE n < s
      BY <1>10, <1>13, <3>1
    <3>2. CASE n >= s
      <4>1. events'[n] = evs[n] /\ n >= c
        BY <1>1, <1>10, <1>13, <3>2
      <4>2. CASE n \in 1 .. L
        BY <1>1, <1>2, <1>10, <3>2, <4>1, <4>2, SMTT(30) DEF CapControl
      <4>3. CASE n = L + 1
        BY <1>1, <1>2, <1>3, <1>10, <3>2, <4>1, <4>3
      <4> QED
        BY <1>1, <4>2, <4>3
    <3> QED
      BY <1>1, <1>10, <3>1, <3>2
  <2> QED
    BY <1>11, <1>12, <1>14, <1>15, <2>1, <2>2 DEF CapControl
<1>19. events'[L + 1].kind = "log"
  BY <1>1, <1>2, <1>3, <1>13
<1> QED
  BY <1>12, <1>16, <1>17, <1>18, <1>19

-----------------------------------------------------------------------------
(* The execution, the wire and the mirror *)

Sent == [seq : Nat, event : Event]

StreamTypes ==
  /\ LogTypes /\ notified \in Nat
  /\ running \in BOOLEAN /\ eof \in BOOLEAN /\ exitCode \in Int
  /\ sub \in [pc : {"none", "look", "park"}, next : Nat, seen : Nat]
  /\ wire \in Seq(Sent)
  /\ cursor \in Nat /\ from \in Nat /\ mirror \in Seq(Nat)

\* The terminal is last and carries the exit code that the process left.
ExecControl ==
  /\ ~running => eof
  /\ TerminalIsLast
  /\ \A n \in 1 .. Len(events) : events[n].kind = "result" => events[n].code = ClampExitCode(exitCode)

\* The wire holds the events behind the cursor, in order; one that was empty
\* when sent is empty still.  The subscriber continues where the wire ends, and
\* neither it nor an open drain has passed the terminal.
WireControl ==
  /\ cursor + Len(wire) <= Len(events)
  /\ \A i \in 1 .. Len(wire) :
       /\ wire[i].seq = cursor + i
       /\ wire[i].event.kind = events[cursor + i].kind
       /\ wire[i].event.code = events[cursor + i].code
       /\ wire[i].event.size = 0 => events[cursor + i].size = 0
  /\ sub.pc # "none" => /\ sub.next = cursor + Len(wire) + 1
                        /\ ~running => sub.next <= Len(events)
  /\ drain \in {"open", "receive"} /\ ~running => cursor < Len(events)
  /\ EndCarriesTerminal

\* The mirror is in order, does not run ahead of the cursor and misses only
\* chunks that are gone.
MirrorControl ==
  /\ \A i \in 1 .. Len(mirror) : mirror[i] <= cursor
  /\ \A i, j \in 1 .. Len(mirror) : i < j => mirror[i] < mirror[j]
  /\ \A n \in from + 1 .. cursor : events[n].kind = "log" =>
       (\E i \in 1 .. Len(mirror) : mirror[i] = n) \/ events[n].size = 0

\* What the broker has taken the job for is what the process did, unless it came
\* back too late for the terminal.
ResultControl ==
  /\ result = "success" =>
       /\ eof /\ drain \notin {"open", "receive"}
       /\ exitCode = 0 \/ (~listed /\ cursor < Len(events))
  /\ result = "failure" => eof /\ exitCode # 0
  /\ ~listed => ~running

StreamInv == StreamTypes /\ CapControl /\ ExecControl /\ WireControl /\ MirrorControl /\ ResultControl

LEMMA LengthFacts ==
  ASSUME StreamTypes
  PROVE  /\ Len(events) \in Nat /\ Len(wire) \in Nat /\ Len(mirror) \in Nat
         /\ cursor \in Nat /\ from \in Nat /\ sub.next \in Nat
         /\ \A i \in 1 .. Len(wire) : wire[i] \in Sent
         /\ \A i \in 1 .. Len(mirror) : mirror[i] \in Nat
  BY DEF StreamTypes, LogTypes

\* A log that grows leaves what is on the wire and in the mirror right.
LEMMA GrowthKeeps ==
  ASSUME StreamInv, LogGrows, UNCHANGED <<sub, wire, link, drain, cursor, from, mirror>>,
         running' = running \/ Len(events') > Len(events)
  PROVE  WireControl' /\ MirrorControl'
<1> USE DEF StreamInv
<1>1. /\ Len(events) \in Nat /\ Len(wire) \in Nat /\ Len(mirror) \in Nat
      /\ cursor \in Nat /\ from \in Nat /\ sub.next \in Nat
  BY LengthFacts
<1>2. Len(events') \in Nat /\ Len(events') >= Len(events)
  BY LenProperties DEF LogGrows
<1>3. cursor + Len(wire) <= Len(events)
  BY DEF WireControl
<1>4. ASSUME NEW i \in 1 .. Len(wire)
      PROVE  /\ wire[i].seq = cursor + i
             /\ wire[i].event.kind = events'[cursor + i].kind
             /\ wire[i].event.code = events'[cursor + i].code
             /\ wire[i].event.size = 0 => events'[cursor + i].size = 0
  <2>1. cursor + i \in 1 .. Len(events)
    BY <1>1, <1>3
  <2> QED
    BY <2>1 DEF WireControl, LogGrows
<1>5. EndCarriesTerminal'
  BY DEF WireControl, EndCarriesTerminal
<1>6. WireControl'
  <2>1. cursor' + Len(wire') <= Len(events')
    BY <1>1, <1>2, <1>3
  <2>2. sub'.pc # "none" => /\ sub'.next = cursor' + Len(wire') + 1
                            /\ ~running' => sub'.next <= Len(events')
    BY <1>1, <1>2, <1>3 DEF WireControl
  <2>3. drain' \in {"open", "receive"} /\ ~running' => cursor' < Len(events')
    BY <1>1, <1>2, <1>3 DEF WireControl
  <2> QED
    BY <1>4, <1>5, <2>1, <2>2, <2>3 DEF WireControl
<1>7. ASSUME NEW n \in from + 1 .. cursor, events'[n].kind = "log"
      PROVE  (\E i \in 1 .. Len(mirror) : mirror[i] = n) \/ events'[n].size = 0
  <2>1. n \in 1 .. Len(events)
    BY <1>1, <1>3
  <2> QED
    BY <1>7, <2>1 DEF MirrorControl, LogGrows
<1> QED
  BY <1>6, <1>7 DEF MirrorControl

\* A closed stream has nothing to get wrong.
LEMMA CloseKeeps ==
  ASSUME StreamInv, sub' = NoSub, wire' = <<>>, link' # "ended",
         UNCHANGED <<events, running, from, mirror, cursor>>,
         drain' \in {"open", "receive"} => drain \in {"open", "receive"}
  PROVE  /\ WireControl' /\ MirrorControl'
         /\ sub' \in [pc : {"none", "look", "park"}, next : Nat, seen : Nat] /\ wire' \in Seq(Sent)
<1> USE DEF StreamInv
<1>1. Len(events) \in Nat /\ Len(wire) \in Nat /\ cursor \in Nat
  BY LengthFacts
<1>2. sub'.pc = "none" /\ wire' = <<>> /\ Len(wire') = 0
  BY DEF NoSub
<1>3. cursor' + Len(wire') <= Len(events')
  BY <1>1, <1>2 DEF WireControl
<1>4. WireControl'
  BY <1>2, <1>3 DEF WireControl, EndCarriesTerminal
<1>5. MirrorControl'
  BY DEF MirrorControl
<1> QED
  BY <1>2, <1>4, <1>5 DEF NoSub

-----------------------------------------------------------------------------
(* The guest's steps *)

LEMMA PlainEvents ==
  /\ <<Beat>> \in Seq(Event) /\ Len(<<Beat>>) = 1
  /\ <<Beat>>[1].kind = "beat" /\ <<Beat>>[1].size = 0
  /\ \A c \in Int :
       LET more == <<Phase, Result(c)>> IN
       /\ more \in Seq(Event) /\ Len(more) = 2
       /\ more[1].kind = "phase" /\ more[1].size = 0
       /\ more[2].kind = "result" /\ more[2].size = 0 /\ more[2].code = c
<1>1. Beat \in Event /\ Phase \in Event /\ \A c \in Int : Result(c) \in Event
  BY DEF Beat, Phase, Result, Event
<1> QED
  BY <1>1 DEF Beat, Phase, Result

LEMMA CaptureStep == ASSUME StreamInv, NEW n \in Sizes, CaptureOutput(n) PROVE StreamInv'
<1> USE DEF StreamInv
<1>1. /\ LogGrows /\ LogTypes' /\ CapControl'
      /\ Len(events') = Len(events) + 1 /\ events'[Len(events) + 1].kind = "log"
  BY ChunkAppended DEF CaptureOutput, StreamTypes
<1>2. StreamTypes'
  BY <1>1 DEF StreamTypes, CaptureOutput, AppendLog
<1>3. Len(events) \in Nat
  BY LengthFacts
<1>4. running /\ UNCHANGED <<running, eof, exitCode>>
  BY DEF CaptureOutput, ExecControl, StreamTypes
<1>5. \A k \in 1 .. Len(events') : events'[k].kind # "result"
  <2> TAKE k \in 1 .. Len(events')
  <2>1. CASE k \in 1 .. Len(events)
    BY <1>1, <1>4, <2>1 DEF LogGrows, ExecControl, TerminalIsLast
  <2>2. CASE k = Len(events) + 1
    BY <1>1, <2>2
  <2> QED
    BY <1>1, <1>3, <2>1, <2>2
<1>6. ExecControl'
  BY <1>4, <1>5 DEF ExecControl, TerminalIsLast
<1>7. WireControl' /\ MirrorControl'
  BY <1>1, GrowthKeeps DEF CaptureOutput
<1>8. ResultControl'
  BY <1>4 DEF CaptureOutput, ResultControl
<1> QED
  BY <1>1, <1>2, <1>6, <1>7, <1>8

LEMMA HeartbeatStep == ASSUME StreamInv, Heartbeat PROVE StreamInv'
<1> USE DEF StreamInv
<1>1. /\ LogGrows /\ LogTypes' /\ CapControl'
      /\ Len(events') = Len(events) + 1 /\ events'[Len(events) + 1].kind = "beat"
  <2> DEFINE more == <<Beat>>
  <2>1. more \in Seq(Event) /\ Len(more) = 1 /\ more[1].kind = "beat" /\ more[1].size = 0
    BY PlainEvents
  <2>2. AppendOther(more)
    BY DEF Heartbeat, Tick
  <2> HIDE DEF more
  <2>3. \A i \in 1 .. Len(more) : more[i].kind # "log" /\ more[i].size = 0
    BY <2>1
  <2>4. LogTypes /\ CapControl
    BY DEF StreamTypes
  <2>5. /\ LogGrows /\ LogTypes' /\ CapControl' /\ Len(events') = Len(events) + Len(more)
        /\ \A i \in 1 .. Len(more) : events'[Len(events) + i] = more[i]
    BY <2>1, <2>2, <2>3, <2>4, OtherAppended
  <2> QED
    BY <2>1, <2>5
<1>2. StreamTypes'
  BY <1>1 DEF StreamTypes, Heartbeat, Tick, AppendOther
<1>3. Len(events) \in Nat
  BY LengthFacts
<1>4. running /\ UNCHANGED <<running, eof, exitCode>>
  BY DEF Heartbeat, Tick
<1>5. \A k \in 1 .. Len(events') : events'[k].kind # "result"
  <2> TAKE k \in 1 .. Len(events')
  <2>1. CASE k \in 1 .. Len(events)
    BY <1>1, <1>4, <2>1 DEF LogGrows, ExecControl, TerminalIsLast
  <2>2. CASE k = Len(events) + 1
    BY <1>1, <2>2
  <2> QED
    BY <1>1, <1>3, <2>1, <2>2
<1>6. ExecControl'
  BY <1>4, <1>5 DEF ExecControl, TerminalIsLast
<1>7. WireControl' /\ MirrorControl'
  BY <1>1, GrowthKeeps DEF Heartbeat, Tick
<1>8. ResultControl'
  BY <1>4 DEF Heartbeat, Tick, ResultControl
<1> QED
  BY <1>1, <1>2, <1>6, <1>7, <1>8

LEMMA CompleteStep == ASSUME StreamInv, CompleteExecution PROVE StreamInv'
<1> USE DEF StreamInv
<1> DEFINE code == ClampExitCode(exitCode)
           more == <<Phase, Result(code)>>
<1>1. code \in Int
  BY DEF ClampExitCode, StreamTypes
<1>2. /\ more \in Seq(Event) /\ Len(more) = 2 /\ more[1].kind = "phase" /\ more[1].size = 0
      /\ more[2].kind = "result" /\ more[2].size = 0 /\ more[2].code = code
  BY <1>1, PlainEvents
<1>3. AppendOther(more)
  BY DEF CompleteExecution
<1> HIDE DEF more, code
<1>4. \A i \in 1 .. Len(more) : more[i].kind # "log" /\ more[i].size = 0
  BY <1>2
<1>5. Len(events) \in Nat
  BY LengthFacts
<1>6. /\ LogGrows /\ LogTypes' /\ CapControl'
      /\ Len(events') = Len(events) + 2
      /\ events'[Len(events) + 1] = more[1] /\ events'[Len(events) + 2] = more[2]
  <2>1. LogTypes /\ CapControl
    BY DEF StreamTypes
  <2>2. /\ LogGrows /\ LogTypes' /\ CapControl' /\ Len(events') = Len(events) + Len(more)
        /\ \A i \in 1 .. Len(more) : events'[Len(events) + i] = more[i]
    BY <1>2, <1>3, <1>4, <2>1, OtherAppended
  <2> QED
    BY <1>2, <2>2
<1>7. StreamTypes'
  <2>1. notified' \in Nat
    BY <1>3 DEF AppendOther, StreamTypes
  <2>2. UNCHANGED <<eof, exitCode, sub, wire, cursor, from, mirror>> /\ running' = FALSE
    BY DEF CompleteExecution
  <2> QED
    BY <1>6, <2>1, <2>2 DEF StreamTypes
<1>8. running /\ eof /\ running' = FALSE /\ eof' = eof /\ exitCode' = exitCode
  BY DEF CompleteExecution
<1>9. \A k \in 1 .. Len(events') : events'[k].kind = "result" <=> k = Len(events')
  <2> TAKE k \in 1 .. Len(events')
  <2>1. CASE k \in 1 .. Len(events)
    BY <1>5, <1>6, <1>8, <2>1 DEF LogGrows, ExecControl, TerminalIsLast
  <2>2. CASE k = Len(events) + 1
    BY <1>2, <1>5, <1>6, <2>2
  <2>3. CASE k = Len(events) + 2
    BY <1>2, <1>5, <1>6, <2>3
  <2> QED
    BY <1>5, <1>6, <2>1, <2>2, <2>3
<1>10. ExecControl'
  <2>1. events'[Len(events')].code = ClampExitCode(exitCode)
    BY <1>2, <1>6 DEF code
  <2>2. ClampExitCode(exitCode)' = ClampExitCode(exitCode)
    BY <1>8 DEF ClampExitCode
  <2> QED
    BY <1>8, <1>9, <2>1, <2>2 DEF ExecControl, TerminalIsLast
<1>11. WireControl' /\ MirrorControl'
  <2>1. UNCHANGED <<sub, wire, link, drain, cursor, from, mirror>>
    BY DEF CompleteExecution
  <2>2. Len(events') > Len(events)
    BY <1>5, <1>6
  <2>3. LogGrows
    BY <1>6
  <2> QED
    BY <2>1, <2>2, <2>3, GrowthKeeps
<1>12. ResultControl'
  BY DEF CompleteExecution, ResultControl
<1> QED
  BY <1>6, <1>7, <1>10, <1>11, <1>12

LEMMA ReapStep == ASSUME StreamInv, NEW code \in Codes, ReapAndDrain(code) PROVE StreamInv'
<1> USE DEF StreamInv
<1>1. running /\ ~eof
  BY DEF ReapAndDrain, ExecControl, StreamTypes
<1>2. StreamTypes'
  BY StreamAssumption DEF ReapAndDrain, StreamTypes, LogTypes
<1>3. ExecControl'
  BY <1>1 DEF ReapAndDrain, ExecControl, TerminalIsLast
<1>4. CapControl' /\ WireControl' /\ MirrorControl'
  BY DEF ReapAndDrain, CapControl, WireControl, MirrorControl, EndCarriesTerminal
<1>5. ResultControl'
  BY <1>1 DEF ReapAndDrain, ResultControl
<1> QED
  BY <1>2, <1>3, <1>4, <1>5

-----------------------------------------------------------------------------
(* The stream's steps *)

LEMMA SendStep == ASSUME StreamInv, StreamSend PROVE StreamInv'
<1> USE DEF StreamInv
<1> DEFINE N == Len(wire)
           e == [seq |-> sub.next, event |-> events[sub.next]]
<1>1. /\ Len(events) \in Nat /\ N \in Nat /\ cursor \in Nat /\ sub.next \in Nat
      /\ \A i \in 1 .. N : wire[i] \in Sent
  BY LengthFacts
<1>2. /\ sub.next = cursor + N + 1 /\ sub.next \in 1 .. Len(events)
  BY <1>1 DEF StreamSend, WireControl
<1>3. events[sub.next] \in Event /\ e \in Sent /\ e.seq = sub.next /\ e.event = events[sub.next]
  BY <1>1, <1>2 DEF StreamTypes, LogTypes, Sent
<1> HIDE DEF e
<1>4. /\ wire' = Append(wire, e) /\ UNCHANGED <<logVars, execVars, drainVars>>
  BY DEF StreamSend, e
<1>5. /\ wire' \in Seq(Sent) /\ Len(wire') = N + 1 /\ wire'[N + 1] = e
      /\ \A i \in 1 .. N : wire'[i] = wire[i]
  BY <1>1, <1>3, <1>4 DEF StreamTypes
<1>6. \/ e.event.kind = "result" /\ sub' = NoSub /\ link' = "ended"
      \/ e.event.kind # "result" /\ sub' = [pc |-> "look", next |-> sub.next + 1, seen |-> 0] /\ link' = link
  BY <1>3 DEF StreamSend
<1>7. StreamTypes'
  <2>1. sub' \in [pc : {"none", "look", "park"}, next : Nat, seen : Nat]
    BY <1>1, <1>6 DEF NoSub
  <2> QED
    BY <1>4, <1>5, <2>1 DEF StreamTypes, LogTypes
<1>8. cursor' + Len(wire') <= Len(events')
  BY <1>1, <1>2, <1>4, <1>5
<1>9. ASSUME NEW i \in 1 .. Len(wire')
      PROVE  /\ wire'[i].seq = cursor + i
             /\ wire'[i].event.kind = events[cursor + i].kind
             /\ wire'[i].event.code = events[cursor + i].code
             /\ wire'[i].event.size = 0 => events[cursor + i].size = 0
  <2>1. CASE i \in 1 .. N
    BY <1>5, <2>1 DEF WireControl
  <2>2. CASE i = N + 1
    <3>1. cursor + i = sub.next
      BY <1>1, <1>2, <2>2
    <3> QED
      BY <1>3, <1>5, <2>2, <3>1
  <2> QED
    BY <1>1, <1>5, <2>1, <2>2
<1>10. sub'.pc # "none" => /\ sub'.next = cursor' + Len(wire') + 1
                           /\ ~running' => sub'.next <= Len(events')
  <2>1. SUFFICES ASSUME sub'.pc # "none"
                 PROVE  sub'.next = cursor + (N + 1) + 1 /\ (~running => sub'.next <= Len(events))
    BY <1>4, <1>5
  <2>2. e.event.kind # "result" /\ sub'.next = sub.next + 1
    BY <1>6, <2>1 DEF NoSub
  <2>3. ~running => sub.next # Len(events)
    BY <1>2, <1>3, <2>2 DEF ExecControl, TerminalIsLast
  <2> QED
    BY <1>1, <1>2, <2>2, <2>3
<1>11. EndCarriesTerminal'
  <2>1. CASE e.event.kind = "result"
    BY <1>1, <1>5, <2>1 DEF EndCarriesTerminal
  <2>2. CASE e.event.kind # "result"
    <3>1. link # "ended"
      <4>1. SUFFICES ASSUME link = "ended" PROVE FALSE
        OBVIOUS
      <4>2. N >= 1 /\ wire[N].event.kind = "result"
        BY <1>1, <4>1 DEF WireControl, EndCarriesTerminal, StreamTypes
      <4>3. events[cursor + N].kind = "result" /\ cursor + N \in 1 .. Len(events)
        BY <1>1, <1>2, <4>2 DEF WireControl
      <4>4. cursor + N = Len(events)
        BY <4>3 DEF ExecControl, TerminalIsLast
      <4> QED
        BY <1>1, <1>2, <4>4
    <3> QED
      BY <1>6, <2>2, <3>1 DEF EndCarriesTerminal
  <2> QED
    BY <2>1, <2>2
<1>12. WireControl'
  <2>1. drain' \in {"open", "receive"} /\ ~running' => cursor' < Len(events')
    BY <1>4 DEF WireControl
  <2> QED
    BY <1>4, <1>8, <1>9, <1>10, <1>11, <2>1 DEF WireControl
<1>13. CapControl' /\ MirrorControl' /\ ResultControl'
  BY <1>4 DEF CapControl, MirrorControl, ResultControl
<1>14. ExecControl'
  BY <1>4 DEF ExecControl, TerminalIsLast, ClampExitCode
<1> QED
  BY <1>7, <1>12, <1>13, <1>14

LEMMA WaitStep == ASSUME StreamInv, StreamWaits \/ StreamWake PROVE StreamInv'
<1> USE DEF StreamInv
<1>1. UNCHANGED <<logVars, execVars, drainVars, wire>>
  BY DEF StreamWaits, StreamWake
<1>2. Len(events) \in Nat /\ sub.next \in Nat
  BY LengthFacts
<1>3. /\ sub.pc # "none" /\ link' = link /\ sub'.next = sub.next /\ sub'.pc # "none"
      /\ sub' \in [pc : {"none", "look", "park"}, next : Nat, seen : Nat]
  <2>1. CASE StreamWaits
    <3>1. sub.pc # "none" /\ sub.next > Len(events)
      BY <2>1 DEF StreamWaits
    <3>2. running
      BY <1>2, <3>1 DEF WireControl, StreamTypes
    <3> QED
      BY <1>2, <2>1, <3>1, <3>2 DEF StreamWaits, StreamTypes
  <2>2. CASE StreamWake
    BY <1>2, <2>2 DEF StreamWake
  <2> QED
    BY <2>1, <2>2
<1>4. StreamTypes'
  BY <1>1, <1>3 DEF StreamTypes, LogTypes
<1>5. WireControl'
  BY <1>1, <1>3 DEF WireControl, EndCarriesTerminal
<1>6. CapControl' /\ MirrorControl' /\ ResultControl'
  BY <1>1 DEF CapControl, MirrorControl, ResultControl
<1>7. ExecControl'
  BY <1>1 DEF ExecControl, TerminalIsLast, ClampExitCode
<1> QED
  BY <1>4, <1>5, <1>6, <1>7

-----------------------------------------------------------------------------
(* The broker's steps *)

\* Steps that end the open stream and leave the cursor and the mirror alone.
LEMMA ClosingStep ==
  ASSUME StreamInv, sub' = NoSub, wire' = <<>>, link' # "ended",
         UNCHANGED <<logVars, running, listed, from, mirror, cursor>>,
         drain' \in {"open", "receive"} => drain \in {"open", "receive"},
         \/ eof' = eof /\ exitCode' = exitCode
         \/ ~eof /\ eof' = TRUE /\ exitCode' \in Int,
         \/ result' = result
         \/ result' \notin {"success", "failure"}
         \/ result' = "success" /\ ~listed /\ drain = "open" /\ drain' = "returned"
  PROVE  StreamInv'
<1> USE DEF StreamInv
<1>1. /\ WireControl' /\ MirrorControl'
      /\ sub' \in [pc : {"none", "look", "park"}, next : Nat, seen : Nat] /\ wire' \in Seq(Sent)
  BY CloseKeeps
<1>2. StreamTypes'
  BY <1>1 DEF StreamTypes, LogTypes
<1>3. ExecControl'
  BY DEF ExecControl, TerminalIsLast, ClampExitCode, StreamTypes
<1>4. ~listed /\ drain = "open" => eof /\ cursor < Len(events)
  BY DEF ResultControl, ExecControl, WireControl
<1>5. CapControl' /\ ResultControl'
  BY <1>4 DEF CapControl, ResultControl
<1> QED
  BY <1>1, <1>2, <1>3, <1>5

LEMMA OpenStep == ASSUME StreamInv, Open PROVE StreamInv'
<1> USE DEF StreamInv
<1>1. Len(events) \in Nat /\ cursor \in Nat
  BY LengthFacts
<1>2. /\ sub' = [pc |-> "look", next |-> cursor + 1, seen |-> 0] /\ wire' = <<>> /\ link' = "open"
      /\ UNCHANGED <<logVars, execVars, cursor, from, mirror, result>>
      /\ drain = "open" /\ Len(wire') = 0
  BY DEF Open
<1>3. StreamTypes'
  BY <1>1, <1>2 DEF StreamTypes, LogTypes
<1>4. WireControl'
  <2>1. cursor + 0 <= Len(events) /\ (~running => cursor < Len(events))
    <3>1. Len(wire) \in Nat
      BY LengthFacts
    <3> QED
      BY <1>1, <1>2, <3>1 DEF WireControl
  <2>2. sub'.next = cursor' + Len(wire') + 1 /\ (~running' => sub'.next <= Len(events'))
    BY <1>1, <1>2, <2>1
  <2> QED
    BY <1>2, <2>1, <2>2 DEF WireControl, EndCarriesTerminal
<1>5. CapControl' /\ MirrorControl' /\ ResultControl'
  BY <1>2 DEF CapControl, MirrorControl, ResultControl
<1>6. ExecControl'
  BY <1>2 DEF ExecControl, TerminalIsLast, ClampExitCode
<1> QED
  BY <1>3, <1>4, <1>5, <1>6

\* The code on the terminal is zero exactly if the process left zero.
LEMMA ClampZero == ASSUME NEW code \in Int PROVE ClampExitCode(code) = 0 <=> code = 0
  BY StreamAssumption DEF ClampExitCode

LEMMA ReceiveStep == ASSUME StreamInv, Receive PROVE StreamInv'
<1> USE DEF StreamInv
<1> DEFINE N == Len(wire)
           h == Head(wire)
           n == cursor + 1
<1>1. /\ Len(events) \in Nat /\ N \in Nat \ {0} /\ cursor \in Nat /\ from \in Nat
      /\ Len(mirror) \in Nat /\ wire \in Seq(Sent) /\ wire # <<>> /\ mirror \in Seq(Nat)
  BY LengthFacts, EmptySeq DEF Receive, StreamTypes
<1>2. /\ h \in Sent /\ h = wire[1] /\ Tail(wire) \in Seq(Sent) /\ Len(Tail(wire)) = N - 1
      /\ \A i \in 1 .. N - 1 : Tail(wire)[i] = wire[i + 1]
  BY <1>1
<1>3. /\ h.seq = n /\ h.event.kind = events[n].kind /\ h.event.code = events[n].code
      /\ h.event.size = 0 => events[n].size = 0
      /\ n \in 1 .. Len(events)
  <2>1. 1 \in 1 .. N
    BY <1>1
  <2> QED
    BY <1>1, <1>2, <2>1 DEF WireControl
<1>4. h.event.size \in Nat
  BY <1>2 DEF Sent, Event
<1> HIDE DEF h
<1>5. /\ cursor' = n /\ UNCHANGED <<logVars, execVars, from>>
      /\ mirror' = IF h.event.kind = "log" /\ h.event.size > 0 THEN Append(mirror, n) ELSE mirror
      /\ drain = "receive"
      /\ \/ h.event.kind = "result" /\ Return(Verdict(h.event.code))
         \/ h.event.kind # "result" /\ wire' = Tail(wire) /\ UNCHANGED <<drain, result, sub, link>>
  BY <1>3 DEF Receive, h
<1>6. MirrorControl' /\ mirror' \in Seq(Nat)
  <2>1. \A i \in 1 .. Len(mirror) : mirror[i] \in Nat /\ mirror[i] <= cursor /\ mirror[i] < n
    BY <1>1, LengthFacts DEF MirrorControl
  <2>2. \A k \in from + 1 .. n : k \in from + 1 .. cursor \/ k = n
    BY <1>1
  <2>3. CASE h.event.kind = "log" /\ h.event.size > 0
    <3>1. mirror' = Append(mirror, n)
      BY <1>5, <2>3
    <3>2. /\ mirror' \in Seq(Nat) /\ Len(mirror') = Len(mirror) + 1 /\ mirror'[Len(mirror) + 1] = n
          /\ \A i \in 1 .. Len(mirror) : mirror'[i] = mirror[i]
      BY <1>1, <3>1
    <3>3. \A i \in 1 .. Len(mirror') : i \in 1 .. Len(mirror) \/ i = Len(mirror) + 1
      BY <1>1, <3>2
    <3>4. ASSUME NEW i \in 1 .. Len(mirror') PROVE mirror'[i] <= n
      <4>1. CASE i \in 1 .. Len(mirror)
        BY <1>1, <2>1, <3>2, <4>1, SMTT(30)
      <4>2. CASE i = Len(mirror) + 1
        BY <1>1, <3>2, <4>2
      <4> QED
        BY <3>3, <4>1, <4>2
    <3>5. ASSUME NEW i \in 1 .. Len(mirror'), NEW j \in 1 .. Len(mirror'), i < j
          PROVE  mirror'[i] < mirror'[j]
      <4>1. CASE j \in 1 .. Len(mirror)
        <5>1. i \in 1 .. Len(mirror)
          BY <1>1, <3>2, <3>5, <4>1
        <5> QED
          BY <3>2, <3>5, <4>1, <5>1 DEF MirrorControl
      <4>2. CASE j = Len(mirror) + 1
        <5>1. i \in 1 .. Len(mirror)
          BY <1>1, <3>2, <3>5, <4>2
        <5> QED
          BY <2>1, <3>2, <4>2, <5>1
      <4> QED
        BY <3>3, <4>1, <4>2
    <3>6. ASSUME NEW k \in from + 1 .. n, events[k].kind = "log"
          PROVE  (\E i \in 1 .. Len(mirror') : mirror'[i] = k) \/ events[k].size = 0
      <4>1. CASE k = n
        BY <1>1, <3>2, <4>1
      <4>2. CASE k \in from + 1 .. cursor
        <5>1. (\E i \in 1 .. Len(mirror) : mirror[i] = k) \/ events[k].size = 0
          BY <3>6, <4>2 DEF MirrorControl
        <5>2. \A i \in 1 .. Len(mirror) : i \in 1 .. Len(mirror')
          BY <1>1, <3>2
        <5> QED
          BY <3>2, <5>1, <5>2
      <4> QED
        BY <2>2, <4>1, <4>2
    <3> QED
      BY <1>5, <3>2, <3>4, <3>5, <3>6 DEF MirrorControl
  <2>4. CASE ~ (h.event.kind = "log" /\ h.event.size > 0)
    <3>1. mirror' = mirror
      BY <1>5, <2>4
    <3>2. events[n].kind = "log" => events[n].size = 0
      BY <1>3, <1>4, <2>4
    <3>3. \A i \in 1 .. Len(mirror) : mirror[i] <= n
      BY <1>1, <2>1
    <3> QED
      BY <1>1, <1>5, <2>2, <3>1, <3>2, <3>3 DEF MirrorControl
  <2> QED
    BY <2>3, <2>4
<1>7. CapControl' /\ ExecControl'
  BY <1>5 DEF CapControl, ExecControl, TerminalIsLast, ClampExitCode
<1>8. CASE h.event.kind = "result"
  <2>1. /\ sub' = NoSub /\ wire' = <<>> /\ link' = "none" /\ drain' = "returned" /\ Len(wire') = 0
        /\ result' = Verdict(h.event.code)
    BY <1>5, <1>8 DEF Return, Close
  <2>2. WireControl'
    BY <1>1, <1>3, <1>5, <2>1 DEF WireControl, EndCarriesTerminal, NoSub
  <2>3. StreamTypes'
    BY <1>1, <1>5, <1>6, <2>1 DEF StreamTypes, LogTypes, NoSub
  <2>4. ~running /\ h.event.code = ClampExitCode(exitCode)
    BY <1>3, <1>8 DEF ExecControl, TerminalIsLast
  <2>5. eof /\ (h.event.code = 0 <=> exitCode = 0)
    BY <2>4, ClampZero DEF ExecControl, StreamTypes
  <2>6. ResultControl'
    BY <1>5, <2>1, <2>5 DEF ResultControl, Verdict
  <2> QED
    BY <1>6, <1>7, <2>2, <2>3, <2>6
<1>9. CASE h.event.kind # "result"
  <2>1. wire' = Tail(wire) /\ UNCHANGED <<drain, result, sub, link>>
    BY <1>5, <1>9
  <2>2. StreamTypes'
    BY <1>1, <1>2, <1>5, <1>6, <2>1 DEF StreamTypes, LogTypes
  <2>3. ~running => n < Len(events)
    BY <1>1, <1>3, <1>9 DEF ExecControl, TerminalIsLast
  <2>4. n + Len(wire') <= Len(events) /\ n + Len(wire') = cursor + N
    BY <1>1, <1>2, <2>1 DEF WireControl
  <2>5. ASSUME NEW i \in 1 .. Len(wire')
        PROVE  /\ wire'[i].seq = n + i
               /\ wire'[i].event.kind = events[n + i].kind
               /\ wire'[i].event.code = events[n + i].code
               /\ wire'[i].event.size = 0 => events[n + i].size = 0
    <3>1. i + 1 \in 1 .. N /\ wire'[i] = wire[i + 1] /\ cursor + (i + 1) = n + i
      BY <1>1, <1>2, <2>1
    <3> QED
      BY <3>1 DEF WireControl
  <2>6. EndCarriesTerminal'
    <3>1. SUFFICES ASSUME link = "ended" PROVE wire' # <<>> /\ wire'[Len(wire')].event.kind = "result"
      BY <2>1 DEF EndCarriesTerminal
    <3>2. wire[N].event.kind = "result"
      BY <3>1 DEF WireControl, EndCarriesTerminal
    <3>3. N # 1
      BY <1>2, <1>9, <3>2
    <3>4. Len(wire') = N - 1 /\ N - 1 \in 1 .. N - 1 /\ (N - 1) + 1 = N
      BY <1>1, <1>2, <2>1, <3>3
    <3>5. wire'[N - 1] = wire[N]
      BY <1>2, <2>1, <3>4
    <3>6. wire' # <<>>
      BY <1>1, <3>3, <3>4
    <3> QED
      BY <3>2, <3>4, <3>5, <3>6
  <2>7. sub'.pc # "none" => /\ sub'.next = cursor' + Len(wire') + 1
                            /\ ~running' => sub'.next <= Len(events')
    BY <1>5, <2>1, <2>4 DEF WireControl
  <2>8. WireControl'
    BY <1>5, <2>1, <2>3, <2>4, <2>5, <2>6, <2>7 DEF WireControl
  <2>9. ResultControl'
    BY <1>5, <2>1 DEF ResultControl
  <2> QED
    BY <1>6, <1>7, <2>2, <2>8, <2>9
<1> QED
  BY <1>8, <1>9

LEMMA RestartStep == ASSUME StreamInv, Restart PROVE StreamInv'
<1> USE DEF StreamInv
<1>1. Len(events) \in Nat
  BY LengthFacts
<1>2. /\ sub' = NoSub /\ wire' = <<>> /\ Len(wire') = 0 /\ link' = "none"
      /\ cursor' = Len(events) /\ from' = Len(events) /\ mirror' = <<>> /\ Len(mirror') = 0
      /\ UNCHANGED <<logVars, execVars>>
      /\ drain' # "returned" => running
      /\ result' \in {"none", "idle"}
  BY DEF Restart, Close, Resumable
<1>3. StreamTypes'
  BY <1>1, <1>2 DEF StreamTypes, LogTypes, NoSub
<1>4. WireControl'
  BY <1>1, <1>2 DEF WireControl, EndCarriesTerminal, NoSub
<1>5. MirrorControl'
  BY <1>1, <1>2 DEF MirrorControl
<1>6. CapControl' /\ ResultControl'
  BY <1>2 DEF CapControl, ResultControl
<1>7. ExecControl'
  BY <1>2 DEF ExecControl, TerminalIsLast, ClampExitCode
<1> QED
  BY <1>3, <1>4, <1>5, <1>6, <1>7

LEMMA StreamStep == StreamInv /\ [Next]_vars => StreamInv'
<1> SUFFICES ASSUME StreamInv, [Next]_vars PROVE StreamInv'
  OBVIOUS
<1>1. CASE UNCHANGED vars
  BY <1>1 DEF StreamInv, StreamTypes, LogTypes, CapControl, ExecControl, TerminalIsLast, ClampExitCode,
              WireControl, EndCarriesTerminal, MirrorControl, ResultControl
<1>2. CASE Guest
  <2>1. CASE Expire
    BY <2>1 DEF Expire, StreamInv, StreamTypes, LogTypes, CapControl, ExecControl, TerminalIsLast,
                ClampExitCode, WireControl, EndCarriesTerminal, MirrorControl, ResultControl
  <2> QED
    BY <1>2, <2>1, CaptureStep, HeartbeatStep, CompleteStep, ReapStep DEF Guest
<1>3. CASE Stream
  BY <1>3, SendStep, WaitStep DEF Stream
<1>4. CASE StreamDrops
  BY <1>4, ClosingStep DEF StreamDrops
<1>5. CASE Broker
  <2>1. CASE Open \/ Receive
    BY <2>1, OpenStep, ReceiveStep
  <2>2. CASE OpenFails
    BY <2>2 DEF OpenFails, StreamInv, StreamTypes, LogTypes, CapControl, ExecControl, TerminalIsLast,
                ClampExitCode, WireControl, EndCarriesTerminal, MirrorControl, ResultControl
  <2>3. CASE \E cause \in {"shutdown", "recycle"} : CancelDrain(cause)
    BY <2>3 DEF CancelDrain, StreamInv, StreamTypes, LogTypes, CapControl, ExecControl, TerminalIsLast,
                ClampExitCode, WireControl, EndCarriesTerminal, MirrorControl, ResultControl
  <2>4. CASE OpenNotFound
    BY <2>4, ClosingStep DEF OpenNotFound, Return, Close
  <2>5. CASE Reconnect
    BY <2>5, ClosingStep DEF Reconnect, Close
  <2>6. CASE Stall
    BY <2>6, ClosingStep DEF Stall, Return, Close
  <2>7. CASE DetachDrain
    BY <2>7, ClosingStep DEF DetachDrain, Return, Close
  <2>8. CASE TeardownDrain
    <3>1. /\ sub' = NoSub /\ wire' = <<>> /\ link' = "none" /\ drain \in {"open", "receive"}
          /\ UNCHANGED <<logVars, running, listed, from, mirror, cursor>>
          /\ result' = "cancelling"
      BY <2>8 DEF TeardownDrain, Close
    <3>2. \/ eof' = eof /\ exitCode' = exitCode
          \/ ~eof /\ eof' = TRUE /\ exitCode' \in Int
      BY <2>8 DEF TeardownDrain
    <3> QED
      BY <3>1, <3>2, ClosingStep
  <2>9. CASE TeardownTimeout
    BY <2>9, ClosingStep DEF TeardownTimeout, Return, Close
  <2> QED
    BY <1>5, <2>1, <2>2, <2>3, <2>4, <2>5, <2>6, <2>7, <2>8, <2>9 DEF Broker
<1>6. CASE Restart
  BY <1>6, RestartStep
<1> QED
  BY <1>1, <1>2, <1>3, <1>4, <1>5, <1>6 DEF Next

LEMMA StreamStart == Init => StreamInv
<1> SUFFICES ASSUME Init PROVE StreamInv
  OBVIOUS
<1>1. Phase \in Event /\ Phase.kind = "phase" /\ Phase.size = 0
  BY DEF Phase, Event
<1>2. /\ events = <<Phase>> /\ events \in Seq(Event) /\ Len(events) = 1 /\ events[1] = Phase
      /\ wire = <<>> /\ Len(wire) = 0 /\ mirror = <<>> /\ Len(mirror) = 0
  BY <1>1 DEF Init
<1>3. StreamTypes
  <2>1. wire \in Seq(Sent) /\ mirror \in Seq(Nat)
    BY <1>2
  <2>2. sub \in [pc : {"none", "look", "park"}, next : Nat, seen : Nat]
    BY DEF Init, NoSub
  <2>3. LogTypes
    BY <1>2 DEF Init, LogTypes
  <2>4. running \in BOOLEAN /\ eof \in BOOLEAN
    BY Zenon DEF Init
  <2>5. notified \in Nat /\ exitCode \in Int /\ cursor \in Nat /\ from \in Nat
    BY DEF Init
  <2> QED
    BY <2>1, <2>2, <2>3, <2>4, <2>5 DEF StreamTypes
<1>4. CapControl
  <2>1. Bytes(events)[1] = 0
    <3>1. 1 \in 0 .. Len(events) /\ \A n \in 1 .. 1 : events[n].size = 0
      BY <1>1, <1>2
    <3> QED
      BY <1>2, <3>1, BytesBefore
  <2> QED
    BY <1>1, <1>2, <2>1, StreamAssumption DEF Init, CapControl
<1>5. ExecControl
  BY <1>1, <1>2 DEF Init, ExecControl, TerminalIsLast
<1>6. WireControl /\ MirrorControl /\ ResultControl
  BY <1>2 DEF Init, WireControl, EndCarriesTerminal, MirrorControl, ResultControl, NoSub
<1> QED
  BY <1>3, <1>4, <1>5, <1>6 DEF StreamInv

LEMMA StreamHolds == Spec => []StreamInv
  BY StreamStart, StreamStep, PTL DEF Spec

\* The retained bytes are exact and within the cap, and the oldest chunks are
\* the ones given up, for any sizes and cap (enforceLogByteCapLocked).
THEOREM LogCapHolds == Spec => []LogCapExact
<1>1. StreamInv => LogCapExact
  <2> SUFFICES ASSUME StreamInv PROVE LogCapExact
    OBVIOUS
  <2>1. CapControl /\ Len(events) \in Nat /\ capCursor \in Nat
    BY LengthFacts DEF StreamInv, StreamTypes, LogTypes
  <2>2. \A n \in 1 .. Len(events) : events[n].size \in Nat
    BY EventFacts DEF StreamInv, StreamTypes, LogTypes, Sized
  <2>3. \A n \in LiveChunks : n \in 1 .. Len(events) /\ n >= capCursor
    BY <2>1, <2>2 DEF LiveChunks, CapControl
  <2>4. ASSUME NEW n \in LiveChunks, NEW k \in 1 .. Len(events), k > n, events[k].kind = "log"
        PROVE  k \in LiveChunks
    <3>1. k >= capCursor
      BY <2>1, <2>3, <2>4
    <3> QED
      BY <2>1, <2>4, <3>1 DEF LiveChunks, CapControl
  <2> QED
    BY <2>1, <2>3, <2>4 DEF LogCapExact, CapControl
<1> QED
  BY <1>1, StreamHolds, PTL

\* The terminal is the last event, and there once the execution is over
\* (completeExecution, appendHeartbeat).
THEOREM TerminalHolds == Spec => []TerminalIsLast
<1>1. StreamInv => TerminalIsLast
  BY DEF StreamInv, ExecControl
<1> QED
  BY <1>1, StreamHolds, PTL

\* The run log has each chunk after the starting cursor once and in order,
\* except those already given up, however many streams break and brokers
\* restart (drainToTerminal, stream).
THEOREM MirrorHolds == Spec => []MirrorExact
<1>1. StreamInv => MirrorExact
  <2> SUFFICES ASSUME StreamInv PROVE MirrorExact
    OBVIOUS
  <2>1. cursor <= Len(events)
    <3>1. Len(events) \in Nat /\ Len(wire) \in Nat /\ cursor \in Nat
      BY LengthFacts DEF StreamInv
    <3> QED
      BY <3>1 DEF StreamInv, WireControl
  <2> QED
    BY <2>1 DEF StreamInv, MirrorControl, MirrorExact
<1> QED
  BY <1>1, StreamHolds, PTL

\* A stream that the guest ends carries the terminal (stream, reattachSlots).
THEOREM EndHolds == Spec => []EndCarriesTerminal
<1>1. StreamInv => EndCarriesTerminal
  BY DEF StreamInv, WireControl
<1> QED
  BY <1>1, StreamHolds, PTL

\* What the broker reports of a job is what its process did, for any exit codes
\* and any largest code (clampExitCode, terminalToError).
THEOREM ExitCodeHolds == Spec => []ExitCodeKept
<1>1. StreamInv => ExitCodeKept
  BY DEF StreamInv, ResultControl, ExitCodeKept
<1> QED
  BY <1>1, StreamHolds, PTL
=============================================================================
