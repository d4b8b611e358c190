------------------------- MODULE ProviderCallProofs -------------------------
(***************************************************************************)
(* Proofs about ProviderCall for any number of tries, any timeout, any     *)
(* deadlines and streams of any length.  The sleeps are a sum of powers of *)
(* two, both recursive functions; a prover has to be told that such        *)
(* functions exist before it may compute with them, so that comes first.   *)
(***************************************************************************)
EXTENDS ProviderCall, WellFoundedInduction, TLAPS

-----------------------------------------------------------------------------
(* Recursion over the numbers *)

LEMMA LeastNumber ==
    ASSUME NEW D \in SUBSET Nat, D # {}
    PROVE  \E n \in D : \A m \in D : n <= m
<1>1. PICK n \in D : \A m \in D : ~(<<m, n>> \in OpToRel(<, Nat))
  BY NatLessThanWellFounded, WFMin
<1>2. ASSUME NEW m \in D
      PROVE  n <= m
  <2>1. m \in Nat /\ n \in Nat
    OBVIOUS
  <2>2. ~(m < n)
    BY <1>1, <2>1 DEF OpToRel
  <2>3. QED
    BY <2>1, <2>2
<1>3. QED
  BY <1>2

\* What comes at n when it is a at zero, and step makes the next of the last.
Continued(a, step, f, n) == IF n = 0 THEN a ELSE step[n][f[n - 1]]

\* f is right up to n.
RightTo(a, step, n, f) == \A m \in 0..n : f[m] = Continued(a, step, f, m)

LEMMA RightToSome ==
    ASSUME NEW a \in Int, NEW step \in [Nat -> [Int -> Int]], NEW n \in Nat
    PROVE  \E f \in [Nat -> Int] : RightTo(a, step, n, f)
<1> DEFINE D == {k \in Nat : ~ \E f \in [Nat -> Int] : RightTo(a, step, k, f)}
<1> SUFFICES ASSUME D # {} PROVE FALSE
  OBVIOUS
<1>1. PICK k \in D : \A m \in D : k <= m
  <2>1. D \in SUBSET Nat
    OBVIOUS
  <2> HIDE DEF D
  <2>2. QED
    BY <2>1, LeastNumber
<1>2. CASE k = 0
  <2> DEFINE f == [m \in Nat |-> a]
  <2>1. f \in [Nat -> Int] /\ f[0] = a
    OBVIOUS
  <2> HIDE DEF f
  <2>2. RightTo(a, step, k, f)
    BY <1>2, <2>1 DEF RightTo, Continued
  <2>3. QED
    BY <2>1, <2>2
<1>3. CASE k # 0
  <2>1. k - 1 \in Nat /\ k - 1 \notin D
    BY <1>1, <1>3
  <2>2. PICK f \in [Nat -> Int] : RightTo(a, step, k - 1, f)
    BY <2>1
  <2> DEFINE g == [m \in Nat |-> IF m = k THEN step[k][f[k - 1]] ELSE f[m]]
  <2>3. step[k][f[k - 1]] \in Int
    BY <2>1
  <2>4. /\ g \in [Nat -> Int]
        /\ g[k] = step[k][f[k - 1]]
        /\ \A m \in Nat : m # k => g[m] = f[m]
    BY <2>3
  <2> HIDE DEF g
  <2>5. ASSUME NEW m \in 0..k
        PROVE  g[m] = Continued(a, step, g, m)
    <3>1. CASE m = k
      <4>1. g[k - 1] = f[k - 1]
        BY <2>1, <2>4
      <4>2. QED
        BY <1>3, <2>4, <3>1, <4>1 DEF Continued
    <3>2. CASE m # k
      <4>1. m \in 0..(k - 1) /\ g[m] = f[m]
        BY <2>4, <3>2
      <4>2. f[m] = Continued(a, step, f, m)
        BY <2>2, <4>1 DEF RightTo
      <4>3. m # 0 => m - 1 \in Nat /\ m - 1 # k
        BY <4>1
      <4>4. m # 0 => g[m - 1] = f[m - 1]
        BY <2>4, <4>3
      <4>5. QED
        BY <4>1, <4>2, <4>4 DEF Continued
    <3>3. QED
      BY <3>1, <3>2
  <2>6. RightTo(a, step, k, g)
    BY <2>5 DEF RightTo
  <2>7. QED
    BY <2>4, <2>6
<1>4. QED
  BY <1>2, <1>3

\* Two that are right up to n are the same there.
LEMMA RightIsUnique ==
    ASSUME NEW a, NEW step, NEW n \in Nat, NEW f, NEW g,
           RightTo(a, step, n, f), RightTo(a, step, n, g)
    PROVE  \A m \in 0..n : f[m] = g[m]
<1> DEFINE D == {m \in 0..n : f[m] # g[m]}
<1> SUFFICES ASSUME D # {} PROVE FALSE
  OBVIOUS
<1>1. PICK k \in D : \A m \in D : k <= m
  <2>1. D \in SUBSET Nat
    OBVIOUS
  <2> HIDE DEF D
  <2>2. QED
    BY <2>1, LeastNumber
<1>2. k \in 0..n /\ f[k] # g[k]
  OBVIOUS
<1>3. f[k] = Continued(a, step, f, k) /\ g[k] = Continued(a, step, g, k)
  BY <1>2 DEF RightTo
<1>4. CASE k = 0
  BY <1>2, <1>3, <1>4 DEF Continued
<1>5. CASE k # 0
  <2>1. k - 1 \in 0..n /\ k - 1 \notin D
    BY <1>1, <1>2, <1>5
  <2>2. f[k - 1] = g[k - 1]
    BY <2>1
  <2>3. QED
    BY <1>2, <1>3, <1>5, <2>2 DEF Continued
<1>6. QED
  BY <1>4, <1>5

\* A function is defined by what it is at zero and how it goes on.
LEMMA RecursionExists ==
    ASSUME NEW a \in Int, NEW step \in [Nat -> [Int -> Int]]
    PROVE  \E f \in [Nat -> Int] : \A n \in Nat : f[n] = Continued(a, step, f, n)
<1> DEFINE of(n) == CHOOSE f \in [Nat -> Int] : RightTo(a, step, n, f)
           h == [n \in Nat |-> of(n)[n]]
<1>1. \A n \in Nat : of(n) \in [Nat -> Int] /\ RightTo(a, step, n, of(n))
  BY RightToSome
<1> HIDE DEF of
<1>2. h \in [Nat -> Int] /\ \A n \in Nat : h[n] = of(n)[n]
  BY <1>1
<1> HIDE DEF h
<1>3. ASSUME NEW n \in Nat
      PROVE  h[n] = Continued(a, step, h, n)
  <2>1. of(n)[n] = Continued(a, step, of(n), n)
    BY <1>1 DEF RightTo
  <2>2. CASE n = 0
    BY <1>2, <2>1, <2>2 DEF Continued
  <2>3. CASE n # 0
    <3>1. n - 1 \in Nat
      BY <2>3
    <3>2. RightTo(a, step, n - 1, of(n))
      BY <1>1, <3>1 DEF RightTo
    <3>3. RightTo(a, step, n - 1, of(n - 1))
      BY <1>1, <3>1
    <3>4. \A m \in 0..(n - 1) : of(n)[m] = of(n - 1)[m]
      BY <3>1, <3>2, <3>3, RightIsUnique
    <3>5. of(n)[n - 1] = h[n - 1]
      BY <1>2, <3>1, <3>4
    <3>6. QED
      BY <1>2, <2>1, <2>3, <3>5 DEF Continued
  <2>4. QED
    BY <2>2, <2>3
<1>4. QED
  BY <1>2, <1>3

\* What is an integer at first, and stays one, is one everywhere.
LEMMA StaysInteger ==
    ASSUME NEW f, f[0] \in Int, \A k \in Nat : f[k] \in Int => f[k + 1] \in Int
    PROVE  \A n \in Nat : f[n] \in Int
<1> DEFINE D == {k \in Nat : f[k] \notin Int}
<1> SUFFICES ASSUME D # {} PROVE FALSE
  OBVIOUS
<1>1. PICK k \in D : \A j \in D : k <= j
  <2>1. D \in SUBSET Nat
    OBVIOUS
  <2> HIDE DEF D
  <2>2. QED
    BY <2>1, LeastNumber
<1>2. k \in Nat /\ f[k] \notin Int
  OBVIOUS
<1>3. k - 1 \in Nat /\ (k - 1) + 1 = k
  BY <1>2
<1>4. f[k - 1] \in Int
  BY <1>1, <1>2, <1>3
<1>5. QED
  BY <1>2, <1>3, <1>4

\* A function that never falls from one number to the next never falls.
LEMMA Climbs ==
    ASSUME NEW f \in [Nat -> Int], \A k \in Nat : f[k] <= f[k + 1],
           NEW m \in Nat, NEW n \in Nat, m <= n
    PROVE  f[m] <= f[n]
<1> DEFINE D == {k \in Nat : m <= k /\ ~(f[m] <= f[k])}
<1> SUFFICES ASSUME D # {} PROVE FALSE
  OBVIOUS
<1>1. PICK k \in D : \A j \in D : k <= j
  <2>1. D \in SUBSET Nat
    OBVIOUS
  <2> HIDE DEF D
  <2>2. QED
    BY <2>1, LeastNumber
<1>2. k \in Nat /\ m <= k /\ ~(f[m] <= f[k])
  OBVIOUS
<1>3. f[m] \in Int /\ f[k] \in Int
  BY <1>2
<1>4. k # m
  BY <1>2, <1>3
<1>5. k - 1 \in Nat /\ m <= k - 1 /\ (k - 1) + 1 = k
  BY <1>2, <1>4
<1>6. k - 1 \notin D
  BY <1>1, <1>2, <1>5
<1>7. f[m] <= f[k - 1]
  BY <1>5, <1>6
<1>8. f[k - 1] <= f[k] /\ f[k - 1] \in Int
  BY <1>5
<1>9. QED
  BY <1>2, <1>3, <1>7, <1>8

-----------------------------------------------------------------------------
(* The call *)

\* All of the state but the clock.
CallOK ==
    /\ kind \in {"openai", "groq", "buffered"} /\ streamed \in BOOLEAN
    /\ pc \in {"ask", "wait", "read", "stream", "deliver", "ok", "error"}
    /\ sent \in 0..MaxRetries
    /\ status \in {"none", "ok", "busy", "refused"}
    /\ text \in 0..MaxPieces /\ given \in 0..text
    /\ closed \in BOOLEAN /\ cut \in BOOLEAN

\* A request is repeated only while a try is left, and read only when sent.
TriesOK ==
    /\ pc = "ask" => sent < Tries
    /\ pc \in {"wait", "read", "stream", "deliver"} => sent > 0

\* Nothing is handed over before the answer, and then never more or less than
\* what was read.
HandedOK ==
    /\ pc \in {"ask", "wait", "read"} => text = 0 /\ given = 0
    /\ pc = "stream" => Streams /\ given = text
    /\ pc = "deliver" => streamed /\ given <= text /\ text <= 1

\* The usage is handed over last, and never after a break.
LastOK ==
    pc \notin {"ok", "error"} => ~closed /\ ~cut

CallInv == CallOK /\ TriesOK /\ HandedOK /\ LastOK

-----------------------------------------------------------------------------

LEMMA TriesBound == ASSUME CallOK PROVE Tries \in Nat /\ 0 < Tries /\ Tries <= MaxRetries
BY CallAssumption DEF Tries, CallOK

\* What a failed try leads to.
LEMMA AfterSleep ==
    ASSUME CallOK, NEW t, NEW seconds, SleepAndRepeat(t, seconds)
    PROVE  pc' \in {"ask", "error"} /\ (pc' = "ask" => sent < Tries)
BY DEF SleepAndRepeat

LEMMA CallInit == Init => CallInv
<1> SUFFICES ASSUME Init PROVE CallInv
  OBVIOUS
<1>1. sent \in 0..MaxRetries /\ text \in 0..MaxPieces /\ given \in 0..text
  BY CallAssumption DEF Init
<1>2. CallOK
  BY <1>1 DEF Init, CallOK
<1>3. QED
  BY <1>2, TriesBound DEF Init, CallInv, TriesOK, HandedOK, LastOK

LEMMA CallStep ==
    ASSUME CallInv, [Next]_vars
    PROVE  CallInv'
<1> USE DEF CallInv, CallOK, TriesOK, HandedOK, LastOK, call, content
<1>1. Tries \in Nat /\ 0 < Tries /\ Tries <= MaxRetries
  BY TriesBound
<1>2. UNCHANGED <<kind, streamed>> /\ Tries' = Tries /\ Streams' = Streams
  BY DEF Next, vars, NoKey, Send, DoFails, Hear, BodyBreaks, Refused, Busy, Parse,
         Piece, StreamBreaks, StreamEnds, Deliver, DeliverUsage, Returned, Tries, Streams
<1>3. CASE NoKey
  BY <1>2, <1>3 DEF NoKey
<1>4. CASE Send
  BY <1>1, <1>2, <1>4, CallAssumption DEF Send
<1>5. CASE DoFails
  <2>1. pc' \in {"ask", "error"} /\ (pc' = "ask" => sent < Tries)
    BY <1>5, AfterSleep DEF DoFails
  <2>2. QED
    BY <1>2, <1>5, <2>1 DEF DoFails
<1>6. CASE Hear
  BY <1>2, <1>6 DEF Hear
<1>7. CASE BodyBreaks
  BY <1>2, <1>7 DEF BodyBreaks
<1>8. CASE Refused
  BY <1>2, <1>8 DEF Refused
<1>9. CASE Busy
  <2>1. pc' \in {"ask", "error"} /\ (pc' = "ask" => sent < Tries)
    BY <1>9, AfterSleep DEF Busy
  <2>2. QED
    BY <1>2, <1>9, <2>1 DEF Busy
<1>10. CASE Parse
  BY <1>2, <1>10, CallAssumption DEF Parse
<1>11. CASE Piece
  BY <1>2, <1>11, CallAssumption DEF Piece, Take
<1>12. CASE StreamBreaks
  BY <1>2, <1>12 DEF StreamBreaks
<1>13. CASE StreamEnds
  BY <1>2, <1>13 DEF StreamEnds, TakeUsage
<1>14. CASE Deliver
  BY <1>2, <1>14, CallAssumption DEF Deliver, Take
<1>15. CASE DeliverUsage
  BY <1>2, <1>15 DEF DeliverUsage, TakeUsage
<1>16. CASE Returned \/ UNCHANGED vars
  BY <1>2, <1>16 DEF Returned, vars
<1>17. QED
  BY <1>3, <1>4, <1>5, <1>6, <1>7, <1>8, <1>9, <1>10, <1>11, <1>12, <1>13, <1>14,
     <1>15, <1>16 DEF Next

LEMMA CallInvariant == Spec => []CallInv
BY CallInit, CallStep, PTL DEF Spec

-----------------------------------------------------------------------------
(* How long it may take *)

LEMMA BackoffRecursion ==
    /\ Backoff \in [Nat -> Int]
    /\ Backoff[0] = 1
    /\ \A n \in Nat : Backoff[n + 1] = 2 * Backoff[n]
<1> DEFINE next(f, n) == IF n = 0 THEN 1 ELSE 2 * f[n - 1]
<1>1. \E f : f = [n \in Nat |-> next(f, n)]
  <2> DEFINE step == [n \in Nat |-> [i \in Int |-> 2 * i]]
  <2>1. step \in [Nat -> [Int -> Int]] /\ \A n \in Nat, i \in Int : step[n][i] = 2 * i
    OBVIOUS
  <2> HIDE DEF step
  <2>2. \E f \in [Nat -> Int] : \A n \in Nat : f[n] = Continued(1, step, f, n)
    <3>1. 1 \in Int
      OBVIOUS
    <3>2. QED
      BY <2>1, <3>1, RecursionExists, Zenon
  <2>3. PICK f \in [Nat -> Int] : \A n \in Nat : f[n] = Continued(1, step, f, n)
    BY <2>2
  <2>4. \A n \in Nat : f[n] = next(f, n)
    BY <2>1, <2>3 DEF Continued
  <2>5. QED
    BY <2>4
<1>2. Backoff = (CHOOSE f : f = [n \in Nat |-> next(f, n)])
  BY DEF Backoff
<1>3. Backoff = [n \in Nat |-> next(Backoff, n)]
  BY <1>1, <1>2
<1>4. \A n \in Nat : Backoff[n] = next(Backoff, n)
  BY <1>3
<1>5. Backoff[0] = 1 /\ \A n \in Nat : Backoff[n + 1] = 2 * Backoff[n]
  BY <1>4
<1>6. \A n \in Nat : Backoff[n] \in Int
  BY <1>5, StaysInteger
<1>7. Backoff \in [Nat -> Int]
  BY <1>3, <1>6
<1>8. QED
  BY <1>5, <1>7

LEMMA BackoffGrows ==
    /\ \A n \in Nat : Backoff[n] \in Nat
    /\ \A m, n \in Nat : m <= n => Backoff[m] <= Backoff[n]
<1> DEFINE D == {k \in Nat : Backoff[k] \notin Nat}
<1>1. D = {}
  <2> SUFFICES ASSUME D # {} PROVE FALSE
    OBVIOUS
  <2>1. PICK k \in D : \A j \in D : k <= j
    <3>1. D \in SUBSET Nat
      OBVIOUS
    <3> HIDE DEF D
    <3>2. QED
      BY <3>1, LeastNumber
  <2>2. k \in Nat /\ Backoff[k] \notin Nat
    OBVIOUS
  <2>3. k - 1 \in Nat /\ (k - 1) + 1 = k
    BY <2>2, BackoffRecursion
  <2>4. Backoff[k - 1] \in Nat
    BY <2>1, <2>2, <2>3
  <2>5. Backoff[k] = 2 * Backoff[k - 1]
    BY <2>3, BackoffRecursion
  <2>6. QED
    BY <2>2, <2>4, <2>5
<1>2. \A n \in Nat : Backoff[n] \in Nat
  BY <1>1
<1>3. \A k \in Nat : Backoff[k] <= Backoff[k + 1]
  BY <1>2, BackoffRecursion
<1>4. QED
  BY <1>2, <1>3, BackoffRecursion, Climbs

LEMMA LongestSleepBounds ==
    ASSUME NEW n \in Nat \ {0}
    PROVE  /\ LongestSleep(n) \in Nat
           /\ n <= LongestSleep(n) /\ Backoff[n - 1] <= LongestSleep(n)
<1>1. n - 1 \in Nat
  OBVIOUS
<1>2. Backoff[n - 1] \in Nat
  BY <1>1, BackoffGrows
<1>3. QED
  BY <1>2 DEF LongestSleep

LEMMA SleptRecursion ==
    /\ Slept \in [Nat -> Int]
    /\ Slept[0] = 0
    /\ \A n \in Nat : Slept[n + 1] = Slept[n] + LongestSleep(n + 1)
<1> DEFINE next(f, n) == IF n = 0 THEN 0 ELSE f[n - 1] + LongestSleep(n)
<1>1. \A n \in Nat : n # 0 => LongestSleep(n) \in Int
  BY LongestSleepBounds
<1>2. \E f : f = [n \in Nat |-> next(f, n)]
  <2> DEFINE step == [n \in Nat |-> [i \in Int |-> IF n = 0 THEN 0 ELSE i + LongestSleep(n)]]
  <2>1. /\ step \in [Nat -> [Int -> Int]]
        /\ \A n \in Nat, i \in Int : n # 0 => step[n][i] = i + LongestSleep(n)
    BY <1>1
  <2> HIDE DEF step
  <2>2. \E f \in [Nat -> Int] : \A n \in Nat : f[n] = Continued(0, step, f, n)
    <3>1. 0 \in Int
      OBVIOUS
    <3>2. QED
      BY <2>1, <3>1, RecursionExists, Zenon
  <2>3. PICK f \in [Nat -> Int] : \A n \in Nat : f[n] = Continued(0, step, f, n)
    BY <2>2
  <2>4. \A n \in Nat : f[n] = next(f, n)
    BY <2>1, <2>3 DEF Continued
  <2>5. QED
    BY <2>4
<1>3. Slept = (CHOOSE f : f = [n \in Nat |-> next(f, n)])
  BY DEF Slept
<1>4. Slept = [n \in Nat |-> next(Slept, n)]
  BY <1>2, <1>3
<1>5. \A n \in Nat : Slept[n] = next(Slept, n)
  BY <1>4
<1>6. Slept[0] = 0 /\ \A n \in Nat : Slept[n + 1] = Slept[n] + LongestSleep(n + 1)
  BY <1>5
<1>7. \A n \in Nat : Slept[n] \in Int
  BY <1>1, <1>6, StaysInteger
<1>8. Slept \in [Nat -> Int]
  BY <1>4, <1>7
<1>9. QED
  BY <1>6, <1>8

\* The longest n tries may take.
Lasting == [n \in Nat |-> n * ClientTimeout + Slept[n]]

LEMMA LastingGrows ==
    /\ Lasting \in [Nat -> Int]
    /\ Lasting[0] = 0
    /\ \A n \in Nat : Lasting[n + 1] = Lasting[n] + ClientTimeout + LongestSleep(n + 1)
    /\ \A m, n \in Nat : m <= n => Lasting[m] <= Lasting[n]
<1>1. Lasting \in [Nat -> Int] /\ Lasting[0] = 0
  BY SleptRecursion, CallAssumption DEF Lasting
<1>2. ASSUME NEW n \in Nat
      PROVE  /\ Lasting[n + 1] = Lasting[n] + ClientTimeout + LongestSleep(n + 1)
             /\ Lasting[n] <= Lasting[n + 1]
  <2>1. LongestSleep(n + 1) \in Nat /\ Slept[n] \in Int
    BY LongestSleepBounds, SleptRecursion
  <2>2. Slept[n + 1] = Slept[n] + LongestSleep(n + 1)
    BY SleptRecursion
  <2>3. (n + 1) * ClientTimeout = n * ClientTimeout + ClientTimeout /\ n * ClientTimeout \in Nat
    BY CallAssumption
  <2>4. Lasting[n + 1] = n * ClientTimeout + ClientTimeout + (Slept[n] + LongestSleep(n + 1))
    BY <2>2, <2>3 DEF Lasting
  <2>5. Lasting[n] = n * ClientTimeout + Slept[n]
    BY DEF Lasting
  <2>6. QED
    BY <2>1, <2>3, <2>4, <2>5, CallAssumption
<1>3. \A n \in Nat : Lasting[n] <= Lasting[n + 1]
  BY <1>2
<1>4. \A m, n \in Nat : m <= n => Lasting[m] <= Lasting[n]
  BY <1>1, <1>3, Climbs
<1>5. QED
  BY <1>1, <1>2, <1>4

\* The clock is bounded by the tries made so far while a request is out, and
\* by all of them only at the end; past the deadline a call is only in a
\* sleep.  A stream has no second exchange.
ClockOK ==
    /\ now \in Nat /\ since \in Nat /\ since <= now
    /\ deadline \in Deadlines
    /\ sent <= Tries
    /\ pc = "ask" => now <= Lasting[sent]
    /\ pc \in {"wait", "read", "stream", "deliver"} =>
          now <= since + ClientTimeout /\ since <= Lasting[sent - 1]
    /\ pc \in {"ok", "error"} => now <= Lasting[Tries]
    /\ now <= deadline + LongestSleep(Tries)
    /\ Streams => /\ since = 0 /\ (pc = "ask" => sent = 0 /\ now = 0)
                  /\ now <= ClientTimeout /\ now <= deadline

\* The longest sleeps, after any try and before the last.
LEMMA SleepBounds ==
    ASSUME CallOK
    PROVE  /\ Tries \in Nat \ {0}
           /\ LongestSleep(Tries) \in Nat /\ Lasting[Tries] \in Int
           /\ \A n \in Nat : n <= Tries => Lasting[n] <= Lasting[Tries]
           /\ \A n \in Nat : n # 0 /\ n <= Tries =>
                 /\ Lasting[n] = Lasting[n - 1] + ClientTimeout + LongestSleep(n)
                 /\ n <= LongestSleep(n) /\ Backoff[n - 1] <= LongestSleep(n)
                 /\ n <= LongestSleep(Tries) /\ Backoff[n - 1] <= LongestSleep(Tries)
                 /\ LongestSleep(n) \in Nat /\ Lasting[n - 1] \in Int
                 /\ Backoff[n - 1] \in Nat
<1>1. Tries \in Nat \ {0}
  BY TriesBound
<1>2. ASSUME NEW n \in Nat, n # 0, n <= Tries
      PROVE  /\ Lasting[n] = Lasting[n - 1] + ClientTimeout + LongestSleep(n)
             /\ n <= LongestSleep(n) /\ Backoff[n - 1] <= LongestSleep(n)
             /\ n <= LongestSleep(Tries) /\ Backoff[n - 1] <= LongestSleep(Tries)
             /\ LongestSleep(n) \in Nat /\ Lasting[n - 1] \in Int
             /\ Backoff[n - 1] \in Nat
  <2>1. n - 1 \in Nat /\ Tries - 1 \in Nat /\ n - 1 <= Tries - 1 /\ (n - 1) + 1 = n
    BY <1>1, <1>2
  <2>2. Lasting[n] = Lasting[n - 1] + ClientTimeout + LongestSleep(n) /\ Lasting[n - 1] \in Int
    BY <2>1, LastingGrows
  <2>3. n <= LongestSleep(n) /\ Backoff[n - 1] <= LongestSleep(n) /\ LongestSleep(n) \in Nat
    BY <1>2, LongestSleepBounds
  <2>4. /\ Tries <= LongestSleep(Tries) /\ Backoff[Tries - 1] <= LongestSleep(Tries)
        /\ LongestSleep(Tries) \in Nat
    BY <1>1, LongestSleepBounds
  <2>5. Backoff[n - 1] <= Backoff[Tries - 1] /\ Backoff[n - 1] \in Nat /\ Backoff[Tries - 1] \in Nat
    BY <2>1, BackoffGrows
  <2>6. n <= LongestSleep(Tries) /\ Backoff[n - 1] <= LongestSleep(Tries)
    BY <1>1, <1>2, <2>4, <2>5
  <2>7. QED
    BY <2>2, <2>3, <2>5, <2>6
<1>3. LongestSleep(Tries) \in Nat /\ Lasting[Tries] \in Int
  BY <1>1, LongestSleepBounds, LastingGrows
<1>4. \A n \in Nat : n <= Tries => Lasting[n] <= Lasting[Tries]
  BY <1>1, LastingGrows
<1>5. QED
  BY <1>1, <1>2, <1>3, <1>4

LEMMA ClockInit == Init => ClockOK
<1> SUFFICES ASSUME Init PROVE ClockOK
  OBVIOUS
<1>1. CallOK
  BY CallInit DEF CallInv
<1>2. /\ Tries \in Nat \ {0} /\ LongestSleep(Tries) \in Nat
      /\ Lasting[0] = 0 /\ Lasting[0] <= Lasting[Tries]
  BY <1>1, SleepBounds, LastingGrows
<1>3. deadline \in Nat /\ ClientTimeout \in Nat
  BY CallAssumption DEF Init
<1>4. QED
  BY <1>2, <1>3 DEF Init, ClockOK

\* An exchange that is still waited for, or read, is over in time.
LEMMA ExchangeInTime ==
    ASSUME CallInv, ClockOK, pc \in {"wait", "read", "stream", "deliver"}
    PROVE  /\ since + ClientTimeout <= Lasting[sent] /\ Lasting[sent] <= Lasting[Tries]
           /\ sent \in Nat \ {0} /\ sent <= Tries
           /\ since + ClientTimeout + sent <= Lasting[sent]
           /\ since + ClientTimeout + Backoff[sent - 1] <= Lasting[sent]
           /\ sent <= LongestSleep(Tries) /\ Backoff[sent - 1] <= LongestSleep(Tries)
           /\ Backoff[sent - 1] \in Nat /\ Lasting[sent] \in Int /\ Lasting[Tries] \in Int
           /\ LongestSleep(Tries) \in Nat
<1>1. sent \in Nat \ {0} /\ sent <= Tries
  BY CallAssumption DEF CallInv, CallOK, TriesOK, ClockOK
<1>2. since \in Nat /\ since <= Lasting[sent - 1] /\ ClientTimeout \in Nat
  BY CallAssumption DEF ClockOK
<1>3. CallOK
  BY DEF CallInv
<1>4. /\ Lasting[sent] = Lasting[sent - 1] + ClientTimeout + LongestSleep(sent)
      /\ sent <= LongestSleep(sent) /\ Backoff[sent - 1] <= LongestSleep(sent)
      /\ sent <= LongestSleep(Tries) /\ Backoff[sent - 1] <= LongestSleep(Tries)
      /\ LongestSleep(sent) \in Nat /\ Lasting[sent - 1] \in Int
      /\ Backoff[sent - 1] \in Nat
  BY <1>1, <1>3, SleepBounds
<1>5. Lasting[sent] <= Lasting[Tries] /\ Lasting[Tries] \in Int /\ LongestSleep(Tries) \in Nat
  BY <1>1, <1>3, SleepBounds
<1>6. QED
  BY <1>1, <1>2, <1>4, <1>5

\* A step of an exchange that ends by its timeout, before the deadline or at
\* once, and that no sleep follows.
LEMMA ClockOfExchange ==
    ASSUME CallInv, ClockOK, pc \in {"wait", "read", "stream", "deliver"},
           UNCHANGED <<call, since, sent>>,
           now' \in Breaks,
           pc' \in {"read", "stream", "deliver", "ok", "error"}
    PROVE  ClockOK'
<1>1. /\ since + ClientTimeout <= Lasting[sent] /\ Lasting[sent] <= Lasting[Tries]
      /\ Lasting[sent] \in Int /\ Lasting[Tries] \in Int /\ LongestSleep(Tries) \in Nat
  BY ExchangeInTime
<1>2. deadline \in Nat /\ ClientTimeout \in Nat
  BY CallAssumption DEF ClockOK
<1>3. now \in Nat /\ since \in Nat /\ since <= now /\ now <= since + ClientTimeout
  BY DEF ClockOK
<1>4. now' \in Nat /\ now <= now' /\ now' <= since + ClientTimeout
  BY <1>2, <1>3 DEF Breaks
<1>5. now' = now \/ now' <= deadline
  BY DEF Breaks
<1>6. Tries' = Tries /\ Streams' = Streams /\ deadline' = deadline /\ sent' = sent /\ since' = since
  BY DEF Tries, Streams, call
<1>7. LongestSleep(Tries)' = LongestSleep(Tries) /\ Lasting' = Lasting
  BY <1>6 DEF LongestSleep, Lasting
<1>8. now' <= Lasting[Tries]
  BY <1>1, <1>2, <1>3, <1>4
<1>9. now' <= deadline + LongestSleep(Tries)
  BY <1>1, <1>2, <1>3, <1>4, <1>5 DEF ClockOK
<1>10. Streams => since = 0 /\ now' <= ClientTimeout /\ now' <= deadline
  BY <1>2, <1>3, <1>4, <1>5 DEF ClockOK
<1>11. QED
  BY <1>3, <1>4, <1>6, <1>7, <1>8, <1>9, <1>10 DEF ClockOK

\* A try that did not stream, fails before the deadline, and is slept over.
LEMMA ClockOfSleep ==
    ASSUME CallInv, ClockOK, pc \in {"wait", "read"}, ~Streams,
           UNCHANGED <<call, since, sent>>,
           NEW t \in Breaks, t < deadline,
           NEW seconds \in {sent, Backoff[sent - 1]},
           SleepAndRepeat(t, seconds)
    PROVE  ClockOK'
<1>1. /\ Lasting[sent] <= Lasting[Tries]
      /\ sent \in Nat \ {0} /\ sent <= Tries
      /\ Lasting[sent] \in Int /\ Lasting[Tries] \in Int /\ LongestSleep(Tries) \in Nat
  BY ExchangeInTime
<1>2. /\ seconds \in Nat /\ seconds <= LongestSleep(Tries)
      /\ since + ClientTimeout + seconds <= Lasting[sent]
  BY ExchangeInTime
<1>3. deadline \in Nat /\ ClientTimeout \in Nat
  BY CallAssumption DEF ClockOK
<1>4. now \in Nat /\ since \in Nat /\ since <= now /\ now <= since + ClientTimeout
  BY DEF ClockOK
<1>5. t \in Nat /\ now <= t /\ t <= since + ClientTimeout
  BY <1>3, <1>4 DEF Breaks
<1>6. now' = t + seconds /\ pc' = IF sent < Tries THEN "ask" ELSE "error"
  BY DEF SleepAndRepeat
<1>7. Tries' = Tries /\ Streams' = Streams /\ deadline' = deadline /\ sent' = sent /\ since' = since
  BY DEF Tries, Streams, call
<1>8. LongestSleep(Tries)' = LongestSleep(Tries) /\ Lasting' = Lasting
  BY <1>7 DEF LongestSleep, Lasting
<1>9. now' \in Nat /\ since <= now' /\ now' <= Lasting[sent] /\ now' <= Lasting[Tries]
  BY <1>1, <1>2, <1>3, <1>4, <1>5, <1>6
<1>10. now' <= deadline + LongestSleep(Tries)
  BY <1>1, <1>2, <1>3, <1>5, <1>6
<1>11. pc' \in {"ask", "error"}
  BY <1>6
<1>12. QED
  BY <1>4, <1>7, <1>8, <1>9, <1>10, <1>11 DEF ClockOK

LEMMA ClockStep ==
    ASSUME CallInv, ClockOK, [Next]_vars
    PROVE  ClockOK'
<1>0. CallOK /\ TriesOK /\ HandedOK
  BY DEF CallInv
<1>1. Tries \in Nat \ {0} /\ deadline \in Nat /\ now \in Nat /\ ClientTimeout \in Nat
  BY TriesBound, <1>0, CallAssumption DEF ClockOK
<1>2. Moments \subseteq Breaks /\ now \in Breaks /\ \A t \in Moments : t < deadline
  BY <1>1 DEF Moments, Breaks
<1>3. CASE NoKey
  <2>1. Lasting[0] <= Lasting[Tries] /\ now <= Lasting[0] /\ Lasting[0] = 0
    BY <1>0, <1>3, SleepBounds, LastingGrows DEF NoKey, ClockOK
  <2>2. Tries' = Tries /\ Streams' = Streams /\ UNCHANGED <<deadline, now, since, sent>> /\ pc' = "error"
    BY <1>3 DEF NoKey, Tries, Streams, call
  <2>3. LongestSleep(Tries)' = LongestSleep(Tries) /\ Lasting' = Lasting
    BY <2>2 DEF LongestSleep, Lasting
  <2>4. now <= Lasting[Tries]
    BY <1>0, <1>1, <2>1, SleepBounds
  <2>5. (Streams => now <= ClientTimeout /\ now <= deadline) /\ (Streams => since = 0)
    BY DEF ClockOK
  <2>6. QED
    BY <2>2, <2>3, <2>4, <2>5 DEF ClockOK
<1>4. CASE Send
  <2>1. sent < Tries /\ sent \in Nat
    BY <1>0, <1>4, CallAssumption DEF Send, TriesOK, CallOK
  <2>2. /\ Tries' = Tries /\ Streams' = Streams /\ UNCHANGED <<deadline, now>> /\ pc' = "wait"
        /\ since' = now /\ sent' = sent + 1 /\ pc = "ask"
    BY <1>4 DEF Send, Tries, Streams, call
  <2>3. LongestSleep(Tries)' = LongestSleep(Tries) /\ Lasting' = Lasting
    BY <2>2 DEF LongestSleep, Lasting
  <2>4. sent' - 1 = sent /\ sent' <= Tries
    BY <1>1, <2>1, <2>2
  <2>5. since' <= Lasting[sent' - 1] /\ now' <= since' + ClientTimeout
    BY <1>1, <2>2, <2>4 DEF ClockOK
  <2>6. QED
    BY <1>1, <2>2, <2>3, <2>4, <2>5 DEF ClockOK
<1>5. CASE DoFails
  <2>1. pc = "wait" /\ UNCHANGED <<call, since, sent>>
    BY <1>5 DEF DoFails
  <2>2. PICK t \in Breaks : IF Streams \/ t >= deadline
                            THEN now' = t /\ pc' = "error"
                            ELSE SleepAndRepeat(t, sent)
    BY <1>5 DEF DoFails
  <2>3. CASE Streams \/ t >= deadline
    BY <2>1, <2>2, <2>3, ClockOfExchange
  <2>4. CASE ~(Streams \/ t >= deadline)
    <3>1. t \in Int /\ t < deadline
      BY <1>1, <2>4 DEF Breaks, ClockOK
    <3>2. QED
      BY <2>1, <2>2, <2>4, <3>1, ClockOfSleep
  <2>5. QED
    BY <2>3, <2>4
<1>6. CASE Hear
  BY <1>2, <1>6, ClockOfExchange DEF Hear
<1>7. CASE BodyBreaks
  BY <1>2, <1>7, ClockOfExchange DEF BodyBreaks
<1>8. CASE Refused
  BY <1>2, <1>8, ClockOfExchange DEF Refused
<1>9. CASE Busy
  <2>1. PICK t \in Moments : SleepAndRepeat(t, Backoff[sent - 1])
    BY <1>9 DEF Busy
  <2>2. t \in Breaks /\ t < deadline
    BY <1>2
  <2>3. pc = "read" /\ ~Streams /\ UNCHANGED <<call, since, sent>>
    BY <1>9 DEF Busy
  <2>4. QED
    BY <2>1, <2>2, <2>3, ClockOfSleep
<1>10. CASE Parse
  BY <1>2, <1>10, ClockOfExchange DEF Parse
<1>11. CASE Piece
  BY <1>2, <1>11, ClockOfExchange DEF Piece, Take
<1>12. CASE StreamBreaks
  BY <1>2, <1>12, ClockOfExchange DEF StreamBreaks
<1>13. CASE StreamEnds
  BY <1>2, <1>13, ClockOfExchange DEF StreamEnds, TakeUsage
<1>14. CASE Deliver
  BY <1>2, <1>14, ClockOfExchange DEF Deliver, Take
<1>15. CASE DeliverUsage
  BY <1>2, <1>15, ClockOfExchange DEF DeliverUsage, TakeUsage
<1>16. CASE Returned \/ UNCHANGED vars
  <2>1. UNCHANGED vars
    BY <1>16 DEF Returned
  <2>2. Tries' = Tries /\ Streams' = Streams /\ UNCHANGED <<deadline, now, since, sent, pc>>
    BY <2>1 DEF vars, Tries, Streams
  <2>3. LongestSleep(Tries)' = LongestSleep(Tries) /\ Lasting' = Lasting
    BY <2>2 DEF LongestSleep, Lasting
  <2>4. QED
    BY <2>2, <2>3 DEF ClockOK
<1>17. QED
  BY <1>3, <1>4, <1>5, <1>6, <1>7, <1>8, <1>9, <1>10, <1>11, <1>12, <1>13, <1>14,
     <1>15, <1>16 DEF Next

LEMMA ClockInvariant == Spec => []ClockOK
<1>1. CallInv /\ ClockOK /\ [Next]_vars => ClockOK'
  BY ClockStep
<1>2. QED
  BY ClockInit, <1>1, CallInvariant, PTL DEF Spec

\* Every variable keeps its type, and no more is handed over than was read.
THEOREM CallTypeCorrect == Spec => []TypeOK
<1>1. CallInv /\ ClockOK => TypeOK
  BY DEF CallInv, CallOK, ClockOK, TypeOK
<1>2. QED
  BY <1>1, CallInvariant, ClockInvariant, PTL

LEMMA InTime ==
    ASSUME CallInv, ClockOK
    PROVE  ReturnsInTime
<1>1. CallOK /\ Tries \in Nat \ {0} /\ Lasting[Tries] \in Int /\ now \in Nat
  BY SleepBounds DEF CallInv, ClockOK
<1>2. Lasting[Tries] = Tries * ClientTimeout + Slept[Tries]
  BY <1>1 DEF Lasting
<1>3. now <= Lasting[Tries]
  <2>1. CASE pc = "ask"
    <3>1. now <= Lasting[sent] /\ sent \in Nat /\ sent <= Tries
      BY <1>1, <2>1, CallAssumption DEF ClockOK, CallOK
    <3>2. Lasting[sent] <= Lasting[Tries] /\ Lasting[sent] \in Int
      BY <1>1, <3>1, SleepBounds, LastingGrows
    <3>3. QED
      BY <1>1, <3>1, <3>2
  <2>2. CASE pc \in {"wait", "read", "stream", "deliver"}
    <3>1. since + ClientTimeout <= Lasting[sent] /\ Lasting[sent] <= Lasting[Tries]
          /\ Lasting[sent] \in Int
      BY <2>2, ExchangeInTime
    <3>2. now <= since + ClientTimeout /\ since \in Nat /\ ClientTimeout \in Nat
      BY <2>2, CallAssumption DEF ClockOK
    <3>3. QED
      BY <1>1, <3>1, <3>2
  <2>3. CASE pc \in {"ok", "error"}
    BY <2>3 DEF ClockOK
  <2>4. QED
    BY <1>1, <2>1, <2>2, <2>3 DEF CallOK
<1>4. QED
  BY <1>2, <1>3 DEF ClockOK, ReturnsInTime

\* With any number of tries a call takes no longer than its exchanges and its
\* sleeps, and passes the caller's deadline by one sleep, the longest, at
\* most; a stream, which does not sleep, keeps to the timeout and to the
\* deadline (client.go:94, 214-246, 430-461).
THEOREM CallReturnsInTime == Spec => []ReturnsInTime
<1>1. CallInv /\ ClockOK => ReturnsInTime
  BY InTime
<1>2. QED
  BY <1>1, CallInvariant, ClockInvariant, PTL

-----------------------------------------------------------------------------
(* The mapping *)

phaseMap ==
    CASE pc \in {"ok", "error"} -> pc
      [] pc \in {"stream", "deliver"} -> "heard"
      [] pc = "read" /\ status = "ok" -> "heard"
      [] OTHER -> "asking"
answerMap == IF pc = "ok" THEN text ELSE 0

LEMMA Phases ==
    ASSUME CallOK
    PROVE  /\ pc \in {"ok", "error"} => phaseMap = pc
           /\ pc \in {"stream", "deliver"} => phaseMap = "heard"
           /\ pc = "read" => phaseMap = (IF status = "ok" THEN "heard" ELSE "asking")
           /\ pc \in {"ask", "wait"} => phaseMap = "asking"
BY DEF phaseMap, CallOK
LEMMA PhasesAfter ==
    ASSUME CallOK'
    PROVE  /\ pc' \in {"ok", "error"} => phaseMap' = pc'
           /\ pc' \in {"stream", "deliver"} => phaseMap' = "heard"
           /\ pc' = "read" => phaseMap' = (IF status' = "ok" THEN "heard" ELSE "asking")
           /\ pc' \in {"ask", "wait"} => phaseMap' = "asking"
BY DEF phaseMap, CallOK

LEMMA ContractInit == Init => Contract!Init
<1> SUFFICES ASSUME Init PROVE Contract!Init
  OBVIOUS
<1>1. CallInv
  BY CallInit
<1>2. phaseMap = "asking" /\ answerMap = 0
  BY <1>1, Phases DEF Init, CallInv, answerMap
<1>3. QED
  BY <1>2 DEF Init, Contract!Init, phaseMap, answerMap

\* Most steps look to the router like one of these two.
LEMMA LooksFailed ==
    ASSUME CallInv, CallInv', UNCHANGED <<streamed, sent, given, closed>>,
           pc \notin {"ok", "error"}, pc' = "error"
    PROVE  Contract!Fail
<1>1. phaseMap \in {"asking", "heard"} /\ phaseMap' = "error"
  BY Phases, PhasesAfter DEF CallInv, CallOK
<1>2. answerMap = 0 /\ answerMap' = 0
  BY DEF answerMap
<1>3. cut' \in BOOLEAN
  BY DEF CallInv, CallOK
<1>4. QED
  BY <1>1, <1>2, <1>3 DEF Contract!Fail, phaseMap, answerMap

LEMMA LooksIdle ==
    ASSUME UNCHANGED <<streamed, sent, given, closed, cut>>,
           phaseMap' = phaseMap, pc # "ok", pc' # "ok"
    PROVE  UNCHANGED Contract!vars
<1>1. answerMap = 0 /\ answerMap' = 0
  BY DEF answerMap
<1>2. QED
  BY <1>1 DEF Contract!vars, phaseMap, answerMap

\* The handler takes the usage, or is gone.
LEMMA LooksOver ==
    ASSUME CallInv, CallInv', pc \in {"stream", "deliver"}, TakeUsage, streamed,
           UNCHANGED <<streamed, sent, text, given, cut>>, given = text
    PROVE  [Contract!Next]_(Contract!vars)
<1>1. CASE pc' = "error" /\ UNCHANGED closed
  BY <1>1, LooksFailed DEF Contract!Next
<1>2. CASE pc' = "ok" /\ closed' = TRUE
  <2>1. phaseMap = "heard" /\ phaseMap' = "ok"
    BY <1>2, Phases, PhasesAfter DEF CallInv
  <2>2. answerMap' = given
    BY <1>2 DEF answerMap
  <2>3. Contract!Succeed
    BY <1>2, <2>1, <2>2 DEF Contract!Succeed, phaseMap, answerMap
  <2>4. QED
    BY <2>3 DEF Contract!Next
<1>3. QED
  BY <1>1, <1>2 DEF TakeUsage

\* A piece is taken, or the client is gone.
LEMMA LooksGiven ==
    ASSUME CallInv, CallInv', pc \in {"stream", "deliver"}, Take, streamed,
           UNCHANGED <<streamed, sent, closed, cut>>,
           pc' \in {pc, "error"}, text' = given + 1
    PROVE  [Contract!Next]_(Contract!vars)
<1>1. CASE pc' = "error" /\ UNCHANGED given
  BY <1>1, LooksFailed DEF Contract!Next
<1>2. CASE given' = text' /\ UNCHANGED pc
  <2>1. phaseMap = "heard" /\ phaseMap' = "heard"
    BY <1>2, Phases, PhasesAfter DEF CallInv
  <2>2. answerMap = 0 /\ answerMap' = 0
    BY <1>2 DEF answerMap
  <2>3. Contract!Give
    BY <1>2, <2>1, <2>2 DEF Contract!Give, phaseMap, answerMap
  <2>4. QED
    BY <2>3 DEF Contract!Next
<1>3. QED
  BY <1>1, <1>2 DEF Take

LEMMA ContractStep ==
    ASSUME CallInv, CallInv', [Next]_vars
    PROVE  [Contract!Next]_(Contract!vars)
<1> USE DEF call, content
<1>0. CallOK /\ CallOK' /\ TriesOK /\ HandedOK /\ LastOK
  BY DEF CallInv
<1>1. CASE NoKey
  BY <1>1, LooksFailed DEF NoKey, Contract!Next
<1>2. CASE Send
  <2>1. sent < MaxRetries
    BY <1>0, <1>2, TriesBound, CallAssumption DEF Send, TriesOK, CallOK
  <2>2. phaseMap = "asking" /\ phaseMap' = "asking"
    BY <1>0, <1>2, Phases, PhasesAfter DEF Send
  <2>3. answerMap = 0 /\ answerMap' = 0
    BY <1>2 DEF Send, answerMap
  <2>4. Contract!Ask
    BY <1>2, <2>1, <2>2, <2>3 DEF Send, Contract!Ask, phaseMap, answerMap
  <2>5. QED
    BY <2>4 DEF Contract!Next
<1>3. ASSUME DoFails \/ Busy
      PROVE  [Contract!Next]_(Contract!vars)
  <2>1. pc' \in {"ask", "error"}
    BY <1>0, <1>3, AfterSleep DEF DoFails, Busy
  <2>2. CASE pc' = "error"
    BY <1>3, <2>2, LooksFailed DEF DoFails, Busy, Contract!Next
  <2>3. CASE pc' = "ask"
    <3>1. phaseMap = "asking" /\ phaseMap' = "asking"
      BY <1>0, <1>3, <2>3, Phases, PhasesAfter DEF DoFails, Busy
    <3>2. QED
      BY <1>3, <2>3, <3>1, LooksIdle DEF DoFails, Busy
  <2>4. QED
    BY <2>1, <2>2, <2>3
<1>4. CASE Hear
  <2>1. phaseMap = "asking" /\ phaseMap' = (IF status' = "ok" THEN "heard" ELSE "asking")
    BY <1>0, <1>4, Phases, PhasesAfter DEF Hear
  <2>2. answerMap = 0 /\ answerMap' = 0 /\ sent > 0
    BY <1>0, <1>4 DEF Hear, answerMap, TriesOK
  <2>3. CASE status' = "ok"
    <3>1. Contract!Hear
      BY <1>4, <2>1, <2>2, <2>3 DEF Hear, Contract!Hear, phaseMap, answerMap
    <3>2. QED
      BY <3>1 DEF Contract!Next
  <2>4. CASE status' # "ok"
    BY <1>4, <2>1, <2>4, LooksIdle DEF Hear
  <2>5. QED
    BY <2>3, <2>4
<1>5. CASE BodyBreaks \/ Refused \/ StreamBreaks
  BY <1>5, LooksFailed DEF BodyBreaks, Refused, StreamBreaks, Contract!Next
<1>6. CASE Parse
  <2>1. phaseMap = "heard"
    BY <1>0, <1>6, Phases DEF Parse
  <2>2. CASE pc' = "error"
    BY <1>6, <2>2, LooksFailed DEF Parse, Contract!Next
  <2>3. CASE pc' = "deliver"
    <3>1. phaseMap' = "heard"
      BY <1>0, <2>3, PhasesAfter
    <3>2. QED
      BY <1>6, <2>1, <2>3, <3>1, LooksIdle DEF Parse
  <2>4. CASE pc' = "ok"
    <3>1. phaseMap' = "ok" /\ ~streamed
      BY <1>0, <1>6, <2>4, PhasesAfter DEF Parse
    <3>2. answerMap' \in Nat
      BY <1>0, <2>4, CallAssumption DEF answerMap, CallOK
    <3>3. closed' = streamed
      BY <1>0, <1>6, <3>1, Zenon DEF Parse, LastOK, CallOK
    <3>4. Contract!Succeed
      BY <1>6, <2>1, <3>1, <3>2, <3>3 DEF Parse, Contract!Succeed, phaseMap, answerMap
    <3>5. QED
      BY <3>4 DEF Contract!Next
  <2>5. QED
    BY <1>6, <2>2, <2>3, <2>4 DEF Parse
<1>7. CASE Piece
  BY <1>0, <1>7, LooksGiven DEF Piece, Take, HandedOK, Streams
<1>8. CASE StreamEnds
  BY <1>0, <1>8, LooksOver DEF StreamEnds, HandedOK, Streams
<1>9. CASE Deliver
  <2>1. given < text /\ text <= 1 /\ streamed
    BY <1>0, <1>9 DEF Deliver, HandedOK
  <2>2. text' = given + 1
    BY <1>0, <1>9, <2>1, CallAssumption DEF Deliver, CallOK
  <2>3. QED
    BY <1>9, <2>1, <2>2, LooksGiven DEF Deliver, Take
<1>10. CASE DeliverUsage
  BY <1>0, <1>10, LooksOver DEF DeliverUsage, HandedOK
<1>11. CASE Returned \/ UNCHANGED vars
  BY <1>11 DEF Returned, vars, Contract!vars
<1>12. QED
  BY <1>1, <1>2, <1>3, <1>4, <1>5, <1>6, <1>7, <1>8, <1>9, <1>10, <1>11 DEF Next

\* Whatever provider, timeouts and breaks: to the router a call is one that
\* asks a few times, never after it heard something, and returns as the answer
\* exactly the text that was handed over (client.go:214-300, 430-464).
THEOREM ImplementsCall == Spec => RefinesCall
<1>1. CallInv /\ CallInv' /\ [Next]_vars => [Contract!Next]_(Contract!vars)
  BY ContractStep
<1>2. QED
  BY ContractInit, <1>1, CallInvariant, PTL DEF Spec, RefinesCall, Contract!Spec
=============================================================================
