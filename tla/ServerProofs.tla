----------------------------- MODULE ServerProofs -----------------------------
(***************************************************************************)
(* Proofs about the server process: its rate limiter, and how it starts    *)
(* and brings its database up to date.                                     *)
(***************************************************************************)
EXTENDS RateLimiter, Startup, FiniteSetTheorems, TLAPS

-----------------------------------------------------------------------------
(* RateLimiter.  What is remembered of a key is the end of the history of  *)
(* its accepted requests, and what was forgotten had left the window:      *)
(* popped, pruned or refused, no request inside the window is ever missed  *)
(* by the count.                                                           *)

Ordered(a) ==
    /\ \A i \in DOMAIN a : a[i] <= clock
    /\ \A i, j \in DOMAIN a : i <= j => a[i] <= a[j]

\* h is the end of a, and what of a is not in h is stale.
EndOf(h, a) ==
    /\ Len(h) <= Len(a)
    /\ \A i \in 1..Len(h) : h[i] = a[Len(a) - Len(h) + i]
    /\ \A i \in 1..(Len(a) - Len(h)) : Stale(a[i])

Remembered == \A k \in Keys : Ordered(accepted[k]) /\ EndOf(Tracked(k), accepted[k])

LimiterInv == LimiterTypeOK /\ Remembered

\* What is tracked of a key is a sequence of times, tracked or not.
LEMMA TrackedType ==
    ASSUME LimiterTypeOK, NEW k \in Keys
    PROVE  Tracked(k) \in Times
  BY DEF LimiterTypeOK, Tracked, Times

\* The type invariant holds of the first state and is kept by every step.
LEMMA TypeInit == LimiterInit => LimiterTypeOK
  BY LimiterAssumption DEF LimiterInit, LimiterTypeOK, Times, Keys

\* A deque in the table after a check, before the pruning.
LEMMA WithType ==
    ASSUME LimiterTypeOK, NEW k \in Keys, NEW h \in Times
    PROVE  /\ DOMAIN With(k, h) = DOMAIN hits \cup {k}
           /\ With(k, h)[k] = h
           /\ \A x \in DOMAIN hits \ {k} : With(k, h)[x] = hits[x]
           /\ \A x \in DOMAIN With(k, h) : x \in Keys /\ With(k, h)[x] \in Times
  BY DEF With, LimiterTypeOK

\* Pruning keeps what it keeps as it was.
LEMMA PruneKeeps ==
    ASSUME NEW table
    PROVE  /\ DOMAIN Prune(table) \subseteq DOMAIN table
           /\ \A x \in DOMAIN Prune(table) : Prune(table)[x] = table[x]
           /\ \A x \in DOMAIN table \ DOMAIN Prune(table) :
                 table[x] = <<>> \/ Stale(table[x][Len(table[x])])
  BY DEF Prune

LEMMA ClientKeyIsKey ==
    ASSUME NEW f \in Addresses \cup {NoAddress}, NEW p \in Addresses \cup {NoAddress}
    PROVE  ClientKey(f, p) \in Keys
  BY DEF ClientKey, Keys

LEMMA TypeStep == LimiterTypeOK /\ [LimiterNext]_limiterVars => LimiterTypeOK'
<1> SUFFICES ASSUME LimiterTypeOK, [LimiterNext]_limiterVars
             PROVE  LimiterTypeOK'
    OBVIOUS
<1>1. ASSUME NEW k \in Keys, CheckLimit(k)
      PROVE  LimiterTypeOK'
  <2>1. PICK n \in 0..Len(Tracked(k)) :
          LET kept == SubSeq(Tracked(k), n + 1, Len(Tracked(k)))
              ok   == Len(kept) < MaxRequests
          IN  /\ hits' = IF ok THEN Prune(With(k, Append(kept, clock))) ELSE With(k, kept)
              /\ accepted' = IF ok THEN [accepted EXCEPT ![k] = Append(@, clock)] ELSE accepted
              /\ verdict' = [key |-> k, ok |-> ok, at |-> clock]
              /\ UNCHANGED clock
        BY <1>1 DEF CheckLimit
  <2> DEFINE kept == SubSeq(Tracked(k), n + 1, Len(Tracked(k)))
  <2>2. kept \in Times /\ clock \in Nat
        BY TrackedType DEF LimiterTypeOK, Times
  <2>3. Append(kept, clock) \in Times
        BY <2>2 DEF Times
  <2>4. DOMAIN hits' \subseteq Keys /\ \A x \in DOMAIN hits' : hits'[x] \in Times
    <3>1. CASE Len(kept) < MaxRequests
      <4> DEFINE table == With(k, Append(kept, clock))
      <4>1. \A x \in DOMAIN table : x \in Keys /\ table[x] \in Times
            BY <2>3, WithType
      <4> HIDE DEF table
      <4>2. hits' = Prune(table)
            BY <2>1, <3>1 DEF table
      <4> QED BY <4>1, <4>2, PruneKeeps
    <3>2. CASE ~(Len(kept) < MaxRequests)
          BY <2>1, <2>2, <3>2, WithType
    <3> QED BY <3>1, <3>2
  <2>5. accepted' \in [Keys -> Times]
        BY <2>1, <2>2 DEF LimiterTypeOK, Times
  <2> HIDE DEF kept
  <2>6. verdict' \in [key : Keys \cup {NoAddress}, ok : BOOLEAN, at : Nat]
        BY <2>1, <2>2 DEF kept
  <2> QED BY <2>1, <2>2, <2>4, <2>5, <2>6 DEF LimiterTypeOK
<1>2. CASE RateLimitedRequest
      BY <1>1, <1>2, ClientKeyIsKey DEF RateLimitedRequest
<1>3. CASE TimePasses
      BY <1>3 DEF TimePasses, LimiterTypeOK
<1>4. CASE LimiterRestart
      BY <1>4 DEF LimiterRestart, LimiterTypeOK, Times
<1>5. CASE UNCHANGED limiterVars
      BY <1>5 DEF limiterVars, LimiterTypeOK
<1> QED BY <1>2, <1>3, <1>4, <1>5 DEF LimiterNext

\* A key the pruning forgets had nothing left in the window.
LEMMA AllStale ==
    ASSUME NEW h \in Times, NEW a \in Times, Ordered(a), EndOf(h, a), clock \in Nat,
           h = <<>> \/ Stale(h[Len(h)])
    PROVE  EndOf(<<>>, a)
<1>1. ASSUME NEW i \in 1..Len(a)
      PROVE  Stale(a[i])
  <2>1. CASE i <= Len(a) - Len(h)
        BY <2>1 DEF EndOf, Times
  <2>2. CASE i > Len(a) - Len(h)
    <3>1. Len(h) \in Nat \ {0} /\ Len(a) \in Nat
          BY <2>2 DEF Times
    <3>2. h[Len(h)] = a[Len(a)]
          BY <3>1 DEF EndOf
    <3>3. a[i] <= a[Len(a)]
          BY <3>1 DEF Ordered, Times
    <3>4. a[i] \in Nat /\ a[Len(a)] \in Nat
          BY <3>1 DEF Times
    <3> QED BY <3>1, <3>2, <3>3, <3>4, LimiterAssumption DEF Stale
  <2> QED BY <2>1, <2>2 DEF Times
<1> QED BY <1>1 DEF EndOf, Times

\* Dropping the stale times at its front leaves the end of the history.
LEMMA DropStale ==
    ASSUME NEW h \in Times, NEW a \in Times, EndOf(h, a), NEW n \in 0..Len(h), LeaveFresh(h, n)
    PROVE  EndOf(SubSeq(h, n + 1, Len(h)), a)
<1> DEFINE s == SubSeq(h, n + 1, Len(h))
<1>1. Len(s) = Len(h) - n /\ \A i \in 1..Len(s) : s[i] = h[n + i]
      BY DEF Times
<1>2. Len(h) \in Nat /\ Len(a) \in Nat /\ Len(h) <= Len(a)
      BY DEF EndOf, Times
<1> HIDE DEF s
<1>3. ASSUME NEW i \in 1..(Len(a) - Len(s))
      PROVE  Stale(a[i])
  <2>1. CASE i <= Len(a) - Len(h)
        BY <2>1, <1>2 DEF EndOf
  <2>2. CASE i > Len(a) - Len(h)
    <3> DEFINE j == i - (Len(a) - Len(h))
    <3>1. j \in 1..n
          BY <1>1, <1>2, <2>2
    <3>2. h[j] = a[i]
          BY <1>2, <3>1 DEF EndOf
    <3>3. Stale(h[j])
          BY <3>1 DEF LeaveFresh
    <3> QED BY <3>2, <3>3
  <2> QED BY <2>1, <2>2, <1>1, <1>2
<1>4. ASSUME NEW i \in 1..Len(s)
      PROVE  s[i] = a[Len(a) - Len(s) + i]
      BY <1>1, <1>2 DEF EndOf
<1>5. Len(s) <= Len(a)
      BY <1>1, <1>2
<1>6. EndOf(s, a)
      BY <1>3, <1>4, <1>5, Zenon DEF EndOf
<1> QED BY <1>6 DEF s

\* A request accepted now goes to the end of both.
LEMMA AppendNow ==
    ASSUME NEW h \in Times, NEW a \in Times, EndOf(h, a), Ordered(a), clock \in Nat
    PROVE  EndOf(Append(h, clock), Append(a, clock)) /\ Ordered(Append(a, clock))
<1>1. Len(h) \in Nat /\ Len(a) \in Nat /\ Len(h) <= Len(a)
      BY DEF EndOf, Times
<1>2. \A i \in 1..(Len(a) - Len(h)) : Append(a, clock)[i] = a[i]
      BY <1>1 DEF Times
<1>3. EndOf(Append(h, clock), Append(a, clock))
  <2>1. ASSUME NEW i \in 1..(Len(h) + 1)
        PROVE  Append(h, clock)[i] = Append(a, clock)[Len(a) - Len(h) + i]
    <3>1. CASE i = Len(h) + 1
          BY <3>1, <1>1 DEF Times
    <3>2. CASE i <= Len(h)
          BY <3>2, <1>1 DEF Times, EndOf
    <3> QED BY <3>1, <3>2, <1>1
  <2>2. Len(Append(h, clock)) = Len(h) + 1 /\ Len(Append(a, clock)) = Len(a) + 1
        BY DEF Times
  <2>3. \A i \in 1..(Len(a) - Len(h)) : Stale(Append(a, clock)[i])
        BY <1>2 DEF EndOf
  <2>4. /\ Len(Append(h, clock)) <= Len(Append(a, clock))
        /\ Len(Append(a, clock)) - Len(Append(h, clock)) = Len(a) - Len(h)
        BY <1>1, <2>2
  <2> QED BY <2>1, <2>2, <2>3, <2>4, Zenon DEF EndOf
<1>4. Ordered(Append(a, clock))
      BY <1>1 DEF Ordered, Times
<1> QED BY <1>3, <1>4

LEMMA RememberedInit == LimiterInit => Remembered
  BY LimiterAssumption DEF LimiterInit, Remembered, Ordered, EndOf, Tracked, Keys

\* Every step keeps the memory of a key at the end of its history.
LEMMA RememberedStep == LimiterInv /\ [LimiterNext]_limiterVars => Remembered'
<1> SUFFICES ASSUME LimiterInv, [LimiterNext]_limiterVars
             PROVE  Remembered'
    OBVIOUS
<1> USE DEF LimiterInv
<1>t. clock \in Nat /\ \A k \in Keys : accepted[k] \in Times /\ Tracked(k) \in Times
      BY TrackedType DEF LimiterTypeOK
<1>1. ASSUME NEW k \in Keys, CheckLimit(k)
      PROVE  Remembered'
  <2>1. PICK n \in 0..Len(Tracked(k)) :
          LET kept == SubSeq(Tracked(k), n + 1, Len(Tracked(k)))
              ok   == Len(kept) < MaxRequests
          IN  /\ LeaveFresh(Tracked(k), n)
              /\ hits' = IF ok THEN Prune(With(k, Append(kept, clock))) ELSE With(k, kept)
              /\ accepted' = IF ok THEN [accepted EXCEPT ![k] = Append(@, clock)] ELSE accepted
              /\ UNCHANGED clock
        BY <1>1 DEF CheckLimit
  <2> DEFINE kept == SubSeq(Tracked(k), n + 1, Len(Tracked(k)))
             a    == accepted[k]
  <2>2. kept \in Times /\ a \in Times
        BY <1>t DEF Times
  <2>3. EndOf(kept, a) /\ Ordered(a)
        BY <1>t, <2>1, DropStale DEF Remembered
  <2> HIDE DEF kept
  <2>4. CASE Len(kept) < MaxRequests
    <3> DEFINE new   == Append(kept, clock)
               table == With(k, new)
    <3>1. new \in Times /\ Append(a, clock) \in Times
          BY <1>t, <2>2 DEF Times
    <3>2. EndOf(new, Append(a, clock)) /\ Ordered(Append(a, clock))
          BY <1>t, <2>2, <2>3, AppendNow
    <3>3. /\ DOMAIN table = DOMAIN hits \cup {k} /\ table[k] = new
          /\ \A x \in DOMAIN hits \ {k} : table[x] = hits[x]
          BY <3>1, WithType
    <3> HIDE DEF new, table
    <3>4. /\ hits' = Prune(table) /\ clock' = clock
          /\ accepted'[k] = Append(a, clock)
          /\ \A x \in Keys \ {k} : accepted'[x] = accepted[x]
          BY <2>1, <2>4 DEF table, new, kept, LimiterTypeOK
    <3>5. ASSUME NEW x \in Keys
          PROVE  Ordered(accepted[x])' /\ EndOf(Tracked(x), accepted[x])'
      <4> DEFINE h == IF x = k THEN new ELSE Tracked(x)
                 b == accepted'[x]
      <4>1. h \in Times /\ b \in Times /\ EndOf(h, b) /\ Ordered(b)
            BY <1>t, <3>1, <3>2, <3>4 DEF Remembered
      <4>2. Tracked(x)' = h \/ (Tracked(x)' = <<>> /\ (h = <<>> \/ Stale(h[Len(h)])))
        <5>1. x \in DOMAIN table => table[x] = h
              BY <3>3 DEF Tracked
        <5>2. x \notin DOMAIN table => h = <<>>
              BY <3>3 DEF Tracked
        <5>3. Tracked(x)' = IF x \in DOMAIN hits' THEN hits'[x] ELSE <<>>
              BY DEF Tracked
        <5> HIDE DEF h
        <5> QED BY <3>4, <5>1, <5>2, <5>3, PruneKeeps
      <4> HIDE DEF h, b
      <4>3. EndOf(Tracked(x)', b)
        <5>1. CASE Tracked(x)' = h
              BY <4>1, <5>1
        <5>2. CASE Tracked(x)' = <<>> /\ (h = <<>> \/ Stale(h[Len(h)]))
              BY <1>t, <4>1, <5>2, AllStale
        <5> QED BY <4>2, <5>1, <5>2
      <4> QED BY <3>4, <4>1, <4>3 DEF b, EndOf, Ordered, Stale
    <3> QED BY <3>5 DEF Remembered
  <2>5. CASE ~(Len(kept) < MaxRequests)
    <3>1. /\ hits' = With(k, kept) /\ clock' = clock /\ accepted' = accepted
          BY <2>1, <2>5 DEF kept
    <3>2. \A x \in Keys : Tracked(x)' = IF x = k THEN kept ELSE Tracked(x)
      <4> DEFINE table == With(k, kept)
      <4>1. /\ DOMAIN table = DOMAIN hits \cup {k} /\ table[k] = kept
            /\ \A x \in DOMAIN hits \ {k} : table[x] = hits[x]
            BY <2>2, WithType
      <4>2. hits' = table
            BY <3>1
      <4> HIDE DEF table
      <4> QED BY <4>1, <4>2 DEF Tracked
    <3>3. ASSUME NEW x \in Keys
          PROVE  Ordered(accepted[x])' /\ EndOf(Tracked(x), accepted[x])'
      <4>1. Ordered(accepted[x]) /\ EndOf(Tracked(x)', accepted[x])
            BY <2>3, <3>2 DEF Remembered
      <4> QED BY <3>1, <4>1 DEF EndOf, Ordered, Stale
    <3> QED BY <3>3 DEF Remembered
  <2> QED BY <2>4, <2>5
<1>2. CASE RateLimitedRequest
      BY <1>1, <1>2, ClientKeyIsKey DEF RateLimitedRequest
<1>3. CASE TimePasses
  <2> SUFFICES ASSUME NEW k \in Keys
               PROVE  Ordered(accepted[k])' /\ EndOf(Tracked(k), accepted[k])'
      BY DEF Remembered
  <2>1. clock' = clock + 1 /\ accepted' = accepted /\ Tracked(k)' = Tracked(k)
        BY <1>3 DEF TimePasses, Tracked
  <2>2. Ordered(accepted[k]) /\ EndOf(Tracked(k), accepted[k])
        BY DEF Remembered
  <2>3. Ordered(accepted[k])'
        BY <1>t, <2>1, <2>2 DEF Ordered, Times
  <2>4. EndOf(Tracked(k), accepted[k])'
        BY <1>t, <2>1, <2>2, LimiterAssumption DEF EndOf, Times, Stale
  <2> QED BY <2>3, <2>4
<1>4. CASE LimiterRestart
      BY <1>4, <1>t DEF LimiterRestart, Remembered, Ordered, EndOf, Tracked, Keys
<1>5. CASE UNCHANGED limiterVars
      BY <1>5 DEF limiterVars, Remembered, Ordered, EndOf, Tracked, Stale
<1> QED BY <1>2, <1>3, <1>4, <1>5 DEF LimiterNext

\* The type invariant, for any window, limit and clients.
THEOREM LimiterTypeCorrect == LimiterSpec => []LimiterTypeOK
<1>1. LimiterTypeOK /\ [LimiterNext]_limiterVars => LimiterTypeOK'
      BY TypeStep
<1> QED BY <1>1, TypeInit, PTL DEF LimiterSpec

\* What the limiter remembers is the end of the history, always.
LEMMA LimiterInvariant == LimiterSpec => []LimiterInv
<1>1. LimiterInit => LimiterInv
      BY TypeInit, RememberedInit DEF LimiterInv
<1>2. LimiterInv /\ [LimiterNext]_limiterVars => LimiterInv'
      BY TypeStep, RememberedStep DEF LimiterInv
<1> QED BY <1>1, <1>2, PTL DEF LimiterSpec

\* The request being accepted is a window after the one it displaces: all that
\* is older than what was kept is stale.
LEMMA WindowStep == LimiterInv /\ WindowHolds /\ [LimiterNext]_limiterVars => WindowHolds'
<1> SUFFICES ASSUME LimiterInv, WindowHolds, [LimiterNext]_limiterVars
             PROVE  WindowHolds'
    OBVIOUS
<1> USE DEF LimiterInv
<1>t. clock \in Nat /\ \A k \in Keys : accepted[k] \in Times /\ Tracked(k) \in Times
      BY TrackedType DEF LimiterTypeOK
<1>1. ASSUME NEW k \in Keys, CheckLimit(k)
      PROVE  WindowHolds'
  <2>1. PICK n \in 0..Len(Tracked(k)) :
          LET kept == SubSeq(Tracked(k), n + 1, Len(Tracked(k)))
              ok   == Len(kept) < MaxRequests
          IN  /\ LeaveFresh(Tracked(k), n)
              /\ accepted' = IF ok THEN [accepted EXCEPT ![k] = Append(@, clock)] ELSE accepted
        BY <1>1 DEF CheckLimit
  <2> DEFINE kept == SubSeq(Tracked(k), n + 1, Len(Tracked(k)))
             a    == accepted[k]
  <2>2. EndOf(kept, a) /\ a \in Times /\ Len(kept) \in Nat
        BY <1>t, <2>1, DropStale DEF Remembered, Times
  <2> HIDE DEF kept
  <2>3. CASE Len(kept) < MaxRequests
    <3>1. accepted' = [accepted EXCEPT ![k] = Append(a, clock)]
          BY <2>1, <2>3 DEF kept
    <3>2. ASSUME NEW j \in 1..(Len(a) + 1), j > MaxRequests
          PROVE  Append(a, clock)[j] - Append(a, clock)[j - MaxRequests] >= WindowTicks
      <4>1. MaxRequests \in Nat \ {0} /\ WindowTicks \in Nat \ {0} /\ Len(a) \in Nat
            BY <2>2, LimiterAssumption DEF Times
      <4>2. j - MaxRequests \in 1..Len(a)
            BY <3>2, <4>1
      <4>3. Append(a, clock)[j - MaxRequests] = a[j - MaxRequests]
            BY <2>2, <4>2 DEF Times
      <4>4. CASE j = Len(a) + 1
        <5>1. j - MaxRequests \in 1..(Len(a) - Len(kept))
              BY <2>2, <2>3, <4>1, <4>2, <4>4
        <5>2. Stale(a[j - MaxRequests])
              BY <2>2, <5>1 DEF EndOf
        <5>3. Append(a, clock)[j] = clock
              BY <2>2, <4>4 DEF Times
        <5>4. a[j - MaxRequests] \in Nat
              BY <2>2, <4>2 DEF Times
        <5> QED BY <1>t, <4>1, <4>3, <5>2, <5>3, <5>4 DEF Stale
      <4>5. CASE j <= Len(a)
        <5>1. Append(a, clock)[j] = a[j] /\ j \in DOMAIN a
              BY <2>2, <4>1, <4>5 DEF Times
        <5>2. accepted[k][j] - accepted[k][j - MaxRequests] >= WindowTicks
              BY <3>2, <5>1 DEF WindowHolds
        <5> QED BY <4>3, <5>1, <5>2
      <4>6. j = Len(a) + 1 \/ j <= Len(a)
        <5> HIDE DEF a
        <5> QED BY <4>1
      <4> QED BY <4>4, <4>5, <4>6
    <3>3. DOMAIN Append(a, clock) = 1..(Len(a) + 1)
          BY <2>2, <1>t DEF Times
    <3>4. accepted'[k] = Append(a, clock) /\ \A x \in Keys \ {k} : accepted'[x] = accepted[x]
          BY <3>1 DEF LimiterTypeOK
    <3> HIDE DEF a
    <3> QED BY <3>2, <3>3, <3>4 DEF WindowHolds
  <2>4. CASE ~(Len(kept) < MaxRequests)
        BY <2>1, <2>4 DEF WindowHolds, kept
  <2> QED BY <2>3, <2>4
<1>2. CASE RateLimitedRequest
      BY <1>1, <1>2, ClientKeyIsKey DEF RateLimitedRequest
<1>3. CASE TimePasses
      BY <1>3 DEF TimePasses, WindowHolds
<1>4. CASE LimiterRestart
      BY <1>4 DEF LimiterRestart, WindowHolds
<1>5. CASE UNCHANGED limiterVars
      BY <1>5 DEF limiterVars, WindowHolds
<1> QED BY <1>2, <1>3, <1>4, <1>5 DEF LimiterNext

\* No window of any length, placed anywhere, has more than the limit.
THEOREM LimiterWindowHolds == LimiterSpec => []WindowHolds
<1>1. LimiterInit => WindowHolds
      BY DEF LimiterInit, WindowHolds
<1>2. LimiterInv /\ WindowHolds /\ [LimiterNext]_limiterVars => WindowHolds'
      BY WindowStep
<1> QED BY <1>1, <1>2, LimiterInvariant, PTL DEF LimiterSpec

\* A deque whose first time is fresh is fresh throughout, and each of its
\* times is one of the accepted requests.
LEMMA FreshOnes ==
    ASSUME NEW h \in Times, NEW a \in Times, EndOf(h, a), Ordered(a), clock \in Nat,
           Len(h) > 0 => ~ Stale(h[1])
    PROVE  Cardinality({i \in DOMAIN a : a[i] > clock - WindowTicks}) >= Len(h)
<1> DEFINE S == {i \in DOMAIN a : a[i] > clock - WindowTicks}
           I == (Len(a) - Len(h) + 1)..Len(a)
<1>1. Len(h) \in Nat /\ Len(a) \in Nat /\ Len(h) <= Len(a) /\ DOMAIN a = 1..Len(a)
      BY DEF EndOf, Times
<1>2. I \subseteq S
  <2> SUFFICES ASSUME NEW i \in I PROVE i \in S
      OBVIOUS
  <2>1. i \in DOMAIN a /\ Len(h) > 0 /\ (Len(a) - Len(h) + 1) \in DOMAIN a
        BY <1>1
  <2>2. h[1] = a[Len(a) - Len(h) + 1]
        BY <1>1, <2>1 DEF EndOf
  <2>3. a[Len(a) - Len(h) + 1] <= a[i]
        BY <1>1, <2>1 DEF Ordered
  <2>4. a[i] \in Nat /\ a[Len(a) - Len(h) + 1] \in Nat
        BY <2>1 DEF Times
  <2> QED BY <2>1, <2>2, <2>3, <2>4, LimiterAssumption DEF Stale
<1>3. IsFiniteSet(S)
  <2>1. IsFiniteSet(1..Len(a))
        BY <1>1, FS_Interval
  <2>2. S \subseteq 1..Len(a)
        BY <1>1
  <2> QED BY <2>1, <2>2, FS_Subset
<1>4. Cardinality(I) = Len(h)
  <2> DEFINE lo == Len(a) - Len(h) + 1
             hi == Len(a)
  <2>1. lo \in Int /\ hi \in Int
        BY <1>1
  <2> HIDE DEF lo, hi
  <2>2. Cardinality(lo..hi) = IF lo > hi THEN 0 ELSE hi - lo + 1
        BY <2>1, FS_Interval
  <2>3. CASE Len(h) = 0
        BY <1>1, <2>2, <2>3 DEF lo, hi
  <2>4. CASE Len(h) > 0
        BY <1>1, <2>2, <2>4 DEF lo, hi
  <2> QED BY <1>1, <2>3, <2>4
<1>5. Cardinality(I) <= Cardinality(S)
      BY <1>2, <1>3, FS_Subset
<1>6. Cardinality(S) \in Nat
      BY <1>3, FS_CardinalityType
<1> QED BY <1>1, <1>4, <1>5, <1>6

\* Whoever is refused has used the window up.
THEOREM LimiterRefusesOnlyWhenFull == LimiterSpec => []RefusedOnlyWhenFull
<1>1. LimiterInit => RefusedOnlyWhenFull
      BY DEF LimiterInit, RefusedOnlyWhenFull
<1>2. LimiterInv /\ RefusedOnlyWhenFull /\ [LimiterNext]_limiterVars => RefusedOnlyWhenFull'
  <2> SUFFICES ASSUME LimiterInv, RefusedOnlyWhenFull, [LimiterNext]_limiterVars
               PROVE  RefusedOnlyWhenFull'
      OBVIOUS
  <2>1. ASSUME NEW k \in Keys, CheckLimit(k)
        PROVE  RefusedOnlyWhenFull'
    <3>1. PICK n \in 0..Len(Tracked(k)) :
            LET kept == SubSeq(Tracked(k), n + 1, Len(Tracked(k)))
                ok   == Len(kept) < MaxRequests
            IN  /\ LeaveFresh(Tracked(k), n)
                /\ accepted' = IF ok THEN [accepted EXCEPT ![k] = Append(@, clock)] ELSE accepted
                /\ verdict' = [key |-> k, ok |-> ok, at |-> clock]
          BY <2>1 DEF CheckLimit
    <3> DEFINE h    == Tracked(k)
               kept == SubSeq(h, n + 1, Len(h))
    <3>2. h \in Times /\ accepted[k] \in Times /\ clock \in Nat
          BY TrackedType DEF LimiterInv, LimiterTypeOK
    <3>3. kept \in Times /\ EndOf(kept, accepted[k]) /\ Ordered(accepted[k])
          BY <3>1, <3>2, DropStale DEF LimiterInv, Remembered, Times
    <3>4. Len(kept) > 0 => ~ Stale(kept[1])
          BY <3>1, <3>2 DEF LeaveFresh, Times
    <3> HIDE DEF kept
    <3>5. Cardinality({i \in DOMAIN accepted[k] : accepted[k][i] > clock - WindowTicks}) >= Len(kept)
          BY <3>2, <3>3, <3>4, FreshOnes
    <3>6. CASE Len(kept) < MaxRequests
          BY <3>1, <3>6 DEF RefusedOnlyWhenFull, kept
    <3>7. CASE ~(Len(kept) < MaxRequests)
      <4>1. verdict'.key = k /\ verdict'.at = clock /\ accepted' = accepted
            BY <3>1, <3>7 DEF kept
      <4>2. Len(kept) \in Nat /\ MaxRequests \in Nat
            BY <3>3, LimiterAssumption DEF Times
      <4> DEFINE c == Cardinality({i \in DOMAIN accepted[k] : accepted[k][i] > clock - WindowTicks})
      <4>3. c \in Nat
        <5>1. IsFiniteSet(1..Len(accepted[k]))
              BY <3>2, FS_Interval DEF Times
        <5>2. {i \in DOMAIN accepted[k] : accepted[k][i] > clock - WindowTicks}
                 \subseteq 1..Len(accepted[k])
              BY <3>2 DEF Times
        <5> QED BY <5>1, <5>2, FS_Subset, FS_CardinalityType
      <4>4. AcceptedSince(verdict.key, verdict.at - WindowTicks)'
              = {i \in DOMAIN accepted[k] : accepted[k][i] > clock - WindowTicks}
            BY <4>1 DEF AcceptedSince
      <4>5. c >= MaxRequests
        <5> HIDE DEF c
        <5> QED BY <3>5, <3>7, <4>2, <4>3 DEF c
      <4> QED BY <4>4, <4>5 DEF RefusedOnlyWhenFull
    <3> QED BY <3>6, <3>7
  <2>2. CASE RateLimitedRequest
        BY <2>1, <2>2, ClientKeyIsKey DEF RateLimitedRequest
  <2>3. CASE TimePasses
        BY <2>3 DEF TimePasses, RefusedOnlyWhenFull, AcceptedSince
  <2>4. CASE LimiterRestart
        BY <2>4 DEF LimiterRestart, RefusedOnlyWhenFull
  <2>5. CASE UNCHANGED limiterVars
        BY <2>5 DEF limiterVars, RefusedOnlyWhenFull, AcceptedSince
  <2> QED BY <2>2, <2>3, <2>4, <2>5 DEF LimiterNext
<1> QED BY <1>1, <1>2, LimiterInvariant, PTL DEF LimiterSpec

\* Past the limit on keys, only clients heard of within the window are left.
THEOREM LimiterForgetsTheIdle == LimiterSpec => []OnlyFreshPastTheLimit
<1>1. LimiterInit => OnlyFreshPastTheLimit
  <2> SUFFICES ASSUME LimiterInit PROVE OnlyFreshPastTheLimit
      OBVIOUS
  <2>1. DOMAIN hits = {}
        BY DEF LimiterInit
  <2> QED BY <2>1 DEF OnlyFreshPastTheLimit
<1>2. LimiterInv /\ OnlyFreshPastTheLimit /\ [LimiterNext]_limiterVars => OnlyFreshPastTheLimit'
  <2> SUFFICES ASSUME LimiterInv, OnlyFreshPastTheLimit, [LimiterNext]_limiterVars
               PROVE  OnlyFreshPastTheLimit'
      OBVIOUS
  <2>1. ASSUME NEW k \in Keys, CheckLimit(k)
        PROVE  OnlyFreshPastTheLimit'
    <3>1. PICK n \in 0..Len(Tracked(k)) :
            LET kept == SubSeq(Tracked(k), n + 1, Len(Tracked(k)))
                ok   == Len(kept) < MaxRequests
            IN  /\ LeaveFresh(Tracked(k), n)
                /\ hits' = IF ok THEN Prune(With(k, Append(kept, clock))) ELSE With(k, kept)
                /\ accepted' = IF ok THEN [accepted EXCEPT ![k] = Append(@, clock)] ELSE accepted
                /\ verdict' = [key |-> k, ok |-> ok, at |-> clock]
          BY <2>1 DEF CheckLimit
    <3> DEFINE kept  == SubSeq(Tracked(k), n + 1, Len(Tracked(k)))
               new   == Append(kept, clock)
               a     == Append(accepted[k], clock)
               table == With(k, new)
    <3>2. /\ kept \in Times /\ EndOf(kept, accepted[k]) /\ Ordered(accepted[k])
          /\ accepted[k] \in Times /\ clock \in Nat
          BY <3>1, DropStale, TrackedType DEF LimiterInv, Remembered, LimiterTypeOK, Times
    <3>3. CASE Len(kept) < MaxRequests
      <4> HIDE DEF kept
      <4>1. new \in Times /\ a \in Times /\ EndOf(new, a)
        <5>1. EndOf(new, a)
              BY <3>2, AppendNow
        <5> QED BY <3>2, <5>1 DEF Times
      <4>2. /\ DOMAIN table = DOMAIN hits \cup {k} /\ table[k] = new
            /\ \A x \in DOMAIN hits \ {k} : table[x] = hits[x]
        <5> HIDE DEF new
        <5> QED BY <4>1, WithType DEF LimiterInv
      <4>3. /\ hits' = Prune(table) /\ verdict'.at = clock
            /\ accepted' = [accepted EXCEPT ![k] = a]
            BY <3>1, <3>3 DEF kept
      <4> HIDE DEF new, a, table
      <4>4. ASSUME Cardinality(DOMAIN hits') > MaxTrackedKeys, NEW x \in DOMAIN hits'
            PROVE  AcceptedSince(x, verdict.at - WindowTicks)' # {}
        <5> DEFINE h == table[x]
        <5>1. x \in DOMAIN table /\ h # <<>> /\ ~ Stale(h[Len(h)])
          <6>1. CASE Cardinality(DOMAIN table) > MaxTrackedKeys
                BY <4>3, <4>4, <6>1 DEF Prune
          <6>2. CASE ~(Cardinality(DOMAIN table) > MaxTrackedKeys)
                BY <4>3, <4>4, <6>2 DEF Prune
          <6> QED BY <6>1, <6>2
        <5>2. x \in Keys /\ h \in Times /\ accepted'[x] \in Times /\ EndOf(h, accepted'[x])
          <6>1. CASE x = k
                BY <4>1, <4>2, <4>3, <6>1 DEF LimiterInv, LimiterTypeOK
          <6>2. CASE x # k
            <7>1. x \in DOMAIN hits /\ h = hits[x] /\ Tracked(x) = hits[x]
                  BY <4>2, <5>1, <6>2 DEF Tracked
            <7>2. x \in Keys /\ accepted'[x] = accepted[x]
                  BY <4>3, <6>2, <7>1 DEF LimiterInv, LimiterTypeOK
            <7> HIDE DEF h
            <7> QED BY <7>1, <7>2 DEF LimiterInv, LimiterTypeOK, Remembered
          <6> QED BY <6>1, <6>2
        <5> HIDE DEF h
        <5>3. h[Len(h)] = accepted'[x][Len(accepted'[x])] /\ Len(accepted'[x]) \in DOMAIN accepted'[x]
          <6>1. Len(h) \in Nat \ {0} /\ Len(accepted'[x]) \in Nat
                BY <5>1, <5>2 DEF Times
          <6> QED BY <5>2, <6>1 DEF EndOf, Times
        <5>4. accepted'[x][Len(accepted'[x])] \in Nat
              BY <5>2, <5>3 DEF Times
        <5>5. accepted'[x][Len(accepted'[x])] > clock - WindowTicks
              BY <3>2, <5>1, <5>3, <5>4, LimiterAssumption DEF Stale
        <5> QED BY <4>3, <5>3, <5>5 DEF AcceptedSince
      <4> QED BY <4>4 DEF OnlyFreshPastTheLimit
    <3>4. CASE ~(Len(kept) < MaxRequests)
          BY <3>1, <3>4 DEF OnlyFreshPastTheLimit
    <3> QED BY <3>3, <3>4
  <2>2. CASE RateLimitedRequest
        BY <2>1, <2>2, ClientKeyIsKey DEF RateLimitedRequest
  <2>3. CASE TimePasses
        BY <2>3 DEF TimePasses, OnlyFreshPastTheLimit, AcceptedSince
  <2>4. CASE LimiterRestart
    <3>1. DOMAIN hits' = {}
          BY <2>4 DEF LimiterRestart
    <3> QED BY <3>1 DEF OnlyFreshPastTheLimit
  <2>5. CASE UNCHANGED limiterVars
        BY <2>5 DEF limiterVars, OnlyFreshPastTheLimit, AcceptedSince
  <2> QED BY <2>2, <2>3, <2>4, <2>5 DEF LimiterNext
<1> QED BY <1>1, <1>2, LimiterInvariant, PTL DEF LimiterSpec

-----------------------------------------------------------------------------
(* Startup, for any number of jobs, servers and migrations, and any number *)
(* of cuts and outages.                                                    *)

\* What a job has done or skipped is in the table, all of it.
JobsBehind ==
    \A j \in Jobs :
        /\ job[j].pc = "loop" => /\ job[j].done \subseteq applied
                                 /\ 1..(job[j].next - 1) \subseteq applied
                                 /\ job[j].next <= job[j].files + 1
        /\ job[j].pc = "read" => job[j].next = 1

StartupInv ==
    /\ StartupTypeOK /\ JobsBehind
    /\ OnceAndInOrder /\ CompleteMeansMigrated /\ PromotionHolds

LEMMA SettingJob ==
    ASSUME StartupTypeOK, NEW j \in Jobs, NEW r, SetJob(j, r)
    PROVE  /\ job'[j] = r
           /\ \A i \in Jobs \ {j} : job'[i] = job[i]
           /\ r \in JobType => job' \in [Jobs -> JobType]
  BY DEF SetJob, StartupTypeOK

LEMMA SettingServer ==
    ASSUME StartupTypeOK, NEW s \in Servers, NEW r, SetServer(s, r)
    PROVE  /\ server'[s] = r
           /\ \A i \in Servers \ {s} : server'[i] = server[i]
           /\ r \in ServerType => server' \in [Servers -> ServerType]
  BY DEF SetServer, StartupTypeOK

LEMMA StartupInitInv == StartupInit => StartupInv
<1> SUFFICES ASSUME StartupInit PROVE StartupInv
    OBVIOUS
<1>1. StartupTypeOK
  <2>1. JobOff \in JobType
        BY StartupAssumption DEF JobOff, JobType
  <2>2. Off \in ServerType
        BY DEF Off, ServerType
  <2>3. ran \in [Migrations -> Nat]
        BY DEF StartupInit
  <2>4. cuts \in 0..MaxCuts /\ outages \in 0..MaxOutages
        BY StartupAssumption DEF StartupInit
  <2>5. job \in [Jobs -> JobType] /\ server \in [Servers -> ServerType]
        BY <2>1, <2>2 DEF StartupInit
  <2> QED BY <2>3, <2>4, <2>5 DEF StartupInit, StartupTypeOK, ListedAccounts
<1>2. JobsBehind /\ CompleteMeansMigrated
      BY DEF StartupInit, JobsBehind, CompleteMeansMigrated, JobOff
<1>3. OnceAndInOrder
  <2>1. applied = 1..0 /\ 0 \in 0..LastMigration
        BY StartupAssumption DEF StartupInit
  <2> QED BY <2>1 DEF StartupInit, OnceAndInOrder
<1>4. PromotionHolds
      BY DEF StartupInit, PromotionHolds, Off
<1> QED BY <1>1, <1>2, <1>3, <1>4 DEF StartupInv

\* The next migration of a job is the next one of the table, unless it is there.
LEMMA NextInOrder ==
    ASSUME StartupInv, NEW j \in Jobs, job[j].pc = "loop", ~ Finished(j),
           job[j].next \notin applied
    PROVE  /\ job[j].next \in Migrations
           /\ applied = 1..(job[j].next - 1)
<1>1. job[j] \in JobType
      BY DEF StartupInv, StartupTypeOK
<1>2. job[j].next \in Migrations /\ 1..(job[j].next - 1) \subseteq applied
  <2>1. 1..(job[j].next - 1) \subseteq applied
        BY DEF StartupInv, JobsBehind
  <2>2. job[j].next \in 1..(LastMigration + 1) /\ job[j].files \in 0..LastMigration
        BY <1>1 DEF JobType
  <2> QED BY <2>1, <2>2, StartupAssumption DEF Finished, Migrations
<1>3. PICK n \in 0..LastMigration : applied = 1..n
      BY DEF StartupInv, OnceAndInOrder
<1>4. n = job[j].next - 1
  <2>1. n < job[j].next
        BY <1>2, <1>3, StartupAssumption DEF Migrations
  <2>2. job[j].next - 1 <= n
    <3>1. CASE job[j].next = 1
          BY <1>3, <3>1
    <3>2. CASE job[j].next > 1
      <4>1. job[j].next - 1 \in 1..(job[j].next - 1)
            BY <1>2, <3>2, StartupAssumption DEF Migrations
      <4>2. job[j].next - 1 \in 1..n
            BY <1>2, <1>3, <4>1
      <4> QED BY <4>2
    <3> QED BY <1>2, <3>1, <3>2, StartupAssumption DEF Migrations
  <2> QED BY <1>2, <1>3, <2>1, <2>2, StartupAssumption DEF Migrations
<1> QED BY <1>2, <1>3, <1>4

LEMMA StartupStep == StartupInv /\ [StartupNext]_startupVars => StartupInv'
<1> SUFFICES ASSUME StartupInv, [StartupNext]_startupVars
             PROVE  StartupInv'
    OBVIOUS
<1> USE StartupAssumption
<1>t. StartupTypeOK
      BY DEF StartupInv
<1>1. ASSUME NEW j \in Jobs, NEW n \in Migrations, StartJob(j, n)
      PROVE  StartupInv'
  <2> DEFINE r == [pc |-> "read", files |-> n, done |-> {}, next |-> 1]
  <2>1. r \in JobType /\ SetJob(j, r)
        BY <1>1 DEF StartJob, JobType, Migrations
  <2>2. job'[j] = r /\ (\A i \in Jobs \ {j} : job'[i] = job[i]) /\ job' \in [Jobs -> JobType]
        BY <1>t, <2>1, SettingJob
  <2>3. /\ StartupTypeOK' /\ OnceAndInOrder' /\ PromotionHolds'
        BY <1>1, <2>2 DEF StartJob, JobFrame, StartupInv, StartupTypeOK, OnceAndInOrder, PromotionHolds
  <2>4. JobsBehind' /\ CompleteMeansMigrated'
        BY <1>1, <2>2 DEF StartJob, StartupInv, JobsBehind, CompleteMeansMigrated
  <2> QED BY <2>3, <2>4 DEF StartupInv
<1>2. ASSUME NEW j \in Jobs, ReadApplied(j)
      PROVE  StartupInv'
  <2> DEFINE r == [job[j] EXCEPT !.pc = "loop", !.done = applied]
  <2>1. r \in JobType /\ SetJob(j, r) /\ r.pc = "loop" /\ r.done = applied /\ r.next = 1
        /\ r.files = job[j].files /\ r.files \in Nat
    <3>1. job[j] \in JobType /\ applied \in SUBSET Migrations
          BY <1>t DEF StartupTypeOK
    <3>2. r \in JobType /\ r.pc = "loop" /\ r.done = applied /\ r.files = job[j].files
          /\ r.next = job[j].next
          BY <3>1 DEF JobType
    <3>3. job[j].next = 1
          BY <1>2 DEF ReadApplied, StartupInv, JobsBehind
    <3>4. r.files \in 0..LastMigration
          BY <3>2 DEF JobType
    <3>5. SetJob(j, r)
          BY <1>2 DEF ReadApplied
    <3> QED BY <3>2, <3>3, <3>4, <3>5
  <2> HIDE DEF r
  <2>2. job'[j] = r /\ (\A i \in Jobs \ {j} : job'[i] = job[i]) /\ job' \in [Jobs -> JobType]
        BY <1>t, <2>1, SettingJob
  <2>3. /\ StartupTypeOK' /\ OnceAndInOrder' /\ PromotionHolds'
        BY <1>2, <2>2 DEF ReadApplied, JobFrame, StartupInv, StartupTypeOK, OnceAndInOrder, PromotionHolds
  <2>4. JobsBehind' /\ CompleteMeansMigrated'
        BY <1>2, <2>1, <2>2 DEF ReadApplied, StartupInv, JobsBehind, CompleteMeansMigrated
  <2> QED BY <2>3, <2>4 DEF StartupInv
<1>3. ASSUME NEW j \in Jobs, ApplyNext(j)
      PROVE  StartupInv'
  <2> DEFINE v == job[j].next
  <2>1. job[j] \in JobType /\ job[j].pc = "loop" /\ ~ Finished(j) /\ v \in 1..LastMigration
        /\ job[j].files \in 0..LastMigration
    <3>1. job[j] \in JobType /\ job[j].pc = "loop" /\ ~ Finished(j)
          BY <1>3 DEF ApplyNext, StartupInv, StartupTypeOK
    <3>2. v \in 1..(LastMigration + 1) /\ job[j].files \in 0..LastMigration
          BY <3>1 DEF JobType
    <3> QED BY <3>1, <3>2 DEF Finished
  <2>2. JobFrame
        BY <1>3 DEF ApplyNext
  <2>3. CASE /\ v \in job[j].done
             /\ SetJob(j, [job[j] EXCEPT !.next = v + 1]) /\ UNCHANGED <<applied, ran>>
    <3> DEFINE r == [job[j] EXCEPT !.next = v + 1]
    <3>1. r \in JobType /\ r.pc = "loop" /\ r.done = job[j].done /\ r.next = v + 1
          /\ r.files = job[j].files
          BY <2>1 DEF JobType
    <3>2. SetJob(j, r)
          BY <2>3
    <3> HIDE DEF r
    <3>3. job'[j] = r /\ (\A i \in Jobs \ {j} : job'[i] = job[i]) /\ job' \in [Jobs -> JobType]
          BY <1>t, <3>1, <3>2, SettingJob
    <3>4. /\ StartupTypeOK' /\ OnceAndInOrder' /\ PromotionHolds'
          BY <2>2, <2>3, <3>3 DEF JobFrame, StartupInv, StartupTypeOK, OnceAndInOrder, PromotionHolds
    <3>5. /\ job[j].done \subseteq applied /\ 1..(v - 1) \subseteq applied
          BY <2>1 DEF StartupInv, JobsBehind
    <3>6. 1..(r.next - 1) \subseteq applied /\ r.next <= r.files + 1
          BY <2>1, <2>3, <3>1, <3>5 DEF Finished
    <3>7. JobsBehind' /\ CompleteMeansMigrated'
          BY <2>3, <3>1, <3>3, <3>5, <3>6 DEF StartupInv, JobsBehind, CompleteMeansMigrated
    <3> QED BY <3>4, <3>7 DEF StartupInv
  <2>4. CASE /\ v \in applied
             /\ SetJob(j, [job[j] EXCEPT !.pc = "failed"]) /\ UNCHANGED <<applied, ran>>
    <3> DEFINE r == [job[j] EXCEPT !.pc = "failed"]
    <3>1. r \in JobType /\ r.pc = "failed"
          BY <2>1 DEF JobType
    <3>2. SetJob(j, r)
          BY <2>4
    <3> HIDE DEF r
    <3>3. job'[j] = r /\ (\A i \in Jobs \ {j} : job'[i] = job[i]) /\ job' \in [Jobs -> JobType]
          BY <1>t, <3>1, <3>2, SettingJob
    <3>4. /\ StartupTypeOK' /\ OnceAndInOrder' /\ PromotionHolds'
          BY <2>2, <2>4, <3>3 DEF JobFrame, StartupInv, StartupTypeOK, OnceAndInOrder, PromotionHolds
    <3>5. JobsBehind' /\ CompleteMeansMigrated'
          BY <2>4, <3>1, <3>3 DEF StartupInv, JobsBehind, CompleteMeansMigrated
    <3> QED BY <3>4, <3>5 DEF StartupInv
  <2>5. CASE /\ v \notin applied
             /\ ran' = [ran EXCEPT ![v] = @ + 1]
             /\ applied' = applied \cup {v}
             /\ SetJob(j, [job[j] EXCEPT !.next = v + 1])
    <3> DEFINE r == [job[j] EXCEPT !.next = v + 1]
    <3>1. r \in JobType /\ r.pc = "loop" /\ r.done = job[j].done /\ r.next = v + 1
          /\ r.files = job[j].files
          BY <2>1 DEF JobType
    <3>2. SetJob(j, r)
          BY <2>5
    <3> HIDE DEF r
    <3>3. job'[j] = r /\ (\A i \in Jobs \ {j} : job'[i] = job[i]) /\ job' \in [Jobs -> JobType]
          BY <1>t, <3>1, <3>2, SettingJob
    <3>4. v \in Migrations /\ applied = 1..(v - 1)
          BY <2>1, <2>5, NextInOrder
    <3>5. applied' = 1..v /\ v \in 0..LastMigration
          BY <2>1, <2>5, <3>4
    <3>6. OnceAndInOrder'
      <4>1. \A w \in Migrations : ran'[w] = IF w \in applied' THEN 1 ELSE 0
        <5>1. ran \in [Migrations -> Nat] /\ \A w \in Migrations : ran[w] = IF w \in applied THEN 1 ELSE 0
              BY DEF StartupInv, StartupTypeOK, OnceAndInOrder
        <5> QED BY <2>5, <3>4, <5>1
      <4> QED BY <3>5, <4>1 DEF OnceAndInOrder
    <3>7. StartupTypeOK' /\ PromotionHolds'
          BY <2>2, <2>5, <3>3, <3>4 DEF JobFrame, StartupInv, StartupTypeOK, PromotionHolds
    <3>8. JobsBehind' /\ CompleteMeansMigrated'
      <4>1. applied \subseteq applied' /\ 1..(r.next - 1) \subseteq applied' /\ r.next <= r.files + 1
            BY <2>1, <2>5, <3>1, <3>5 DEF Finished
      <4>2. job[j].done \subseteq applied
            BY <2>1 DEF StartupInv, JobsBehind
      <4> QED BY <3>1, <3>3, <4>1, <4>2 DEF StartupInv, JobsBehind, CompleteMeansMigrated
    <3> QED BY <3>6, <3>7, <3>8 DEF StartupInv
  <2> QED BY <1>3, <2>3, <2>4, <2>5 DEF ApplyNext
<1>4. ASSUME NEW j \in Jobs, EndJob(j)
      PROVE  StartupInv'
  <2> DEFINE r == [job[j] EXCEPT !.pc = "complete"]
  <2>1. /\ r \in JobType /\ SetJob(j, r) /\ r.pc = "complete" /\ r.files = job[j].files
        /\ r.files \in Nat /\ job[j].next \in Nat /\ job[j].pc = "loop" /\ Finished(j)
        BY <1>4 DEF EndJob, JobType, StartupInv, StartupTypeOK
  <2> HIDE DEF r
  <2>2. job'[j] = r /\ (\A i \in Jobs \ {j} : job'[i] = job[i]) /\ job' \in [Jobs -> JobType]
        BY <1>t, <2>1, SettingJob
  <2>3. /\ StartupTypeOK' /\ OnceAndInOrder' /\ PromotionHolds'
        BY <1>4, <2>2 DEF EndJob, JobFrame, StartupInv, StartupTypeOK, OnceAndInOrder, PromotionHolds
  <2>4. 1..r.files \subseteq applied
    <3>1. 1..(job[j].next - 1) \subseteq applied
          BY <2>1 DEF StartupInv, JobsBehind
    <3> QED BY <2>1, <3>1 DEF Finished
  <2>5. JobsBehind' /\ CompleteMeansMigrated'
        BY <1>4, <2>1, <2>2, <2>4 DEF EndJob, StartupInv, JobsBehind, CompleteMeansMigrated
  <2> QED BY <2>3, <2>5 DEF StartupInv
<1>5. ASSUME NEW j \in Jobs, CutJob(j)
      PROVE  StartupInv'
  <2> DEFINE r == [job[j] EXCEPT !.pc = "failed"]
  <2>1. r \in JobType /\ SetJob(j, r) /\ r.pc = "failed"
        BY <1>5 DEF CutJob, JobType, StartupInv, StartupTypeOK
  <2> HIDE DEF r
  <2>2. job'[j] = r /\ (\A i \in Jobs \ {j} : job'[i] = job[i]) /\ job' \in [Jobs -> JobType]
        BY <1>t, <2>1, SettingJob
  <2>3. cuts' \in 0..MaxCuts
        BY <1>5 DEF CutJob, StartupInv, StartupTypeOK
  <2>4. /\ StartupTypeOK' /\ OnceAndInOrder' /\ PromotionHolds'
        BY <1>5, <2>2, <2>3 DEF CutJob, StartupInv, StartupTypeOK, OnceAndInOrder, PromotionHolds
  <2>5. JobsBehind' /\ CompleteMeansMigrated'
        BY <1>5, <2>1, <2>2 DEF CutJob, StartupInv, JobsBehind, CompleteMeansMigrated
  <2> QED BY <2>4, <2>5 DEF StartupInv
\* The servers and the account leave the jobs and the table alone.
<1>6. ASSUME UNCHANGED <<applied, ran, job>>
      PROVE  JobsBehind' /\ OnceAndInOrder' /\ CompleteMeansMigrated'
      BY <1>6 DEF StartupInv, JobsBehind, OnceAndInOrder, CompleteMeansMigrated
<1>7. ASSUME NEW s \in Servers, CreateApp(s) \/ OpenPool(s) \/ StopServer(s)
      PROVE  StartupInv'
  <2>1. PICK r \in ServerType : SetServer(s, r) /\ (r.promoted => server[s].promoted)
    <3>1. server[s] \in ServerType /\ Up \in BOOLEAN /\ PoolOpens \in BOOLEAN
          BY DEF StartupInv, StartupTypeOK, Up, PoolOpens
    <3>2. CASE CreateApp(s)
      <4>1. PICK settings \in Settings :
              SetServer(s, [Off EXCEPT !.pc =
                IF settings.insecure_secret /\ settings.is_production THEN "refused" ELSE "created"])
            BY <3>2 DEF CreateApp
      <4> DEFINE c == IF settings.insecure_secret /\ settings.is_production THEN "refused" ELSE "created"
                 r == [Off EXCEPT !.pc = c]
      <4>2. c \in {"refused", "created"}
            OBVIOUS
      <4> HIDE DEF c
      <4>3. r \in ServerType /\ r.promoted = FALSE
            BY <4>2 DEF Off, ServerType
      <4>4. SetServer(s, r)
            BY <4>1 DEF c
      <4> QED BY <4>3, <4>4
    <3>3. CASE OpenPool(s)
      <4> DEFINE r == [server[s] EXCEPT !.pc = "bootstrap", !.pool = PoolOpens]
      <4>1. r \in ServerType /\ r.promoted = server[s].promoted
            BY <3>1 DEF ServerType
      <4>2. SetServer(s, r)
            BY <3>3 DEF OpenPool
      <4> QED BY <4>1, <4>2
    <3>4. CASE StopServer(s)
      <4>1. Off \in ServerType /\ Off.promoted = FALSE
            BY DEF Off, ServerType
      <4> QED BY <3>4, <4>1 DEF StopServer
    <3> QED BY <1>7, <3>2, <3>3, <3>4
  <2>2. server'[s] = r /\ (\A i \in Servers \ {s} : server'[i] = server[i]) /\ server' \in [Servers -> ServerType]
        BY <1>t, <2>1, SettingServer
  <2>3. UNCHANGED <<applied, ran, job, listed, demoted, database, outages>> /\ cuts' \in 0..MaxCuts
        BY <1>7 DEF CreateApp, OpenPool, StopServer, ServerFrame, StartupInv, StartupTypeOK
  <2>4. StartupTypeOK'
        BY <2>2, <2>3 DEF StartupInv, StartupTypeOK
  <2>5. PromotionHolds'
        BY <2>1, <2>2, <2>3 DEF StartupInv, PromotionHolds
  <2> QED BY <1>6, <2>3, <2>4, <2>5 DEF StartupInv
<1>8. ASSUME NEW s \in Servers, BootstrapAdmins(s)
      PROVE  StartupInv'
  <2> DEFINE works == server[s].pool /\ Up /\ RolesMigration \in applied
             r == [server[s] EXCEPT !.pc = "serving", !.promoted = works /\ listed # "absent"]
  <2>1. SetServer(s, r) /\ r.promoted = (works /\ listed # "absent") /\ r \in ServerType
        BY <1>8 DEF BootstrapAdmins, StartupInv, StartupTypeOK, ServerType, Up
  <2>2. /\ UNCHANGED <<applied, ran, job, demoted, database, outages, cuts>>
        /\ listed' = IF works /\ listed = "user" THEN "admin" ELSE listed
        BY <1>8 DEF BootstrapAdmins, ServerFrame
  <2> HIDE DEF works, r
  <2>3. server'[s] = r /\ (\A i \in Servers \ {s} : server'[i] = server[i]) /\ server' \in [Servers -> ServerType]
        BY <1>t, <2>1, SettingServer
  <2>4. StartupTypeOK'
        BY <2>2, <2>3 DEF StartupInv, StartupTypeOK, ListedAccounts
  <2>5. PromotionHolds'
        BY <2>1, <2>2, <2>3, <1>t DEF StartupInv, PromotionHolds, StartupTypeOK, ListedAccounts
  <2> QED BY <1>6, <2>2, <2>4, <2>5 DEF StartupInv
<1>9. ASSUME NEW s \in Servers, RegisterListed(s) \/ DemoteListed(s)
      PROVE  StartupInv'
      BY <1>6, <1>9 DEF RegisterListed, DemoteListed, ServerFrame, StartupInv, StartupTypeOK, ListedAccounts, PromotionHolds
<1>10. CASE PromoteByHand
      BY <1>6, <1>10 DEF PromoteByHand, ServerFrame, StartupInv, StartupTypeOK, ListedAccounts, PromotionHolds
<1>11. CASE DatabaseFails \/ DatabaseReturns
      BY <1>6, <1>11 DEF DatabaseFails, DatabaseReturns, StartupInv, StartupTypeOK, PromotionHolds
<1>12. CASE UNCHANGED startupVars
      BY <1>6, <1>12 DEF startupVars, StartupInv, StartupTypeOK, PromotionHolds
<1> QED BY <1>1, <1>2, <1>3, <1>4, <1>5, <1>7, <1>8, <1>9, <1>10, <1>11, <1>12
        DEF StartupNext, JobStep

LEMMA StartupInvariant == StartupSpec => []StartupInv
  BY StartupInitInv, StartupStep, PTL DEF StartupSpec

\* The types of the migration jobs, the servers and the schema table.
THEOREM StartupTypeCorrect == StartupSpec => []StartupTypeOK
<1>1. StartupInv => StartupTypeOK
      BY DEF StartupInv
<1> QED BY <1>1, StartupInvariant, PTL

\* Each migration is committed once and in order, whatever jobs overlap or are cut
\* off, and a job that says complete leaves its whole release applied.
THEOREM MigrationsAlwaysHold == StartupSpec => []MigrationsHold
<1>1. StartupInv => MigrationsHold
      BY DEF StartupInv, MigrationsHold
<1> QED BY <1>1, StartupInvariant, PTL

\* A promotion from ADMIN_EMAILS lasts until an admin takes it back.
THEOREM PromotionIsKept == StartupSpec => []PromotionHolds
<1>1. StartupInv => PromotionHolds
      BY DEF StartupInv
<1> QED BY <1>1, StartupInvariant, PTL

=============================================================================
