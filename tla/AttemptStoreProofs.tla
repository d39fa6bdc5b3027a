------------------------- MODULE AttemptStoreProofs -------------------------
(***************************************************************************)
(* What purging a deque leaves behind, for every deque and every window.   *)
(***************************************************************************)
EXTENDS AttemptStore, SequenceTheorems, FiniteSetTheorems, WellFoundedInduction, TLAPS

\* A non-empty set of natural numbers has a least element.
LEMMA LeastNatural ==
    ASSUME NEW S \in SUBSET Nat, S # {}
    PROVE  \E m \in S : \A x \in S : m <= x
<1>1. IsWellFoundedOn(OpToRel(<, Nat), Nat)
  BY NatLessThanWellFounded
<1>2. PICK m \in S : \A x \in S : ~(<<x, m>> \in OpToRel(<, Nat))
  BY <1>1, WFMin
<1>3. \A x \in S : ~(x < m)
  BY <1>2 DEF OpToRel
<1> QED
  BY <1>3

\* The popleft loop stops: it removes a prefix of entries no younger than
\* `since', and the first entry it keeps is younger.
LEMMA StaleHeadProperties ==
    ASSUME NEW S \in SUBSET Int, NEW times \in Seq(S), NEW since \in Int
    PROVE  LET n == StaleHead(times, since) IN
           /\ n \in 0..Len(times)
           /\ \A i \in 1..n : times[i] <= since
           /\ n < Len(times) => times[n + 1] > since
<1> DEFINE Stops == {n \in 0..Len(times) : n < Len(times) => times[n + 1] > since}
<1>1. Len(times) \in Nat /\ \A i \in 1..Len(times) : times[i] \in Int
  BY LenProperties, ElementOfSeq
<1>2. Stops \in SUBSET Nat /\ Len(times) \in Stops
  BY <1>1
<1>3. PICK n \in Stops : \A x \in Stops : n <= x
  <2> HIDE DEF Stops
  <2> QED BY <1>2, LeastNatural
<1>4. \A i \in 1..n : times[i] <= since
  <2> SUFFICES ASSUME NEW i \in 1..n PROVE times[i] <= since
    OBVIOUS
  <2>1. n \in 0..Len(times)
    OBVIOUS
  <2>2. i - 1 \in 0..Len(times) /\ ~(n <= i - 1) /\ i \in 1..Len(times) /\ i - 1 + 1 = i
    BY <1>1, <2>1
  <2>3. i - 1 \notin Stops
    <3> HIDE DEF Stops
    <3> QED BY <1>3, <2>2
  <2> QED
    BY <1>1, <2>2, <2>3
<1>5. \E k \in 0..Len(times) :
          /\ \A i \in 1..k : times[i] <= since
          /\ k < Len(times) => times[k + 1] > since
  BY <1>4
<1> QED
  BY <1>5 DEF StaleHead

\* What is left is a sequence over the same set of times, shifted by the head.
LEMMA AfterPurgeProperties ==
    ASSUME NEW S \in SUBSET Int, NEW times \in Seq(S), NEW since \in Int
    PROVE  LET n == StaleHead(times, since) IN
           /\ AfterPurge(times, since) \in Seq(S)
           /\ Len(AfterPurge(times, since)) = Len(times) - n
           /\ \A i \in 1..(Len(times) - n) : AfterPurge(times, since)[i] = times[n + i]
<1> DEFINE n == StaleHead(times, since)
<1>1. n \in 0..Len(times) /\ Len(times) \in Nat
  BY StaleHeadProperties, LenProperties
<1>2. \A i \in (n + 1)..Len(times) : times[i] \in S
  BY <1>1, ElementOfSeq
<1>3. n + 1 \in Int /\ Len(times) \in Int
  BY <1>1
<1> HIDE DEF n
<1>4. /\ SubSeq(times, n + 1, Len(times)) \in Seq(S)
      /\ Len(SubSeq(times, n + 1, Len(times)))
            = IF n + 1 <= Len(times) THEN Len(times) - (n + 1) + 1 ELSE 0
      /\ \A i \in 1..(Len(times) - (n + 1) + 1) :
            SubSeq(times, n + 1, Len(times))[i] = times[n + 1 + i - 1]
  BY <1>2, <1>3, SubSeqProperties
<1>5. \A i \in 1..(Len(times) - n) : n + 1 + i - 1 = n + i
  BY <1>1
<1>6. Len(times) - (n + 1) + 1 = Len(times) - n
  BY <1>1
<1>7. n + 1 <= Len(times) \/ Len(times) - n = 0
  BY <1>1
<1> QED
  BY <1>1, <1>4, <1>5, <1>6, <1>7 DEF AfterPurge, n

-----------------------------------------------------------------------------
(***************************************************************************)
(* A deque against the full history of a client's failures, when purges    *)
(* and appends happen in the order of their times.                         *)
(***************************************************************************)

Times == Seq(Int)

\* The deque f is the history e without a head of entries outside the window;
\* history is in order, and MaxFailures entries never lie closer than a window.
Limits(e, f, t) ==
    LET gone == Len(e) - Len(f) IN
    /\ gone \in Nat
    /\ \A i \in 1..Len(f) : f[i] = e[gone + i]
    /\ \A i \in 1..gone : e[i] <= t - WindowSeconds
    /\ \A i, j \in 1..Len(e) : i <= j => e[i] <= e[j]
    /\ \A i \in 1..Len(e) : e[i] <= t
    /\ \A i \in 1..Len(e) : i + MaxFailures <= Len(e) => e[i + MaxFailures] - e[i] >= WindowSeconds

LEMMA PurgeKeepsLimits ==
    ASSUME NEW e \in Times, NEW f \in Times, NEW t \in Int, Limits(e, f, t)
    PROVE  LET r == AfterPurge(f, WindowStart(t)) IN
           /\ r \in Times
           /\ Limits(e, r, t)
           /\ \A i \in 1..Len(r) : r[i] <= t
           /\ Len(r) > 0 => r[1] > WindowStart(t)
<1> DEFINE n == StaleHead(f, WindowStart(t))
           r == AfterPurge(f, WindowStart(t))
           gone == Len(e) - Len(f)
<1>1. WindowSeconds \in Int /\ WindowStart(t) \in Int /\ WindowStart(t) = t - WindowSeconds
  BY PolicyAssumption DEF WindowStart
<1>2. /\ n \in 0..Len(f)
      /\ \A i \in 1..n : f[i] <= WindowStart(t)
      /\ n < Len(f) => f[n + 1] > WindowStart(t)
  BY <1>1, StaleHeadProperties DEF Times
<1>3. /\ r \in Times
      /\ Len(r) = Len(f) - n
      /\ \A i \in 1..(Len(f) - n) : r[i] = f[n + i]
  BY <1>1, AfterPurgeProperties DEF Times
<1>4. /\ Len(e) \in Nat /\ Len(f) \in Nat
      /\ \A i \in 1..Len(e) : e[i] \in Int
      /\ \A i \in 1..Len(f) : f[i] \in Int
  BY DEF Times
<1> HIDE DEF n, r
<1>5. Len(e) - Len(r) = gone + n /\ gone \in Nat /\ gone + Len(f) = Len(e)
  BY <1>2, <1>3, <1>4 DEF Limits
<1>6. \A i \in 1..Len(r) : r[i] = e[gone + n + i]
  <2> SUFFICES ASSUME NEW i \in 1..Len(r) PROVE r[i] = e[gone + n + i]
    OBVIOUS
  <2>1. n + i \in 1..Len(f) /\ gone + (n + i) = gone + n + i
    BY <1>2, <1>3, <1>4, <1>5
  <2> QED
    BY <1>3, <2>1 DEF Limits
<1>7. \A i \in 1..(gone + n) : e[i] <= t - WindowSeconds
  <2> SUFFICES ASSUME NEW i \in 1..(gone + n) PROVE e[i] <= t - WindowSeconds
    OBVIOUS
  <2>1. CASE i <= gone
    BY <1>2, <1>5, <2>1 DEF Limits
  <2>2. CASE i > gone
    <3>1. i - gone \in 1..n /\ i - gone \in 1..Len(f) /\ gone + (i - gone) = i
      BY <1>2, <1>4, <1>5, <2>2
    <3>2. f[i - gone] = e[i]
      BY <3>1 DEF Limits
    <3> QED
      BY <1>1, <1>2, <3>1, <3>2
  <2> QED
    BY <1>2, <1>5, <2>1, <2>2
<1>8. Limits(e, r, t)
  <2>1. \A i \in 1..(Len(e) - Len(r)) : e[i] <= t - WindowSeconds
    BY <1>5, <1>7
  <2>2. \A i \in 1..Len(r) : r[i] = e[(Len(e) - Len(r)) + i]
    BY <1>5, <1>6
  <2>3. Len(e) - Len(r) \in Nat
    BY <1>2, <1>5
  <2> QED
    BY <2>1, <2>2, <2>3 DEF Limits
<1>9. \A i \in 1..Len(r) : r[i] <= t
  <2> SUFFICES ASSUME NEW i \in 1..Len(r) PROVE r[i] <= t
    OBVIOUS
  <2>1. gone + n + i \in 1..Len(e)
    BY <1>2, <1>3, <1>4, <1>5
  <2> QED
    BY <1>6, <2>1 DEF Limits
<1>10. Len(r) > 0 => r[1] > WindowStart(t)
  BY <1>2, <1>3, <1>4
<1> QED
  BY <1>3, <1>8, <1>9, <1>10 DEF r

\* A failure let through by the limiter keeps the budget of every window.
LEMMA AppendKeepsLimits ==
    ASSUME NEW e \in Times, NEW f \in Times, NEW t \in Int, Limits(e, f, t),
           ~IsLimited(Len(AfterPurge(f, WindowStart(t))))
    PROVE  Limits(Append(e, t), Append(AfterPurge(f, WindowStart(t)), t), t)
<1> DEFINE r == AfterPurge(f, WindowStart(t))
           e1 == Append(e, t)
           r1 == Append(r, t)
           gone == Len(e) - Len(r)
<1>1. WindowSeconds \in Nat /\ MaxFailures \in Nat \ {0} /\ t \in Int
  BY PolicyAssumption
<1>2. r \in Times /\ Limits(e, r, t)
  BY PurgeKeepsLimits
<1>3. Len(r) < MaxFailures
  BY <1>1, <1>2 DEF IsLimited, Times
<1> HIDE DEF r
<1>4. /\ Len(e1) = Len(e) + 1 /\ Len(r1) = Len(r) + 1
      /\ \A i \in 1..Len(e) : e1[i] = e[i] /\ e[i] \in Int
      /\ \A i \in 1..Len(r) : r1[i] = r[i]
      /\ e1[Len(e) + 1] = t /\ r1[Len(r) + 1] = t
      /\ Len(e) \in Nat /\ Len(r) \in Nat
  BY <1>2 DEF Times
<1> HIDE DEF e1, r1
<1>5. /\ Len(e1) - Len(r1) = gone /\ gone \in Nat /\ gone + Len(r) = Len(e)
      /\ \A i \in 1..Len(e1) : i \in 1..Len(e) \/ i = Len(e) + 1
      /\ \A i \in 1..Len(r1) : i \in 1..Len(r) \/ i = Len(r) + 1
  BY <1>2, <1>4 DEF Limits
<1>6. ASSUME NEW i \in 1..Len(r1) PROVE r1[i] = e1[gone + i]
  <2>1. CASE i \in 1..Len(r)
    <3>1. gone + i \in 1..Len(e)
      BY <1>4, <1>5, <2>1
    <3>2. r[i] = e[gone + i]
      BY <1>2, <2>1 DEF Limits
    <3> QED
      BY <1>4, <2>1, <3>1, <3>2
  <2>2. CASE i = Len(r) + 1
    <3>1. gone + i = Len(e) + 1
      BY <1>4, <1>5, <2>2
    <3> QED
      BY <1>4, <2>2, <3>1
  <2> QED
    BY <1>5, <2>1, <2>2
<1>7. \A i \in 1..gone : e1[i] <= t - WindowSeconds
  <2>1. \A i \in 1..gone : i \in 1..Len(e)
    BY <1>4, <1>5
  <2> QED
    BY <1>2, <1>4, <2>1 DEF Limits
<1>8. \A i \in 1..Len(e1) : e1[i] <= t
  <2>1. \A i \in 1..Len(e) : e1[i] <= t
    BY <1>2, <1>4 DEF Limits
  <2> QED
    BY <1>1, <1>4, <1>5, <2>1
<1>9. ASSUME NEW i \in 1..Len(e1), NEW j \in 1..Len(e1), i <= j PROVE e1[i] <= e1[j]
  <2>1. CASE j \in 1..Len(e)
    <3>1. i \in 1..Len(e)
      BY <1>4, <1>9, <2>1
    <3>2. e[i] <= e[j]
      BY <1>2, <1>9, <2>1, <3>1 DEF Limits
    <3> QED
      BY <1>4, <2>1, <3>1, <3>2
  <2>2. CASE j = Len(e) + 1
    BY <1>4, <1>8, <2>2
  <2> QED
    BY <1>5, <2>1, <2>2
<1>10. ASSUME NEW i \in 1..Len(e1), i + MaxFailures <= Len(e1)
       PROVE  e1[i + MaxFailures] - e1[i] >= WindowSeconds
  <2>1. CASE i + MaxFailures <= Len(e)
    <3>1. i \in 1..Len(e) /\ i + MaxFailures \in 1..Len(e)
      BY <1>1, <1>4, <2>1
    <3>2. e[i + MaxFailures] - e[i] >= WindowSeconds
      BY <1>2, <2>1, <3>1 DEF Limits
    <3> QED
      BY <1>4, <3>1, <3>2
  <2>2. CASE i + MaxFailures = Len(e) + 1
    \* Fewer than MaxFailures entries are left, so entry i has been purged.
    <3>1. i \in 1..gone /\ i \in 1..Len(e)
      BY <1>1, <1>3, <1>4, <1>5, <2>2
    <3>2. e[i] <= t - WindowSeconds
      BY <1>2, <3>1 DEF Limits
    <3> QED
      BY <1>1, <1>4, <2>2, <3>1, <3>2
  <2> QED
    BY <1>1, <1>4, <1>10, <2>1, <2>2
<1>11. Limits(e1, r1, t)
  BY <1>5, <1>6, <1>7, <1>8, <1>9, <1>10 DEF Limits
<1> QED
  BY <1>11 DEF e1, r1, r

LEMMA TimeKeepsLimits ==
    ASSUME NEW e \in Times, NEW f \in Times, NEW t \in Int, Limits(e, f, t)
    PROVE  Limits(e, f, t + 1)
<1>1. WindowSeconds \in Int /\ \A i \in 1..Len(e) : e[i] \in Int
  BY PolicyAssumption DEF Times
<1>2. \A i \in 1..(Len(e) - Len(f)) : i \in 1..Len(e)
  BY DEF Limits, Times
<1> QED
  BY <1>1, <1>2 DEF Limits

\* Indices less than MaxFailures apart: at most MaxFailures of them.
LEMMA LimitsBoundWindow ==
    ASSUME NEW e \in Times, NEW f \in Times, NEW t \in Int, Limits(e, f, t), NEW u \in Int
    PROVE  Cardinality({i \in DOMAIN e : e[i] > u - WindowSeconds /\ e[i] <= u}) <= MaxFailures
<1> DEFINE W == {i \in DOMAIN e : e[i] > u - WindowSeconds /\ e[i] <= u}
<1>1. WindowSeconds \in Nat /\ MaxFailures \in Nat \ {0}
  BY PolicyAssumption
<1>2. DOMAIN e = 1..Len(e) /\ Len(e) \in Nat /\ \A i \in 1..Len(e) : e[i] \in Int
  BY DEF Times
<1>3. CASE W = {}
  BY <1>1, <1>3, FS_EmptySet
<1>4. CASE W # {}
  <2>1. PICK m \in W : \A x \in W : m <= x
    <3>1. W \in SUBSET Nat
      BY <1>2
    <3> HIDE DEF W
    <3> QED BY <1>4, <3>1, LeastNatural
  <2>2. W \in SUBSET (m..(m + MaxFailures - 1))
    <3> SUFFICES ASSUME NEW x \in W PROVE x \in m..(m + MaxFailures - 1)
      OBVIOUS
    <3>1. m \in 1..Len(e) /\ x \in 1..Len(e) /\ m <= x
      BY <1>2, <2>1
    <3>2. ASSUME m + MaxFailures <= x PROVE FALSE
      <4>1. m + MaxFailures \in 1..Len(e)
        BY <1>1, <1>2, <3>1, <3>2
      <4>2. e[m + MaxFailures] - e[m] >= WindowSeconds
        BY <1>1, <1>2, <3>1, <4>1 DEF Limits
      <4>3. e[m + MaxFailures] <= e[x]
        BY <3>1, <3>2, <4>1 DEF Limits
      <4>4. e[m] > u - WindowSeconds /\ e[x] <= u
        OBVIOUS
      <4> QED
        BY <1>1, <1>2, <3>1, <4>1, <4>2, <4>3, <4>4
    <3> QED
      BY <1>1, <3>1, <3>2
  <2>3. /\ IsFiniteSet(m..(m + MaxFailures - 1))
        /\ Cardinality(m..(m + MaxFailures - 1)) = MaxFailures
    <3>1. m \in Int /\ m + MaxFailures - 1 \in Int /\ ~(m > m + MaxFailures - 1)
          /\ (m + MaxFailures - 1) - m + 1 = MaxFailures
      BY <1>1, <1>2, <2>1
    <3> QED
      BY <3>1, FS_Interval
  <2>4. Cardinality(W) <= MaxFailures
    <3> HIDE DEF W
    <3> QED BY <2>2, <2>3, FS_Subset
  <2> QED
    BY <2>4
<1> QED
  BY <1>3, <1>4

\* The purged deque counts the window exactly.
LEMMA LimitsMakeExact ==
    ASSUME NEW e \in Times, NEW f \in Times, NEW t \in Int, Limits(e, f, t)
    PROVE  Len(AfterPurge(f, WindowStart(t))) = FailuresSince(e, WindowStart(t))
<1> DEFINE r == AfterPurge(f, WindowStart(t))
           gone == Len(e) - Len(r)
<1>1. /\ r \in Times
      /\ Limits(e, r, t)
      /\ Len(r) > 0 => r[1] > WindowStart(t)
  BY PurgeKeepsLimits
<1>2. WindowStart(t) = t - WindowSeconds /\ WindowStart(t) \in Int
  BY PolicyAssumption DEF WindowStart
<1>3. /\ DOMAIN e = 1..Len(e) /\ Len(e) \in Nat /\ Len(r) \in Nat
      /\ \A i \in 1..Len(e) : e[i] \in Int
  BY <1>1 DEF Times
<1> HIDE DEF r
<1>4. gone \in Nat /\ gone + Len(r) = Len(e)
  BY <1>1, <1>3 DEF Limits
<1>5. \A i \in 1..gone : ~(e[i] > WindowStart(t))
  <2> SUFFICES ASSUME NEW i \in 1..gone PROVE ~(e[i] > WindowStart(t))
    OBVIOUS
  <2>1. e[i] <= WindowStart(t) /\ i \in 1..Len(e)
    BY <1>1, <1>2, <1>3, <1>4 DEF Limits
  <2> QED
    BY <1>2, <1>3, <2>1
<1>6. \A i \in (gone + 1)..Len(e) : e[i] > WindowStart(t)
  <2> SUFFICES ASSUME NEW i \in (gone + 1)..Len(e) PROVE e[i] > WindowStart(t)
    OBVIOUS
  <2>1. Len(r) > 0 /\ 1 \in 1..Len(r) /\ gone + 1 \in 1..Len(e) /\ i \in 1..Len(e)
    BY <1>3, <1>4
  <2>2. e[gone + 1] = r[1] /\ e[gone + 1] <= e[i]
    BY <1>1, <2>1 DEF Limits
  <2> QED
    BY <1>1, <1>2, <1>3, <2>1, <2>2
<1>7. {i \in DOMAIN e : e[i] > WindowStart(t)} = (gone + 1)..Len(e)
  <2> HIDE DEF gone
  <2>1. \A i \in 1..Len(e) : i \in 1..gone \/ i \in (gone + 1)..Len(e)
    BY <1>3, <1>4
  <2>2. (gone + 1)..Len(e) \subseteq 1..Len(e)
    BY <1>3, <1>4
  <2> QED
    BY <1>3, <1>5, <1>6, <2>1, <2>2
<1>8. Cardinality((gone + 1)..Len(e)) = Len(r)
  <2>1. gone + 1 \in Int /\ Len(e) \in Int
    BY <1>3, <1>4
  <2>2. Cardinality((gone + 1)..Len(e))
            = IF gone + 1 > Len(e) THEN 0 ELSE Len(e) - (gone + 1) + 1
    <3> HIDE DEF gone
    <3> QED BY <2>1, FS_Interval
  <2> QED
    BY <1>3, <1>4, <2>2
<1> QED
  BY <1>7, <1>8 DEF FailuresSince, r
=============================================================================
