-------------------------- MODULE SLOWatcherProofs --------------------------
(* An SLOWatcher judges the window that the whole history of datapoints    *)
(* would give, blames no deploy for what was bad before it and calls back  *)
(* on every edge - for any timestamps, mark, duration and percentage, and  *)
(* any number of datapoints.                                               *)
EXTENDS SLOWatcher, SequenceTheorems, FiniteSetTheorems, WellFoundedInduction, TLAPS

(* SignalFx's logical timestamps never go back.                            *)
InOrder(s) == \A i, j \in 1..Len(s) : i <= j => s[i].ts <= s[j].ts

(* s without its first k elements.                                         *)
Suffix(s, k) == [i \in 1..Len(s) - k |-> s[i + k]]

(* The first k elements of s, and no others, are min_ts old or older.      *)
OldUpTo(s, k, min_ts) == \A i \in 1..Len(s) : s[i].ts > min_ts <=> i > k

(* The window is what has arrived less than window_duration ago.           *)
WindowIsRecent ==
  IF arrivals = <<>> THEN window = <<>>
  ELSE \E k \in 0..Len(arrivals) - 1 :
         /\ window = Suffix(arrivals, k)
         /\ OldUpTo(arrivals, k, arrivals[Len(arrivals)].ts - window_duration)

(* Each mark holds the judgement on the last datapoint of its side.        *)
MarksAgree ==
  /\ bad_after_mark = IF After = {} THEN None ELSE BadAt(Max(After))
  /\ bad_before_mark = IF Before = {} THEN None ELSE BadAt(Max(Before))

IInv ==
  /\ TypeOK /\ InOrder(arrivals) /\ WindowIsRecent /\ MarksAgree
  /\ failing = Failing(bad_after_mark, bad_before_mark)
  /\ told = (failing = TRUE)
-----------------------------------------------------------------------------
(* A set of natural numbers has a least element, and a greatest one if it  *)
(* is bounded.                                                             *)
LEMMA Least ==
  ASSUME NEW T, T \subseteq Nat, T # {}
  PROVE  \E x \in T : \A y \in T : x <= y
<1>1. PICK x \in T : \A y \in T : ~(<<y, x>> \in OpToRel(<, Nat))
  BY WFMin, NatLessThanWellFounded
<1>2. \A y \in T : ~(y < x)
  BY <1>1 DEF OpToRel
<1> QED BY <1>2

(* The other end of a set: the least distance to n is that of the greatest. *)
LEMMA Greatest ==
  ASSUME NEW n \in Nat, NEW T, T \subseteq 1..n, T # {}
  PROVE  Max(T) \in T /\ \A y \in T : y <= Max(T)
<1> DEFINE U == {n - x : x \in T}
<1>1. PICK u \in U : \A v \in U : u <= v
  <2>1. U \subseteq Nat
    OBVIOUS
  <2>2. PICK x : x \in T
    OBVIOUS
  <2>3. n - x \in U
    BY <2>2
  <2> HIDE DEF U
  <2> QED BY <2>1, <2>3, Least
<1>2. PICK m \in T : u = n - m
  BY <1>1
<1>3. \A y \in T : m >= y
  <2>1. \A y \in T : n - m <= n - y
    BY <1>1, <1>2
  <2> QED BY <2>1
<1>4. Max(T) \in T /\ \A y \in T : Max(T) >= y
  BY <1>3 DEF Max
<1> QED BY <1>4

(* What LaterThan keeps of a sequence whose later elements are the younger *)
(* ones.  It is defined by recursion: the suffixes satisfy the equation    *)
(* of that recursion, and nothing else does.                               *)
LEMMA KeepsSuffix ==
  ASSUME NEW w \in Seq(Datapoints), NEW min_ts, NEW k \in 0..Len(w), OldUpTo(w, k, min_ts)
  PROVE  LaterThan(w, min_ts) = Suffix(w, k)
<1> DEFINE Step(f) == [n \in 0..Len(w) |->
                        IF n = 0 THEN <<>>
                        ELSE IF w[n].ts > min_ts THEN Append(f[n - 1], w[n]) ELSE f[n - 1]]
           Kept(n) == [i \in 1..n - k |-> w[i + k]]
           f == CHOOSE f : f = Step(f)
<1>1. Len(w) \in Nat /\ \A i \in 1..Len(w) : w[i] \in Datapoints /\ (w[i].ts > min_ts <=> i > k)
  BY LenProperties, ElementOfSeq DEF OldUpTo
<1>2. ASSUME NEW n \in 0..Len(w), n <= k PROVE Kept(n) = <<>>
  BY <1>1, <1>2
<1>3. ASSUME NEW n \in 1..Len(w), n > k PROVE Kept(n) = Append(Kept(n - 1), w[n])
  <2> DEFINE s == Kept(n - 1)
  <2>1. s \in [1..n - 1 - k -> Datapoints] /\ n - 1 - k \in Nat
    BY <1>1, <1>3
  <2>2. s \in Seq(Datapoints) /\ Len(s) = n - 1 - k
    BY <2>1, SeqDef, LenProperties
  <2> QED BY <1>1, <1>3, <2>2, AppendProperties
<1>4. ASSUME NEW n \in 1..Len(w)
      PROVE  Kept(n) = IF w[n].ts > min_ts THEN Append(Kept(n - 1), w[n]) ELSE Kept(n - 1)
  <2>1. w[n].ts > min_ts <=> n > k
    BY <1>1
  <2>2. CASE n > k
    BY <1>3, <2>1, <2>2
  <2>3. CASE ~(n > k)
    <3>1. n <= k /\ n - 1 <= k /\ n - 1 \in 0..Len(w) /\ n \in 0..Len(w)
      BY <1>1, <2>3
    <3>2. Kept(n) = <<>> /\ Kept(n - 1) = <<>>
      BY <1>2, <3>1
    <3> QED BY <2>1, <2>3, <3>2
  <2> QED BY <2>2, <2>3
<1> HIDE DEF Kept
<1>5. [n \in 0..Len(w) |-> Kept(n)] = Step([n \in 0..Len(w) |-> Kept(n)])
  <2> DEFINE g == [n \in 0..Len(w) |-> Kept(n)]
  <2>1. ASSUME NEW n \in 0..Len(w) PROVE g[n] = Step(g)[n]
    <3>1. CASE n = 0
      BY <1>1, <1>2, <3>1
    <3>2. CASE n # 0
      <4>1. n \in 1..Len(w) /\ n - 1 \in 0..Len(w)
        BY <1>1, <3>2
      <4>2. g[n] = Kept(n) /\ g[n - 1] = Kept(n - 1)
        BY <4>1
      <4>3. Step(g)[n] = IF w[n].ts > min_ts THEN Append(g[n - 1], w[n]) ELSE g[n - 1]
        BY <3>2
      <4> QED BY <1>4, <4>1, <4>2, <4>3
    <3> QED BY <3>1, <3>2
  <2> QED BY <2>1
<1>6. f = Step(f)
  <2> DEFINE g == [n \in 0..Len(w) |-> Kept(n)]
  <2>1. g = Step(g)
    BY <1>5
  <2> HIDE DEF g
  <2> QED BY <2>1
<1> HIDE DEF f
<1>7. \A n \in 0..Len(w) : f[n] = Kept(n)
  <2> DEFINE Wrong == {n \in 0..Len(w) : f[n] # Kept(n)}
  <2> SUFFICES ASSUME Wrong # {} PROVE FALSE
    OBVIOUS
  <2>1. PICK n \in Wrong : \A m \in Wrong : n <= m
    <3>1. Wrong \subseteq Nat
      BY <1>1
    <3> HIDE DEF Wrong
    <3> QED BY <3>1, Least
  <2>2. n \in 0..Len(w) /\ f[n] # Kept(n)
    BY <2>1
  <2>3. f[n] = IF n = 0 THEN <<>>
               ELSE IF w[n].ts > min_ts THEN Append(f[n - 1], w[n]) ELSE f[n - 1]
    BY <1>6, <2>2
  <2>4. CASE n = 0
    BY <1>1, <1>2, <2>2, <2>3, <2>4
  <2>5. CASE n # 0
    <3>1. n \in 1..Len(w) /\ n - 1 \in 0..Len(w) /\ n - 1 < n
      BY <1>1, <2>2, <2>5
    <3>2. f[n - 1] = Kept(n - 1)
      BY <1>1, <2>1, <3>1
    <3> QED BY <1>4, <2>2, <2>3, <2>5, <3>1, <3>2
  <2> QED BY <2>4, <2>5
<1>8. LaterThan(w, min_ts) = f[Len(w)]
  BY DEF LaterThan, f
<1> QED BY <1>1, <1>7, <1>8 DEF Suffix, Kept

(* A suffix is a sequence, with the elements one expects.                  *)
LEMMA SuffixIsSeq ==
  ASSUME NEW s \in Seq(Datapoints), NEW k \in 0..Len(s)
  PROVE  /\ Suffix(s, k) \in Seq(Datapoints) /\ Len(Suffix(s, k)) = Len(s) - k
         /\ DOMAIN Suffix(s, k) = 1..Len(s) - k
         /\ \A i \in 1..Len(s) - k : Suffix(s, k)[i] = s[i + k]
<1>1. Len(s) \in Nat /\ Len(s) - k \in Nat
  BY LenProperties
<1>2. \A i \in 1..Len(s) - k : i + k \in 1..Len(s) /\ s[i + k] \in Datapoints
  BY <1>1, ElementOfSeq
<1>3. Suffix(s, k) \in [1..Len(s) - k -> Datapoints]
  BY <1>2 DEF Suffix
<1>4. Suffix(s, k) \in Seq(Datapoints)
  BY <1>1, <1>3, SeqDef
<1>5. Len(Suffix(s, k)) = Len(s) - k
  BY <1>1, <1>3, <1>4, LenProperties
<1> QED BY <1>4, <1>5 DEF Suffix

(* Trimming a window that holds at least what is recent leaves exactly     *)
(* that, whatever the spacing of the timestamps.                           *)
LEMMA TrimRecent ==
  ASSUME NEW h \in Seq(Datapoints), InOrder(h), NEW k \in 0..Len(h) - 1,
         \A i \in 1..k : h[i].ts <= h[Len(h)].ts - window_duration
  PROVE  \E j \in 0..Len(h) - 1 :
           /\ TrimWindow(Suffix(h, k)) = Suffix(h, j)
           /\ OldUpTo(h, j, h[Len(h)].ts - window_duration)
<1> DEFINE w == Suffix(h, k)
           min_ts == h[Len(h)].ts - window_duration
<1> USE TimestampAssumption, DurationAssumption
<1>1. /\ Len(h) \in Nat \ {0} /\ k \in 0..Len(h)
      /\ \A i \in 1..Len(h) : h[i] \in Datapoints /\ h[i].ts \in Int
  <2>1. Len(h) \in Nat
    BY LenProperties
  <2>2. \A i \in 1..Len(h) : h[i] \in Datapoints
    BY ElementOfSeq
  <2>3. \A p \in Datapoints : p.ts \in Int
    BY DEF Datapoints
  <2> QED BY <2>1, <2>2, <2>3
<1>2. /\ w \in Seq(Datapoints) /\ Len(w) = Len(h) - k
      /\ \A i \in 1..Len(w) : w[i] = h[i + k]
  BY <1>1, SuffixIsSeq
<1> HIDE DEF w
<1>3. Latest(w) = h[Len(h)].ts
  <2> DEFINE S == {w[i].ts : i \in 1..Len(w)}
  <2>1. h[Len(h)].ts \in S
    <3>1. Len(w) \in 1..Len(w) /\ w[Len(w)] = h[Len(h)]
      BY <1>1, <1>2
    <3> QED BY <3>1
  <2>2. \A x \in S : x \in Int /\ h[Len(h)].ts >= x
    <3>1. ASSUME NEW i \in 1..Len(w) PROVE w[i].ts \in Int /\ h[Len(h)].ts >= w[i].ts
      <4>1. i + k \in 1..Len(h) /\ i + k <= Len(h) /\ Len(h) \in 1..Len(h) /\ w[i] = h[i + k]
        BY <1>1, <1>2
      <4> QED BY <1>1, <4>1 DEF InOrder
    <3> QED BY <3>1
  <2> HIDE DEF S
  <2>3. Max(S) \in S /\ \A x \in S : Max(S) >= x
    BY <2>1, <2>2 DEF Max
  <2>4. Max(S) = h[Len(h)].ts
    BY <2>1, <2>2, <2>3
  <2> QED BY <2>4 DEF Latest, S
<1>4. PICK first \in 1..Len(h) :
        h[first].ts > min_ts /\ \A i \in 1..Len(h) : h[i].ts > min_ts => first <= i
  <2> DEFINE T == {i \in 1..Len(h) : h[i].ts > min_ts}
  <2>1. T \subseteq Nat /\ Len(h) \in T
    BY <1>1
  <2> HIDE DEF T
  <2>2. PICK x \in T : \A y \in T : x <= y
    BY <2>1, Least
  <2> QED BY <2>2 DEF T
<1>5. first > k
  BY <1>1, <1>4
<1> DEFINE j == first - 1
<1>6. j \in 0..Len(h) - 1 /\ j - k \in 0..Len(w)
  BY <1>1, <1>2, <1>5
<1>7. OldUpTo(h, j, min_ts)
  <2>1. ASSUME NEW i \in 1..Len(h) PROVE h[i].ts > min_ts <=> i > j
    <3>1. i > j => h[first].ts <= h[i].ts
      BY <1>1 DEF InOrder
    <3>2. i > j <=> first <= i
      BY <1>1
    <3>3. h[i].ts \in Int /\ h[first].ts \in Int /\ min_ts \in Int
      BY <1>1
    <3> QED BY <1>4, <3>1, <3>2, <3>3
  <2> QED BY <2>1 DEF OldUpTo
<1>8. OldUpTo(w, j - k, min_ts)
  <2>1. ASSUME NEW i \in 1..Len(w) PROVE w[i].ts > min_ts <=> i > j - k
    <3>1. i + k \in 1..Len(h) /\ w[i] = h[i + k] /\ (i + k > j <=> i > j - k)
      BY <1>1, <1>2
    <3> QED BY <1>7, <3>1 DEF OldUpTo
  <2> QED BY <2>1 DEF OldUpTo
<1>9. TrimWindow(w) = Suffix(w, j - k)
  <2>1. LaterThan(w, min_ts) = Suffix(w, j - k)
    BY <1>2, <1>6, <1>8, KeepsSuffix
  <2> QED BY <1>3, <2>1 DEF TrimWindow
<1>10. Suffix(w, j - k) = Suffix(h, j)
  <2>1. Len(w) - (j - k) = Len(h) - j
    BY <1>1, <1>2
  <2>2. \A i \in 1..Len(h) - j : w[i + (j - k)] = h[i + j]
    <3>1. ASSUME NEW i \in 1..Len(h) - j PROVE w[i + (j - k)] = h[i + j]
      <4>1. i + (j - k) \in 1..Len(w) /\ (i + (j - k)) + k = i + j
        BY <1>1, <1>2, <1>5
      <4> QED BY <1>2, <4>1
    <3> QED BY <3>1
  <2> QED BY <2>1, <2>2 DEF Suffix
<1> QED BY <1>6, <1>7, <1>9, <1>10 DEF w

(* The reference, of any history, and the judgement of the window that is  *)
(* left of that history.                                                   *)
BadOf(h, n) ==
  LET recent == {i \in 1..n : h[i].ts > h[n].ts - window_duration}
      bad    == {i \in recent : h[i].bad}
  IN  100 * Cardinality(bad) >= (100 - percent_of_duration) * Cardinality(recent)

(* Counting in the window is counting in the history: shifting the indices *)
(* by k takes the bad datapoints of one to those of the other.             *)
LEMMA JudgesRecent ==
  ASSUME NEW h \in Seq(Datapoints), NEW k \in 0..Len(h) - 1,
         OldUpTo(h, k, h[Len(h)].ts - window_duration)
  PROVE  IsWindowBad(Suffix(h, k)) <=> BadOf(h, Len(h))
<1> DEFINE w == Suffix(h, k)
           recent == {i \in 1..Len(h) : h[i].ts > h[Len(h)].ts - window_duration}
           badThere == {i \in recent : h[i].bad}
           badHere == {i \in DOMAIN w : w[i].bad}
           shift == [i \in badHere |-> i + k]
<1>1. Len(h) \in Nat /\ k \in 0..Len(h)
  BY LenProperties
<1>2. /\ Len(w) = Len(h) - k /\ DOMAIN w = 1..Len(h) - k
      /\ \A i \in 1..Len(h) - k : w[i] = h[i + k]
  BY <1>1, SuffixIsSeq
<1> HIDE DEF w
<1>3. recent = k + 1..Len(h)
  BY <1>1 DEF OldUpTo
<1>4. Cardinality(recent) = Len(w)
  <2>1. k + 1 \in Int /\ Len(h) \in Int /\ ~(k + 1 > Len(h)) /\ Len(h) - (k + 1) + 1 = Len(h) - k
    BY <1>1
  <2>2. Cardinality(k + 1..Len(h)) = IF k + 1 > Len(h) THEN 0 ELSE Len(h) - (k + 1) + 1
    BY <2>1, FS_Interval
  <2> QED BY <1>2, <1>3, <2>1, <2>2
<1>5. IsFiniteSet(badHere)
  <2>1. IsFiniteSet(1..Len(h) - k)
    BY <1>1, FS_Interval
  <2> QED BY <1>2, <2>1, FS_Subset
<1>6. shift \in Bijection(badHere, badThere)
  <2>1. \A i \in badHere : i + k \in badThere
    BY <1>1, <1>2, <1>3
  <2>2. \A i \in badHere, j \in badHere : shift[i] = shift[j] => i = j
    BY <1>1, <1>2
  <2>3. \A j \in badThere : \E i \in badHere : shift[i] = j
    <3>1. ASSUME NEW j \in badThere PROVE j - k \in badHere /\ (j - k) + k = j
      <4>1. j \in k + 1..Len(h) /\ h[j].bad
        BY <1>3
      <4>2. j - k \in 1..Len(h) - k /\ (j - k) + k = j
        BY <1>1, <4>1
      <4> QED BY <1>2, <4>1, <4>2
    <3> HIDE DEF badHere, badThere
    <3>2. ASSUME NEW j \in badThere PROVE \E i \in badHere : shift[i] = j
      BY <3>1
    <3> QED BY <3>2
  <2>4. shift \in [badHere -> badThere]
    BY <2>1
  <2> HIDE DEF shift, badHere, badThere
  <2> QED BY <2>2, <2>3, <2>4 DEF Bijection, Injection, Surjection, IsInjective
<1>7. Cardinality(badThere) = Cardinality(badHere)
  <2> HIDE DEF shift, badHere, badThere
  <2> QED BY <1>5, <1>6, FS_Bijection DEF ExistsBijection
<1>8. Cardinality(badThere) = Cardinality({i \in DOMAIN w : w[i].bad})
  BY <1>7
<1>9. BadOf(h, Len(h)) <=>
        100 * Cardinality(badThere) >= (100 - percent_of_duration) * Cardinality(recent)
  BY DEF BadOf
<1> HIDE DEF badThere, badHere, recent
<1> QED BY <1>4, <1>8, <1>9 DEF IsWindowBad, w

(* The two sides of the mark in any history, and the judgement on the last *)
(* datapoint of a set.                                                     *)
BeforeOf(h) == {n \in 1..Len(h) : h[n].ts <= start_timestamp}
AfterOf(h)  == {n \in 1..Len(h) : h[n].ts > start_timestamp}
LastJudged(h, T) == IF T = {} THEN None ELSE BadOf(h, Max(T))

(* The state functions of the model, as functions of the history.          *)
LEMMA OfArrivals ==
  /\ Before = BeforeOf(arrivals) /\ After = AfterOf(arrivals)
  /\ \A n : BadAt(n) = BadOf(arrivals, n)
  /\ MarksAgree <=> /\ bad_after_mark = LastJudged(arrivals, AfterOf(arrivals))
                    /\ bad_before_mark = LastJudged(arrivals, BeforeOf(arrivals))
<1>1. Before = BeforeOf(arrivals) /\ After = AfterOf(arrivals)
  BY DEF Before, After, BeforeOf, AfterOf
<1>2. ASSUME NEW n PROVE BadAt(n) = BadOf(arrivals, n)
  BY DEF BadAt, BadOf
<1> QED BY <1>1, <1>2 DEF MarksAgree, LastJudged

(* A history with one more datapoint.                                      *)
LEMMA OneMore ==
  ASSUME NEW h \in Seq(Datapoints), NEW p \in Datapoints
  PROVE  LET H == Append(h, p) IN
         /\ H \in Seq(Datapoints) /\ Len(H) = Len(h) + 1 /\ Len(h) \in Nat
         /\ H[Len(H)] = p /\ \A i \in 1..Len(h) : H[i] = h[i]
<1>1. Len(h) \in Nat
  BY LenProperties
<1> QED BY <1>1, AppendProperties

(* A longer history judges its earlier datapoints as before.               *)
LEMMA EarlierJudgements ==
  ASSUME NEW h \in Seq(Datapoints), NEW p \in Datapoints, NEW T, T \subseteq 1..Len(h)
  PROVE  LET H == Append(h, p) IN
         /\ LastJudged(H, T) = LastJudged(h, T)
         /\ LastJudged(H, T \cup {Len(H)}) = BadOf(H, Len(H))
<1> DEFINE H == Append(h, p)
<1>1. Len(H) = Len(h) + 1 /\ Len(h) \in Nat /\ \A i \in 1..Len(h) : H[i] = h[i]
  BY OneMore
<1> HIDE DEF H
<1>2. ASSUME NEW n \in 1..Len(h) PROVE BadOf(H, n) = BadOf(h, n)
  <2>1. 1..n \subseteq 1..Len(h) /\ H[n] = h[n]
    BY <1>1
  <2>2. {i \in 1..n : H[i].ts > H[n].ts - window_duration}
          = {i \in 1..n : h[i].ts > h[n].ts - window_duration}
    BY <1>1, <2>1
  <2>3. {i \in {j \in 1..n : h[j].ts > h[n].ts - window_duration} : H[i].bad}
          = {i \in {j \in 1..n : h[j].ts > h[n].ts - window_duration} : h[i].bad}
    BY <1>1, <2>1
  <2> QED BY <2>2, <2>3 DEF BadOf
<1>3. T # {} => Max(T) \in 1..Len(h)
  BY <1>1, Greatest
<1>4. Max(T \cup {Len(H)}) = Len(H)
  <2> DEFINE U == T \cup {Len(H)}
  <2>1. Len(H) \in Nat /\ Len(H) \in 1..Len(H) /\ 1..Len(h) \subseteq 1..Len(H)
    BY <1>1
  <2>2. U \subseteq 1..Len(H) /\ Len(H) \in U /\ U # {}
    BY <2>1
  <2> HIDE DEF U
  <2>3. Max(U) \in U /\ \A y \in U : y <= Max(U)
    BY <2>1, <2>2, Greatest
  <2>4. Len(H) <= Max(U) /\ Max(U) \in 1..Len(H)
    BY <2>2, <2>3
  <2>5. Max(U) = Len(H)
    BY <2>1, <2>4
  <2> QED BY <2>5 DEF U
<1>5. LastJudged(H, T) = LastJudged(h, T)
  BY <1>2, <1>3 DEF LastJudged
<1>6. LastJudged(H, T \cup {Len(H)}) = BadOf(H, Len(H))
  BY <1>4 DEF LastJudged
<1> QED BY <1>5, <1>6 DEF H

(* The new datapoint is the last one of the side it falls on.              *)
LEMMA SidesOfMark ==
  ASSUME NEW h \in Seq(Datapoints), NEW p \in Datapoints
  PROVE  LET H == Append(h, p) IN
         IF p.ts > start_timestamp
         THEN AfterOf(H) = AfterOf(h) \cup {Len(H)} /\ BeforeOf(H) = BeforeOf(h)
         ELSE BeforeOf(H) = BeforeOf(h) \cup {Len(H)} /\ AfterOf(H) = AfterOf(h)
<1> DEFINE H == Append(h, p)
<1>1. /\ Len(H) = Len(h) + 1 /\ Len(h) \in Nat /\ H[Len(H)] = p
      /\ \A i \in 1..Len(h) : H[i] = h[i]
  BY OneMore
<1>2. p.ts \in Int /\ start_timestamp \in Int
  BY TimestampAssumption DEF Datapoints
<1> HIDE DEF H
<1>3. 1..Len(H) = (1..Len(h)) \cup {Len(H)} /\ Len(H) \notin 1..Len(h)
  BY <1>1
<1>4. CASE p.ts > start_timestamp
  <2>1. AfterOf(H) = AfterOf(h) \cup {Len(H)}
    BY <1>1, <1>3, <1>4 DEF AfterOf
  <2>2. BeforeOf(H) = BeforeOf(h)
    BY <1>1, <1>2, <1>3, <1>4 DEF BeforeOf
  <2> QED BY <1>4, <2>1, <2>2 DEF H
<1>5. CASE ~(p.ts > start_timestamp)
  <2>1. BeforeOf(H) = BeforeOf(h) \cup {Len(H)}
    BY <1>1, <1>2, <1>3, <1>5 DEF BeforeOf
  <2>2. AfterOf(H) = AfterOf(h)
    BY <1>1, <1>3, <1>5 DEF AfterOf
  <2> QED BY <1>5, <2>1, <2>2 DEF H
<1> QED BY <1>4, <1>5
-----------------------------------------------------------------------------
(* What IInv says once there is a datapoint.                               *)
LEMMA Inherited ==
  ASSUME IInv, arrivals # <<>>
  PROVE  /\ arrivals \in Seq(Datapoints) /\ Len(arrivals) \in Nat \ {0}
         /\ \E k \in 0..Len(arrivals) - 1 :
              /\ window = Suffix(arrivals, k)
              /\ OldUpTo(arrivals, k, arrivals[Len(arrivals)].ts - window_duration)
<1>1. arrivals \in Seq(Datapoints)
  BY DEF IInv, TypeOK
<1>2. Len(arrivals) \in Nat \ {0}
  BY <1>1, LenProperties, EmptySeq
<1> QED BY <1>1, <1>2 DEF IInv, WindowIsRecent

(* The window with the new datapoint is a suffix of all that has arrived,  *)
(* and nothing it has lost is recent.                                      *)
LEMMA BeforeTrimming ==
  ASSUME IInv, NEW p \in Datapoints, arrivals # <<>> => Last(arrivals).ts <= p.ts
  PROVE  LET H == Append(arrivals, p) IN
         /\ InOrder(H)
         /\ \E k \in 0..Len(H) - 1 :
              /\ Append(window, p) = Suffix(H, k)
              /\ \A i \in 1..k : H[i].ts <= H[Len(H)].ts - window_duration
<1> DEFINE H == Append(arrivals, p)
<1>1. /\ arrivals \in Seq(Datapoints) /\ Len(H) = Len(arrivals) + 1 /\ Len(arrivals) \in Nat
      /\ H[Len(H)] = p /\ \A i \in 1..Len(arrivals) : H[i] = arrivals[i]
      /\ InOrder(arrivals)
  <2>1. arrivals \in Seq(Datapoints) /\ InOrder(arrivals)
    BY DEF IInv, TypeOK
  <2> QED BY <2>1, OneMore
<1>2. /\ p.ts \in Int /\ window_duration \in Nat
      /\ \A i \in 1..Len(arrivals) : arrivals[i] \in Datapoints /\ arrivals[i].ts \in Int
  <2>1. \A q \in Datapoints : q.ts \in Int
    BY TimestampAssumption DEF Datapoints
  <2> QED BY <1>1, <2>1, ElementOfSeq, DurationAssumption
<1>3. \A i \in 1..Len(arrivals) : arrivals[i].ts <= p.ts
  <2>1. ASSUME NEW i \in 1..Len(arrivals) PROVE arrivals[i].ts <= p.ts
    <3>1. arrivals # <<>> /\ Len(arrivals) \in 1..Len(arrivals) /\ i <= Len(arrivals)
      BY <1>1
    <3>2. arrivals[i].ts <= arrivals[Len(arrivals)].ts
      BY <1>1, <3>1 DEF InOrder
    <3>3. arrivals[Len(arrivals)].ts <= p.ts
      BY <3>1 DEF Last
    <3> QED BY <1>2, <3>1, <3>2, <3>3
  <2> QED BY <2>1
<1> HIDE DEF H
<1>4. InOrder(H)
  <2>1. ASSUME NEW i \in 1..Len(H), NEW j \in 1..Len(H), i <= j PROVE H[i].ts <= H[j].ts
    <3>1. CASE j \in 1..Len(arrivals)
      <4>1. i \in 1..Len(arrivals)
        BY <1>1, <2>1, <3>1
      <4> QED BY <1>1, <2>1, <3>1, <4>1 DEF InOrder
    <3>2. CASE j = Len(H) /\ i \in 1..Len(arrivals)
      BY <1>1, <1>3, <3>2
    <3>3. CASE j = Len(H) /\ i = Len(H)
      BY <1>1, <1>2, <3>3
    <3>4. j \in 1..Len(arrivals) \/ j = Len(H)
      BY <1>1
    <3>5. i \in 1..Len(arrivals) \/ i = Len(H)
      BY <1>1
    <3> QED BY <3>1, <3>2, <3>3, <3>4, <3>5
  <2> QED BY <2>1 DEF InOrder
<1>5. \E k \in 0..Len(H) - 1 :
        /\ Append(window, p) = Suffix(H, k)
        /\ \A i \in 1..k : H[i].ts <= H[Len(H)].ts - window_duration
  <2>1. ASSUME NEW k \in 0..Len(arrivals), window = Suffix(arrivals, k)
        PROVE  Append(window, p) = Suffix(H, k)
    <3>1. /\ window \in Seq(Datapoints) /\ Len(window) = Len(arrivals) - k
          /\ \A i \in 1..Len(arrivals) - k : window[i] = arrivals[i + k]
      BY <1>1, <2>1, SuffixIsSeq
    <3> DEFINE W == Append(window, p)
    <3>2. /\ W \in [1..Len(window) + 1 -> Datapoints] /\ W[Len(window) + 1] = p
          /\ \A i \in 1..Len(window) : W[i] = window[i]
      <4>1. W \in Seq(Datapoints) /\ Len(W) = Len(window) + 1
        BY <3>1, AppendProperties
      <4>2. W \in [1..Len(W) -> Datapoints]
        BY <4>1, LenProperties
      <4>3. W[Len(window) + 1] = p /\ \A i \in 1..Len(window) : W[i] = window[i]
        BY <3>1, AppendProperties
      <4> QED BY <4>1, <4>2, <4>3
    <3> HIDE DEF W
    <3>3. \A i \in 1..Len(H) - k : W[i] = H[i + k]
      <4>1. ASSUME NEW i \in 1..Len(H) - k PROVE W[i] = H[i + k]
        <5>1. CASE i \in 1..Len(window)
          <6>1. i + k \in 1..Len(arrivals) /\ i \in 1..Len(window) + 1
            BY <1>1, <3>1, <5>1
          <6>2. window[i] = arrivals[i + k]
            BY <3>1, <5>1
          <6> QED BY <1>1, <3>2, <5>1, <6>1, <6>2
        <5>2. CASE i \notin 1..Len(window)
          <6>1. i + k = Len(H) /\ i = Len(window) + 1
            BY <1>1, <3>1, <5>2
          <6> QED BY <1>1, <3>2, <5>2, <6>1
        <5> QED BY <5>1, <5>2
      <4> QED BY <4>1
    <3>4. Len(window) + 1 = Len(H) - k
      BY <1>1, <3>1
    <3> QED BY <3>2, <3>3, <3>4 DEF Suffix, W
  <2>2. CASE arrivals = <<>>
    <3>1. window = Suffix(arrivals, 0) /\ 0 \in 0..Len(arrivals) /\ 0 \in 0..Len(H) - 1
      <4>1. window = <<>> /\ Len(arrivals) = 0 /\ Len(H) = 1
        BY <1>1, <2>2 DEF IInv, TypeOK
      <4> QED BY <4>1, EmptySeq DEF Suffix
    <3> QED BY <2>1, <3>1
  <2>3. CASE arrivals # <<>>
    <3>1. PICK k \in 0..Len(arrivals) - 1 :
            /\ window = Suffix(arrivals, k)
            /\ OldUpTo(arrivals, k, arrivals[Len(arrivals)].ts - window_duration)
      BY <2>3, Inherited
    <3>2. k \in 0..Len(arrivals) /\ k \in 0..Len(H) - 1
      BY <1>1
    <3>3. ASSUME NEW i \in 1..k PROVE H[i].ts <= H[Len(H)].ts - window_duration
      <4>1. i \in 1..Len(arrivals) /\ ~(i > k) /\ Len(arrivals) \in 1..Len(arrivals)
        BY <1>1
      <4>2. ~(arrivals[i].ts > arrivals[Len(arrivals)].ts - window_duration)
        BY <3>1, <4>1 DEF OldUpTo
      <4>3. arrivals[Len(arrivals)].ts <= p.ts
        BY <1>3, <4>1
      <4>4. arrivals[i].ts \in Int /\ arrivals[Len(arrivals)].ts \in Int
        BY <1>2, <4>1
      <4>5. arrivals[i].ts <= p.ts - window_duration
        BY <1>2, <4>2, <4>3, <4>4
      <4> QED BY <1>1, <4>1, <4>5
    <3> QED BY <2>1, <3>1, <3>2, <3>3
  <2> QED BY <2>2, <2>3
<1> QED BY <1>4, <1>5 DEF H

(* The invariant holds at first, and one more datapoint keeps it.          *)
LEMMA InvInit == Init => IInv
<1> SUFFICES ASSUME Init PROVE IInv
  OBVIOUS
<1>1. window = <<>> /\ arrivals = <<>> /\ Len(arrivals) = 0 /\ 1..Len(arrivals) = {}
  BY EmptySeq DEF Init
<1>2. TypeOK
  BY <1>1, EmptySeq DEF Init, TypeOK
<1>3. InOrder(arrivals) /\ WindowIsRecent
  BY <1>1 DEF InOrder, WindowIsRecent
<1>4. After = {} /\ Before = {}
  BY <1>1 DEF After, Before
<1>5. MarksAgree
  BY <1>4 DEF Init, MarksAgree
<1>6. failing = Failing(bad_after_mark, bad_before_mark) /\ told = (failing = TRUE)
  BY NoneAssumption DEF Init, Failing
<1> QED BY <1>2, <1>3, <1>5, <1>6 DEF IInv

(* failing is None, or a Boolean.                                          *)
LEMMA FailingType ==
  ASSUME NEW a \in BOOLEAN \cup {None}, NEW b \in BOOLEAN \cup {None}
  PROVE  Failing(a, b) \in BOOLEAN \cup {None}
BY DEF Failing

(* TrimRecent and JudgesRecent for the window, EarlierJudgements and       *)
(* SidesOfMark for the marks, then the edge for the callback.              *)
LEMMA InvStep ==
  ASSUME IInv, NextDatapoint
  PROVE  IInv'
<1> DEFINE H == arrivals'
<1>1. PICK p \in Datapoints :
        /\ arrivals # <<>> => Last(arrivals).ts <= p.ts
        /\ H = Append(arrivals, p)
        /\ process_datapoint(p)
  BY DEF NextDatapoint
<1>2. /\ arrivals \in Seq(Datapoints) /\ H \in Seq(Datapoints)
      /\ H # <<>> /\ Len(H) \in Nat /\ Len(H) = Len(arrivals) + 1
  <2>1. arrivals \in Seq(Datapoints)
    BY DEF IInv, TypeOK
  <2> QED BY <1>1, <2>1, OneMore, AppendProperties
<1>3. InOrder(H)
  BY <1>1, BeforeTrimming
<1>4. PICK j \in 0..Len(H) - 1 :
        window' = Suffix(H, j) /\ OldUpTo(H, j, H[Len(H)].ts - window_duration)
  <2>1. PICK k \in 0..Len(H) - 1 :
          /\ Append(window, p) = Suffix(H, k)
          /\ \A i \in 1..k : H[i].ts <= H[Len(H)].ts - window_duration
    BY <1>1, BeforeTrimming
  <2>2. window' = TrimWindow(Suffix(H, k))
    BY <1>1, <2>1 DEF process_datapoint
  <2> QED BY <1>2, <1>3, <2>1, <2>2, TrimRecent
<1>5. WindowIsRecent'
  BY <1>2, <1>4 DEF WindowIsRecent
<1>6. IsWindowBad(window') = BadOf(H, Len(H))
  <2>1. IsWindowBad(window') <=> BadOf(H, Len(H))
    BY <1>2, <1>4, JudgesRecent
  <2> QED BY <2>1 DEF IsWindowBad, BadOf
<1>7. /\ IF p.ts > start_timestamp
         THEN bad_after_mark' = BadOf(H, Len(H)) /\ bad_before_mark' = bad_before_mark
         ELSE bad_before_mark' = BadOf(H, Len(H)) /\ bad_after_mark' = bad_after_mark
      /\ failing' = Failing(bad_after_mark', bad_before_mark')
      /\ told' = IF CallsBack(failing, failing') THEN failing' ELSE told
  BY <1>1, <1>6 DEF process_datapoint, Judged
<1>8. MarksAgree'
  <2>1. /\ bad_after_mark = LastJudged(arrivals, AfterOf(arrivals))
        /\ bad_before_mark = LastJudged(arrivals, BeforeOf(arrivals))
    BY OfArrivals DEF IInv
  <2>2. /\ AfterOf(arrivals) \subseteq 1..Len(arrivals)
        /\ BeforeOf(arrivals) \subseteq 1..Len(arrivals)
    BY DEF AfterOf, BeforeOf
  <2>3. \A T : T \subseteq 1..Len(arrivals) =>
          /\ LastJudged(H, T) = LastJudged(arrivals, T)
          /\ LastJudged(H, T \cup {Len(H)}) = BadOf(H, Len(H))
    BY <1>1, <1>2, EarlierJudgements
  <2>4. IF p.ts > start_timestamp
        THEN AfterOf(H) = AfterOf(arrivals) \cup {Len(H)} /\ BeforeOf(H) = BeforeOf(arrivals)
        ELSE BeforeOf(H) = BeforeOf(arrivals) \cup {Len(H)} /\ AfterOf(H) = AfterOf(arrivals)
    BY <1>1, <1>2, SidesOfMark
  <2>5. /\ bad_after_mark' = LastJudged(H, AfterOf(H))
        /\ bad_before_mark' = LastJudged(H, BeforeOf(H))
    BY <1>7, <2>1, <2>2, <2>3, <2>4
  <2>6. After' = AfterOf(H) /\ Before' = BeforeOf(H)
    BY DEF After, Before, AfterOf, BeforeOf
  <2>7. \A n : BadAt(n)' = BadOf(H, n)
    BY DEF BadAt, BadOf
  <2> QED BY <2>5, <2>6, <2>7 DEF MarksAgree, LastJudged
<1>9. TypeOK'
  <2>1. window' \in Seq(Datapoints) /\ window' # <<>>
    <3>1. j \in 0..Len(H) /\ Len(H) - j # 0
      BY <1>2
    <3>2. window' \in Seq(Datapoints) /\ Len(window') = Len(H) - j
      BY <1>2, <1>4, <3>1, SuffixIsSeq
    <3> QED BY <3>1, <3>2, EmptySeq
  <2>2. BadOf(H, Len(H)) \in BOOLEAN
    BY DEF BadOf
  <2>3. bad_after_mark' \in BOOLEAN \cup {None} /\ bad_before_mark' \in BOOLEAN \cup {None}
    BY <1>7, <2>2 DEF IInv, TypeOK
  <2>4. failing' \in BOOLEAN \cup {None}
    BY <1>7, <2>3, FailingType
  <2>5. told' \in BOOLEAN
    <3>1. CallsBack(failing, failing') => failing' \in BOOLEAN
      BY DEF CallsBack
    <3> QED BY <1>7, <3>1 DEF IInv, TypeOK
  <2> QED BY <1>2, <2>1, <2>3, <2>4, <2>5 DEF TypeOK
<1>10. told' = (failing' = TRUE)
  <2>1. told = (failing = TRUE)
    BY DEF IInv
  <2>2. failing' \in BOOLEAN \cup {None}
    BY <1>9 DEF TypeOK
  <2>3. failing \in BOOLEAN \cup {None}
    BY DEF IInv, TypeOK
  <2>4. CASE failing' = TRUE
    BY <1>7, <2>1, <2>3, <2>4 DEF CallsBack
  <2>5. CASE failing' = FALSE
    BY <1>7, <2>1, <2>3, <2>5 DEF CallsBack
  <2>6. CASE failing' = None
    <3>1. bad_after_mark' = None
      BY <1>7, <1>9, <2>6, NoneAssumption DEF Failing, TypeOK
    <3>2. bad_after_mark = None /\ failing = None
      <4>1. BadOf(H, Len(H)) \in BOOLEAN
        BY DEF BadOf
      <4>2. bad_after_mark = None
        BY <1>7, <3>1, <4>1, NoneAssumption
      <4> QED BY <4>2, NoneAssumption DEF IInv, Failing
    <3> QED BY <1>7, <2>1, <2>6, <3>2, NoneAssumption DEF CallsBack
  <2> QED BY <2>2, <2>4, <2>5, <2>6
<1> QED BY <1>3, <1>5, <1>7, <1>8, <1>9, <1>10 DEF IInv

(* The verdict is the one a look at the whole history would give, after    *)
(* any number of datapoints (slo.py, process_datapoint and trim_window).   *)
THEOREM Invariant == Spec => []IInv
<1>1. ASSUME IInv, UNCHANGED vars PROVE IInv'
  <2>1. After' = After /\ Before' = Before /\ \A n : BadAt(n)' = BadAt(n)
    BY <1>1 DEF vars, After, Before, BadAt
  <2>2. TypeOK' /\ InOrder(arrivals)' /\ WindowIsRecent'
    BY <1>1 DEF vars, IInv, TypeOK, WindowIsRecent
  <2>3. MarksAgree'
    BY <1>1, <2>1 DEF vars, IInv, MarksAgree
  <2> QED BY <1>1, <2>2, <2>3 DEF vars, IInv
<1>2. IInv /\ [Next]_vars => IInv'
  BY <1>1, InvStep DEF Next
<1>3. Init => IInv
  BY InvInit
<1> QED BY <1>2, <1>3, PTL DEF Spec

(* Every variable keeps its type, and the window whose length              *)
(* is_window_bad divides by is never empty.                                *)
THEOREM TypeCorrect == Spec => []TypeOK
BY Invariant, PTL DEF IInv

(* Trimming the window as the datapoints arrive neither loses one that     *)
(* counts nor keeps one that does not: failing is what the datapoints of   *)
(* the last window_duration, before and after the mark, say together.      *)
THEOREM VerdictIsOfHistory == Spec => []VerdictMatchesHistory
<1>1. ASSUME IInv PROVE VerdictMatchesHistory
  <2>1. failing = Failing(bad_after_mark, bad_before_mark) /\ MarksAgree
    BY <1>1 DEF IInv
  <2>2. \A n : BadAt(n) \in BOOLEAN
    BY DEF BadAt
  <2>3. CASE After = {}
    BY <2>1, <2>3, NoneAssumption DEF VerdictMatchesHistory, MarksAgree, Failing
  <2>4. CASE After # {}
    <3>1. bad_after_mark = BadAt(Max(After)) /\ bad_after_mark \in BOOLEAN
      BY <2>1, <2>2, <2>4 DEF MarksAgree
    <3>2. (bad_before_mark # TRUE) = (Before # {} => ~BadAt(Max(Before)))
      BY <2>1, <2>2, NoneAssumption DEF MarksAgree
    <3>3. failing = (bad_after_mark /\ (bad_before_mark # TRUE))
      BY <2>1, <3>1 DEF Failing
    <3> QED BY <2>4, <3>1, <3>2, <3>3 DEF VerdictMatchesHistory
  <2> QED BY <2>3, <2>4
<1> QED BY <1>1, Invariant, PTL

(* What a window of one kind only does to failing.                         *)
LEMMA Clean ==
  ASSUME IInv, arrivals # <<>>, Last(arrivals).ts > start_timestamp
  PROVE  /\ percent_of_duration < 100 /\ (\A i \in 1..Len(window) : ~window[i].bad) =>
              failing = FALSE
         /\ bad_before_mark # TRUE /\ (\A i \in 1..Len(window) : window[i].bad) =>
              failing = TRUE
<1>1. arrivals \in Seq(Datapoints) /\ Len(arrivals) \in Nat \ {0}
  BY Inherited
<1>2. PICK k \in 0..Len(arrivals) - 1 :
        /\ window = Suffix(arrivals, k)
        /\ OldUpTo(arrivals, k, arrivals[Len(arrivals)].ts - window_duration)
  BY Inherited
<1>3. Max(AfterOf(arrivals)) = Len(arrivals) /\ AfterOf(arrivals) # {}
  <2> DEFINE T == AfterOf(arrivals)
  <2>1. T \subseteq 1..Len(arrivals) /\ Len(arrivals) \in T
    BY <1>1 DEF AfterOf, Last
  <2> HIDE DEF T
  <2>2. Max(T) \in T /\ \A y \in T : y <= Max(T)
    BY <1>1, <2>1, Greatest
  <2>3. Max(T) \in 1..Len(arrivals) /\ Len(arrivals) <= Max(T)
    BY <2>1, <2>2
  <2>4. Max(T) = Len(arrivals) /\ T # {}
    BY <1>1, <2>1, <2>3
  <2> QED BY <2>4 DEF T
<1>4. bad_after_mark = IsWindowBad(window)
  <2>1. bad_after_mark = BadOf(arrivals, Len(arrivals))
    BY <1>3, OfArrivals DEF IInv, LastJudged
  <2>2. IsWindowBad(window) <=> BadOf(arrivals, Len(arrivals))
    BY <1>1, <1>2, JudgesRecent
  <2> QED BY <2>1, <2>2 DEF IsWindowBad, BadOf
<1>5. Len(window) \in Nat \ {0} /\ DOMAIN window = 1..Len(window)
  <2>1. window \in Seq(Datapoints) /\ window # <<>>
    BY DEF IInv, TypeOK
  <2> QED BY <2>1, EmptySeq, LenProperties
<1>6. failing = Failing(bad_after_mark, bad_before_mark)
  BY DEF IInv
<1>7. ASSUME percent_of_duration < 100, \A i \in 1..Len(window) : ~window[i].bad
      PROVE  failing = FALSE
  <2>1. {i \in DOMAIN window : window[i].bad} = {}
    BY <1>5, <1>7
  <2>2. IsWindowBad(window) <=> 100 * 0 >= (100 - percent_of_duration) * Len(window)
    BY <2>1, FS_EmptySet DEF IsWindowBad
  <2>3. (100 - percent_of_duration) * Len(window) > 0
    <3>1. 100 - percent_of_duration \in Nat \ {0}
      BY <1>7, PercentAssumption
    <3>2. \A a, b \in Nat \ {0} : a * b > 0
      OBVIOUS
    <3> QED BY <1>5, <3>1, <3>2
  <2>4. ~IsWindowBad(window)
    <3>1. (100 - percent_of_duration) * Len(window) \in Int /\ 100 * 0 = 0
      BY <1>5, PercentAssumption
    <3> DEFINE needed == (100 - percent_of_duration) * Len(window)
    <3>2. needed \in Int /\ needed > 0 /\ (IsWindowBad(window) <=> 0 >= needed)
      BY <2>2, <2>3, <3>1
    <3> HIDE DEF needed
    <3> QED BY <3>2
  <2>5. bad_after_mark = FALSE
    <3>1. IsWindowBad(window) \in BOOLEAN
      BY DEF IsWindowBad
    <3> QED BY <1>4, <2>4, <3>1
  <2> QED BY <1>6, <2>5 DEF Failing
<1>8. ASSUME bad_before_mark # TRUE, \A i \in 1..Len(window) : window[i].bad
      PROVE  failing = TRUE
  <2>1. {i \in DOMAIN window : window[i].bad} = 1..Len(window)
    BY <1>5, <1>8
  <2>2. Cardinality(1..Len(window)) = Len(window)
    <3>1. /\ 1 \in Int /\ Len(window) \in Int
          /\ ~(1 > Len(window)) /\ Len(window) - 1 + 1 = Len(window)
      BY <1>5
    <3>2. Cardinality(1..Len(window)) = IF 1 > Len(window) THEN 0 ELSE Len(window) - 1 + 1
      BY <3>1, FS_Interval
    <3> QED BY <3>1, <3>2
  <2>3. 100 * Len(window) >= (100 - percent_of_duration) * Len(window)
    <3>1. 100 - percent_of_duration \in 0..100
      BY PercentAssumption
    <3>2. \A a \in 0..100, b \in Nat : 100 * b >= a * b
      OBVIOUS
    <3> QED BY <1>5, <3>1, <3>2
  <2>4. IsWindowBad(window) = TRUE
    BY <2>1, <2>2, <2>3 DEF IsWindowBad
  <2> QED BY <1>4, <1>6, <1>8, <2>4 DEF Failing
<1> QED BY <1>7, <1>8

(* A window of nothing but good datapoints clears the SLO, one of nothing  *)
(* but bad ones fails it unless it was failing before the deploy, whatever *)
(* percentage the SLO asks for.                                            *)
THEOREM CleanDecides == Spec => []CleanWindowDecides
<1>1. IInv => CleanWindowDecides
  BY Clean DEF CleanWindowDecides
<1> QED BY <1>1, Invariant, PTL

(* Once the deploy has begun, an SLO that was bad before it is never again *)
(* blamed on it.                                                           *)
THEOREM PreexistingStaysIgnored == Spec => PreexistingIsIgnored
<1>1. ASSUME IInv, [Next]_vars, bad_before_mark = TRUE, After # {}
      PROVE  bad_before_mark' = TRUE /\ failing' # TRUE
  <2>1. ASSUME bad_before_mark' = TRUE, failing' = Failing(bad_after_mark', bad_before_mark')
        PROVE  failing' # TRUE
    BY <2>1 DEF Failing
  <2>2. CASE UNCHANGED vars
    BY <1>1, <2>1, <2>2 DEF vars, IInv
  <2>3. CASE NextDatapoint
    <3>1. PICK p \in Datapoints :
            (arrivals # <<>> => Last(arrivals).ts <= p.ts) /\ process_datapoint(p)
      BY <2>3 DEF NextDatapoint
    <3>2. PICK n \in 1..Len(arrivals) : arrivals[n].ts > start_timestamp
      BY <1>1 DEF After
    <3>3. arrivals \in Seq(Datapoints) /\ InOrder(arrivals) /\ Len(arrivals) \in Nat
      BY <1>1, LenProperties DEF IInv, TypeOK
    <3>4. Len(arrivals) \in 1..Len(arrivals) /\ arrivals # <<>> /\ n <= Len(arrivals)
      BY <3>2, <3>3, EmptySeq
    <3>5. arrivals[n].ts <= arrivals[Len(arrivals)].ts /\ arrivals[Len(arrivals)].ts <= p.ts
      BY <3>1, <3>3, <3>4 DEF InOrder, Last
    <3>6. \A q \in Datapoints : q.ts \in Int
      BY TimestampAssumption DEF Datapoints
    <3>7. p.ts > start_timestamp
      <4>1. /\ arrivals[n].ts \in Int /\ arrivals[Len(arrivals)].ts \in Int /\ p.ts \in Int
            /\ start_timestamp \in Int
        BY <3>3, <3>4, <3>6, ElementOfSeq, TimestampAssumption
      <4> QED BY <3>2, <3>5, <4>1
    <3> QED BY <1>1, <2>1, <3>1, <3>7 DEF process_datapoint
  <2> QED BY <1>1, <2>2, <2>3 DEF Next
<1> QED BY <1>1, Invariant, PTL DEF Spec, PreexistingIsIgnored

(* Whoever reads failing sees the verdict of SLOVerdict: it never returns  *)
(* to None, and the callback has run on every edge.                        *)
THEOREM ShowsVerdict == Spec => ImplementsVerdict
<1>1. Init => Verdict!Init
  BY DEF Init, Verdict!Init
<1>2. ASSUME IInv, IInv', [Next]_vars PROVE [Verdict!Datapoint]_<<failing, told>>
  <2>1. CASE UNCHANGED vars
    BY <2>1 DEF vars
  <2>2. CASE NextDatapoint
    <3>1. told' = (failing' = TRUE) /\ failing' \in BOOLEAN \cup {None}
      BY <1>2 DEF IInv, TypeOK
    <3>2. failing' = None => failing = None
      <4> SUFFICES ASSUME failing' = None PROVE failing = None
        OBVIOUS
      <4>1. PICK p \in Datapoints : process_datapoint(p)
        BY <2>2 DEF NextDatapoint
      <4>2. bad_after_mark' = None
        BY <1>2, NoneAssumption DEF IInv, TypeOK, Failing
      <4>3. IsWindowBad(Judged) \in BOOLEAN
        BY DEF IsWindowBad
      <4>4. bad_after_mark = None
        BY <4>1, <4>2, <4>3, NoneAssumption DEF process_datapoint
      <4> QED BY <1>2, <4>4, NoneAssumption DEF IInv, Failing
    <3> QED BY <3>1, <3>2 DEF Verdict!Datapoint, Verdict!FollowUps, Verdict!Verdicts
  <2> QED BY <1>2, <2>1, <2>2 DEF Next
<1> QED BY <1>1, <1>2, Invariant, PTL DEF Spec, ImplementsVerdict, Verdict!Spec, Verdict!verdictVars

(* Three SLOs, as in OtherWatcher's texts, are finitely many.              *)
LEMMA Three == IsFiniteSet(1..3) /\ Cardinality(1..3) = 3
<1> DEFINE n == 3
<1>1. 1 \in Int /\ n \in Int /\ ~(1 > n) /\ n - 1 + 1 = 3
  OBVIOUS
<1> HIDE DEF n
<1>2. IsFiniteSet(1..n) /\ Cardinality(1..n) = n - 1 + 1
  BY <1>1, FS_Interval
<1>3. IsFiniteSet(1..n) /\ Cardinality(1..n) = 3
  BY <1>1, <1>2
<1> QED BY <1>3 DEF n

(* What get_slo_text counts of three SLOs, U of them unknown and B bad     *)
(* before: never more than are neither, and fewer only if some are both.   *)
LEMMA Counts ==
  ASSUME NEW U, U \subseteq 1..3, NEW B, B \subseteq 1..3
  PROVE  LET remaining == Cardinality(1..3) - Cardinality(U) - Cardinality(B)
             counted   == IF remaining > 0 THEN remaining ELSE 0
             neither   == (1..3) \ (U \cup B)
         IN  /\ counted <= Cardinality(neither)
             /\ counted < Cardinality(neither) => U \cap B # {}
<1> DEFINE neither == (1..3) \ (U \cup B)
<1>1. IsFiniteSet(1..3)
  BY Three
<1>2. /\ IsFiniteSet(U) /\ IsFiniteSet(B) /\ IsFiniteSet(U \cup B)
      /\ IsFiniteSet(neither) /\ IsFiniteSet(U \cap B)
  BY <1>1, FS_Subset
<1>3. Cardinality(U \cup B) = Cardinality(U) + Cardinality(B) - Cardinality(U \cap B)
  BY <1>2, FS_Union
<1>4. Cardinality(1..3) = Cardinality(neither) + Cardinality(U \cup B)
  <2> DEFINE X == U \cup B
  <2>1. IsFiniteSet(X) /\ neither \cup X = 1..3 /\ neither \cap X = {}
    BY <1>2
  <2> HIDE DEF X, neither
  <2>2. Cardinality(neither \cup X)
          = Cardinality(neither) + Cardinality(X) - Cardinality(neither \cap X)
    BY <1>2, <2>1, FS_Union
  <2>3. Cardinality(neither) \in Nat /\ Cardinality(X) \in Nat /\ Cardinality({}) = 0
    BY <1>2, <2>1, FS_CardinalityType, FS_EmptySet
  <2>4. Cardinality(1..3) = Cardinality(neither) + Cardinality(X)
    <3>1. Cardinality(neither \cap X) = 0 /\ Cardinality(neither \cup X) = Cardinality(1..3)
      BY <2>1, <2>3
    <3> QED BY <2>2, <2>3, <3>1
  <2> QED BY <2>4 DEF X
<1>5. /\ Cardinality(U) \in Nat /\ Cardinality(B) \in Nat /\ Cardinality(U \cup B) \in Nat
      /\ Cardinality(neither) \in Nat /\ Cardinality(U \cap B) \in Nat
  BY <1>2, FS_CardinalityType
<1>6. U \cap B = {} => Cardinality(U \cap B) = 0
  BY FS_EmptySet
<1> HIDE DEF neither
<1>7. Cardinality(1..3) - Cardinality(U) - Cardinality(B)
        = Cardinality(neither) - Cardinality(U \cap B)
  BY <1>3, <1>4, <1>5
<1> QED BY <1>5, <1>6, <1>7 DEF neither

(* Beside any two other SLOs the text names this one as failing if and     *)
(* only if it is, and claims no more to pass than have been good on both   *)
(* sides of the mark.                                                      *)
LEMMA TextIsHonest ==
  ASSUME IInv, NEW v \in OtherWatcher, NEW w \in OtherWatcher
  PROVE  LET ws    == << [failing |-> failing, before |-> bad_before_mark,
                         after |-> bad_after_mark], v, w >>
             text  == Text!get_slo_text(ws)
             good  == /\ Before # {} /\ ~BadAt(Max(Before))
                      /\ After # {} /\ ~BadAt(Max(After))
             passing == {l \in {1} : good} \cup
                        {l \in {2, 3} : ws[l].before = FALSE /\ ws[l].after = FALSE}
         IN  /\ 1 \in text.failing <=> failing = TRUE
             /\ text.failing # {} => text.passing = 0
             /\ text.passing <= Cardinality(passing)
             /\ text.failing = {} /\ text.passing < Cardinality(passing) =>
                  text.unknown \cap text.ignored # {}
<1> DEFINE me    == [failing |-> failing, before |-> bad_before_mark, after |-> bad_after_mark]
           ws    == <<me, v, w>>
           text  == Text!get_slo_text(ws)
           good  == /\ Before # {} /\ ~BadAt(Max(Before))
                    /\ After # {} /\ ~BadAt(Max(After))
           passing == {l \in {1} : good} \cup
                      {l \in {2, 3} : ws[l].before = FALSE /\ ws[l].after = FALSE}
           U == Text!Unknown(ws)
           B == Text!BadBefore(ws)
           F == Text!Failing(ws)
<1>1. \A l \in 1..3 : /\ ws[l].before \in BOOLEAN \cup {None} /\ ws[l].after \in BOOLEAN \cup {None}
                      /\ ws[l].failing = Failing(ws[l].after, ws[l].before)
  <2>1. me.before = bad_before_mark /\ me.after = bad_after_mark /\ me.failing = failing
    OBVIOUS
  <2>2. ws[1] = me /\ ws[2] = v /\ ws[3] = w
    OBVIOUS
  <2>3. \A x \in OtherWatcher : /\ x.before \in BOOLEAN \cup {None} /\ x.after \in BOOLEAN \cup {None}
                                /\ x.failing = Failing(x.after, x.before)
    BY DEF OtherWatcher
  <2>4. /\ me.before \in BOOLEAN \cup {None} /\ me.after \in BOOLEAN \cup {None}
        /\ me.failing = Failing(me.after, me.before)
    BY <2>1 DEF IInv, TypeOK
  <2> HIDE DEF ws, me
  <2>5. ASSUME NEW l \in 1..3 PROVE ws[l] = me \/ ws[l] \in OtherWatcher
    BY <2>2
  <2> QED BY <2>3, <2>4, <2>5
<1>2. DOMAIN ws = 1..3 /\ ws[1].failing = failing
  OBVIOUS
<1>3. good <=> ws[1].before = FALSE /\ ws[1].after = FALSE
  <2>1. \A n : BadAt(n) \in BOOLEAN
    BY DEF BadAt
  <2>2. ws[1].before = bad_before_mark /\ ws[1].after = bad_after_mark
    OBVIOUS
  <2> QED BY <2>1, <2>2, NoneAssumption DEF IInv, MarksAgree
<1> HIDE DEF good
<1>4. passing = {l \in 1..3 : ws[l].before = FALSE /\ ws[l].after = FALSE}
  <2> HIDE DEF ws
  <2> QED BY <1>3
<1> HIDE DEF ws, passing
<1>5. /\ U = {l \in 1..3 : ws[l].before \notin BOOLEAN \/ ws[l].after \notin BOOLEAN}
      /\ B = {l \in 1..3 : ws[l].before = TRUE} /\ F = {l \in 1..3 : ws[l].failing = TRUE}
  BY <1>2 DEF Text!Unknown, Text!BadBefore, Text!Failing
<1>6. ASSUME F = {} PROVE passing = (1..3) \ (U \cup B)
  <2>1. ASSUME NEW l \in 1..3
        PROVE  ws[l].before = FALSE /\ ws[l].after = FALSE <=> l \notin U /\ l \notin B
    <3>1. ws[l].failing # TRUE
      BY <1>5, <1>6
    <3>2. ws[l].after = TRUE => ws[l].before = TRUE
      BY <1>1, <3>1 DEF Failing
    <3> QED BY <1>1, <1>5, <3>2
  <2> QED BY <1>4, <2>1, <1>5
<1>7. /\ U \subseteq 1..3 /\ B \subseteq 1..3
      /\ 1 \in F <=> failing = TRUE
  BY <1>2, <1>5
<1>8. CASE F # {}
  <2>1. text = [failing |-> F, unknown |-> {}, ignored |-> {}, passing |-> 0]
    BY <1>8 DEF Text!get_slo_text
  <2>2. Cardinality(passing) \in Nat
    <3>1. IsFiniteSet(1..3)
      BY Three
    <3>2. passing \subseteq 1..3
      BY <1>4
    <3> QED BY <3>1, <3>2, FS_Subset, FS_CardinalityType
  <2> HIDE DEF text, F, U, B
  <2>3. text.failing = F /\ text.passing = 0
    BY <2>1
  <2>4. 0 <= Cardinality(passing)
    BY <2>2
  <2>5. /\ 1 \in text.failing <=> failing = TRUE
        /\ text.failing # {} /\ text.passing = 0 /\ text.passing <= Cardinality(passing)
    BY <1>7, <1>8, <2>3, <2>4
  <2> QED BY <2>5 DEF text, passing, ws, good
<1>9. CASE F = {}
  <2> DEFINE remaining == Cardinality(1..3) - Cardinality(U) - Cardinality(B)
             counted   == IF remaining > 0 THEN remaining ELSE 0
  <2>1. text = [failing |-> {}, unknown |-> U, ignored |-> B, passing |-> counted]
    <3>1. \A S : Text!Cardinality(S) = Cardinality(S)
      BY DEF Text!Cardinality, Cardinality
    <3> HIDE DEF U, B
    <3>2. Text!Remaining(ws) = remaining
      BY <1>2, <3>1 DEF Text!Remaining, U, B
    <3> QED BY <1>9, <3>2 DEF Text!get_slo_text, U, B
  <2>2. /\ counted <= Cardinality(passing)
        /\ counted < Cardinality(passing) => U \cap B # {}
    <3>1. LET neither == (1..3) \ (U \cup B)
          IN  /\ counted <= Cardinality(neither)
              /\ counted < Cardinality(neither) => U \cap B # {}
      <4> HIDE DEF U, B
      <4> QED BY <1>7, Counts
    <3>2. passing = (1..3) \ (U \cup B)
      BY <1>6, <1>9
    <3> QED BY <3>1, <3>2
  <2> HIDE DEF text, F, U, B, counted
  <2>3. text.failing = {} /\ text.passing = counted /\ text.unknown = U /\ text.ignored = B
    BY <2>1
  <2>4. /\ 1 \in text.failing <=> failing = TRUE
        /\ text.failing = {} /\ text.passing <= Cardinality(passing)
        /\ text.passing < Cardinality(passing) => text.unknown \cap text.ignored # {}
    BY <1>7, <1>9, <2>2, <2>3
  <2> QED BY <2>4 DEF text, passing, ws, good
<1> QED BY <1>8, <1>9

(* The text of a deployment never claims a failing SLO to pass nor counts  *)
(* more SLOs as passing than there are (base.py, get_slo_text).            *)
THEOREM TextIsTrue == Spec => []TextNeverOverclaims
<1>1. IInv => TextNeverOverclaims
  BY TextIsHonest DEF TextNeverOverclaims
<1> QED BY <1>1, Invariant, PTL
=============================================================================
