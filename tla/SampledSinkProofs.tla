------------------------ MODULE SampledSinkProofs ------------------------
(***************************************************************************)
(* Proofs, for every set of goroutines and fingerprints and every policy,  *)
(* of the safety properties of SampledSink.                                *)
(***************************************************************************)
EXTENDS SampledSink, TLAPS

USE SentinelAssumption, PolicyAssumption, BoundAssumption

LEMMA NothingType == Nothing \in [win : Time, n : Nat]
BY DEF Nothing, Time

\* Nothing has happened yet: the invariant holds initially.
LEMMA InitIndInv == Init => IndInv
<1> SUFFICES ASSUME Init PROVE IndInv
    OBVIOUS
<1>1. TypeOK
    BY NothingType DEF Init, TypeOK, Time
<1>2. MutexInv /\ CallInv
    BY DEF Init, MutexInv, CallInv
<1>3. NoBucketInv /\ BucketInv
    BY DEF Init, NoBucketInv, BucketInv
<1>4. CarryInv /\ ClosedInv
    BY DEF Init, CarryInv, ClosedInv, Carries
<1>5. BurstPerWindow /\ WindowsSpaced /\ DropOnlyWhenFull
    BY DEF Init, BurstPerWindow, WindowsSpaced, DropOnlyWhenFull
<1> QED
    BY <1>1, <1>2, <1>3, <1>4, <1>5 DEF IndInv

\* A bucket in the map is a bucket, whose window started at some instant.
LEMMA BucketType ==
    ASSUME TypeOK, NEW f \in Fps, buckets[f] # NoBucket
    PROVE  /\ buckets[f] \in Bucket
           /\ buckets[f].start \in Time /\ buckets[f].count \in Nat /\ buckets[f].dropped \in Nat
BY DEF TypeOK, Bucket

\* Steps that touch neither the map nor the history keep everything said of
\* them, provided they start or end no delivery.
LEMMA QuietStep ==
    ASSUME IndInv, TypeOK', MutexInv', CallInv',
           UNCHANGED <<buckets, charged, droppedIn, surfaced>>,
           \A e \in Emitters, f \in Fps, w \in Time : Carries(e, f, w)' <=> Carries(e, f, w),
           \A e \in Emitters, f \in Fps, w \in Time : Carries(e, f, w) => carry'[e] = carry[e]
    PROVE  IndInv'
<1>1. NoBucketInv'
    BY DEF IndInv, NoBucketInv
<1>2. BucketInv'
    BY DEF IndInv, BucketInv
<1>3. CarryInv'
    BY DEF IndInv, CarryInv
<1>4. ClosedInv'
    BY DEF IndInv, ClosedInv
<1>5. BurstPerWindow' /\ WindowsSpaced' /\ DropOnlyWhenFull'
    BY DEF IndInv, BurstPerWindow, WindowsSpaced, DropOnlyWhenFull
<1> QED
    BY <1>1, <1>2, <1>3, <1>4, <1>5 DEF IndInv

LEMMA TickStep == IndInv /\ Tick => IndInv'
<1> SUFFICES ASSUME IndInv, Tick PROVE IndInv'
    OBVIOUS
<1>1. TypeOK'
    <2>1. clock' \in Time
        BY DEF IndInv, TypeOK, Tick, Time
    <2> QED
        BY <2>1 DEF IndInv, TypeOK, Tick, code
<1>2. MutexInv' /\ CallInv'
    BY DEF IndInv, TypeOK, MutexInv, CallInv, Tick, code, Time
<1> QED
    BY <1>1, <1>2, QuietStep DEF Tick, code, Carries

LEMMA PassThroughStep ==
    ASSUME IndInv, NEW e \in Emitters, NEW f \in Fps, PassThrough(e, f)
    PROVE  IndInv'
<1>1. TypeOK'
    BY NothingType DEF IndInv, TypeOK, PassThrough
<1>2. MutexInv' /\ CallInv'
    BY DEF IndInv, TypeOK, MutexInv, CallInv, PassThrough
<1>3. \A d \in Emitters, g \in Fps, w \in Time : Carries(d, g, w)' <=> Carries(d, g, w)
    BY DEF IndInv, TypeOK, PassThrough, Carries, Nothing
<1>4. \A d \in Emitters, g \in Fps, w \in Time : Carries(d, g, w) => carry'[d] = carry[d]
    BY DEF IndInv, TypeOK, PassThrough, Carries
<1> QED
    BY <1>1, <1>2, <1>3, <1>4, QuietStep DEF PassThrough

LEMMA ReadClockStep ==
    ASSUME IndInv, NEW e \in Emitters, NEW f \in Fps, ReadClock(e, f)
    PROVE  IndInv'
<1>1. TypeOK'
    BY DEF IndInv, TypeOK, ReadClock
<1>2. MutexInv' /\ CallInv'
    <2>1. \A d \in Emitters : t'[d] <= clock'
        BY DEF IndInv, TypeOK, CallInv, ReadClock, Time
    <2> QED
        BY <2>1 DEF IndInv, TypeOK, MutexInv, CallInv, ReadClock
<1>3. \A d \in Emitters, g \in Fps, w \in Time : Carries(d, g, w)' <=> Carries(d, g, w)
    BY DEF IndInv, TypeOK, ReadClock, Carries
<1> QED
    BY <1>1, <1>2, <1>3, QuietStep DEF ReadClock

LEMMA LockStep ==
    ASSUME IndInv, NEW e \in Emitters, Lock(e)
    PROVE  IndInv'
<1>1. TypeOK'
    BY DEF IndInv, TypeOK, Lock, CallInv
<1>2. MutexInv' /\ CallInv'
    BY DEF IndInv, TypeOK, MutexInv, CallInv, Lock, Free
<1>3. \A d \in Emitters, g \in Fps, w \in Time : Carries(d, g, w)' <=> Carries(d, g, w)
    BY DEF IndInv, TypeOK, Lock, Carries
<1> QED
    BY <1>1, <1>2, <1>3, QuietStep DEF Lock

\* Opening a window closes the previous one and hands its drops to e.
LEMMA OpenWindowStep ==
    ASSUME IndInv, NEW e \in Emitters, OpenWindow(e)
    PROVE  IndInv'
<1> DEFINE f == fp[e]
           s == t[e]
           old == buckets[f]
<1>0. /\ f \in Fps /\ s \in Time /\ Limited(f) /\ mu = e /\ seen[e] = old /\ pc[e] = "decide"
      /\ Burst >= 1 /\ Window >= 1
    BY DEF IndInv, TypeOK, OpenWindow, CallInv, MutexInv, Limited
<1>1. old # NoBucket =>
        /\ old.start \in Time /\ old.count \in Nat /\ old.dropped \in Nat
        /\ s - old.start >= Window /\ old.start < s
    BY <1>0, BucketType DEF IndInv, OpenWindow, Expired, Time
<1>2. /\ buckets' = [buckets EXCEPT ![f] = [start |-> s, count |-> 1, dropped |-> 0]]
      /\ charged' = [charged EXCEPT ![f][s] = @ + 1]
      /\ carry' = [carry EXCEPT ![e] = PrevDropped(old)]
      /\ pc' = [pc EXCEPT ![e] = "forward"] /\ mu' = Nobody
      /\ UNCHANGED <<clock, fp, t, seen, droppedIn, surfaced>>
    BY <1>0 DEF OpenWindow
<1> HIDE DEF f, s, old
<1>3. TypeOK'
    <2>1. [start |-> s, count |-> 1, dropped |-> 0] \in Bucket
        BY <1>0 DEF Bucket
    <2>2. PrevDropped(old) \in [win : Time, n : Nat]
        BY <1>1, NothingType DEF PrevDropped
    <2> QED
        BY <1>0, <1>2, <2>1, <2>2 DEF IndInv, TypeOK, OpenWindow
<1>4. MutexInv' /\ CallInv'
    BY <1>0, <1>2 DEF IndInv, TypeOK, MutexInv, CallInv
<1>5. /\ buckets'[f] = [start |-> s, count |-> 1, dropped |-> 0] /\ buckets'[f] # NoBucket
      /\ \A g \in Fps \ {f} : buckets'[g] = buckets[g] /\ charged'[g] = charged[g]
      /\ charged'[f][s] = charged[f][s] + 1
      /\ \A w \in Time : w # s => charged'[f][w] = charged[f][w]
    BY <1>0, <1>2 DEF IndInv, TypeOK, Bucket
\* Before this step f had no history at s or later, and is spaced before it.
<1>6. /\ \A w \in Time : w >= s => charged[f][w] = 0 /\ droppedIn[f][w] = 0 /\ surfaced[f][w] = 0
      /\ \A w \in Time : w < s /\ charged[f][w] > 0 => s - w >= Window
    <2>1. CASE old = NoBucket
        BY <1>0, <2>1 DEF IndInv, NoBucketInv, old
    <2>2. CASE old # NoBucket
        <3>1. /\ \A w \in Time : w > old.start =>
                    charged[f][w] = 0 /\ droppedIn[f][w] = 0 /\ surfaced[f][w] = 0
              /\ \A w \in Time : w < old.start /\ charged[f][w] > 0 => old.start - w >= Window
            BY <1>0, <2>2 DEF IndInv, BucketInv, old
        <3>2. ASSUME NEW w \in Time, w < s, charged[f][w] > 0
              PROVE  s - w >= Window
            <4>1. w = old.start \/ w < old.start
                BY <1>0, <1>1, <2>2, <3>1, <3>2 DEF Time
            <4> QED
                BY <1>0, <1>1, <2>2, <3>1, <3>2, <4>1 DEF Time
        <3> QED
            BY <1>0, <1>1, <2>2, <3>1, <3>2 DEF Time
    <2> QED
        BY <2>1, <2>2
<1>7. NoBucketInv'
    BY <1>2, <1>5 DEF IndInv, NoBucketInv
<1>8. BucketInv'
    <2> SUFFICES ASSUME NEW g \in Fps, buckets'[g] # NoBucket
                 PROVE  LET b == buckets'[g]
                        IN  /\ Limited(g)
                            /\ charged'[g][b.start] = b.count /\ b.count \in 1 .. Burst
                            /\ droppedIn'[g][b.start] = b.dropped /\ surfaced'[g][b.start] = 0
                            /\ b.dropped > 0 => b.count = Burst
                            /\ \A w \in Time : w > b.start =>
                                charged'[g][w] = 0 /\ droppedIn'[g][w] = 0 /\ surfaced'[g][w] = 0
                            /\ \A w \in Time : w < b.start /\ charged'[g][w] > 0 => b.start - w >= Window
        BY DEF BucketInv, Limited
    <2>1. CASE g = f
        BY <1>0, <1>2, <1>5, <1>6, <2>1 DEF Time
    <2>2. CASE g # f
        BY <1>2, <1>5, <2>2 DEF IndInv, BucketInv
    <2> QED
        BY <2>1, <2>2
<1>9. BurstPerWindow' /\ WindowsSpaced' /\ DropOnlyWhenFull'
    <2>1. BurstPerWindow'
        BY <1>0, <1>5, <1>6 DEF IndInv, BurstPerWindow, Time
    <2>2. WindowsSpaced'
        <3> SUFFICES ASSUME NEW g \in Fps, NEW w1 \in Time, NEW w2 \in Time,
                            charged'[g][w1] > 0, charged'[g][w2] > 0, w1 < w2
                     PROVE  w2 - w1 >= Window
            BY DEF WindowsSpaced
        <3>1. CASE g # f
            BY <1>5, <3>1 DEF IndInv, WindowsSpaced
        <3>2. CASE g = f /\ w1 # s /\ w2 # s
            BY <1>5, <3>2 DEF IndInv, WindowsSpaced
        <3>3. CASE g = f /\ w1 = s
            BY <1>0, <1>5, <1>6, <3>3 DEF Time
        <3>4. CASE g = f /\ w2 = s
            BY <1>0, <1>5, <1>6, <3>4 DEF Time
        <3> QED
            BY <3>1, <3>2, <3>3, <3>4
    <2>3. DropOnlyWhenFull'
        BY <1>0, <1>2, <1>5, <1>6 DEF IndInv, DropOnlyWhenFull, Time
    <2> QED
        BY <2>1, <2>2, <2>3
\* e now carries the drops of the closed window, if any; nobody else did.
<1>10. \A d \in Emitters, g \in Fps, w \in Time :
        Carries(d, g, w)' <=> \/ d # e /\ Carries(d, g, w)
                              \/ d = e /\ g = f /\ old # NoBucket /\ w = old.start /\ old.dropped > 0
    <2>1. pc'[e] = "forward" /\ fp'[e] = f /\ carry'[e] = PrevDropped(old)
        BY <1>2 DEF IndInv, TypeOK, f
    <2>2. carry'[e].n > 0 <=> old # NoBucket /\ old.dropped > 0
        BY <1>1, <2>1 DEF PrevDropped, Nothing
    <2>3. old # NoBucket => carry'[e].win = old.start
        BY <2>1 DEF PrevDropped
    <2>4. \A d \in Emitters \ {e} : pc'[d] = pc[d] /\ fp'[d] = fp[d] /\ carry'[d] = carry[d]
        BY <1>2 DEF IndInv, TypeOK
    <2> QED
        BY <2>1, <2>2, <2>3, <2>4 DEF Carries
<1>11. ~\E g \in Fps, w \in Time : Carries(e, g, w)
    BY <1>0 DEF Carries
<1>12. old # NoBucket =>
        /\ droppedIn[f][old.start] = old.dropped /\ surfaced[f][old.start] = 0
        /\ \A d \in Emitters : ~Carries(d, f, old.start)
    BY <1>0, <1>1 DEF IndInv, BucketInv, CarryInv, Time, old
<1>13. CarryInv'
    <2> SUFFICES ASSUME NEW d \in Emitters, NEW g \in Fps, NEW w \in Time, Carries(d, g, w)'
                 PROVE  /\ buckets'[g] # NoBucket /\ w < buckets'[g].start
                        /\ carry'[d].n = droppedIn'[g][w] /\ surfaced'[g][w] = 0
                        /\ \A c \in Emitters : Carries(c, g, w)' => c = d
        BY DEF CarryInv
    <2>1. CASE d = e
        <3>1. g = f /\ old # NoBucket /\ w = old.start /\ carry'[d].n = old.dropped
            BY <1>2, <1>10, <2>1 DEF IndInv, TypeOK, PrevDropped
        <3> QED
            BY <1>1, <1>2, <1>5, <1>10, <1>12, <2>1, <3>1
    <2>2. CASE d # e
        <3>1. /\ Carries(d, g, w) /\ buckets[g] # NoBucket /\ w < buckets[g].start
              /\ carry[d].n = droppedIn[g][w] /\ surfaced[g][w] = 0
              /\ \A c \in Emitters : Carries(c, g, w) => c = d
            BY <1>10, <2>2 DEF IndInv, CarryInv
        <3>2. carry'[d] = carry[d]
            BY <1>2, <2>2 DEF IndInv, TypeOK
        <3>3. \A c \in Emitters : Carries(c, g, w)' => c = d
            BY <1>10, <1>12, <3>1
        <3>4. buckets'[g] # NoBucket /\ w < buckets'[g].start
            BY <1>0, <1>1, <1>5, <3>1 DEF Time, old
        <3> QED
            BY <1>2, <3>1, <3>2, <3>3, <3>4
    <2> QED
        BY <2>1, <2>2
<1>14. ClosedInv'
    <2> SUFFICES ASSUME NEW g \in Fps, NEW w \in Time, buckets'[g] # NoBucket, w < buckets'[g].start,
                        \A d \in Emitters : ~Carries(d, g, w)'
                 PROVE  surfaced'[g][w] = droppedIn'[g][w]
        BY DEF ClosedInv
    <2>1. \A d \in Emitters : ~Carries(d, g, w)
        BY <1>10, <1>11
    <2>2. CASE g # f
        BY <1>2, <1>5, <2>1, <2>2 DEF IndInv, ClosedInv
    <2>3. CASE g = f /\ old = NoBucket
        BY <1>2, <2>3 DEF IndInv, NoBucketInv, old
    <2>4. CASE g = f /\ old # NoBucket /\ w < old.start
        BY <1>2, <2>1, <2>4 DEF IndInv, ClosedInv, old
    <2>5. CASE g = f /\ old # NoBucket /\ w = old.start
        BY <1>1, <1>2, <1>10, <1>12, <2>5
    <2>6. CASE g = f /\ old # NoBucket /\ w > old.start
        BY <1>2, <2>6 DEF IndInv, BucketInv, old
    <2> QED
        BY <1>1, <2>2, <2>3, <2>4, <2>5, <2>6 DEF Time
<1> QED
    BY <1>3, <1>4, <1>7, <1>8, <1>9, <1>13, <1>14 DEF IndInv

\* Facts shared by the two steps that write the bucket they found back.
LEMMA InWindow ==
    ASSUME IndInv, NEW e \in Emitters, pc[e] = "decide", ~Expired(seen[e], t[e])
    PROVE  /\ fp[e] \in Fps /\ mu = e /\ seen[e] = buckets[fp[e]]
           /\ Limited(fp[e]) /\ Burst >= 1
           /\ buckets[fp[e]] # NoBucket /\ buckets[fp[e]] \in Bucket
           /\ charged[fp[e]][seen[e].start] = seen[e].count /\ seen[e].count \in 1 .. Burst
           /\ droppedIn[fp[e]][seen[e].start] = seen[e].dropped
           /\ surfaced[fp[e]][seen[e].start] = 0
           /\ seen[e].dropped > 0 => seen[e].count = Burst
<1>1. fp[e] \in Fps /\ mu = e /\ seen[e] = buckets[fp[e]] /\ Limited(fp[e])
    BY DEF IndInv, CallInv, MutexInv
<1>2. buckets[fp[e]] # NoBucket
    BY <1>1 DEF Expired
<1> QED
    BY <1>1, <1>2, BucketType DEF IndInv, BucketInv, Limited

LEMMA AdmitStep ==
    ASSUME IndInv, NEW e \in Emitters, Admit(e)
    PROVE  IndInv'
<1> DEFINE f == fp[e]
           b == seen[e]
<1>0. /\ f \in Fps /\ mu = e /\ b = buckets[f] /\ pc[e] = "decide" /\ Limited(f) /\ Burst >= 1
      /\ b # NoBucket /\ b \in Bucket /\ b.start \in Time /\ b.count \in Nat /\ b.dropped \in Nat
      /\ charged[f][b.start] = b.count /\ b.count < Burst /\ b.count >= 1
      /\ droppedIn[f][b.start] = b.dropped /\ surfaced[f][b.start] = 0 /\ b.dropped = 0
    BY InWindow DEF Admit, HasRoom, Bucket
<1>1. /\ buckets' = [buckets EXCEPT ![f] = [b EXCEPT !.count = b.count + 1]]
      /\ charged' = [charged EXCEPT ![f][b.start] = @ + 1]
      /\ carry' = [carry EXCEPT ![e] = Nothing]
      /\ pc' = [pc EXCEPT ![e] = "forward"] /\ mu' = Nobody
      /\ UNCHANGED <<clock, fp, t, seen, droppedIn, surfaced>>
    BY DEF Admit
<1> HIDE DEF f, b
<1>2. TypeOK'
    <2>1. [b EXCEPT !.count = b.count + 1] \in Bucket
        BY <1>0 DEF Bucket
    <2> QED
        BY <1>0, <1>1, <2>1, NothingType DEF IndInv, TypeOK
<1>3. MutexInv' /\ CallInv'
    BY <1>0, <1>1 DEF IndInv, TypeOK, MutexInv, CallInv
<1>4. /\ buckets'[f] # NoBucket /\ buckets'[f].start = b.start
      /\ buckets'[f].count = b.count + 1 /\ buckets'[f].dropped = 0
      /\ \A g \in Fps \ {f} : buckets'[g] = buckets[g] /\ charged'[g] = charged[g]
      /\ charged'[f][b.start] = b.count + 1
      /\ \A w \in Time : w # b.start => charged'[f][w] = charged[f][w]
    <2>1. [b EXCEPT !.count = b.count + 1] \in Bucket
        BY <1>0 DEF Bucket
    <2> QED
        BY <1>0, <1>1, <2>1 DEF IndInv, TypeOK, Bucket
<1>5. NoBucketInv'
    BY <1>1, <1>4 DEF IndInv, NoBucketInv
<1>6. BucketInv'
    <2> SUFFICES ASSUME NEW g \in Fps, buckets'[g] # NoBucket
                 PROVE  LET c == buckets'[g]
                        IN  /\ Limited(g)
                            /\ charged'[g][c.start] = c.count /\ c.count \in 1 .. Burst
                            /\ droppedIn'[g][c.start] = c.dropped /\ surfaced'[g][c.start] = 0
                            /\ c.dropped > 0 => c.count = Burst
                            /\ \A w \in Time : w > c.start =>
                                charged'[g][w] = 0 /\ droppedIn'[g][w] = 0 /\ surfaced'[g][w] = 0
                            /\ \A w \in Time : w < c.start /\ charged'[g][w] > 0 => c.start - w >= Window
        BY DEF BucketInv, Limited
    <2>1. CASE g = f
        <3>1. /\ \A w \in Time : w > b.start =>
                    charged[f][w] = 0 /\ droppedIn[f][w] = 0 /\ surfaced[f][w] = 0
              /\ \A w \in Time : w < b.start /\ charged[f][w] > 0 => b.start - w >= Window
            BY <1>0 DEF IndInv, BucketInv
        <3> QED
            BY <1>0, <1>1, <1>4, <2>1, <3>1 DEF Time
    <2>2. CASE g # f
        BY <1>1, <1>4, <2>2 DEF IndInv, BucketInv
    <2> QED
        BY <2>1, <2>2
<1>7. BurstPerWindow' /\ WindowsSpaced' /\ DropOnlyWhenFull'
    <2>1. BurstPerWindow'
        BY <1>0, <1>4 DEF IndInv, BurstPerWindow
    <2>2. \A g \in Fps, w \in Time : charged'[g][w] > 0 => charged[g][w] > 0
        BY <1>0, <1>4
    <2>3. WindowsSpaced'
        BY <2>2 DEF IndInv, WindowsSpaced
    <2>4. DropOnlyWhenFull'
        BY <1>0, <1>1, <1>4 DEF IndInv, DropOnlyWhenFull
    <2> QED
        BY <2>1, <2>3, <2>4
<1>8. \A d \in Emitters, g \in Fps, w \in Time : Carries(d, g, w)' <=> Carries(d, g, w)
    <2>1. ~\E g \in Fps, w \in Time : Carries(e, g, w) \/ Carries(e, g, w)'
        BY <1>0, <1>1 DEF IndInv, TypeOK, Carries, Nothing
    <2>2. \A d \in Emitters \ {e} : pc'[d] = pc[d] /\ fp'[d] = fp[d] /\ carry'[d] = carry[d]
        BY <1>1 DEF IndInv, TypeOK
    <2> QED
        BY <2>1, <2>2 DEF Carries
<1>9. \A g \in Fps : buckets[g] # NoBucket <=> buckets'[g] # NoBucket
    BY <1>0, <1>4
<1>10. \A g \in Fps : buckets[g] # NoBucket => buckets'[g].start = buckets[g].start
    BY <1>0, <1>4
<1>11. CarryInv'
    <2>1. \A d \in Emitters, g \in Fps, w \in Time : Carries(d, g, w) => carry'[d] = carry[d]
        BY <1>0, <1>1 DEF IndInv, TypeOK, Carries
    <2> QED
        BY <1>1, <1>8, <1>9, <1>10, <2>1 DEF IndInv, CarryInv
<1>12. ClosedInv'
    BY <1>1, <1>8, <1>9, <1>10 DEF IndInv, ClosedInv
<1> QED
    BY <1>2, <1>3, <1>5, <1>6, <1>7, <1>11, <1>12 DEF IndInv

LEMMA DropStep ==
    ASSUME IndInv, NEW e \in Emitters, Drop(e)
    PROVE  IndInv'
<1> DEFINE f == fp[e]
           b == seen[e]
<1>0. /\ f \in Fps /\ mu = e /\ b = buckets[f] /\ pc[e] = "decide" /\ Limited(f) /\ Burst >= 1
      /\ b # NoBucket /\ b \in Bucket /\ b.start \in Time /\ b.count \in Nat /\ b.dropped \in Nat
      /\ charged[f][b.start] = b.count /\ b.count = Burst
      /\ droppedIn[f][b.start] = b.dropped /\ surfaced[f][b.start] = 0
    BY InWindow DEF Drop, HasRoom, Bucket
<1>1. /\ buckets' = [buckets EXCEPT ![f] = [b EXCEPT !.dropped = b.dropped + 1]]
      /\ droppedIn' = [droppedIn EXCEPT ![f][b.start] = @ + 1]
      /\ pc' = [pc EXCEPT ![e] = "idle"] /\ mu' = Nobody
      /\ UNCHANGED <<clock, fp, t, seen, carry, charged, surfaced>>
    BY DEF Drop, MuAfterDrop
<1> HIDE DEF f, b
<1>2. TypeOK'
    <2>1. [b EXCEPT !.dropped = b.dropped + 1] \in Bucket
        BY <1>0 DEF Bucket
    <2> QED
        BY <1>0, <1>1, <2>1 DEF IndInv, TypeOK
<1>3. MutexInv' /\ CallInv'
    BY <1>0, <1>1 DEF IndInv, TypeOK, MutexInv, CallInv
<1>4. /\ buckets'[f] # NoBucket /\ buckets'[f].start = b.start
      /\ buckets'[f].count = Burst /\ buckets'[f].dropped = b.dropped + 1
      /\ \A g \in Fps \ {f} : buckets'[g] = buckets[g] /\ droppedIn'[g] = droppedIn[g]
      /\ droppedIn'[f][b.start] = b.dropped + 1
      /\ \A w \in Time : w # b.start => droppedIn'[f][w] = droppedIn[f][w]
    <2>1. [b EXCEPT !.dropped = b.dropped + 1] \in Bucket
        BY <1>0 DEF Bucket
    <2> QED
        BY <1>0, <1>1, <2>1 DEF IndInv, TypeOK, Bucket
<1>5. NoBucketInv'
    BY <1>1, <1>4 DEF IndInv, NoBucketInv
<1>6. BucketInv'
    <2> SUFFICES ASSUME NEW g \in Fps, buckets'[g] # NoBucket
                 PROVE  LET c == buckets'[g]
                        IN  /\ Limited(g)
                            /\ charged'[g][c.start] = c.count /\ c.count \in 1 .. Burst
                            /\ droppedIn'[g][c.start] = c.dropped /\ surfaced'[g][c.start] = 0
                            /\ c.dropped > 0 => c.count = Burst
                            /\ \A w \in Time : w > c.start =>
                                charged'[g][w] = 0 /\ droppedIn'[g][w] = 0 /\ surfaced'[g][w] = 0
                            /\ \A w \in Time : w < c.start /\ charged'[g][w] > 0 => c.start - w >= Window
        BY DEF BucketInv, Limited
    <2>1. CASE g = f
        <3>1. /\ \A w \in Time : w > b.start =>
                    charged[f][w] = 0 /\ droppedIn[f][w] = 0 /\ surfaced[f][w] = 0
              /\ \A w \in Time : w < b.start /\ charged[f][w] > 0 => b.start - w >= Window
            BY <1>0 DEF IndInv, BucketInv
        <3> QED
            BY <1>0, <1>1, <1>4, <2>1, <3>1 DEF Time
    <2>2. CASE g # f
        BY <1>1, <1>4, <2>2 DEF IndInv, BucketInv
    <2> QED
        BY <2>1, <2>2
<1>7. BurstPerWindow' /\ WindowsSpaced' /\ DropOnlyWhenFull'
    <2>1. BurstPerWindow' /\ WindowsSpaced'
        BY <1>1 DEF IndInv, BurstPerWindow, WindowsSpaced
    <2>2. DropOnlyWhenFull'
        BY <1>0, <1>1, <1>4 DEF IndInv, DropOnlyWhenFull, Limited
    <2> QED
        BY <2>1, <2>2
<1>8. \A d \in Emitters, g \in Fps, w \in Time : Carries(d, g, w)' <=> Carries(d, g, w)
    BY <1>0, <1>1 DEF IndInv, TypeOK, Carries
<1>9. \A g \in Fps : buckets[g] # NoBucket <=> buckets'[g] # NoBucket
    BY <1>0, <1>4
<1>10. \A g \in Fps : buckets[g] # NoBucket => buckets'[g].start = buckets[g].start
    BY <1>0, <1>4
\* The drop is charged to the open window, and counts travel from closed ones.
<1>11. \A g \in Fps, w \in Time : w < buckets[g].start => droppedIn'[g][w] = droppedIn[g][w]
    BY <1>0, <1>4 DEF Time
<1>12. CarryInv'
    BY <1>1, <1>8, <1>9, <1>10, <1>11 DEF IndInv, CarryInv
<1>13. ClosedInv'
    BY <1>1, <1>8, <1>9, <1>10, <1>11 DEF IndInv, ClosedInv
<1> QED
    BY <1>2, <1>3, <1>5, <1>6, <1>7, <1>12, <1>13 DEF IndInv

LEMMA DeliverStep ==
    ASSUME IndInv, NEW e \in Emitters, Deliver(e)
    PROVE  IndInv'
<1> DEFINE f == fp[e]
           k == carry[e]
<1>0. f \in Fps /\ k.win \in Time /\ k.n \in Nat /\ pc[e] = "forward"
    BY DEF IndInv, TypeOK, CallInv, Deliver
<1>1. /\ pc' = [pc EXCEPT ![e] = "idle"]
      /\ UNCHANGED <<clock, mu, buckets, fp, t, seen, carry, charged, droppedIn>>
      /\ k.n > 0 => surfaced' = [surfaced EXCEPT ![f][k.win] = @ + k.n]
      /\ ~(k.n > 0) => surfaced' = surfaced
    BY DEF Deliver
<1> HIDE DEF f, k
<1>2. TypeOK'
    <2>1. surfaced' \in [Fps -> [Time -> Nat]]
        <3>1. CASE k.n > 0
            <4>1. surfaced \in [Fps -> [Time -> Nat]]
                BY DEF IndInv, TypeOK
            <4>2. surfaced[f][k.win] + k.n \in Nat
                BY <1>0, <4>1
            <4> QED
                BY <1>0, <1>1, <3>1, <4>1, <4>2
        <3>2. CASE ~(k.n > 0)
            BY <1>1, <3>2 DEF IndInv, TypeOK
        <3> QED
            BY <3>1, <3>2
    <2> QED
        BY <1>0, <1>1, <2>1 DEF IndInv, TypeOK
<1>3. MutexInv' /\ CallInv'
    BY <1>0, <1>1 DEF IndInv, TypeOK, MutexInv, CallInv
<1>4. \A d \in Emitters, g \in Fps, w \in Time : Carries(d, g, w)' <=> d # e /\ Carries(d, g, w)
    BY <1>0, <1>1 DEF IndInv, TypeOK, Carries
<1>5. \A g \in Fps, w \in Time : ~Carries(e, g, w) => surfaced'[g][w] = surfaced[g][w]
    BY <1>0, <1>1 DEF IndInv, TypeOK, Carries, f, k
<1>6. \A g \in Fps, w \in Time : Carries(e, g, w) =>
        /\ surfaced'[g][w] = droppedIn[g][w] /\ buckets[g] # NoBucket /\ w < buckets[g].start
        /\ \A d \in Emitters : Carries(d, g, w) => d = e
    <2> SUFFICES ASSUME NEW g \in Fps, NEW w \in Time, Carries(e, g, w)
                 PROVE  /\ surfaced'[g][w] = droppedIn[g][w]
                        /\ buckets[g] # NoBucket /\ w < buckets[g].start
                        /\ \A d \in Emitters : Carries(d, g, w) => d = e
        OBVIOUS
    <2>1. g = f /\ w = k.win /\ k.n > 0
        BY DEF Carries, f, k
    <2>2. k.n = droppedIn[g][w] /\ surfaced[g][w] = 0
        BY DEF IndInv, CarryInv, k
    <2>3. surfaced'[g][w] = surfaced[g][w] + k.n
        BY <1>0, <1>1, <2>1 DEF IndInv, TypeOK
    <2> QED
        BY <1>0, <2>2, <2>3 DEF IndInv, CarryInv
<1>7. NoBucketInv'
    BY <1>1, <1>5, <1>6 DEF IndInv, NoBucketInv
<1>8. BucketInv'
    <2>1. \A g \in Fps : buckets[g] # NoBucket =>
            \A w \in Time : w >= buckets[g].start => surfaced'[g][w] = surfaced[g][w]
        BY <1>5, <1>6, BucketType DEF IndInv, Time
    <2>2. \A g \in Fps : buckets[g] # NoBucket =>
            /\ surfaced'[g][buckets[g].start] = 0
            /\ \A w \in Time : w > buckets[g].start => surfaced'[g][w] = 0
        BY <2>1, BucketType DEF IndInv, BucketInv, Time
    <2> QED
        BY <1>1, <2>2 DEF IndInv, BucketInv
<1>9. BurstPerWindow' /\ WindowsSpaced' /\ DropOnlyWhenFull'
    BY <1>1 DEF IndInv, BurstPerWindow, WindowsSpaced, DropOnlyWhenFull
<1>10. CarryInv'
    BY <1>1, <1>4, <1>5, <1>6 DEF IndInv, CarryInv
<1>11. ClosedInv'
    BY <1>1, <1>4, <1>5, <1>6 DEF IndInv, ClosedInv
<1> QED
    BY <1>2, <1>3, <1>7, <1>8, <1>9, <1>10, <1>11 DEF IndInv

LEMMA StutterStep == IndInv /\ UNCHANGED vars => IndInv'
<1> SUFFICES ASSUME IndInv, UNCHANGED vars PROVE IndInv'
    OBVIOUS
<1>1. TypeOK' /\ MutexInv' /\ CallInv'
    BY DEF IndInv, TypeOK, MutexInv, CallInv, vars
<1> QED
    BY <1>1, QuietStep DEF vars, Carries

\* The invariant is inductive: one lemma per action.
LEMMA NextIndInv == IndInv /\ [Next]_vars => IndInv'
<1> SUFFICES ASSUME IndInv, [Next]_vars PROVE IndInv'
    OBVIOUS
<1>1. CASE Tick
    BY <1>1, TickStep
<1>2. CASE \E e \in Emitters, f \in Fps : PassThrough(e, f) \/ ReadClock(e, f)
    BY <1>2, PassThroughStep, ReadClockStep
<1>3. CASE \E e \in Emitters : Emit(e)
    BY <1>3, LockStep, OpenWindowStep, AdmitStep, DropStep, DeliverStep DEF Emit
<1>4. CASE UNCHANGED vars
    BY <1>4, StutterStep
<1> QED
    BY <1>1, <1>2, <1>3, <1>4 DEF Next

LEMMA Invariance == Spec => []IndInv
BY InitIndInv, NextIndInv, PTL DEF Spec

\* Type correctness of the rate limiter.
THEOREM TypeCorrect == Spec => []TypeOK
BY Invariance, PTL DEF IndInv

\* allow never lets more than Burst reports through in one window, for any
\* number of goroutines and however stale the clock they read.
THEOREM NeverOverBurst == Spec => []BurstPerWindow
BY Invariance, PTL DEF IndInv

\* The windows of a fingerprint never overlap.
THEOREM WindowsNeverOverlap == Spec => []WindowsSpaced
BY Invariance, PTL DEF IndInv

\* A drop happens only in a window that let Burst reports through.
THEOREM DropsOnlyFromFullWindows == Spec => []DropOnlyWhenFull
BY Invariance, PTL DEF IndInv

\* Every dropped report is pending, in transit with one report, or surfaced
\* to the inner sink exactly once.
THEOREM SuppressionVisible == Spec => []DropsAccounted
<1>1. IndInv => DropsAccounted
    <2> SUFFICES ASSUME IndInv, NEW f \in Fps, NEW w \in Time, droppedIn[f][w] > 0
                 PROVE  LET pending  == buckets[f] # NoBucket /\ buckets[f].start = w
                            carriers == {e \in Emitters : /\ pc[e] = "forward" /\ fp[e] = f
                                                          /\ carry[e].win = w /\ carry[e].n > 0}
                        IN  \/ /\ pending /\ buckets[f].dropped = droppedIn[f][w]
                               /\ carriers = {} /\ surfaced[f][w] = 0
                            \/ /\ ~pending /\ surfaced[f][w] = 0
                               /\ \E e \in carriers : carriers = {e} /\ carry[e].n = droppedIn[f][w]
                            \/ ~pending /\ carriers = {} /\ surfaced[f][w] = droppedIn[f][w]
        BY DEF DropsAccounted
    <2> DEFINE carriers == {e \in Emitters : Carries(e, f, w)}
    <2>1. buckets[f] # NoBucket
        BY DEF IndInv, NoBucketInv
    <2>2. buckets[f].start \in Time
        BY <2>1, BucketType DEF IndInv
    <2>3. ~(w > buckets[f].start)
        BY <2>1 DEF IndInv, BucketInv
    <2>4. CASE w = buckets[f].start
        <3>1. carriers = {}
            BY <2>2, <2>4 DEF IndInv, CarryInv, Time
        <3> QED
            BY <2>1, <2>4, <3>1 DEF IndInv, BucketInv, Carries
    <2>5. CASE w < buckets[f].start /\ carriers = {}
        <3>1. surfaced[f][w] = droppedIn[f][w]
            BY <2>1, <2>5 DEF IndInv, ClosedInv
        <3> QED
            BY <2>2, <2>5, <3>1 DEF Carries, Time
    <2>6. CASE w < buckets[f].start /\ carriers # {}
        <3>1. PICK e \in carriers : TRUE
            BY <2>6
        <3>2. carriers = {e} /\ carry[e].n = droppedIn[f][w] /\ surfaced[f][w] = 0
            BY <3>1 DEF IndInv, CarryInv
        <3> QED
            BY <2>2, <2>6, <3>2 DEF Carries, Time
    <2> QED
        BY <2>2, <2>3, <2>4, <2>5, <2>6 DEF Time
<1> QED
    BY <1>1, Invariance, PTL

\* The rate limiter implements its abstract specification: the write that
\* ends the critical section is an abstract step, any other a stutter.
THEOREM Refinement == Spec => ImplementsRateLimiter
<1>1. Init => Abstract!Init
    BY DEF Init, Abstract!Init
<1>2. IndInv /\ [Next]_vars => [Abstract!Next]_(Abstract!vars)
    <2> SUFFICES ASSUME IndInv, [Next]_vars PROVE [Abstract!Next]_(Abstract!vars)
        OBVIOUS
    <2>1. CASE Tick
        BY <2>1 DEF Tick, code, Abstract!Next, Abstract!Tick
    <2>2. ASSUME NEW e \in Emitters, NEW f \in Fps, PassThrough(e, f) \/ ReadClock(e, f)
          PROVE  UNCHANGED Abstract!vars
        BY <2>2 DEF PassThrough, ReadClock, Abstract!vars
    <2>3. ASSUME NEW e \in Emitters, Lock(e) \/ Deliver(e)
          PROVE  UNCHANGED Abstract!vars
        BY <2>3 DEF Lock, Deliver, Abstract!vars
    <2>4. ASSUME NEW e \in Emitters, OpenWindow(e)
          PROVE  Abstract!Next
        <3>1. /\ fp[e] \in Fps /\ t[e] \in 0 .. MaxClock /\ seen[e] = buckets[fp[e]] /\ t[e] <= clock
            BY <2>4 DEF OpenWindow, IndInv, CallInv, MutexInv, TypeOK, Time
        <3>2. Abstract!Open(fp[e], t[e])
            BY <2>4, <3>1 DEF OpenWindow, Expired, Abstract!Open
        <3> QED
            BY <3>1, <3>2 DEF Abstract!Next
    <2>5. ASSUME NEW e \in Emitters, Admit(e)
          PROVE  Abstract!Next
        <3>1. fp[e] \in Fps /\ seen[e] = buckets[fp[e]] /\ buckets[fp[e]] # NoBucket
            BY <2>5, InWindow DEF Admit
        <3>2. Abstract!Admit(fp[e])
            BY <2>5, <3>1 DEF Admit, HasRoom, Abstract!Admit
        <3> QED
            BY <3>1, <3>2 DEF Abstract!Next
    <2>6. ASSUME NEW e \in Emitters, Drop(e)
          PROVE  Abstract!Next
        <3>1. fp[e] \in Fps /\ seen[e] = buckets[fp[e]] /\ buckets[fp[e]] # NoBucket /\ seen[e].count = Burst
            BY <2>6, InWindow DEF Drop, HasRoom
        <3>2. Abstract!Drop(fp[e])
            BY <2>6, <3>1 DEF Drop, Abstract!Drop
        <3> QED
            BY <3>1, <3>2 DEF Abstract!Next
    <2>7. CASE UNCHANGED vars
        BY <2>7 DEF vars, Abstract!vars
    <2> QED
        BY <2>1, <2>2, <2>3, <2>4, <2>5, <2>6, <2>7 DEF Next, Emit
<1> QED
    BY <1>1, <1>2, Invariance, PTL DEF Spec, ImplementsRateLimiter, Abstract!Spec
=============================================================================
