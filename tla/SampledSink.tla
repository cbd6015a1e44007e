---------------------------- MODULE SampledSink ----------------------------
(***************************************************************************)
(* The rate limiter in front of a sink (sample.go).  Goroutines call Emit  *)
(* concurrently.  allow reads the clock BEFORE it takes the mutex, so the  *)
(* instant t a goroutine works with may be older than the bucket it finds. *)
(* The lookup under the mutex and the write that ends the critical section *)
(* are two steps here, so that mutual exclusion is something the model     *)
(* relies on, not something it assumes.  inner.Emit runs after the unlock. *)
(*                                                                         *)
(* charged, droppedIn and surfaced are history variables: they record, per *)
(* fingerprint and per window, what was let through, what was dropped, and *)
(* how many drops the inner sink was told about.                           *)
(***************************************************************************)
EXTENDS Integers

CONSTANTS
    Emitters,    \* goroutines calling Emit
    Fps,         \* fingerprints of the reports they emit
    NoFp,        \* the empty fingerprint ""
    Window,      \* SamplePolicy.Window, in ticks of the clock
    Burst,       \* SamplePolicy.Burst
    NoBucket,    \* a nil *bucket
    Nobody,      \* the mutex is free
    MaxClock,    \* bound: the last instant of the clock
    MaxDropped   \* bound: reports stop once a window has dropped so many

ASSUME PolicyAssumption == Window \in Int /\ Burst \in Int

Time == 0 .. MaxClock

Bucket == [start : Time, count : Nat, dropped : Nat]

ASSUME SentinelAssumption == NoBucket \notin Bucket /\ Nobody \notin Emitters

ASSUME BoundAssumption == MaxClock \in Nat /\ MaxDropped \in Nat

VARIABLES
    clock,       \* now()
    mu,          \* who holds SampledSink.mu
    buckets,     \* SampledSink.buckets
    pc,          \* where each goroutine is in Emit
    fp,          \* r.Fingerprint of the report it carries
    t,           \* the instant it read before locking
    seen,        \* the bucket it found
    carry,       \* drops allow returned to it, with the window they are of
    charged, droppedIn, surfaced

code == <<mu, buckets, pc, fp, t, seen, carry>>
vars == <<clock, mu, buckets, pc, fp, t, seen, carry, charged, droppedIn, surfaced>>

Nothing == [win |-> 0, n |-> 0]

Init ==
    /\ clock = 0
    /\ mu = Nobody
    /\ buckets = [f \in Fps |-> NoBucket]
    /\ pc = [e \in Emitters |-> "idle"]
    /\ fp = [e \in Emitters |-> NoFp]
    /\ t = [e \in Emitters |-> 0]
    /\ seen = [e \in Emitters |-> NoBucket]
    /\ carry = [e \in Emitters |-> Nothing]
    /\ charged = [f \in Fps |-> [w \in Time |-> 0]]
    /\ droppedIn = [f \in Fps |-> [w \in Time |-> 0]]
    /\ surfaced = [f \in Fps |-> [w \in Time |-> 0]]

\* Time passes between any two steps of any goroutine.
Tick ==
    /\ clock < MaxClock
    /\ clock' = clock + 1
    /\ UNCHANGED <<code, charged, droppedIn, surfaced>>

LimitedEvenNoFp(f) == Burst > 0 /\ Window > 0

\* Is this report subject to the policy at all?
Limited(f) == Burst > 0 /\ Window > 0 /\ f # NoFp

\* A report the policy does not limit goes straight to the inner sink ...
PassThrough(e, f) ==
    /\ pc[e] = "idle"
    /\ ~Limited(f)
    /\ pc' = [pc EXCEPT ![e] = "forward"]
    /\ fp' = [fp EXCEPT ![e] = f]
    /\ carry' = [carry EXCEPT ![e] = Nothing]
    /\ UNCHANGED <<clock, mu, buckets, t, seen, charged, droppedIn, surfaced>>

\* ... any other reads the clock, and only then asks for the lock.
ReadClock(e, f) ==
    /\ pc[e] = "idle"
    /\ Limited(f)
    /\ \A w \in Time : droppedIn[f][w] < MaxDropped
    /\ pc' = [pc EXCEPT ![e] = "lock"]
    /\ fp' = [fp EXCEPT ![e] = f]
    /\ t' = [t EXCEPT ![e] = clock]
    /\ UNCHANGED <<clock, mu, buckets, seen, carry, charged, droppedIn, surfaced>>

FreeNoMutex == TRUE

Free == mu = Nobody

\* s.mu.Lock() and the map lookup.
Lock(e) ==
    /\ pc[e] = "lock"
    /\ Free
    /\ mu' = e
    /\ seen' = [seen EXCEPT ![e] = buckets[fp[e]]]
    /\ pc' = [pc EXCEPT ![e] = "decide"]
    /\ UNCHANGED <<clock, buckets, fp, t, carry, charged, droppedIn, surfaced>>

ExpiredEarly(b, now) == IF b = NoBucket THEN TRUE ELSE now - b.start >= Window - 1

Expired(b, now) == IF b = NoBucket THEN TRUE ELSE now - b.start >= Window

HasRoomStingy(b) == b.count < Burst - 1

HasRoom(b) == b.count < Burst

PrevDroppedLost(b) == Nothing

PrevDroppedLessOne(b) == IF b = NoBucket THEN Nothing ELSE [win |-> b.start, n |-> b.dropped - 1]

\* What a new window reports about the one it replaces.
PrevDropped(b) == IF b = NoBucket THEN Nothing ELSE [win |-> b.start, n |-> b.dropped]

MuAfterDropLeaked == mu

MuAfterDrop == Nobody

\* The window is over, or there was none: open a new one at t[e].
OpenWindow(e) ==
    /\ pc[e] = "decide"
    /\ Expired(seen[e], t[e])
    /\ buckets' = [buckets EXCEPT ![fp[e]] = [start |-> t[e], count |-> 1, dropped |-> 0]]
    /\ carry' = [carry EXCEPT ![e] = PrevDropped(seen[e])]
    /\ charged' = [charged EXCEPT ![fp[e]][t[e]] = @ + 1]
    /\ mu' = Nobody
    /\ pc' = [pc EXCEPT ![e] = "forward"]
    /\ UNCHANGED <<clock, fp, t, seen, droppedIn, surfaced>>

\* The window still has room.
Admit(e) ==
    /\ pc[e] = "decide"
    /\ ~Expired(seen[e], t[e])
    /\ HasRoom(seen[e])
    /\ buckets' = [buckets EXCEPT ![fp[e]] = [seen[e] EXCEPT !.count = @ + 1]]
    /\ carry' = [carry EXCEPT ![e] = Nothing]
    /\ charged' = [charged EXCEPT ![fp[e]][seen[e].start] = @ + 1]
    /\ mu' = Nobody
    /\ pc' = [pc EXCEPT ![e] = "forward"]
    /\ UNCHANGED <<clock, fp, t, seen, droppedIn, surfaced>>

\* The window is full: Emit returns nil and the report is gone.
Drop(e) ==
    /\ pc[e] = "decide"
    /\ ~Expired(seen[e], t[e])
    /\ ~HasRoom(seen[e])
    /\ buckets' = [buckets EXCEPT ![fp[e]] = [seen[e] EXCEPT !.dropped = @ + 1]]
    /\ droppedIn' = [droppedIn EXCEPT ![fp[e]][seen[e].start] = @ + 1]
    /\ mu' = MuAfterDrop
    /\ pc' = [pc EXCEPT ![e] = "idle"]
    /\ UNCHANGED <<clock, fp, t, seen, carry, charged, surfaced>>

\* inner.Emit, with the errx.sampled_dropped field when there were drops.
Deliver(e) ==
    /\ pc[e] = "forward"
    /\ surfaced' = IF carry[e].n > 0
                   THEN [surfaced EXCEPT ![fp[e]][carry[e].win] = @ + carry[e].n]
                   ELSE surfaced
    /\ pc' = [pc EXCEPT ![e] = "idle"]
    /\ UNCHANGED <<clock, mu, buckets, fp, t, seen, carry, charged, droppedIn>>

Emit(e) ==
    \/ Lock(e)
    \/ OpenWindow(e)
    \/ Admit(e)
    \/ Drop(e)
    \/ Deliver(e)

Next ==
    \/ Tick
    \/ \E e \in Emitters :
        \/ \E f \in Fps : PassThrough(e, f) \/ ReadClock(e, f)
        \/ Emit(e)

Spec == Init /\ [][Next]_vars

(***************************************************************************)
(* A goroutine inside Emit is eventually scheduled, and a Go mutex does    *)
(* not starve a waiter (it hands over to one that waits too long), hence   *)
(* strong fairness of Lock.  Nothing forces a new call or the clock.       *)
(***************************************************************************)
FairSpec ==
    /\ Spec
    /\ \A e \in Emitters :
        /\ SF_vars(Lock(e))
        /\ WF_vars(OpenWindow(e) \/ Admit(e) \/ Drop(e) \/ Deliver(e))

-----------------------------------------------------------------------------
(* Properties *)

\* The shape of the state.
TypeOK ==
    /\ clock \in Time
    /\ mu \in Emitters \cup {Nobody}
    /\ buckets \in [Fps -> Bucket \cup {NoBucket}]
    /\ pc \in [Emitters -> {"idle", "lock", "decide", "forward"}]
    /\ fp \in [Emitters -> Fps \cup {NoFp}]
    /\ t \in [Emitters -> Time]
    /\ seen \in [Emitters -> Bucket \cup {NoBucket}]
    /\ carry \in [Emitters -> [win : Time, n : Nat]]
    /\ charged \in [Fps -> [Time -> Nat]]
    /\ droppedIn \in [Fps -> [Time -> Nat]]
    /\ surfaced \in [Fps -> [Time -> Nat]]

\* "At most burst reports per window": however the goroutines interleave and
\* however stale the instants they read, no window lets more than Burst
\* reports of its fingerprint through.
BurstPerWindow ==
    \A f \in Fps, w \in Time : charged[f][w] > 0 => charged[f][w] <= Burst

\* Two windows of one fingerprint never overlap: a goroutine that read the
\* clock long ago cannot open a window inside, or before, a later one.
WindowsSpaced ==
    \A f \in Fps : \A w1, w2 \in Time :
        charged[f][w1] > 0 /\ charged[f][w2] > 0 /\ w1 < w2 => w2 - w1 >= Window

\* A report is dropped only after its window let Burst reports through, and
\* never when it has no fingerprint: a rare error is not buried by hot ones.
DropOnlyWhenFull ==
    \A f \in Fps, w \in Time :
        droppedIn[f][w] > 0 => f # NoFp /\ Burst > 0 /\ charged[f][w] = Burst

\* "Visible rather than silent": the drops of a window are all still counted
\* in its bucket, or travelling with exactly one report, or were surfaced to
\* the inner sink once and in full.
DropsAccounted ==
    \A f \in Fps, w \in Time :
        LET pending  == buckets[f] # NoBucket /\ buckets[f].start = w
            carriers == {e \in Emitters : /\ pc[e] = "forward" /\ fp[e] = f
                                          /\ carry[e].win = w /\ carry[e].n > 0}
        IN  droppedIn[f][w] > 0 =>
            \/ /\ pending /\ buckets[f].dropped = droppedIn[f][w]
               /\ carriers = {} /\ surfaced[f][w] = 0
            \/ /\ ~pending /\ surfaced[f][w] = 0
               /\ \E e \in carriers : carriers = {e} /\ carry[e].n = droppedIn[f][w]
            \/ ~pending /\ carriers = {} /\ surfaced[f][w] = droppedIn[f][w]

\* The whole of it, mutex, stale clocks and two-step critical section, is an
\* atomic limiter: it implements RateLimiter.
Abstract == INSTANCE RateLimiter WITH now <- clock, window <- buckets
ImplementsRateLimiter == Abstract!Spec

\* Every Emit returns: no path through allow leaves the mutex locked.
EmitReturns == \A e \in Emitters : pc[e] # "idle" ~> pc[e] = "idle"

-----------------------------------------------------------------------------
(* The inductive invariant behind the four safety properties. *)

\* The holder of the mutex is the one goroutine between lookup and write, so
\* what it saw is what is there.
MutexInv ==
    \A e \in Emitters :
        /\ pc[e] = "decide" <=> mu = e
        /\ pc[e] = "decide" => seen[e] = buckets[fp[e]]

\* Only limited reports enter the critical section, with a time that is past.
CallInv ==
    \A e \in Emitters :
        /\ t[e] <= clock
        /\ pc[e] # "idle" => fp[e] \in Fps
        /\ pc[e] \in {"lock", "decide"} => Limited(fp[e])

\* A fingerprint without a bucket has no history.
NoBucketInv ==
    \A f \in Fps : buckets[f] = NoBucket =>
        \A w \in Time : charged[f][w] = 0 /\ droppedIn[f][w] = 0 /\ surfaced[f][w] = 0

\* The bucket is the history of the current, last, window.
BucketInv ==
    \A f \in Fps : buckets[f] # NoBucket =>
        LET b == buckets[f]
        IN  /\ Limited(f)
            /\ charged[f][b.start] = b.count /\ b.count \in 1 .. Burst
            /\ droppedIn[f][b.start] = b.dropped /\ surfaced[f][b.start] = 0
            /\ b.dropped > 0 => b.count = Burst
            /\ \A w \in Time : w > b.start =>
                   charged[f][w] = 0 /\ droppedIn[f][w] = 0 /\ surfaced[f][w] = 0
            /\ \A w \in Time : w < b.start /\ charged[f][w] > 0 => b.start - w >= Window

Carries(e, f, w) == pc[e] = "forward" /\ fp[e] = f /\ carry[e].win = w /\ carry[e].n > 0

\* A count in transit is that of a closed window, whole and not yet surfaced.
CarryInv ==
    \A e \in Emitters, f \in Fps, w \in Time : Carries(e, f, w) =>
        /\ buckets[f] # NoBucket /\ w < buckets[f].start
        /\ carry[e].n = droppedIn[f][w] /\ surfaced[f][w] = 0
        /\ \A d \in Emitters : Carries(d, f, w) => d = e

\* A closed window whose drops nobody carries has surfaced them.
ClosedInv ==
    \A f \in Fps, w \in Time :
        (buckets[f] # NoBucket /\ w < buckets[f].start /\ \A e \in Emitters : ~Carries(e, f, w))
            => surfaced[f][w] = droppedIn[f][w]

IndInv ==
    /\ TypeOK /\ MutexInv /\ CallInv /\ NoBucketInv /\ BucketInv /\ CarryInv /\ ClosedInv
    /\ BurstPerWindow /\ WindowsSpaced /\ DropOnlyWhenFull
=============================================================================
