--------------------------- MODULE ServicesProofs ---------------------------
(***************************************************************************)
(* Proofs, for any services, tables, codes and any number of messages, of  *)
(* what Services promises of fingerprints, unsafe values, round trips,     *)
(* trace ids and renamed codes.  The invariant of the first four does not  *)
(* depend on what migrateCode computes: a code may be replaced by any      *)
(* other, as long as was remembers it.  What migrateCode computes, and the *)
(* shape of the state, are shown from its recursion, by induction over the *)
(* hops.                                                                   *)
(***************************************************************************)
EXTENDS Services, WellFoundedInduction, TLAPS

-----------------------------------------------------------------------------
(* The inductive invariant *)

ErrorKeys == {"code", "site", "trace", "fields", "cause", "opaque", "fp", "was"}

MessageKeys == ErrorKeys \ {"opaque"}

LegacyKeys == {"legacy", "code", "trace", "fields"}

\* What is cached is right, and what a hash taken now would cache is.
Honest(e) ==
    /\ e.code \in e.was
    /\ e.fp # NoFp => e.fp[2] = e.site /\ e.fp[1] \in e.was

Sound(e) == DOMAIN e = ErrorKeys /\ Honest(e)

SoundLegacy(e) == DOMAIN e = LegacyKeys /\ \A f \in e.fields : f.safe

SoundMessage(m) == DOMAIN m = MessageKeys /\ Honest(m) /\ \A f \in m.fields : f.safe

HeldInv == \A s \in Names : held[s] # NoError => Sound(held[s]) \/ SoundLegacy(held[s])

IndInv ==
    /\ DOMAIN held = Names
    /\ HeldInv
    /\ \A m \in net : SoundMessage(m)
    /\ \A f \in reported : f.safe

USE DEF ErrorKeys, MessageKeys, LegacyKeys

-----------------------------------------------------------------------------
(* What the operations on errors keep *)

\* A hash names the code and the origin of its error, and is something.
LEMMA HashOfSound ==
    ASSUME NEW e
    PROVE  Hash(e) # NoFp /\ Hash(e)[1] = e.code /\ Hash(e)[2] = e.site
BY DEF Hash, NoFp

LEMMA SoundIsNotLegacy ==
    ASSUME NEW e
    PROVE  /\ Sound(e) => ~IsLegacy(e)
           /\ SoundLegacy(e) => IsLegacy(e)
BY DEF Sound, SoundLegacy, IsLegacy

\* Asking for the fingerprint caches a right one.
LEMMA FingerprintHonest ==
    ASSUME NEW e, Sound(e)
    PROVE  /\ Fingerprint(e) # NoFp
           /\ Fingerprint(e)[2] = e.site /\ Fingerprint(e)[1] \in e.was
BY HashOfSound DEF Fingerprint, Sound, Honest

LEMMA FingerprintedSound ==
    ASSUME NEW e, Sound(e)
    PROVE  Sound(Fingerprinted(e))
<1> DEFINE f == Fingerprinted(e)
<1>1. /\ DOMAIN f = ErrorKeys /\ f.fp = Fingerprint(e)
      /\ f.code = e.code /\ f.was = e.was /\ f.site = e.site
    BY DEF Fingerprinted, Sound
<1> HIDE DEF f
<1>2. Sound(f)
    BY <1>1, FingerprintHonest DEF Sound, Honest
<1> QED
    BY <1>2 DEF f

\* A new error is sound, and so is what a builder makes of a sound one.
LEMMA NewSound ==
    ASSUME NEW site
    PROVE  Sound(New(site))
BY DEF New, Sound, Honest, NoFp

LEMMA WrapSound ==
    ASSUME NEW e, NEW site
    PROVE  Sound(Wrap(e, site))
<1> DEFINE w == Wrap(e, site)
<1>1. DOMAIN w = ErrorKeys /\ w.fp = NoFp /\ w.code = e.code /\ w.was = {e.code}
    BY DEF Wrap, New
<1> HIDE DEF w
<1>2. Sound(w)
    BY <1>1 DEF Sound, Honest
<1> QED
    BY <1>2 DEF w

LEMMA WithCodeSound ==
    ASSUME NEW e, Sound(e), NEW c
    PROVE  Sound(WithCode(e, c))
<1> DEFINE w == WithCode(e, c)
<1>1. DOMAIN w = ErrorKeys /\ w.fp = NoFp /\ w.code = c /\ w.was = {c}
    BY DEF WithCode, Sound
<1> HIDE DEF w
<1>2. Sound(w)
    BY <1>1 DEF Sound, Honest
<1> QED
    BY <1>2 DEF w

\* A change of an error is sound when it leaves these alone, or resets fp.
LEMMA SameIdentity ==
    ASSUME NEW e, Sound(e), NEW d, DOMAIN d = ErrorKeys,
           d.code = e.code, d.was = e.was, d.site = e.site, d.fp \in {e.fp, NoFp}
    PROVE  Sound(d)
BY DEF Sound, Honest

LEMMA BuildersSound ==
    ASSUME NEW e, Sound(e)
    PROVE  /\ \A key, safe : Sound(With(e, key, safe))
           /\ \A key : Sound(Note(e, key))
           /\ \A id : Sound(WithTrace(e, id))
           /\ Sound(Opaque(e))
           /\ \A found : Sound(Context(e, found))
<1>1. ASSUME NEW key, NEW safe PROVE Sound(With(e, key, safe))
    BY SameIdentity DEF With, Sound
<1>2. ASSUME NEW key PROVE Sound(Note(e, key))
    <2> DEFINE w == With(e, key, FALSE)
    <2>1. Sound(w)
        BY <1>1
    <2> HIDE DEF w
    <2>2. Note(e, key) = [w EXCEPT !.fp = NoFp]
        BY DEF Note, w
    <2> QED
        BY <2>1, <2>2, SameIdentity DEF Sound
<1>3. ASSUME NEW id PROVE Sound(WithTrace(e, id))
    BY SameIdentity DEF WithTrace, Sound
<1>4. Sound(Opaque(e))
    BY SameIdentity DEF Opaque, Sound
<1>5. ASSUME NEW found PROVE Sound(Context(e, found))
    BY SameIdentity DEF Context, Sound
<1> QED
    BY <1>1, <1>2, <1>3, <1>4, <1>5

\* Over the bridge go safe values only; from it come sound errors.
LEMMA BridgeSound ==
    ASSUME NEW e
    PROVE  /\ SoundLegacy(To(e)) /\ To(e).trace = e.trace
           /\ Sound(From(e))
           /\ IsLegacy(e) => From(e).trace = e.trace
<1>1. SoundLegacy(To(e)) /\ To(e).trace = e.trace
    BY DEF To, Legacy, SoundLegacy
<1>2. CASE IsLegacy(e)
    <2> DEFINE n == WithCode(New(ShimSite), e.code)
               t == WithTrace(n, e.trace)
    <2>1. Sound(n)
        BY NewSound, WithCodeSound
    <2>2. Sound(t)
        BY <2>1, BuildersSound
    <2>3. t.trace = e.trace
        BY <2>1 DEF WithTrace, Sound
    <2> HIDE DEF t
    <2>4. From(e) = [t EXCEPT !.fields = {[f EXCEPT !.safe = FALSE] : f \in e.fields}]
        BY <1>2 DEF From, t
    <2>5. Sound(From(e)) /\ From(e).trace = t.trace
        BY <2>2, <2>4, SameIdentity DEF Sound
    <2> QED
        BY <1>1, <1>2, <2>3, <2>5
<1>3. CASE ~IsLegacy(e)
    BY <1>1, <1>3, WrapSound DEF From
<1> QED
    BY <1>2, <1>3

\* What is sent is sound, and shows no unsafe value.
LEMMA EncodeSound ==
    ASSUME NEW e, Sound(e)
    PROVE  SoundMessage(Encode(e))
<1> DEFINE m == Encode(e)
<1>1. /\ DOMAIN m = MessageKeys /\ m.fp = Fingerprint(e) /\ m.fields = {f \in e.fields : f.safe}
      /\ m.code = e.code /\ m.was = e.was /\ m.site = e.site
    BY DEF Encode
<1> HIDE DEF m
<1>2. SoundMessage(m)
    BY <1>1, FingerprintHonest DEF Sound, SoundMessage, Honest
<1> QED
    BY <1>2 DEF m

LEMMA ForeignSound == SoundMessage(EncodeForeign)
BY DEF EncodeForeign, SoundMessage, Honest, NoFp

\* A message is decoded to a sound error, whatever the table makes of its code.
LEMMA DecodeSound ==
    ASSUME NEW m, SoundMessage(m), NEW table
    PROVE  Sound(Decode(table, m))
<1> DEFINE e == Decode(table, m)
           c == migrateCode(table, m.code)
<1> HIDE DEF c
<1>1. /\ DOMAIN e = ErrorKeys /\ e.fp = m.fp /\ e.site = m.site
      /\ e.code = c /\ e.was = m.was \cup {c}
    BY DEF Decode, c
<1> HIDE DEF e
<1>2. Sound(e)
    BY <1>1 DEF Sound, SoundMessage, Honest
<1> QED
    BY <1>2 DEF e

-----------------------------------------------------------------------------
(* Steps *)

LEMMA InitIndInv == Init => IndInv
BY DEF Init, IndInv, HeldInv

\* A step that only gives one service another sound error keeps the invariant.
LEMMA HoldStep ==
    ASSUME IndInv, NEW s \in Names, NEW e, Sound(e) \/ SoundLegacy(e),
           held' = [held EXCEPT ![s] = e], net' = net, reported' = reported
    PROVE  IndInv'
<1>1. HeldInv'
    BY DEF IndInv, HeldInv
<1> QED
    BY <1>1 DEF IndInv

LEMMA HoldsSound ==
    ASSUME IndInv, NEW s \in Names
    PROVE  /\ Holds(s) => Sound(held[s])
           /\ HoldsLegacy(s) => SoundLegacy(held[s])
BY SoundIsNotLegacy DEF IndInv, HeldInv, Holds, HoldsLegacy

LEMMA EnrichStep ==
    ASSUME IndInv, NEW s \in Names, Enrich(s)
    PROVE  IndInv'
<1>1. Sound(held[s])
    BY HoldsSound DEF Enrich
<1>2. PICK e : Sound(e) /\ Build(s, e)
    BY <1>1, WithCodeSound, WrapSound, BuildersSound DEF Enrich
<1> QED
    BY <1>2, HoldStep DEF Build, Hold

LEMMA BridgeStep ==
    ASSUME IndInv, NEW s \in Names, ToLegacy(s) \/ FromLegacy(s)
    PROVE  IndInv'
<1>1. CASE ToLegacy(s)
    BY <1>1, BridgeSound, HoldStep DEF ToLegacy, Build, Hold
<1>2. CASE FromLegacy(s)
    BY <1>2, BridgeSound, HoldStep DEF FromLegacy, Build, Hold
<1> QED
    BY <1>1, <1>2

\* Asking for the fingerprint, in Group, Snapshot and Send, keeps an error sound.
LEMMA SnapshotStep ==
    ASSUME IndInv, NEW s \in Names, Snapshot(s)
    PROVE  IndInv'
<1>1. held' = [held EXCEPT ![s] = Fingerprinted(held[s])] /\ net' = net
    BY DEF Snapshot
<1>2. Sound(Fingerprinted(held[s]))
    BY HoldsSound, FingerprintedSound DEF Snapshot
<1>3. HeldInv' /\ DOMAIN held' = Names
    BY <1>1, <1>2 DEF IndInv, HeldInv
<1>4. \A f \in reported' : f.safe
    BY DEF IndInv, Snapshot, Shown
<1> QED
    BY <1>1, <1>3, <1>4 DEF IndInv

LEMMA SendStep ==
    ASSUME IndInv, NEW s \in Names, Send(s)
    PROVE  IndInv'
<1>1. /\ held' = [held EXCEPT ![s] = Fingerprinted(held[s])]
      /\ net' = net \cup {Encode(held[s])} /\ reported' = reported
    BY DEF Send, Sent
<1>2. Sound(Fingerprinted(held[s])) /\ SoundMessage(Encode(held[s]))
    BY HoldsSound, FingerprintedSound, EncodeSound DEF Send
<1>3. HeldInv' /\ DOMAIN held' = Names
    BY <1>1, <1>2 DEF IndInv, HeldInv
<1>4. \A m \in net' : SoundMessage(m)
    BY <1>1, <1>2 DEF IndInv
<1> QED
    BY <1>1, <1>3, <1>4 DEF IndInv

LEMMA NextIndInv == IndInv /\ [Next]_vars => IndInv'
<1> SUFFICES ASSUME IndInv, [Next]_vars PROVE IndInv'
    OBVIOUS
<1>1. CASE UNCHANGED vars
    BY <1>1 DEF vars, IndInv, HeldInv
<1>2. CASE Next
    <2>1. PICK s \in Names :
            \/ \E r \in Renamed : RegisterCodeMigration(s, r[1], r[2])
            \/ \E found \in Finds : RegisterContextExtractor(s, found)
            \/ \E id \in Spans : Install(s, id)
            \/ Mint(s) \/ Enrich(s) \/ FromContext(s) \/ Group(s) \/ ToLegacy(s) \/ FromLegacy(s)
            \/ Snapshot(s) \/ Send(s) \/ SendForeign(s) \/ \E m \in net : Receive(s, m)
        BY <1>2 DEF Next
    <2>2. ASSUME held' = held, net' = net, reported' = reported PROVE IndInv'
        BY <2>2 DEF IndInv, HeldInv
    <2>3. CASE \E r \in Renamed : RegisterCodeMigration(s, r[1], r[2])
        BY <2>2, <2>3 DEF RegisterCodeMigration
    <2>4. CASE \/ \E found \in Finds : RegisterContextExtractor(s, found)
               \/ \E id \in Spans : Install(s, id)
        BY <2>2, <2>4 DEF RegisterContextExtractor, Install
    <2>5. CASE Mint(s)
        BY <2>5, NewSound, WithCodeSound, HoldStep DEF Mint, Hold
    <2>6. CASE FromContext(s)
        BY <2>6, HoldsSound, BuildersSound, HoldStep DEF FromContext, Build, Hold
    <2>7. CASE Group(s)
        BY <2>7, HoldsSound, FingerprintedSound, HoldStep DEF Group, Hold
    <2>8. CASE SendForeign(s)
        <3>1. held' = held /\ reported' = reported /\ net' = net \cup {EncodeForeign}
            BY <2>8 DEF SendForeign, Sent
        <3> QED
            BY <3>1, ForeignSound DEF IndInv, HeldInv
    <2>9. CASE \E m \in net : Receive(s, m)
        BY <2>9, DecodeSound, HoldStep DEF IndInv, Receive, Hold
    <2> QED
        BY <2>1, <2>3, <2>4, <2>5, <2>6, <2>7, <2>8, <2>9, EnrichStep, BridgeStep, SnapshotStep, SendStep
<1> QED
    BY <1>1, <1>2

LEMMA Invariance == Spec => []IndInv
BY InitIndInv, NextIndInv, PTL DEF Spec

-----------------------------------------------------------------------------
(* The properties *)

\* The fingerprint cached in an error is that of its own origin and of a code
\* it has or had before a migration (fingerprint.go, codec.go), for any number
\* of services, builder calls, hops and migrations.
THEOREM FingerprintsHonest == Spec => []CacheHonest
<1>1. IndInv => CacheHonest
    BY HoldsSound DEF CacheHonest, Sound, Honest
<1> QED
    BY <1>1, Invariance, PTL

\* No value of a field not marked safe leaves a service, in a message, a
\* report or a legacy error (codec.go, report.go, goerr.go).
THEOREM UnsafeNeverLeaves == Spec => []UnsafeStays
<1>1. IndInv => UnsafeStays
    BY HoldsSound DEF UnsafeStays, IndInv, SoundLegacy, SoundMessage
<1> QED
    BY <1>1, Invariance, PTL

\* A decoded error is sent on as the message it came as (codec.go), whatever
\* the table makes of its code.
THEOREM RoundTrips == Spec => []RoundTrip
<1>1. ASSUME NEW m, SoundMessage(m), NEW table
      PROVE  LET e == Decode(table, m)
             IN  Encode(e) = [m EXCEPT !.code = e.code, !.fp = IF m.fp = NoFp THEN Hash(e) ELSE m.fp, !.was = e.was]
    <2> DEFINE e == Decode(table, m)
    <2>1. /\ e.site = m.site /\ e.trace = m.trace /\ e.fields = m.fields
          /\ e.cause = m.cause /\ e.fp = m.fp
        BY DEF Decode
    <2>2. {f \in e.fields : f.safe} = m.fields
        BY <1>1, <2>1 DEF SoundMessage
    <2> HIDE DEF e
    <2> DEFINE fp == IF m.fp = NoFp THEN Hash(e) ELSE m.fp
    <2>3. Fingerprint(e) = fp
        BY <2>1 DEF Fingerprint
    <2> HIDE DEF fp
    <2> DEFINE sent == [m EXCEPT !.code = e.code, !.fp = fp, !.was = e.was]
    <2>4. /\ DOMAIN sent = MessageKeys /\ sent = [k \in DOMAIN sent |-> sent[k]]
          /\ sent.code = e.code /\ sent.site = e.site /\ sent.trace = e.trace
          /\ sent.fields = {f \in e.fields : f.safe} /\ sent.cause = e.cause
          /\ sent.fp = Fingerprint(e) /\ sent.was = e.was
        BY <1>1, <2>1, <2>2, <2>3 DEF SoundMessage
    <2> HIDE DEF sent
    <2>5. Encode(e) = sent
        BY <2>4 DEF Encode
    <2> QED
        BY <2>5 DEF e, sent, fp
<1>2. IndInv => RoundTrip
    BY <1>1 DEF IndInv, RoundTrip
<1> QED
    BY <1>2, Invariance, PTL

\* Neither a context nor the bridge to the legacy library takes from an error
\* the trace id it has (ctx.go, goerr.go).
THEOREM TracesStick == Spec => TraceSticks
<1> DEFINE Sticks(s) ==
        \/ FromContext(s) /\ held[s].trace # NoTrace
        \/ ToLegacy(s)
        \/ FromLegacy(s) /\ HoldsLegacy(s)
        => held'[s].trace = held[s].trace
<1>1. ASSUME IndInv, NEW s \in Names PROVE Sticks(s)
    <2>1. ASSUME NEW e, held' = [held EXCEPT ![s] = e] PROVE held'[s] = e
        BY <1>1, <2>1 DEF IndInv
    <2>2. CASE FromContext(s) /\ held[s].trace # NoTrace
        <3>1. held'[s] = Context(held[s], extractors[s])
            BY <2>1, <2>2 DEF FromContext, Build, Hold
        <3>2. Sound(held[s])
            BY <1>1, <2>2, HoldsSound DEF FromContext
        <3> QED
            BY <2>2, <3>1, <3>2 DEF Context, Sound
    <2>3. CASE ToLegacy(s)
        BY <2>1, <2>3, BridgeSound DEF ToLegacy, Build, Hold
    <2>4. CASE FromLegacy(s) /\ HoldsLegacy(s)
        BY <2>1, <2>4, BridgeSound DEF FromLegacy, HoldsLegacy, Build, Hold
    <2> QED
        BY <2>2, <2>3, <2>4
<1>2. IndInv /\ [Next]_vars => [\A s \in Names : Sticks(s)]_vars
    BY <1>1
<1> QED
    BY <1>2, Invariance, PTL DEF Spec, TraceSticks

-----------------------------------------------------------------------------
(* Induction *)

\* A set of naturals that is not empty has a least element.
LEMMA LeastNatural ==
    ASSUME NEW T, T \subseteq Nat, T # {}
    PROVE  \E x \in T : \A y \in T : x <= y
<1> DEFINE R == {ss \in Nat \X Nat : ss[1] < ss[2]}
<1>1. IsWellFoundedOn(R, Nat)
    BY NatLessThanWellFounded DEF OpToRel
<1>2. \A x \in Nat : \A y \in Nat : x < y => <<x, y>> \in R
    OBVIOUS
<1> HIDE DEF R
<1>3. PICK x \in T : \A y \in T : ~ (<<y, x>> \in R)
    BY <1>1, WFMin
<1>4. \A y \in T : x <= y
    <2> TAKE y \in T
    <2>1. x \in Nat /\ y \in Nat /\ ~ (y < x)
        BY <1>2, <1>3
    <2> QED
        BY <2>1
<1> QED
    BY <1>4

\* Induction over the naturals, for a property given as a set.
LEMMA SetInduction ==
    ASSUME NEW S, 0 \in S, \A n \in Nat : n \in S => n + 1 \in S
    PROVE  \A n \in Nat : n \in S
<1> SUFFICES ASSUME Nat \ S # {} PROVE FALSE
    OBVIOUS
<1>1. PICK x \in Nat \ S : \A y \in Nat \ S : x <= y
    BY LeastNatural, Nat \ S \subseteq Nat
<1>2. x # 0 /\ x - 1 \in Nat /\ ~ (x <= x - 1) /\ (x - 1) + 1 = x
    OBVIOUS
<1>3. x - 1 \in S
    BY <1>1, <1>2
<1> QED
    BY <1>2, <1>3

-----------------------------------------------------------------------------
(* What migrateCode computes *)

\* The codes on the way, one hop after the other.
Hops(table, c, f) == f[0] = c /\ \A n \in 0 .. MaxHops - 1 : f[n + 1] = Successor(table, f[n])

\* The recursion has a solution, so migrateCode is where the hops end.
LEMMA MigrateDef ==
    ASSUME NEW table, NEW c
    PROVE  \E f : Hops(table, c, f) /\ migrateCode(table, c) = f[MaxHops]
<1> DEFINE Solves(n, g) == g = [k \in 0 .. n |-> IF k = 0 THEN c ELSE Successor(table, g[k - 1])]
           P(n) == \E g : Solves(n, g)
<1>1. P(0)
    <2> DEFINE g == [k \in 0 .. 0 |-> c]
    <2>1. Solves(0, g)
        OBVIOUS
    <2> QED
        BY <2>1
<1>2. ASSUME NEW n \in Nat, P(n) PROVE P(n + 1)
    <2>1. PICK g : Solves(n, g)
        BY <1>2
    <2> DEFINE v == Successor(table, g[n])
               h == [k \in 0 .. n + 1 |-> IF k = n + 1 THEN v ELSE g[k]]
    <2>2. ASSUME NEW k \in 0 .. n + 1 PROVE h[k] = IF k = 0 THEN c ELSE Successor(table, h[k - 1])
        <3>1. CASE k = n + 1
            <4>1. (n + 1) - 1 = n /\ n \in 0 .. n + 1 /\ n # n + 1 /\ n + 1 # 0
                OBVIOUS
            <4>2. h[n] = g[n] /\ h[n + 1] = v
                BY <4>1
            <4> HIDE DEF h
            <4> QED
                BY <3>1, <4>1, <4>2
        <3>2. CASE k # n + 1
            <4>1. k \in 0 .. n /\ h[k] = g[k]
                BY <3>2
            <4>2. g[k] = IF k = 0 THEN c ELSE Successor(table, g[k - 1])
                BY <2>1, <4>1
            <4>3. k # 0 => k - 1 \in 0 .. n + 1 /\ k - 1 # n + 1
                BY <4>1
            <4>4. k # 0 => h[k - 1] = g[k - 1]
                BY <4>3
            <4> HIDE DEF h
            <4> QED
                BY <4>1, <4>2, <4>4
        <3> QED
            BY <3>1, <3>2
    <2>3. DOMAIN h = 0 .. n + 1 /\ h = [k \in 0 .. n + 1 |-> h[k]]
        OBVIOUS
    <2> HIDE DEF h
    <2>4. Solves(n + 1, h)
        BY <2>2, <2>3
    <2> QED
        BY <2>4
<1> HIDE DEF P
<1> DEFINE N == {n \in Nat : P(n)}
<1>3. 0 \in N /\ \A n \in Nat : n \in N => n + 1 \in N
    BY <1>1, <1>2
<1>4. \A n \in Nat : n \in N
    <2> HIDE DEF N
    <2> QED
        BY <1>3, SetInduction
<1>5. \E g : Solves(MaxHops, g)
    BY <1>4, MaxHopsAssumption DEF P
<1> DEFINE f == CHOOSE g : Solves(MaxHops, g)
<1>6. migrateCode(table, c) = f[MaxHops]
    BY DEF migrateCode
<1>7. Solves(MaxHops, f)
    BY <1>5
<1> HIDE DEF f
<1>8. f[0] = c
    <2>1. 0 \in 0 .. MaxHops
        BY MaxHopsAssumption
    <2> QED
        BY <1>7, <2>1
<1>9. ASSUME NEW n \in 0 .. MaxHops - 1 PROVE f[n + 1] = Successor(table, f[n])
    <2>1. n + 1 \in 0 .. MaxHops /\ n + 1 # 0 /\ (n + 1) - 1 = n
        BY MaxHopsAssumption
    <2> HIDE DEF Solves
    <2>2. \A k \in 0 .. MaxHops : f[k] = IF k = 0 THEN c ELSE Successor(table, f[k - 1])
        BY <1>7 DEF Solves
    <2> QED
        BY <2>1, <2>2
<1> QED
    BY <1>6, <1>8, <1>9 DEF Hops

\* It is one of the codes of the table's entries, or the code it started from.
LEMMA MigrateType ==
    ASSUME NEW S, NEW table, NEW c \in S, \A d \in S : Successor(table, d) \in S
    PROVE  migrateCode(table, c) \in S
<1>1. PICK f : Hops(table, c, f) /\ migrateCode(table, c) = f[MaxHops]
    BY MigrateDef
<1> DEFINE N == {n \in Nat : n <= MaxHops => f[n] \in S}
<1>2. 0 \in N
    BY <1>1 DEF Hops
<1>3. ASSUME NEW n \in Nat, n \in N PROVE n + 1 \in N
    <2> SUFFICES ASSUME n + 1 <= MaxHops PROVE f[n + 1] \in S
        OBVIOUS
    <2>1. n \in 0 .. MaxHops - 1 /\ n <= MaxHops
        BY MaxHopsAssumption
    <2> QED
        BY <1>1, <1>3, <2>1 DEF Hops
<1>4. \A n \in Nat : n \in N
    <2> HIDE DEF N
    <2> QED
        BY <1>2, <1>3, SetInduction
<1> QED
    BY <1>1, <1>4, MaxHopsAssumption

\* A chain of entries that ends within MaxHops at a code that has none, or is
\* its own, is followed to its end.
LEMMA MigrateFollows ==
    ASSUME NEW table, NEW c, NEW d \in Codes, table[d] \in {NoCode, d},
           NEW n \in 0 .. MaxHops, Chain(table, c, d, n)
    PROVE  migrateCode(table, c) = d
<1>1. PICK f : Hops(table, c, f) /\ migrateCode(table, c) = f[MaxHops]
    BY MigrateDef
<1>2. PICK chain \in [0 .. n -> Codes] :
        chain[0] = c /\ chain[n] = d /\ \A i \in 1 .. n : table[chain[i - 1]] = chain[i]
    BY DEF Chain
<1>3. NoCode \notin Codes /\ n \in Nat
    BY ConstantsAssumption
<1> DEFINE P(k) == /\ k <= n => f[k] = chain[k]
                   /\ n <= k /\ k <= MaxHops => f[k] = d
<1>4. P(0)
    BY <1>1, <1>2 DEF Hops
<1>5. ASSUME NEW k \in Nat, P(k) PROVE P(k + 1)
    <2>1. CASE k + 1 <= n
        <3>1. k \in 0 .. MaxHops - 1 /\ k \in 0 .. n /\ k + 1 \in 1 .. n /\ k + 1 \in 0 .. n /\ (k + 1) - 1 = k
            BY <2>1, MaxHopsAssumption
        <3>2. f[k + 1] = Successor(table, chain[k])
            BY <1>1, <1>5, <3>1 DEF Hops
        <3>3. table[chain[k]] = chain[k + 1] /\ chain[k] \in Codes /\ chain[k + 1] \in Codes
            BY <1>2, <3>1
        <3>4. f[k + 1] = chain[k + 1]
            BY <1>3, <3>2, <3>3 DEF Successor
        <3> QED
            BY <1>2, <2>1, <3>4
    <2>2. CASE n <= k /\ k + 1 <= MaxHops
        <3>1. k \in 0 .. MaxHops - 1 /\ k <= MaxHops
            BY <2>2, MaxHopsAssumption
        <3>2. f[k + 1] = Successor(table, d)
            BY <1>1, <1>5, <2>2, <3>1 DEF Hops
        <3>3. f[k + 1] = d
            BY <1>3, <3>2 DEF Successor
        <3> QED
            BY <2>2, <3>3
    <2> QED
        BY <2>1, <2>2, MaxHopsAssumption
<1> HIDE DEF P
<1> DEFINE N == {k \in Nat : P(k)}
<1>6. 0 \in N /\ \A k \in Nat : k \in N => k + 1 \in N
    BY <1>4, <1>5
<1>7. \A k \in Nat : k \in N
    <2> HIDE DEF N
    <2> QED
        BY <1>6, SetInduction
<1>8. P(MaxHops)
    BY <1>7, MaxHopsAssumption
<1> QED
    BY <1>1, <1>8, MaxHopsAssumption DEF P

\* codec.go, migrateCode: whatever the tables hold, chains that end within
\* MaxHops are followed to their end, and decoding again changes nothing.
THEOREM MigrationsSettle == Spec => []MigrationSettles
<1>1. MigrationSettles
    BY MigrateFollows DEF MigrationSettles
<1> QED
    BY <1>1, PTL

-----------------------------------------------------------------------------
(* The shape of the state *)

AllCodes == Codes \cup {NoCode}

Messages ==
    [code : AllCodes, site : Origins, trace : TraceIds, fields : SUBSET Fields,
     cause : BOOLEAN, fp : Fingerprints, was : SUBSET AllCodes]

\* TypeOK says nothing of the network, which feeds what is held.
ShapeInv ==
    /\ TypeOK
    /\ net \subseteq Messages
    /\ DOMAIN held = Names /\ DOMAIN extractors = Names

LEMMA HashType ==
    ASSUME NEW c \in AllCodes, NEW site \in Origins
    PROVE  <<c, site>> \in Fingerprints /\ NoFp \in Fingerprints
BY DEF Fingerprints, AllCodes

LEMMA NewType ==
    ASSUME NEW site \in Origins
    PROVE  New(site) \in Errors
<1>1. NoFp \in Fingerprints
    BY DEF Fingerprints
<1>2. NoTrace \in TraceIds
    BY DEF TraceIds
<1> QED
    BY <1>1, <1>2 DEF New, Errors

\* The builders, for any error.
LEMMA BuildersType ==
    ASSUME NEW e \in Errors
    PROVE  /\ Fingerprinted(e) \in Errors
           /\ \A c \in AllCodes : WithCode(e, c) \in Errors
           /\ \A safe \in BOOLEAN : With(e, "key", safe) \in Errors
           /\ Note(e, "key") \in Errors
           /\ \A id \in TraceIds : WithTrace(e, id) \in Errors
           /\ Opaque(e) \in Errors
           /\ \A site \in Origins : Wrap(e, site) \in Errors
<1>1. \A v \in Errors : \A fp \in Fingerprints : [v EXCEPT !.fp = fp] \in Errors
    BY DEF Errors
<1>2. Fingerprint(e) \in Fingerprints
    <2>1. e.code \in AllCodes /\ e.site \in Origins /\ e.fp \in Fingerprints
        BY DEF Errors, AllCodes
    <2> QED
        BY <2>1, HashType DEF Fingerprint, Hash
<1>3. NoFp \in Fingerprints
    BY DEF Fingerprints
<1>4. ASSUME NEW c \in AllCodes PROVE WithCode(e, c) \in Errors
    <2>1. \A v \in Errors : \A fp \in Fingerprints : [v EXCEPT !.code = c, !.fp = fp, !.was = {c}] \in Errors
        BY DEF Errors, AllCodes
    <2> QED
        BY <1>3, <2>1 DEF WithCode
<1>5. ASSUME NEW v \in Errors, NEW safe \in BOOLEAN PROVE With(v, "key", safe) \in Errors
    <2>1. {[key |-> "key", safe |-> safe]} \subseteq Fields
        BY DEF Fields
    <2>2. \A s : s \subseteq Fields => [v EXCEPT !.fields = @ \cup s] \in Errors
        BY DEF Errors
    <2> QED
        BY <2>1, <2>2 DEF With
<1>6. ASSUME NEW site \in Origins PROVE Wrap(e, site) \in Errors
    <2>1. New(site) \in Errors /\ e.code \in AllCodes
        BY NewType DEF Errors, AllCodes
    <2>2. \A v \in Errors : \A c \in AllCodes : [v EXCEPT !.code = c, !.cause = TRUE, !.was = {c}] \in Errors
        BY DEF Errors, AllCodes
    <2> QED
        BY <2>1, <2>2 DEF Wrap
<1>7. \A id \in TraceIds : WithTrace(e, id) \in Errors
    BY DEF WithTrace, Errors
<1>8. Opaque(e) \in Errors
    BY DEF Opaque, Errors
<1> QED
    BY <1>1, <1>2, <1>3, <1>4, <1>5, <1>6, <1>7, <1>8 DEF Fingerprinted, Note

\* ctx.go: what the extractors find, the first trace id and all the fields.
LEMMA ContextType ==
    ASSUME NEW e \in Errors, NEW found \in Seq(Found)
    PROVE  Context(e, found) \in Errors
<1>1. \A f \in Found : f.trace \in TraceIds /\ f.fields \subseteq Fields
    BY ConstantsAssumption DEF Found, TraceIds, Spanned
<1>2. FirstTrace(found) \in TraceIds
    <2> DEFINE tracing == {i \in DOMAIN found : found[i].trace # NoTrace}
    <2>1. CASE tracing = {}
        BY <2>1 DEF FirstTrace, TraceIds
    <2>2. CASE tracing # {}
        <3>1. tracing \subseteq Nat
            OBVIOUS
        <3> DEFINE k == CHOOSE i \in tracing : \A j \in tracing : i <= j
        <3>2. FirstTrace(found) = found[k].trace
            BY <2>2 DEF FirstTrace
        <3>3. \E i \in tracing : \A j \in tracing : i <= j
            <4> HIDE DEF tracing
            <4> QED
                BY <2>2, <3>1, LeastNatural
        <3>4. k \in tracing
            <4> HIDE DEF tracing
            <4> QED
                BY <3>3
        <3>5. found[k] \in Found
            <4> HIDE DEF k
            <4> QED
                BY <3>4
        <3> HIDE DEF k
        <3> QED
            BY <1>1, <3>2, <3>5
    <2> QED
        BY <2>1, <2>2
<1>3. FoundFields(found) \subseteq Fields
    <2>1. \A i \in DOMAIN found : found[i] \in Found
        OBVIOUS
    <2>2. \A i \in DOMAIN found : found[i].fields \subseteq Fields
        BY <1>1, <2>1
    <2> QED
        BY <2>2 DEF FoundFields
<1>4. \A id \in TraceIds : \A fs : fs \subseteq Fields =>
        [e EXCEPT !.trace = id, !.fields = @ \cup fs, !.fp = NoFp] \in Errors
    BY DEF Errors, Fingerprints
<1>5. (IF e.trace = NoTrace THEN FirstTrace(found) ELSE e.trace) \in TraceIds
    BY <1>2 DEF Errors
<1> QED
    BY <1>3, <1>4, <1>5 DEF Context

\* goerr.go: over the bridge and back.
LEMMA BridgeType ==
    /\ \A e \in Errors : To(e) \in LegacyErrors
    /\ \A e \in Errors \cup LegacyErrors : From(e) \in Errors
<1>0. ShimSite \in Origins
    BY DEF Origins
<1>1. ASSUME NEW e \in Errors PROVE To(e) \in LegacyErrors
    <2>1. e.code \in Codes \cup {NoCode} /\ e.trace \in TraceIds /\ {f \in e.fields : f.safe} \subseteq Fields
        BY DEF Errors
    <2> QED
        BY <2>1 DEF To, Legacy, LegacyErrors
<1>2. ASSUME NEW e \in Errors PROVE From(e) \in Errors
    <2>1. ~IsLegacy(e)
        BY DEF IsLegacy, Errors
    <2> QED
        BY <1>0, <2>1, BuildersType DEF From
<1>3. ASSUME NEW e \in LegacyErrors PROVE From(e) \in Errors
    <2> DEFINE n == WithTrace(WithCode(New(ShimSite), e.code), e.trace)
               fs == {[f EXCEPT !.safe = FALSE] : f \in e.fields}
    <2>1. IsLegacy(e) /\ e.code \in AllCodes /\ e.trace \in TraceIds /\ e.fields \subseteq Fields
        BY DEF IsLegacy, LegacyErrors, AllCodes
    <2>2. New(ShimSite) \in Errors
        BY <1>0, NewType
    <2>3. WithCode(New(ShimSite), e.code) \in Errors
        BY <2>1, <2>2, BuildersType
    <2>4. n \in Errors
        BY <2>1, <2>3, BuildersType
    <2>5. fs \subseteq Fields
        BY <2>1 DEF Fields
    <2>6. From(e) = [n EXCEPT !.fields = fs]
        BY <2>1 DEF From
    <2> HIDE DEF n, fs
    <2> QED
        BY <2>4, <2>5, <2>6 DEF Errors
<1> QED
    BY <1>1, <1>2, <1>3

\* codec.go: to the wire and from it, whatever the table.
LEMMA CodecType ==
    /\ \A e \in Errors : Encode(e) \in Messages
    /\ EncodeForeign \in Messages
    /\ \A m \in Messages : \A table \in [Codes -> AllCodes] : Decode(table, m) \in Errors
<1>1. ASSUME NEW e \in Errors PROVE Encode(e) \in Messages
    <2>1. /\ e.code \in AllCodes /\ e.site \in Origins /\ e.trace \in TraceIds
          /\ {f \in e.fields : f.safe} \subseteq Fields /\ e.cause \in BOOLEAN
          /\ e.fp \in Fingerprints /\ e.was \subseteq AllCodes
        BY DEF Errors, AllCodes
    <2>2. Fingerprint(e) \in Fingerprints
        BY <2>1, HashType DEF Fingerprint, Hash
    <2> QED
        BY <2>1, <2>2 DEF Encode, Messages
<1>2. EncodeForeign \in Messages
    BY DEF EncodeForeign, Messages, AllCodes, Origins, TraceIds, Fingerprints
<1>3. ASSUME NEW m \in Messages, NEW table \in [Codes -> AllCodes] PROVE Decode(table, m) \in Errors
    <2> DEFINE c == migrateCode(table, m.code)
    <2>1. /\ m.code \in AllCodes /\ m.site \in Origins /\ m.trace \in TraceIds /\ m.fields \subseteq Fields
          /\ m.cause \in BOOLEAN /\ m.fp \in Fingerprints /\ m.was \subseteq AllCodes
        BY DEF Messages
    <2>2. \A d \in AllCodes : Successor(table, d) \in AllCodes
        BY DEF Successor, AllCodes
    <2>3. c \in AllCodes
        BY <2>1, <2>2, MigrateType
    <2> HIDE DEF c
    <2> QED
        BY <2>1, <2>3 DEF Decode, Errors, c, AllCodes
<1> QED
    BY <1>1, <1>2, <1>3

LEMMA InitShape == Init => ShapeInv
<1>1. \A s \in Names : <<>> \in Seq(Found)
    OBVIOUS
<1> QED
    BY <1>1 DEF Init, ShapeInv, TypeOK

LEMMA HoldsType ==
    ASSUME ShapeInv, NEW s \in Names
    PROVE  /\ Holds(s) => held[s] \in Errors
           /\ held[s] # NoError => held[s] \in Errors \cup LegacyErrors
<1>1. \A e \in LegacyErrors : IsLegacy(e)
    BY DEF LegacyErrors, IsLegacy
<1> QED
    BY <1>1 DEF ShapeInv, TypeOK, Holds

LEMMA HoldShape ==
    ASSUME ShapeInv, NEW s \in Names, NEW e \in Errors \cup LegacyErrors,
           held' = [held EXCEPT ![s] = e], net' \subseteq Messages, UNCHANGED tables
    PROVE  ShapeInv'
BY DEF ShapeInv, TypeOK, tables

LEMMA EnrichShape ==
    ASSUME ShapeInv, NEW s \in Names, Enrich(s) \/ FromContext(s) \/ ToLegacy(s) \/ FromLegacy(s)
    PROVE  ShapeInv'
<1>1. \A id \in Traces : id \in TraceIds
    BY DEF TraceIds
<1>2. \A site \in Sites : site \in Origins
    BY DEF Origins
<1>3. \A c \in Codes : c \in AllCodes
    BY DEF AllCodes
<1>4. extractors[s] \in Seq(Found)
    BY DEF ShapeInv, TypeOK
<1>5. \E e \in Errors \cup LegacyErrors : Build(s, e)
    <2>1. CASE Enrich(s)
        <3>1. held[s] \in Errors
            BY <2>1, HoldsType DEF Enrich
        <3> QED
            BY <1>1, <1>2, <1>3, <2>1, <3>1, BuildersType DEF Enrich
    <2>2. CASE FromContext(s)
        BY <1>4, <2>2, HoldsType, ContextType DEF FromContext
    <2>3. CASE ToLegacy(s)
        BY <2>3, HoldsType, BridgeType DEF ToLegacy
    <2>4. CASE FromLegacy(s)
        BY <2>4, HoldsType, BridgeType DEF FromLegacy
    <2> QED
        BY <2>1, <2>2, <2>3, <2>4
<1>6. PICK e \in Errors \cup LegacyErrors : Build(s, e)
    BY <1>5
<1> QED
    BY <1>6, HoldShape DEF Build, Hold, ShapeInv

LEMMA HandShape ==
    ASSUME ShapeInv, NEW s \in Names, Mint(s) \/ Group(s) \/ Snapshot(s) \/ Send(s) \/ \E m \in net : Receive(s, m)
    PROVE  ShapeInv'
<1>1. CASE Mint(s)
    <2>1. PICK site \in Sites, c \in Coined : Hold(s, WithCode(New(site), c))
        BY <1>1 DEF Mint
    <2>2. site \in Origins /\ c \in AllCodes
        BY ConstantsAssumption DEF Origins, AllCodes
    <2>3. WithCode(New(site), c) \in Errors
        BY <2>2, NewType, BuildersType
    <2> QED
        BY <2>1, <2>3, HoldShape DEF Hold, ShapeInv
<1>2. CASE Group(s) \/ Snapshot(s)
    <2>1. held' = [held EXCEPT ![s] = Fingerprinted(held[s])] /\ net' = net /\ UNCHANGED tables
        BY <1>2 DEF Group, Snapshot, Hold
    <2>2. Fingerprinted(held[s]) \in Errors
        BY <1>2, HoldsType, BuildersType DEF Group, Snapshot
    <2> QED
        BY <2>1, <2>2, HoldShape DEF ShapeInv
<1>3. CASE Send(s)
    <2>1. held' = [held EXCEPT ![s] = Fingerprinted(held[s])] /\ net' = net \cup {Encode(held[s])} /\ UNCHANGED tables
        BY <1>3 DEF Send, Sent
    <2>2. held[s] \in Errors
        BY <1>3, HoldsType DEF Send
    <2>3. Fingerprinted(held[s]) \in Errors /\ Encode(held[s]) \in Messages
        BY <2>2, BuildersType, CodecType
    <2> QED
        BY <2>1, <2>3, HoldShape DEF ShapeInv
<1>4. CASE \E m \in net : Receive(s, m)
    <2>1. PICK m \in net : Hold(s, Decode(codeMig[s], m))
        BY <1>4 DEF Receive
    <2>2. m \in Messages /\ codeMig[s] \in [Codes -> AllCodes]
        BY DEF ShapeInv, TypeOK, AllCodes
    <2>3. Decode(codeMig[s], m) \in Errors
        BY <2>2, CodecType
    <2> QED
        BY <2>1, <2>3, HoldShape DEF Hold, ShapeInv
<1> QED
    BY <1>1, <1>2, <1>3, <1>4

LEMMA RegisterShape ==
    ASSUME ShapeInv, NEW s \in Names,
           \/ \E r \in Renamed : RegisterCodeMigration(s, r[1], r[2])
           \/ \E found \in Finds : RegisterContextExtractor(s, found)
           \/ \E id \in Spans : Install(s, id)
    PROVE  ShapeInv'
<1>1. CASE \E r \in Renamed : RegisterCodeMigration(s, r[1], r[2])
    <2>1. PICK r \in Renamed : RegisterCodeMigration(s, r[1], r[2])
        BY <1>1
    <2>2. r[1] \in Codes /\ r[2] \in Codes
        BY ConstantsAssumption
    <2>3. codeMig' = [codeMig EXCEPT ![s][r[1]] = r[2]] /\ UNCHANGED <<held, net, extractors>>
        BY <2>1 DEF RegisterCodeMigration
    <2>4. codeMig' \in [Names -> [Codes -> Codes \cup {NoCode}]]
        BY <2>2, <2>3 DEF ShapeInv, TypeOK
    <2> QED
        BY <2>3, <2>4 DEF ShapeInv, TypeOK
<1>2. CASE \/ \E found \in Finds : RegisterContextExtractor(s, found)
           \/ \E id \in Spans : Install(s, id)
    <2>1. PICK found \in Found : RegisterContextExtractor(s, found)
        BY <1>2 DEF Install, Found
    <2>2. extractors' = [extractors EXCEPT ![s] = Append(@, found)] /\ UNCHANGED <<held, net, codeMig>>
        BY <2>1 DEF RegisterContextExtractor
    <2>3. \A q \in Seq(Found) : Append(q, found) \in Seq(Found)
        OBVIOUS
    <2>4. DOMAIN extractors' = Names /\ \A t \in Names : extractors'[t] \in Seq(Found)
        BY <2>2, <2>3 DEF ShapeInv, TypeOK
    <2> QED
        BY <2>2, <2>4 DEF ShapeInv, TypeOK
<1> QED
    BY <1>1, <1>2

LEMMA NextShape == ShapeInv /\ [Next]_vars => ShapeInv'
<1> SUFFICES ASSUME ShapeInv, [Next]_vars PROVE ShapeInv'
    OBVIOUS
<1>1. CASE UNCHANGED vars
    BY <1>1 DEF vars, tables, ShapeInv, TypeOK
<1>2. CASE Next
    <2>1. PICK s \in Names :
            \/ \E r \in Renamed : RegisterCodeMigration(s, r[1], r[2])
            \/ \E found \in Finds : RegisterContextExtractor(s, found)
            \/ \E id \in Spans : Install(s, id)
            \/ Mint(s) \/ Enrich(s) \/ FromContext(s) \/ Group(s) \/ ToLegacy(s) \/ FromLegacy(s)
            \/ Snapshot(s) \/ Send(s) \/ SendForeign(s) \/ \E m \in net : Receive(s, m)
        BY <1>2 DEF Next
    <2>2. CASE SendForeign(s)
        <3>1. net' = net \cup {EncodeForeign} /\ UNCHANGED <<held, codeMig, extractors>>
            BY <2>2 DEF SendForeign, Sent, tables
        <3> QED
            BY <3>1, CodecType DEF ShapeInv, TypeOK
    <2> QED
        BY <2>1, <2>2, EnrichShape, HandShape, RegisterShape
<1> QED
    BY <1>1, <1>2

\* What services hold, and what their tables and extractors say, are errors,
\* codes and findings, for any network (codec.go, ctx.go, goerr.go).
THEOREM TypeCorrect == Spec => []TypeOK
<1>1. ShapeInv => TypeOK
    BY DEF ShapeInv
<1> QED
    BY <1>1, InitShape, NextShape, PTL DEF Spec
=============================================================================
