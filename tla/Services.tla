------------------------------ MODULE Services ------------------------------
(***************************************************************************)
(* Services that build errors, enrich them, group and report them, and     *)
(* send them to each other in wire form, each with tables of its own: code *)
(* migrations (codec.go) and context extractors (ctx.go).  Parts of some   *)
(* still use legacy errors, and hand theirs over by way of the goerr shim. *)
(* Tables change while errors travel.  The network may lose, delay,        *)
(* reorder and duplicate what is sent: what was sent once can be decoded   *)
(* at any later time, any number of times, or never.                       *)
(***************************************************************************)
EXTENDS WireCodec

CONSTANTS
    Names,         \* the services
    Codes,         \* error codes
    Coined,        \* the codes new errors are given
    Sites,         \* places in the code that construct errors
    Traces,        \* trace ids
    Finds,         \* what one context extractor may find
    Spans,         \* the trace ids of OpenTelemetry spans
    NoError,       \* a service holds no error
    Minting,       \* the services that make errors of their own
    Migrating,     \* the services whose code table may change
    Renamed,       \* the migrations they may register, as pairs of codes
    Extracting,    \* the services that have context extractors
    Bridging,      \* the services that still use legacy errors in part
    MaxSent,       \* bound on the different messages sent
    MaxBuilt,      \* bound on builder calls
    MaxExtractors  \* bound on the extractors of one service

\* What the fields are named that builders and context extractors add.
Fields == [key : {"key", "request"}, safe : BOOLEAN]

ASSUME ConstantsAssumption ==
    /\ Codes \subseteq STRING /\ Coined \subseteq Codes /\ Renamed \subseteq Codes \X Codes /\ NoCode \notin Codes
    /\ NoSite \notin Sites /\ NoTrace \notin Traces /\ \A found \in Finds : found.fields \subseteq Fields
    /\ MaxSent \in Nat /\ MaxBuilt \in Nat /\ MaxExtractors \in Nat

VARIABLES
    held,        \* the error each service is handling, a legacy one at times
    net,         \* what was sent
    codeMig,     \* the code migrations each service knows; NoCode: none
    extractors,  \* what its context extractors find, in order
    reported,    \* the fields whose value some Report has shown
    built        \* how many builder calls there were

tables == <<codeMig, extractors>>
vars == <<held, net, codeMig, extractors, reported, built>>

Init ==
    /\ held = [s \in Names |-> NoError]
    /\ net = {}
    /\ codeMig = [s \in Names |-> [c \in Codes |-> NoCode]]
    /\ extractors = [s \in Names |-> <<>>]
    /\ reported = {}
    /\ built = 0

HoldsLegacy(s) == held[s] # NoError /\ IsLegacy(held[s])

Holds(s) == held[s] # NoError /\ ~IsLegacy(held[s])

-----------------------------------------------------------------------------
(* Registration *)

\* An entry of an existing code is overwritten.
RegisterCodeMigration(s, old, new) ==
    /\ s \in Migrating
    /\ codeMig' = [codeMig EXCEPT ![s][old] = new]
    /\ UNCHANGED <<held, net, extractors, reported, built>>

RegisterContextExtractor(s, found) ==
    /\ s \in Extracting /\ Len(extractors[s]) < MaxExtractors
    /\ extractors' = [extractors EXCEPT ![s] = Append(@, found)]
    /\ UNCHANGED <<held, net, codeMig, reported, built>>

\* What the extractor of contrib/otel finds: the ids of the span there is.
Spanned(id) == [trace |-> id, fields |-> {}]

Install(s, id) == RegisterContextExtractor(s, Spanned(id))

-----------------------------------------------------------------------------
(* Building *)

Hold(s, e) ==
    /\ held' = [held EXCEPT ![s] = e]
    /\ UNCHANGED <<net, tables, reported>>

Build(s, e) ==
    /\ built < MaxBuilt
    /\ built' = built + 1
    /\ Hold(s, e)

Mint(s) ==
    /\ s \in Minting /\ held[s] = NoError
    /\ \E site \in Sites, c \in Coined :
        Hold(s, WithCode(New(site), c)) /\ UNCHANGED built

Enrich(s) ==
    /\ Holds(s)
    /\ \/ \E c \in Codes : Build(s, WithCode(held[s], c))
       \/ \E site \in Sites : Build(s, Wrap(held[s], site))
       \/ \E safe \in BOOLEAN : Build(s, With(held[s], "key", safe))
       \/ Build(s, Note(held[s], "key"))
       \/ \E id \in Traces : Build(s, WithTrace(held[s], id))
       \/ Build(s, Opaque(held[s]))

FromContext(s) ==
    /\ Holds(s)
    /\ Build(s, Context(held[s], extractors[s]))

Group(s) ==
    /\ Holds(s)
    /\ Hold(s, Fingerprinted(held[s])) /\ UNCHANGED built

-----------------------------------------------------------------------------
(* The goerr shim *)

ToLegacy(s) ==
    /\ s \in Bridging /\ Holds(s)
    /\ Build(s, To(held[s]))

FromLegacy(s) ==
    /\ s \in Bridging /\ held[s] # NoError
    /\ Build(s, From(held[s]))

-----------------------------------------------------------------------------
(* Reporting *)

ShownUnredacted(e) == e.fields

\* Values of fields that are not marked safe are replaced in a Report.
Shown(e) == {f \in e.fields : f.safe}

Snapshot(s) ==
    /\ Holds(s)
    /\ held' = [held EXCEPT ![s] = Fingerprinted(@)]
    /\ reported' = reported \cup Shown(held[s])
    /\ UNCHANGED <<net, tables, built>>

-----------------------------------------------------------------------------
(* Sending *)

Sent(m) == net' = net \cup {m} /\ Cardinality(net') <= MaxSent

Send(s) ==
    /\ Holds(s)
    /\ Sent(Encode(held[s]))
    /\ held' = [held EXCEPT ![s] = Fingerprinted(@)]
    /\ UNCHANGED <<tables, reported, built>>

\* A legacy error is no *Error to the codec.
SendForeign(s) ==
    /\ Sent(EncodeForeign)
    /\ UNCHANGED <<held, tables, reported, built>>

\* What is received takes the place of the error handled before.
Receive(s, m) ==
    /\ Hold(s, Decode(codeMig[s], m)) /\ UNCHANGED built

-----------------------------------------------------------------------------

Next ==
    \E s \in Names :
        \/ \E r \in Renamed : RegisterCodeMigration(s, r[1], r[2])
        \/ \E found \in Finds : RegisterContextExtractor(s, found)
        \/ \E id \in Spans : Install(s, id)
        \/ Mint(s) \/ Enrich(s) \/ FromContext(s) \/ Group(s) \/ ToLegacy(s) \/ FromLegacy(s)
        \/ Snapshot(s) \/ Send(s) \/ SendForeign(s) \/ \E m \in net : Receive(s, m)

Spec == Init /\ [][Next]_vars

-----------------------------------------------------------------------------
(* Properties *)

Found == Finds \cup {Spanned(id) : id \in Spans}

TraceIds == Traces \cup {NoTrace} \cup {f.trace : f \in Found}

Origins == Sites \cup {NoSite, ShimSite}

Fingerprints == {NoFp} \cup ((Codes \cup {NoCode}) \X Origins)

LegacyErrors ==
    [legacy : {TRUE}, code : Codes \cup {NoCode}, trace : TraceIds, fields : SUBSET Fields]

Errors ==
    [code : Codes \cup {NoCode}, site : Origins, trace : TraceIds, fields : SUBSET Fields,
     cause : BOOLEAN, opaque : BOOLEAN,
     fp : Fingerprints, was : SUBSET (Codes \cup {NoCode})]

\* The shape of the state: what services hold are errors.
TypeOK ==
    /\ \A s \in Names : held[s] # NoError => held[s] \in Errors \cup LegacyErrors
    /\ codeMig \in [Names -> [Codes -> Codes \cup {NoCode}]]
    /\ \A s \in Names : extractors[s] \in Seq(Found)

\* A cached fingerprint is never stale: whatever was built, wrapped, sent and
\* enriched since, it is that of the error's own origin and of its own code,
\* or of one that a migration replaced by it.
CacheHonest ==
    \A s \in Names : Holds(s) /\ held[s].fp # NoFp =>
        held[s].fp[2] = held[s].site /\ held[s].fp[1] \in held[s].was

\* What travels once travels for ever: an error that is decoded and sent on
\* unchanged leaves as the message it came as, but for a code the receiver
\* has migrated and a fingerprint where there was none.
RoundTrip ==
    \A m \in net, s \in Names :
        LET e == Decode(codeMig[s], m)
        IN  Encode(e) = [m EXCEPT !.code = e.code, !.fp = IF m.fp = NoFp THEN Hash(e) ELSE m.fp, !.was = e.was]

\* The value of a field not marked safe leaves in no message, in no report and
\* over no bridge, whichever service marked it, however often it was sent and
\* whatever it was in between.
UnsafeStays ==
    /\ \A s \in Names : HoldsLegacy(s) => \A f \in held[s].fields : f.safe
    /\ \A m \in net : \A f \in m.fields : f.safe
    /\ \A f \in reported : f.safe

Chain(table, c, d, n) ==
    \E chain \in [0 .. n -> Codes] :
        /\ chain[0] = c /\ chain[n] = d
        /\ \A i \in 1 .. n : table[chain[i - 1]] = chain[i]

\* Codes settle: a code whose migrations end within MaxHops, at a code that has
\* none or is its own, is replaced by that code, so that decoding again
\* changes nothing.
MigrationSettles ==
    \A s \in Names, c, d \in Codes :
        /\ codeMig[s][d] \in {NoCode, d}
        /\ \E n \in 0 .. MaxHops : Chain(codeMig[s], c, d, n)
        => migrateCode(codeMig[s], c) = d

\* Enrichment from a context never replaces a trace id the error came with,
\* and over the bridge and back, or on its own, it has the trace id it had.
TraceSticks ==
    [][\A s \in Names :
        \/ FromContext(s) /\ held[s].trace # NoTrace
        \/ ToLegacy(s)
        \/ FromLegacy(s) /\ HoldsLegacy(s)
        => held'[s].trace = held[s].trace]_vars
=============================================================================
