----------------------------- MODULE WireCodec -----------------------------
(***************************************************************************)
(* One *Error as its identity, and what fingerprint.go, codec.go, ctx.go,  *)
(* the builders of errx.go and the goerr shim do to it.  The fingerprint,  *)
(* an FNV hash of domain, code and origin frame, is the pair of code and   *)
(* origin frame; domain, class, severity, retry metadata, owner and        *)
(* messages are copied wherever the code is and left out.  A cause is      *)
(* there or not: only its message travels.                                 *)
(*                                                                         *)
(* was is a history field, which also travels: the code a program last     *)
(* gave the error and those that migrations replaced it by.                *)
(***************************************************************************)
EXTENDS Integers, Sequences, FiniteSets

CONSTANT MaxHops  \* how far migrateCode follows a chain: 8 in the code

ASSUME MaxHopsAssumption == MaxHops \in Nat \ {0}

NoCode == ""

NoSite == ""

NoTrace == ""

NoFp == <<>>

-----------------------------------------------------------------------------
(* fingerprint.go *)

HashOfCode(e) == <<e.code>>

Hash(e) == <<e.code, e.site>>

Fingerprint(e) == IF e.fp # NoFp THEN e.fp ELSE Hash(e)

\* Asking for the fingerprint caches it.
Fingerprinted(e) == [e EXCEPT !.fp = Fingerprint(e)]

-----------------------------------------------------------------------------
(* construct.go and the builders of errx.go *)

New(site) ==
    [code |-> NoCode, site |-> site, trace |-> NoTrace, fields |-> {},
     cause |-> FALSE, opaque |-> FALSE, fp |-> NoFp, was |-> {NoCode}]

\* A new error at the site of the call, with the identity of the one inside.
Wrap(e, site) ==
    [New(site) EXCEPT !.code = e.code, !.cause = TRUE, !.was = {e.code}]

WithCodeKeepingFp(e, c) == [e EXCEPT !.code = c, !.was = {c}]

WithCode(e, c) == [e EXCEPT !.code = c, !.fp = NoFp, !.was = {c}]

With(e, key, safe) == [e EXCEPT !.fields = @ \cup {[key |-> key, safe |-> safe]}]

\* Note on an error that is an *Error.
Note(e, key) == [With(e, key, FALSE) EXCEPT !.fp = NoFp]

WithTrace(e, id) == [e EXCEPT !.trace = id]

Opaque(e) == [e EXCEPT !.opaque = TRUE]

FirstTrace(found) ==
    LET tracing == {i \in DOMAIN found : found[i].trace # NoTrace}
    IN  IF tracing = {} THEN NoTrace ELSE found[CHOOSE i \in tracing : \A j \in tracing : i <= j].trace

FoundFields(found) == UNION {found[i].fields : i \in DOMAIN found}

ContextOverwriting(e, found) ==
    [e EXCEPT !.trace = FirstTrace(found), !.fields = @ \cup FoundFields(found), !.fp = NoFp]

\* Context asks the extractors in order.  Their fields are appended, but the
\* first trace id found only counts when the error has none.
Context(e, found) ==
    [e EXCEPT !.trace = IF e.trace = NoTrace THEN FirstTrace(found) ELSE e.trace,
              !.fields = @ \cup FoundFields(found), !.fp = NoFp]

-----------------------------------------------------------------------------
(* codec.go *)

\* The table's entry for c, if it has one.
Successor(table, c) == IF c = NoCode THEN c ELSE IF table[c] = NoCode THEN c ELSE table[c]

\* One entry only: what following a chain is for.
MigrateOnce(table, c) == Successor(table, c)

\* Follow the table from c, MaxHops times at most.
migrateCode(table, c) ==
    LET hop[n \in 0 .. MaxHops] == IF n = 0 THEN c ELSE Successor(table, hop[n - 1])
    IN  hop[MaxHops]

\* The cause's message travels also from behind an Opaque barrier.
Encode(e) ==
    [code |-> e.code, site |-> e.site, trace |-> e.trace,
     fields |-> {f \in e.fields : f.safe}, cause |-> e.cause, fp |-> Fingerprint(e), was |-> e.was]

\* The envelope of an error that is no *Error.
EncodeForeign ==
    [code |-> NoCode, site |-> NoSite, trace |-> NoTrace,
     fields |-> {}, cause |-> FALSE, fp |-> NoFp, was |-> {NoCode}]

DecodeWithoutStack(table, m) ==
    [code |-> migrateCode(table, m.code), site |-> NoSite, trace |-> m.trace,
     fields |-> m.fields, cause |-> m.cause, opaque |-> FALSE, fp |-> m.fp,
     was |-> m.was \cup {migrateCode(table, m.code)}]

Decode(table, m) ==
    [code |-> migrateCode(table, m.code), site |-> m.site, trace |-> m.trace,
     fields |-> m.fields, cause |-> m.cause, opaque |-> FALSE, fp |-> m.fp,
     was |-> m.was \cup {migrateCode(table, m.code)}]

-----------------------------------------------------------------------------
(* contrib/goerr: to and from the errors of the library before this one, by  *)
(* values that are still in use.  A legacy error has a code, a trace id and  *)
(* keys with values; it knows neither origins nor fingerprints, nor which    *)
(* of its values are safe: those of one not made by To are not.              *)

ShimSite == "goerr.From"  \* where From calls New and Wrap

Legacy(code, trace, fields) == [legacy |-> TRUE, code |-> code, trace |-> trace, fields |-> fields]

IsLegacy(e) == "legacy" \in DOMAIN e

\* Unsafe fields are dropped.
To(e) == Legacy(e.code, e.trace, {f \in e.fields : f.safe})

\* All fields become unsafe.  An error with no legacy one in it is wrapped.
From(e) ==
    IF IsLegacy(e)
    THEN [WithTrace(WithCode(New(ShimSite), e.code), e.trace)
            EXCEPT !.fields = {[f EXCEPT !.safe = FALSE] : f \in e.fields}]
    ELSE Wrap(e, ShimSite)
=============================================================================
