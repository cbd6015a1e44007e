# TLA+ models of errx

`errx` is a Go library of structured errors: one error value, constructors that
wrap and combine errors, inspectors that walk an error's graph, helpers for
deferred cleanup and panics, accumulation of several failures, a wire codec, a
reporting registry with a rate-limiting sink, and adapters for other systems.
This directory holds TLA+ models of it, what TLC checks of them, and what TLAPS
proves of them. Line references are to files under `src/`.

## 1. Inventory

| Part | State | Operations | How it interacts | What is hard | What makes it correct |
|---|---|---|---|---|---|
| Error value (`errx.go`) | code, class, fields, cause, suppressed, opaque flag, cached fingerprint | fluent builders, all of which mutate in place; `Suppress`; `Opaque`; `Unwrap` | every other part reads or mutates it; one value is shared by all wrappers that reach it | aliasing, in-place mutation of a graph others hold, cycles, a stale cache | mutation through one name never reclassifies what another name sees; the unwrap graph is finite |
| Construction (`construct.go`) | none | `New`, `Wrap`, `Note`, `Join` | copies identity from the nearest inner `*Error`; `Note` mutates that one | typed nil; a copy that goes stale; what wins in a preorder walk | wrapping keeps matchability and classification |
| Inspection (`inspect.go`) | none | `Get`, `Code`, `HasCode`, `FindByCode`, `ClassOf`, `IsRetryable` | walk the graph in the order of `errors.As` | order of search, barriers | the primary error answers, not a secondary one |
| Deferred helpers (`errdefer.go`, `recover.go`) | the caller's named result `*errp`, a panic in flight | `OnError`, `OnSuccess`, `AppendSuppressed`, `CloseSuppressing`, `Recover` | run last-in first-out, each seeing what the previous one left in `*errp` | order of defers, panics while unwinding, failing `Close` | cleanup agrees with the final outcome, no failure is lost |
| Accumulation (`accumulate.go`) | entries under a mutex | `Add`, `Len`, `ErrorOrNil`, `Accumulate`, `ParAccumulate` | goroutines, a WaitGroup | lost update, early return | the result lists exactly the failures |
| Registry (`report.go`) | slice of sinks under an RWMutex | `Add`, `Report` | takes a slice header under the lock, calls sinks outside it, hands all of them one `*Report` | slice aliasing, re-entrant sinks, a failing sink | each sink registered before the call gets the unmodified report once |
| SampledSink (`sample.go`) | bucket per fingerprint under a mutex | `Emit` | sits between the registry and a sink | stale clock read, check-then-act | budget per window, drops visible |
| Fingerprint (`fingerprint.go`) | `e.fp` cache | `Fingerprint` | written by the read path, reset by builders | unsynchronised cache on a shared value | equal identity gives equal key |
| Codec (`codec.go`) | code migrations under a RWMutex | `Encode`, `Decode`, `RegisterCodeMigration` | several hops | migration cycles, a fingerprint kept across a renamed code | identity survives hops |
| Context extractors, doc registry (`ctx.go`, `docreg.go`) | registered functions, docs by code | `RegisterContextExtractor`, `Context`, `RegisterDoc`, `DocFor` | lookups at snapshot time | two lookups in one snapshot | an id the error came with stays; documentation shown is current |
| Stack and trace (`stack.go`) | program counters | `Frames`, `Trace` | used by reports and diagnostics | the return trace is rebuilt from a graph that goes on changing | the origin frame survives the wire; a layer's place in the trace is fixed when it wraps |
| Text and logging (`format.go`, `slog.go`) | none | `Format`, `LogValue` | pure output | | |
| `diag` | none | `Fprint`, graphical or narrated | reads an error's source, labels, hint and URL | byte offsets to lines and columns, at newlines, ends and out of range | an underline is under its label |
| `result` | a value or an error | `From`, `Try`, `Map`, `AndThen`, `MapErr`, `Recover`, `Collect`, `Unwrap` | its `Unwrap` panics through the deferred helpers | a typed nil; a failure that travels as a panic | the failure is the function's, however it leaves |
| `errtest` | none | assertions for tests | | | |
| `cmd/errxgen` | a spec file, generated files | parse, generate, write | file system | a failure between two files | |
| `httpx`, `grpc`, `connect`, `graphql` (`contrib/*`) | `httpx` keeps status and type maps | one answer per error | take a `Snapshot`, look things up | fallback order, concurrent registration | one error is answered alike everywhere |
| `sentry`, `otel`, `prometheus` (`contrib/*`) | none of their own | `Emit`; `otel` also `Install` | sinks of the registry; an extractor | no hub, no recording span | one error has one name and is a failure everywhere or nowhere |
| `goerr` (`contrib/goerr`) | none | `From`, `To` | errors of a legacy library, in and out | what gets lost or loses its mark on the way | nothing unsafe crosses, the trace id stays |

The hazards of each part, at their lines, are in `PROJECT.json`.

## 2. Plan

Modules are written so that they can be proved about: constants carry named
assumptions, one action stands for one operation or one atomic step of it, no
module a proof reaches declares a RECURSIVE operator.

Done, in this order:

1. `SampledSink`, its abstract specification `RateLimiter`, and their proofs.
2. `ErrorValues` (the heap of error values and the pure operations on it),
   `ErrorChain` (a client that builds, wraps and suppresses) and `ErrDefer`
   (one function call with its defers) on top of it.
3. `Accumulator`, the mutex and WaitGroup implementation of `CollectAll`, and
   its proofs.
4. `Registry`: fan-out over a shared slice, implementing `FanOut`.
5. `WireCodec` (one error as its identity) and `Services` on top of it.
6. `StatusMapping` (the adapters' tables) and `Answers` on top of it.
7. `Diag` (offsets to underlines) and the sinks `sentry`, `otel`, `prometheus`
   and `diag` in `Answers`; `Results` in `ErrDefer`; the return trace in
   `ErrorChain`; the `goerr` shim and `otel`'s extractor in `Services`.
8. `ServicesProofs`, `AnswersProofs` and `RegistryProofs`, the last with the
   refinement of `FanOut`.
9. `ErrorValuesProofs` (what the walks over an error graph compute), and on top of
   it `ErrorChainProofs` and `ErrDeferProofs`; the renamed codes and the types of
   `Services`; the underlines of `Diag`, in `AnswersProofs`.

Left: abstract specifications of `ErrDefer` and of the codec, each with its
refinement; the file writes of `errxgen` (section 6).

## 3. Modules

### The rate limiter: `RateLimiter`, `SampledSink`, `SampledSinkProofs`

`buckets` is the map of `SampledSink`, `mu` who holds its mutex, `pc` and the
instants each goroutine has read are the locals of `Emit`. The code reads the
clock before it locks, so `ReadClock` and `Lock` (with the lookup under the
mutex) are two actions with any time in between; `OpenWindow`, `Admit` and `Drop`
are the three ways the critical section ends, and `Deliver` is `inner.Emit` after
the unlock. Three history variables record per fingerprint and window what was
let through, dropped and told. Mutual exclusion is a consequence of the guard on
`Lock`; the model does not assume it, and the mutants that drop it break the
invariants. `RateLimiter` is the same promise with none of this: windows at least
`Window` apart, each of which charges at most `Burst`.

### Error graphs: `ErrorValues`, `ErrorChain`, `Results`, `ErrDefer`, `ErrorValuesProofs`, `ErrorChainProofs`, `ErrDeferProofs`

An error is a position in a heap, so that two names can reach one error and a
builder that mutates in place is seen through both. The walks are functions
that recur on how deep they go, bounded by the size of the heap. `ErrorValues` holds the pure
operations: `Unwrap`, the preorder walk of `errors.As` and the walks of
`inspect.go` (one recursion for each of `Code`, `HasCode` and `FindByCode`, which
share no loop in the code either), `New`, `Wrap`, `Note`, `Join`, `Suppress`,
`AppendSuppressed` and what `Recover` builds. `TypedNil` is the non-nil interface
around a nil `*Error`; `PanicsOnNil` says where `Wrap`, `Note` and `AppendSuppressed`
dereference it, and the actions that call them there are panics of the runtime.
`ErrorChain` lets a program apply any operation to any value it holds.
`ErrDefer` runs one function: it registers deferred calls in some order, returns
or panics, and the calls run last in first out over the named result, under the
panic in flight, each able to replace it. `Trace` of `ErrorValues` is the list of
layers whose call sites `stack.go` prints. `Results` is package `result`, a Result
being its error: in `ErrDefer` a body may also return the error of a chain of
Results, or unwrap it, in which case the failure leaves as a panic; where the
chain wraps or notes a typed nil the runtime panics before there is a Result
(`PanicInRailway`). `failures` are all errors the body or a Close returned,
`discarded` those of a Close during which `Suppress` dereferenced a typed nil.

### Accumulation: `CollectAll`, `Accumulator`, `AccumulatorProofs`

`entries` and the mutex are those of `Accumulator`; `at` and `arg` say where each
function's goroutine is and what it failed with; the reading under the lock and
the write before the unlock are two actions. The three ways the type is used
(in turn, in parallel behind a WaitGroup, shared with readers) are three initial
values of `mode`. `CollectAll` has no lock: a failure is recorded at one instant,
and the combined answer is everything recorded, when nobody runs any more.

### The registry: `FanOut`, `Registry`, `RegistryProofs`

Go slices as they are: `arrays` are backing arrays, `sinks` is the header in the
registry, `view` the copy each `Report` walks with no lock. The words of a header
are read in two steps; an append writes in place while there is room and moves
when there is none (`CapFor`: `Growth` is any set of capacities that has a next
one for every length reached). The RWMutex
has waiting writers that hold back new readers. Sinks may fail, add their field to
a copy of the report (the sampling wrapper), or call `Add` from their `Emit`.
The fingerprint cache is two words, because a Go string is.

### Errors in transit: `WireCodec`, `Services`, `ServicesProofs`

An error is a record of what identifies it; the fingerprint, a hash of domain,
code and origin frame, is the pair of code and origin, so that equality of
fingerprints is equality of what is hashed. Each service handles one error and
has its own code table and extractors. `Encode` and `Decode` are applied to
records; the network is the set of what was ever sent, and `Receive` may take any
of it, at any time, as often as it likes. `was` is a history field: the codes the
error has had since a program last set one. A legacy error is a record of its
own kind, with the fields of a `goerr` error; a service of `Bridging` may turn what
it holds into one and back. `Install` adds the extractor of `otel`.

### Answers: `StatusMapping`, `Diag`, `Answers`, `AnswersProofs`

The tables of `httpx`, `grpc` and `connect`, entry by entry, the fallback by
class, and what `sentry`, `otel` and `diag` make of severity, code and class.
`Diag` has `indexLines`, `locate` and the clipping of underlines as the code does
them, and beside them the same from the text alone: the line of a byte is one
more than the newlines before it, an underline covers what its label covers of
that line. `Answers` is one handler: the two documentation look-ups of `Snapshot`, the
status and type look-ups of `httpx` and the writing of the answer, event or
drawing are steps of their own, and registrations of other goroutines come in between. `seen` is a
history variable with the entries the error's code had since the request began.
A registered status is any int, and `HttpWrite` has the panic of `net/http` on those
that are no status. `TypeBaseURL` is set once, before there are requests. The
arithmetic of `diag` is that of ints: `IntSum` overflows at `MaxInt`.

## 4. What the runs check

| Run | Shows |
|---|---|
| `sampled_sink` | two goroutines, one fingerprint and the empty one: budget, spacing, no needless drop, every drop accounted for; implements `RateLimiter`; every `Emit` returns |
| `error_chain` | three nodes, every sequence of operations: what matched goes on matching, wrapping keeps identity, the library's walks agree with the standard library's, secondary errors lose nothing, and a return trace holds every layer and stays |
| `defer_frame` | every order of up to four deferred calls, every outcome of each, and every way out of the body, Results and typed nils included: no failure lost but to a typed nil, the primary stays primary, a panic stays a defect, callbacks run exactly when they should |
| `accumulator` | three functions, one reader, all three modes: nothing lost, the combined answer is complete and in order, answers are consistent; implements `CollectAll`; every call returns |
| `registry` | three reports, one of them of nothing, one Add from outside and two from within `Emit`: every report reaches its sinks and every failure is told, views are stable; implements `FanOut`; nobody blocks |
| `services` | two hops with renamed codes: the cache is honest, a forwarded message is unchanged, nothing unsafe leaves, codes settle, trace ids stay, also over the bridge to the legacy library |
| `answers` | every built-in code, one that is not and none, in every class: no answer older than its request, all adapters agree on whose fault it is and what it is called, net/http panics only on a registered status; every label that starts in a source of three bytes is underlined where it is |

Five more runs each find the code at odds with a sentence of its documentation;
`findings` in `PROJECT.json` quotes them.

| Run | What happens |
|---|---|
| `wrap_nil_tail` | `return errx.Wrap(err, ...)` with a nil `err` in a function that returns `error` reports failure: a typed nil |
| `panic_error_lost` | `Recover` replaces the panic's own error by what was in the result |
| `secondary_masks` | a plain primary and an `*Error` from `Close`: `Get`, `ClassOf` and `Snapshot` answer for the secondary |
| `suppress_cycle` | a `Close` that returns the error the function returned makes an error its own child; `errors.Is` on it does not end |
| `shared_error` | two goroutines report one error value: a torn fingerprint reaches a sink |

### Bounds, and why they are enough

- `sampled_sink`: two goroutines make every race of a pair; `Window` 2 with
  `MaxClock` 4 allows a second window and an instant stale by a whole window;
  `Burst` 2 separates the first, the last and the dropped report.
- `error_chain`: three nodes hold a primary, a secondary and what wraps them;
  two suppressed entries order a pair. Codes `A` and `B` tell inner from outer.
- `accumulator`: three adders contend in all orders for two places; values may
  be equal.
- `registry`: three sinks are wired, which leaves them in an array for four, so one
  Add is in place and the next moves while two reports walk their copies.
- `services`: one service with the old code table and one with a new, a chain of two renamings or a cycle of two,
  two different messages and two builder calls. `MaxHops`, 8 in the code, is 2,
  the length of the longest chain of three codes.
- `answers`: two registrations can replace an entry or touch two tables. A
  handler never writes what another reads, so one of them suffices. Of the three
  statuses one is not for `net/http`, and one is for the server. Sources are
  all sequences of three bytes that are newlines or not, and the empty one;
  labels start at -1 to 4 and are 0, 2 or 3 bytes long, which puts them before,
  on, across and past every newline and the end; a second label comes after one
  outside of the source. `MaxInt` is 5: some columns and lengths overflow, and all
  that do not are larger than any line.
- `defer_frame`: four deferred calls hold two Closes around a Recover and a
  callback that looks at what they left.

### Fairness

A goroutine that can take a step takes it in the end: Go schedules fairly.
`sync.Mutex` hands itself to a waiter that has waited for more than a millisecond
(its starvation mode), so an operation that waits for a mutex recurrently free
gets it: strong fairness on taking the lock in `SampledSink` and `Accumulator`.
`Registry` has boundedly many calls, so weak fairness is enough there. Nothing
makes a caller call, time pass or a message arrive.

## 5. What is proved

Every safety property of a passing run is a theorem of its specification, for
every number of goroutines, errors, services, labels and whatever else the
constants say; `theorems` in `PROJECT.json` lists them. `SampledSink`, `Accumulator`
and `Registry` are also shown to implement their abstract specifications, step by
step: every step is a step or a stutter of `RateLimiter`, `CollectAll` and `FanOut`.
What the runs alone show is liveness.

**Induction over data.** A fact about what a recursive function computes is shown
in two moves. First the definition is
shown to satisfy its own equation: there is a function that does, so that the
one the definition chooses does. Then the fact is shown along that equation, by
induction over a set: a set of naturals that contains 0 and the successor of
each of its members contains all of them (`SetInduction`, from the library's
theorem that the order of the naturals is well founded), or the least number
that violates the fact leads to a contradiction. The library's own induction
theorems take an operator as a parameter, which the provers cannot instantiate.

`ErrorValues`. Lemmas without a state: what `Unwrap`, the preorder walk, `Is`, `As`,
`New`, `Join` and `Suppress` give, for a heap of any size. The walks are cut off at the
size of the heap; where every child has a lower rank than its parent (`Ranked`,
which says that the graph has no cycle) they are cut off nowhere, since a path
cannot be longer (`BoundedRank`, by cardinality), so that they satisfy the equation
without a bound (`PreorderEquation`), and facts about a node follow from those
about its children (`GraphInduction`).

`ErrorChain`. From `ConstantsAssumption`: the codes are any set, the bounds any
numbers. `ChainInv` says that a cause is older than what it is the cause of, that
what is suppressed is in the heap, and that the graph is `Ranked`: the order of
creation alone will not do, since `Suppress` puts younger errors under older ones, and
a new rank has to be found for every such step (`SuppressedGood`). Every step of the
program changes the heap in one of three ways (`Stepped`: a new error, a suppressed
one, a code, class or barrier set), and the theorems are about those. `InspectorsAgree`
compares the three recursions of `inspect.go` with the preorder of `errors.As`, depth
by depth: for `FindByCode`, that the first hit among the children's results is the
first in the concatenation of their preorders (`FirstHitIndex`, `FindIsFirst`).
`TraceIsHistory` needs that the trace follows causes, which only get older.
The program of this specification does not suppress an error on one that it
contains (`CanSuppress`), which the code leaves to its callers; run `suppress_cycle`
shows what happens one step outside.

`ErrDefer`. From `ConstantsAssumption`, which says what a body, a Close and a callback
may do, and nothing of how many defers there are. At the end of the function
the properties say what became of its failures; `IndInv` says it at every moment.
Every error the body has set or returned, and every error of a Close that is not
`discarded`, is matched by the named result (`KeptInv`); errors are discarded only
under a panic, after a body that returned a typed nil (`LostInv`); once a panic is caught the result is a defect
(`DefectInv`), otherwise the primary error stays itself (`PrimaryInv`); who was told
that there is an error was told so rightly, since a result never becomes nil again
(`ToldInv`), and who saw none is followed by nothing that can fail if what may
set the error is registered after what looks at it (`PromisedInv`). The heap only grows (`Grown`),
has no cycle and no barrier, and a typed nil is only inside an `*Error` (`GoodHeap`).

`SampledSink`. From `PolicyAssumption` (window and burst are integers; a zero or
negative burst is covered), `SentinelAssumption` and `BoundAssumption`. The safety
properties speak of windows by their start; none is inductive. `IndInv` adds that
only the holder of the mutex is inside the critical section and the bucket it saw
is still the one there (`MutexInv`), that only limited reports get there, with an
instant that is past (`CallInv`), what absence of a bucket means for the history
(`NoBucketInv`), that a bucket's counters are what the history says of its window,
the last there is (`BucketInv`), that drops carried out of a closed window are with exactly one
report (`CarryInv`), and that a closed window whose
drops nobody carries has surfaced them (`ClosedInv`).

`Accumulator`. From `SizeAssumption` and `NoErrAssumption`. `IndInv` adds the mutex,
that arguments of pending adds are failures (`ArgInv`), that the WaitGroup's counter
is the number of functions not done (`WaitInv`, by the cardinality theorems of the
library), where the caller is with respect to it (`MainInv`), that
entries are never taken back (`FloorInv`) and that in `Accumulate` a function starts
when those before it have finished (`TurnInv`).
The history variable `slot` gives every failure a place of its own, so that no
induction over sequences is needed.

`Registry`. From `KindAssumption` (which sinks, goroutines and sentinels there are;
goroutines are finitely many) and `GrowthAssumption` (append finds a capacity for
every length reached). What has to be added is what the code relies on without
saying so: the registry's header is the newest array's, and what it covers are
sinks (`SliceInv`); while one goroutine is between the read and the write of its
append the header stays what it read, and nobody reads a header meanwhile
(`LockInv`); what a report walks, in whatever array, equals the same part of the
newest one (`ViewInv`), so the in-place write, one past the registry's length, is
outside every copy; how far each report has come (`WalkInv`), and that the
failures told are those up to there, in order (`ToldInv`). `CountInv`, registered
plus adding goroutines, bounds how long the list gets, and with it what is asked
of `Growth`. The refinement maps the store that ends an Add, the second word of
the header read under the lock and each Emit to steps of `FanOut`.

`Services`. `CacheHonest` and `UnsafeStays` are not inductive, since they speak of what
is held and the network feeds it; `IndInv` says the same of messages and of
reports. `RoundTrip` needs of a message only that its fields are safe ones. None
of these depends on the constants or on what `migrateCode` computes. `MigrationSettles`
is what it computes: by induction over the hops, a chain of renamings that ends
within `MaxHops`, at a code that has none or is its own, is followed to that code
(`MigrateFollows`). `TypeOK` is shown with it, and with the type of
messages (`ShapeInv`), from `ConstantsAssumption` and `MaxHopsAssumption`.

`Answers`. `LookupsCurrent` speaks of finished answers; `IndInv` adds that, step by
step, what has been looked up is among the entries seen (`SeenInv`, `RepInv`), and
what an answer was made by (`AnswerInv`), from which `FaultsAgree` follows by the
lemmas `TablesAgree` and `CodesAgree` on the three tables and their fallbacks. `Statuses`
are any ints: that an answer has a status of 400 to 599, or one that was registered for
its code, is shown from the tables (`StatusInv`, `StatusInRange`).
`UnderlinesTrue` is a fact about `Diag` for any source and labels
(`DrawingsAssumption`): the ends of the lines, ranked by how many come before them
(`NthIs`), are where `indexLines` lets the next lines start (`StartsAre`); an offset has as many
starts before it as newlines, plus one (`LocateIs`); and a byte after a label's start
is on the same line exactly if it is before that line's end (`SameLine`), so that
clipping at the end and counting what is covered give the same (`UnderlineIs`), as long
as column and length do not overflow. The labels keep their order because the rank of
a label among those drawn grows with it (`DrawnIs`).

Only model-checked: liveness (`EmitReturns`, and `CallsReturn` of `Accumulator` and of
`Registry`), which rests on fairness; the prover does not reason about `ENABLED`. The
five findings are counterexamples and stay with TLC.

## 6. What is not modelled

- `Error`, `Format`, `LogValue` (`format.go`, `slog.go`): layout of fields; they keep
  no state, and what they print is set by one builder each.
- `errtest`: one comparison and one `Errorf` per assertion, over inspectors that
  are modelled.
- `errxgen`: a program that runs once, reads Go files and prints others. There is
  no state from one run to the next, no concurrency, and all it writes can be
  written again; what could be wrong is the text it prints.
- The `*Error` builders that only set text, labels, owner, severity or locales,
  and symbolization of stacks.

Abstractions inside the modelled parts are named where they are
made; the main ones: messages and localized texts, field values, owners
and span ids, which travel as something that is modelled does; a value
that JSON cannot encode, which is a message that is lost; the state of a shared
error while a builder changes it, which the library does not support; in the
adapters, what is copied from a report unchanged (attributes, tags, frames); in
`diag`, colours, gutters and wording.

## 7. Observations

Met while reading, and not held by any run:

- Grouping moves: `Decode` keeps the sender's fingerprint while it renames the
  code (codec.go:133, 145), and `Context`, or any builder that resets the cache,
  then computes another (ctx.go:53). fingerprint.go:8-10 calls the key "stable
  across instances and processes". `CacheHonest` is the weaker statement that
  holds: the key is that of a code the error has had.
- A wrapper's fingerprint is that of the place that wraps, not of the origin.
- A defect with a registered code, say one that wraps a `NOT_FOUND`, is answered
  with that code's 404; docs/design.md:36 says the class drives "alert + 5xx".
- `grpc` and `connect` show the operator's message when there is no public one
  (grpc.go:67-70); `httpx` and `graphql` show a generic text.
- `net/http` has no text for 499: a cancelled error without a code has an empty
  title.
- `Encode` of nil gives `null`, which `Decode` turns into a non-nil, empty error.
- The documentation URL, the localized messages, the source and its labels do
  not cross the wire; the message of a cause behind `Opaque` does.
- `Context` called twice appends the extractors' fields twice.
- `OnSuccess` runs before a `Close` deferred earlier fails, in the order that
  README.md:168-169 and docs/snippets.md:63-65 show. What `CallbacksExact` says of a
  callback that has seen no error is about the other order.
- `Trace` lists wrap sites from the outermost layer in. stack.go:41-42 says "one frame
  per errx layer that wrapped the error, innermost-first", and CHANGELOG.md:103 the
  same; coverage_test.go:222 calls the site of the latest wrap the innermost.
  `TraceIsHistory` says which sites there are, and that they stay, not in which order.
- A Close that fails while the result is a typed nil loses its error: `Suppress`
  dereferences nil (errdefer.go:45-46, errx.go:235), and a later `Recover` has only the
  panic. `NothingLost` names these errors and nothing else as lost.
- `Wrap`, `Wrapf` and `Note` dereference the first `*Error` that `errors.As` finds, a
  typed nil too (construct.go:57-60, 82-85, 104-107), so `MapErr` with one of them panics on
  what `result.From` took for a failure.
- `Wrap` copies when it is called: `WithCode` on what is inside leaves the wrapper with
  the code from before.
- Buckets of `SampledSink` are never removed.
- `Accumulator.Add` counts a typed nil as a failure.
- `Wrap(context.Canceled, ...)` is `ClassExpected` itself, though the bare error
  is cancelled.
- prometheus.go:4 and docs/design.md:24 say that the counter groups as the
  fingerprint does; its labels are code, domain, severity and class, and the
  fingerprint also hashes the origin frame.
- A cancelled error with a code of the tables, say `UNAVAILABLE`, is a 503 to `httpx`
  but not a failed span to `otel`. `FaultsAgree` is about the other codes.
- `RegisterStatus` accepts any int (httpx.go:62). `net/http` panics on those outside of
  100 to 999, which `answer.panics` records; one from 100 to 199 other than 101 it
  sends as an interim answer, and the document follows with 200.
- `graphql` shows a foreign error's own text (graphql.go:26); "internal detail is never
  exposed" (graphql.go:3-4) holds of an `*Error`.
- `sentry` puts a report's hint and owner among its fields, over user fields of
  those keys (sentry.go:85, 88).
- diag_test.go:98-100 says "Label offset past end of source → locate returns
  out-of-range, the label is skipped, no panic". `locate` returns the last line: the
  label is drawn, as one caret as far right as its offset is. `Drawn` models that, and
  `UnderlinesTrue` is about labels that start in the source and says nothing of
  others. The narrated form gives a label before the source line 0.
- `col+ul` (diag.go:115) overflows for lengths near the largest int: the underline is
  not clipped, and `strings.Repeat` panics. `UnderlinesTrue` leaves these out.
- `goerr.To` falls back to the operator's message as the user's. All errors
  `goerr.From` makes have the shim as their origin, and the fields that were safe
  before `To` are unsafe after.
- `Wrap` does not copy the trace id, so that `Context` on a wrapper finds another one
  than the error inside has.
- `fmt.Errorf` between two layers ends `Trace`, which follows `*Error` causes only; an
  `Opaque` layer does not.
- `Localized` picks among several regions of one language in the order of a Go
  map (errx.go:322).
- `result.Collect` keeps the first failure and drops the others; `result.From` takes a
  typed nil for a failure.
- What `errxgen` generates imports `fmt` also where no directive has arguments
  (main.go:185), which does not compile; files whose directives are gone stay;
  a write is not atomic (main.go:74).
