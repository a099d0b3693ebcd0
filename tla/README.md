# TLA+ verification of the Zed lake

TLA+ models of the concurrent and persistent parts of this repository,
TLC configurations that check them on small instances, and TLAPS proofs of
their main invariants for every value of the constants.

## 1. Inventory

The repository's `src/` holds a slice of the Zed system. The parts that
matter for verification:

| Component | Source | State | Operations | Interacts with |
|---|---|---|---|---|
| Root pool lifecycle | `src/unnamed/part_001` (lake/root.go) | `pools` store handle, `poolCache` (ARC, 1024 entries), index-rules store | `CreatePool`, `RemovePool`, `RenamePool`, `OpenPool`/`openPool`, `PoolID`, `ListPools`, `CommitObject`, `SortKey` | pools store, object store (`lake.CreatePool`, `lake.RemovePool`, `lake.OpenPool`), pool cache |
| Pools config store | `src/lake/pools/config.go` + spec §4.3 | journal of `Config{ts, name, id, layout, seek_stride, threshold}`, keyed by `Key() = Name` | `Add`, `Remove`, `Rename`, `LookupByName`, `LookupByID`, `All` | journal over the object store |
| Lake creation/opening | `part_001` 72-187 | magic file `lake.zng` | `Create`, `Open`, `CreateOrOpen`, `writeLakeMagic`, `readLakeMagic` | object store (`PutIfNotExists`, `Put` fallback) |
| Index rules | `part_001` 418-488 | index-rules store | `AddIndexRules`, `DeleteIndexRules`, `LookupIndexRules` | journal |
| Branch operations | `part_001` 261-416, `part_002` (revert CLI) | branch tips, commit journal (code not under `src/`) | `CreateBranch`, `RemoveBranch`, `MergeBranch`, `Revert`, `CommitObject` | `lake/branch.go`, commits (spec §4.5-4.6) |
| Scalar/vector splitter | `src/unnamed/part_005` | `scalarCh`, `vectorCh`, `doneCh` (unbuffered), `sync.Once`, snapshot | `New`, `run`, `close`, `puller.Pull` | parent puller, two consumer goroutines |
| Query handler | `src/service/handlers.go` 33-141 | results channel, ticker, query status | `handleQuery` and its producer goroutine | flowgraph, HTTP writer |
| Other handlers | `handlers.go` 143-762 | none of their own | decode a request, call one Root method, publish an event | Root |
| Search driver | `src/service/search/search.go` | output stream | `Run`, `start`, `end`, `abort`, ... | driver |
| Span filter | `src/runtime/expr/spanfilter.go` | cached record type `typ`, `cols` | `Eval` | evaluator |
| nest_dotted | `src/runtime/expr/function/nestdotted.go` | per-type builder cache | `Call` | type context |
| Readers/writers/detection | `part_000`, `part_003`, `part_004`, `src/zio/csvio/writer.go` | reader/writer buffers, CSV header | format conversion | byte streams |
| CLI flags, SQL translation, wasm, docs | `src/cli/...`, `src/compiler/sql.go`, `src/wasm/main.go` | none | parsing and AST rewriting | - |

What is hard about this code is concurrency over shared stores with no
transactions: every Root method is a sequence of separate calls to the
pools store, the object store and the in-memory cache, and other goroutines
(or other processes sharing the object store) run between any two of them.
The splitter and the query handler add goroutines coordinating over
unbuffered channels, where a missing receiver is a deadlock and a send on a
closed channel a panic. The span filter caches a type across calls.

Correctness of each part:
- Root: pool names are unique; a listed pool has its data; RemovePool(id)
  removes pool id and nothing else; no pool is named HEAD; a failed
  CreatePool leaves no config and no data behind.
- Lake creation: at most one Create succeeds; Open accepts only a valid
  magic file.
- Splitter: every Pull returns; each object goes to exactly one of the two
  outputs; no send on a closed channel.
- Query handler: the producer goroutine terminates on every exit path.
- Span filter: the record type passed to the evaluator matches the current
  (lower, upper) types.

PROJECT.json lists every component, and its `hazards` list every
hard-to-test hazard found, each at its line, with the properties covering it.

## 2. Plan

Modules, in order of importance:
1. `LakeRoot` (done): the pool lifecycle of Root over the pools store, the
   object store and the pool cache. `LakeRootProofs` holds its theorems.
2. `Splitter` (done): the two pullers, the splitter loop, `close` and the done
   channel, with Go's channel semantics (unbuffered send/receive, close,
   panic on send to closed). Properties: every Pull returns (deadlock
   freedom), no panic, each object delivered once.
3. `QueryHandler` (done): `handleQuery`'s select loop with the producer
   goroutine and the ticker, its refinement of `QueryStream`, and
   `Handlers` (done) for the other handlers' response protocol.
4. `LakeInit`: Create/Open/CreateOrOpen with the magic file, concurrent
   creators, PutIfNotExists and its Put fallback.
5. `CommitLog` and `Branch` (spec-modelled: their code is not under
   `src/`): journal append with HEAD conditional put, snapshot replay,
   optimistic tip update; an abstract `BranchHistory` specification (each
   tip is a descendant of the previous) that `Branch` refines via
   `INSTANCE ... WITH`. `LakeRoot` then composes with `Branch` for
   `RemoveBranch`/`MergeBranch`/`Revert`.
6. `CsvWriter` (done), `SearchOp` (done). SpanFilter and NestDotted are
   left out (see section 5).
7. Crash actions in `LakeRoot` (a process dying between two store calls)
   and the index-rule loops.

Theorems: type correctness and the main safety invariant of each module;
`Branch` refines `BranchHistory`.

## 3. LakeRoot: the pool lifecycle

`LakeRoot.tla` models `Root.CreatePool`, `RemovePool`, `RenamePool` and
`OpenPool` (part_001 lines 297-370) called concurrently by the goroutines
`Callers`.

State:
- `pools`: the live entries of the pools store, each a `Config` reduced to
  `[id, name]`. The store's code is not under `src/`; following spec §4.3 it
  is keyed by `Config.Key()`, which returns the name (config.go line 44),
  and each operation is atomic (one journal append).
- `storage`: the ids whose byte tree exists (`lake.CreatePool` /
  `lake.RemovePool`).
- `poolCache`: id to the config of the cached `*Pool`, or `None`.
- `nextId`: the next id `ksuid.New` returns; ids are never reused.
- `pc`, `cfg`: where each caller is, and the config it holds.

Actions, one per store, engine or cache call, in code order:
- CreatePool: `CreatePoolLookup` (the HEAD and LookupByName checks, then
  NewConfig's fresh id), `CreatePoolStorage` (lake.CreatePool, may fail),
  `CreatePoolOpen` (openPool: cache hit, or open and cache, or failure),
  `CreatePoolAdd` (pools.Add, fails if the name was taken since),
  `CreatePoolCleanup` (the failure path's lake.RemovePool).
- RemovePool: `RemovePoolLookup` (LookupByID), `RemovePoolRemove`
  (pools.Remove by the config's name), `RemovePoolUncache`,
  `RemovePoolDelete`.
- `RenamePool`: one pools.Rename; the new name comes from `RenameNames`.
- OpenPool: `OpenPoolLookup`, `OpenPoolGet` (cache hit returns a copy),
  `OpenPoolOpen` (lake.OpenPool fails when the tree is gone),
  `OpenPoolAdd`.
- `IdsExhausted`: the model's end when all ids are spent and every caller
  is idle (the bound, not the code, stops there).

Early returns with no effect (a name already taken, HEAD, a missing id) are
guards. Sort key, threshold and seek stride do not influence the lifecycle
and are left out.

Runs (`MC_LakeRoot.tla`: callers `c1..c3`, names `a`, `b`, HEAD, `MaxIds =
2`; three callers are the fewest that let a remove, a rename and a create
overlap, and two ids let a second pool take a removed pool's name):

| Run | cfg | Checks | Result |
|---|---|---|---|
| root_names | `MC_LakeRoot.cfg` | `AddOnlyWithStorage` with renames | pass, 120,857 states |
| root_storage | `MC_LakeRoot_NoRename.cfg` | `ConfigHasStorage` with `RenameNames = {}` | pass |
| root_remove_by_name | `MC_LakeRoot_RemoveByName.cfg` | `RemoveDeletesOnlyRequested` | violation |
| root_dangling_config | `MC_LakeRoot_Dangling.cfg` | `ConfigHasStorage` with renames | violation |

Symmetry over the callers is used for root_names and the invariant runs;
the run of `RemoveDeletesOnlyRequested` does without it.

`AddOnlyWithStorage` is an action property: a step in which a creator's
`pools.Add` lists its config leaves that config's byte tree in place. It is
what the cleanup paths of CreatePool (lines 345-351) must keep true when the
name check at line 330 is overtaken by another CreatePool or a RenamePool
and `pools.Add` fails after the tree was written. It holds with renames,
unlike `ConfigHasStorage`: no other caller can reach an id that is not yet
listed. The mutant that drops the `return` after the cleanup's RemovePool
reaches `pools.Add` with the tree gone and violates it.

Findings:
- `RemovePool` (line 362) removes by the name of the config it read,
  not by id. Two RemovePool calls of pool 1 (named `a`) both pass
  LookupByID; the first removes it; a CreatePool makes pool 2 named `a`; the
  second RemovePool's pools.Remove deletes pool 2's config, leaving its
  byte tree orphaned.
- With a rename in between (pool 1 renamed to `b`, pool 2 created as `a`),
  RemovePool deletes pool 2's config and pool 1's tree: pool 1 stays listed
  with no data.
Both follow from the store being keyed by name (spec §4.3), which is how the
model reads `pools.Store.Remove`; the store's code is not under `src/`.

No fairness is assumed: the properties are all safety properties.

## 3b. Splitter: the scalar/vector split

`Splitter.tla` models part_005 whole: `New`, `run`, `close` and
`puller.Pull`. Goroutines are the two consumers `scalar` and `vector` (each
calling Pull on its puller until end of stream, choosing `done` on each
call), the goroutine `close` starts (`closer`), and the draining goroutine of
a `Pull(true)` (`drain`). The loop `run` has its own program counter `rpc`
but executes in the goroutine of whichever consumer entered `once.Do` first
(`runner`); a second caller of `once.Do` blocks while it runs, as
`sync.Once` does. Channels follow Go: a send on an unbuffered channel and a
receive meet in one step (the sender's action: `RunSend`, `CloserSend`),
a receive on a closed channel returns the zero `Result` at once
(`PullRecvClosed`, `DrainEnd`), and a send on a closed channel or a second
`close(doneCh)` sets `panicked`, after which nothing moves. The parent
puller is a stream of object kinds from the constant `Streams`: `scalar`
and `vector` stand for an object with `HasVector` false or true, `bad` for
a batch the loop rejects (lines 59-66); end of stream follows the stream.

Fairness is weak fairness for each goroutine: Go's scheduler eventually
runs a runnable goroutine. `Terminated` lets the model stop once every
goroutine has finished or the process has panicked.

| Run | cfg | Checks | Result |
|---|---|---|---|
| splitter_panic | `MC_Splitter_Panic.cfg` | `NoPanic` | violation |
| splitter_pull_returns | `MC_Splitter_Returns.cfg` | `EveryPullReturns` | violation |

Both runs turn off TLC's deadlock check: the code really does stop (that is
what `EveryPullReturns` states), and the properties name what goes wrong.
`MCStreams` covers an empty stream, one object of each kind, two objects
and a rejected batch.

Findings:
- `once.Do(p.splitter.run)` (line 87) runs the loop in the caller's
  goroutine. Its first send on an unbuffered channel has no receiver: the
  caller is itself the sender, and the other puller waits in `once.Do`. No
  Pull returns once the parent yields an object. The loop was evidently
  meant to run in a goroutine of its own.
- On end of stream or a rejected batch, `run` calls `close` and returns;
  its defers close both channels while the goroutine of `close` is still
  trying to send on them: a send on a closed channel, a panic.
- `Pull(true)` on both pullers closes `doneCh` twice, another panic
  (reached by the model; recorded as a hazard covered by `NoPanic`).

There is no passing splitter run: with the loop inside `once.Do` no batch is
ever delivered, so a routing property (each object reaches the puller of its
kind exactly once) would hold vacuously.

## 3c. QueryHandler: handleQuery and its producer goroutine

`QueryHandler.tla` models `handleQuery` (handlers.go 33-141) whole. The
handler (`hpc`) first runs its setup checks (`Setup`: Unmarshal, Parse,
CompileLakeQuery, NewWriter, each of which may answer an error and
return), then starts the producer goroutine (`ppc`) and loops on a select
over the stats ticker (`Tick`) and the unbuffered `results` channel
(`Receive`). The producer pulls the flowgraph (`ProducerPull`) and sends
each result; a send meets the handler's receive in one step, as Go's
rendezvous does. The flowgraph's output is a sequence from the constant
`Flows`: batches with values, channel ends, and one terminal result
(`eos` for a nil batch, `empty` for journal.ErrEmpty, `err`). Every
write to the response may fail; a failure ends the handler. A successful
progress write changes nothing the model tracks, so `Tick` is only the
failing one. `Served` lets the request end once the handler has returned.

Fairness: weak fairness for `Setup`, `ProducerPull` and `Receive`. Go runs
both goroutines, and a select with a ready case chooses at random among the
ready ones, so the results case is eventually taken. The failing tick is
not assumed.

`QueryStream.tla` is what the handler promises a client: the client
receives a prefix of the output item by item, and nothing after the
response has ended. `QueryHandler` maps onto it with `output <- Data(flow)`
(the flow without its terminal), `received <- written` and
`ended <- hpc = "returned"`, and checks `StreamSpec == Stream!Spec`.

| Run | cfg | Checks | Result |
|---|---|---|---|
| query_stream | `MC_QueryHandler.cfg` | `TypeOK`, `WrittenInOrder`, `QueryRunsToEnd`, `StreamSpec` | pass |
| query_producer_leak | `MC_QueryHandler_Leak.cfg` | `ProducerExits` | violation |

`MCFlows` has an empty output, channel ends first, in the middle and
last, one of each terminal result, and flows of up to three items, so that
a failure can hit before, between and after deliveries.

Finding: when the handler returns early (a failed progress or batch
write), the producer stays blocked forever in `results <- r`. Nothing
closes the channel or cancels the flowgraph, so the goroutine and the
query's resources leak (spec section 5 asks that resources be released on
every exit path). The trace: Setup, then a pull and a failed tick (TLC
may print them in either order; both are behaviours), then nothing.

## 3d. Handlers: the other lake handlers

`Handlers.tla` models every other handler of handlers.go by the control
flow that matters to a client: the sequence of its steps. `check` is a
request helper, a local check or a lake call that on failure writes an
error and returns. `check_nr` is the same without the return. `snapshot`
is handlePoolStats' Snapshot with its 204 branch. Then come `wait`,
`respond` (a success status) and `event` (publishEvent), and `stream` is
one turn of handleEvents' loop. A handler that branches on its request
(`handleBranchLoad` on parquet/vng, `handleDelete` on object_ids and
where) has one sequence per branch. What a lake call does to the lake is
abstracted to success or failure; LakeRoot models the calls. One request
is followed from the first line to the return, and every status write is
recorded (`writes`). The model has no liveness: every handler runs to its
end in a bounded number of steps. handleEvents' loop is followed for two
turns.

| Run | cfg | Checks | Result |
|---|---|---|---|
| handlers_events | `MC_Handlers.cfg` | `EventOnlyOnSuccess` over all handlers | pass |
| handlers_double_write | `MC_Handlers_DoubleWrite.cfg` | `OneResponse` over all handlers | violation |

Findings: `handleIndexRulesDelete` (line 567) and `handleEvents` (line 731)
call `w.Error` without returning. The first then deletes no rules and also
answers 200. The second subscribes and streams in the default format after
its 400. A failed event write (line 748) calls `w.Error` on a response that
is already streaming.

## 3e. CsvWriter and SearchOp

`CsvWriter.tla` models `Write`, `Flush` and `Close` of the CSV writer
without the fuse option. A record is its flattened type; the output is a
sequence of header and row lines. Flatten, value formatting and each
encoder write may fail. The encoder's buffered writer keeps its first error
(`broken`) and fails every later write with it, as `bufio.Writer` does.

| Run | cfg | Checks | Result |
|---|---|---|---|
| csv_frame | `MC_CsvWriter.cfg` | `FrameOutput` | pass |

Two types and three writes are enough for a first record, a rejected one
of the other type, and an accepted one after it. Because `w.first` is set
before the header is written (line 68), a failed header write is
followed by header-less rows, except that the sticky error fails them
too; `FrameOutput` checks that it does. The model's `out` is what the
encoder has accepted, not what reaches the underlying writer: `Close`
(line 53) ignores the error of its final `Flush`, so rows lost in the
buffer are reported as a successful close. The code shows this directly, and it is listed as a
hazard, not as a run.

`SearchOp.tla` models `NewSearchOp`'s validation and `Run`: the TaskStart,
the deferred end or abort that reads the named result `err`, and the
driver callbacks. `driver.MultiRun` is not in this repository. It is the
environment: it calls the callbacks in any order, at most `MaxCallbacks`
(3) times, and returns nil, ErrEmpty or an error. A callback whose send
fails makes it return that error. Every send on the output may fail.
Run search_task_end checks `TaskEndLast`: at most one TaskEnd, and
nothing after it. The deferred function reads the named result `err`; that
it sees MultiRun's result is Go's semantics for named results, which the
model builds in, so no property is spent on it.

## 4. Proofs

`LakeRootProofs.tla` (checked by `tlapm`):
- `TypeCorrect`: `Spec => []TypeOK`.
- `AddKeepsStorage`: `Spec => AddOnlyWithStorage`, with renames.
- `StorageOfListedPools`: with `RenameNames = {}`,
  `Spec => []ConfigHasStorage`.

All three rest on `IInv == TypeOK /\ HoldsConfig /\ UniqueNames`, where
`UniqueNames` is what the name-keyed store's Add and Rename guarantee.
`HoldsConfig` (a caller past its first step holds a config) is what makes
`cfg[c].id` meaningful in every later step. `AddKeepsStorage` rests on
`CInv == IInv /\ CreateInv`: listed and held ids are below `nextId`; a
creator at openPool or pools.Add has its tree; a creator's id is not live
and differs from every other busy caller's id. The last two clauses are
why no remover, opener or renamer can touch a creator's tree or list its
id, so the only step that lists it is the creator's own `pools.Add`, which
leaves `storage` alone. Lemma `AddStep` derives the action property from
`CInv` case by case; `CInv` was checked with TLC, with renames, before it
was proved. `StorageOfListedPools` rests on
`SInv == IInv /\ StorageInv`, where `StorageInv` says ids are unique and
below `nextId`; a creator's id is held by nobody else and not live until
its Add, and its tree exists from lake.CreatePool to Add; a remover before
pools.Remove holds the live config of its id or an id no longer live; after
pools.Remove its id is never live again. The remover clause is what fails
once renames are allowed (the name no longer identifies the id), which is
the root_dangling_config violation. `SInv` was checked with TLC as an
invariant of the no-rename configuration before it was proved. Each
preservation proof has one step per action, split by the action's
disjuncts.

`QueryHandlerProofs.tla`:
- `ResponseInOrder`: `Spec => []WrittenInOrder`, for every set of flows.
- `TypeCorrect`: `Spec => []TypeOK`.
- `ImplementsStream`: `Spec => StreamSpec`, the refinement of
  `QueryStream`. Init maps to the abstract Init. Each step maps to an
  abstract step or a stutter: a write is `Deliver`, a return is `End`, and
  everything else stutters.

All three rest on `IInv`. It ties the two program counters to `pulled`
(`hpc = "loop"` means `Len(written)` is `pulled` or `pulled - 1`, according
to whether the producer is sending), records that the item being sent is
`flow[pulled]`, and says that `written` agrees with `flow` index by index.
Without the length clause, a `Receive` could append an item other than the
next one. Lemma `DataOfFlow` gives the length and the elements of
`SubSeq(f, 1, Len(f) - 1)` from the library's `SubSeqProperties`.
`QueryAssumption` (flows end in exactly one terminal result) is the only
hypothesis on the constants.

`SearchOpProofs.tla`: `OneTaskEndLast` (`Spec => []TaskEndLast`) for every
`MaxCallbacks`. It rests on `IInv`: no TaskEnd reaches the output before Run returns,
and `err` is set exactly once MultiRun has returned. The first clause is
what makes the deferred TaskEnd the only one. Each action preserves
`IInv` in one step of the proof.

`CsvWriterProofs.tla`: `OutputIsFrame` (`Spec => []FrameOutput`) for every
set of types and every `MaxWrites`, from `CsvAssumption` ("nil", the
model's name for an unset `w.first`, is not a type). The inductive
invariant adds two clauses to `FrameOutput`. Nothing is output while
`w.first` is unset. Once `w.first` is set with no header out (its write
failed), the encoder has failed for good. The second clause was found
when the first proof attempt failed: it is exactly the hazard at line 68,
and it holds only because the encoder's error is sticky. `Write` is split
into its outcomes (`FlattenFails`, `NotDataFrame`, `HeaderFails`,
`RowWritten`, `RowFails`), each with a lemma. The concatenations of the
output are reduced to `Append` with the library's `ConcatEmptySeq`,
`AppendIsConcat` and `AppendProperties`.

`HandlersProofs.tla`: `TypeCorrect` (`Spec => []TypeOK`) and
`EventsFollowSuccess` (`Spec => []EventOnlyOnSuccess`), for every set of
routed handlers. `IInv` adds three clauses:
- a handler that published has returned;
- an error written means the request failed;
- a request that failed and is still running has no `event` step on its
  branch.

That last clause is why the proof needs the code's branches. Lemma
`PathsWellFormed` checks every step sequence of every handler:
- it is not empty;
- `event` is only its last step;
- a branch with a `check_nr` or a `stream` step (the w.Error that does not
  return) has no `event`.

The provers do not reason about membership in a set of tuple literals.
The lemma therefore names the 18 distinct sequences (Zenon) and checks
each one (SMT). The rest is one lemma per action. `FailureIInv`,
`QuietIInv` and `SuccessIInv` cover the three ways a step can change
`writes`.

What stays with TLC:
- liveness under fairness (`QueryRunsToEnd`, `ProducerExits`), which the
  provers cannot reach;
- anything about recursive definitions.

## 5. Not modelled

See PROJECT.json `components`. `Handlers` abstracts each lake call to its
success or failure; `LakeRoot` models what the Root calls do. nest_dotted
memoizes a builder per input type ID, which is unique within the function's
one type context: a model's cached result equals a fresh one by
construction, and the rest is a conversion of field names. SpanFilter's
`Eval` is straight-line code over one cached type. Its defect is a hazard
in PROJECT.json: line 37 is always false once `typ` is set, so later
spans are evaluated under the first call's record type. It follows from
two assignments and a test, and a model would only restate them. The
same holds for `RenamePool` accepting HEAD (part_001 line 322). The format
readers, format detection, CLI flags, the
SQL translator and the wasm entry point are conversions or plumbing with
no concurrent or persistent state; the commit and branch code is not under
`src/` and is planned as spec-modelled modules.
