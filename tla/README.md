# Typed SKI: a verification development

TLA+ modules, TLC configurations and TLAPS proofs for the repository of the
typed SKI tool chain: a SKI calculus library and the TripLang compiler in
TypeScript, a self-hosted compiler in TripLang, and *Thanatos*, the native
reducer in C with its lock-free arena, worker threads and daemon. Two halves are
modelled. The concurrent core of Thanatos is where the program's shared state and
almost all of its orderings are. The TypeScript compiler and its tools are
sequential: what can go wrong there is an algorithm, or an agreement between two
stages, and that is what their modules state.

File references below are relative to the repository, with
`A = consumers/thanatos/platform/arena.c` and
`T = consumers/thanatos/runtime/thanatos.c`.

## 1. Inventory

### 1.1 Thanatos, the native reducer (`consumers/thanatos`)

| Part | State | Operations | Interacts with |
|---|---|---|---|
| Rings (A 104-193; `host_platform_posix.c` futexes) | `head`, `tail`, two futex words, a sequence number and a payload per slot | `try_enqueue`, `try_dequeue`, `enqueue_blocking`, `dequeue_blocking` | carries every message below: submission queue, completion queue, stdin, stdout and the two queues of waiters |
| Control pool (A 318-486, 1385-1649) | free lists of 1024 continuations and 2048 suspensions, heads with a version; status and owner of each slot | pop, push, `park_worker_state`, `resume_worker_state` | workers park here, whoever holds the pointer resumes |
| Reducer (A 1850-2820) | `WorkerState` (current value, frames, remaining steps, mode), the link table | `step_iterative`, `step_once_with_links`, link compression | allocates nodes, reads and writes the stdin and stdout rings, parks |
| Worker loop (A 2970-3070) | gas, the batch's start value | dequeue, resume, run batches, post a completion | rings, pool, reducer |
| Arena (A 490-1340) | hash-consed nodes, bucket table, resize sequence number, epochs of the workers | `allocTerminal`, `allocU8`, `allocCons`, growth, reset | every thread that builds terms |
| Runtime (T) | 1024 pending request slots with a mutex each, `io_wait_map`, demand for stdout, publisher lock | `thanatos_reduce`, dispatcher thread, stdout pump thread, stdin thread, start and shutdown | clients call, rings and condition variables connect the threads |
| Sessions (`runtime/session.c`, `main.c`) | a term, limits and counters per connection | QUIT, PING, RESET, STATS, REDUCE, REDUCE_IO, REDUCE_FILE, STEP | call the runtime, feed the stdin ring, drain the stdout ring |
| Wire formats (`runtime/ski_io.c`, `lib/ski/topoDagWire.ts`) | none | encode and decode terms as surface text or as a topologically ordered DAG | sessions, TypeScript clients |

### 1.2 TypeScript and TripLang

| Part | State | Operations |
|---|---|---|
| SKI library (`lib/ski`, `lib/parser`, `lib/conversion`, `lib/types`, `lib/terms`, `lib/evaluator`) | immutable terms; substitutions during inference | parsing, bracket abstraction, type inference and unification; evaluation is delegated to Thanatos |
| TripLang front end (`lib/meta/frontend`) | declarations of a module, symbol table, definitions being resolved | data expansion, elaboration of matches, resolution by substitution, type check, de Bruijn conversion |
| Mini-core (`lib/minicore`, `lib/compiler/llvm`) | immutable programs with their types, tables of data types and constructors, fresh-name counters | module order, tables, function bodies (`fromTrip`), validation, A-normal form, blocks, LLVM, the reference interpreter |
| Bundles (`lib/compiler/bundleV1.ts`) | the text of a bundle, its offset; three summaries of its modules | serialise, parse, inventory, parse summary, module environment |
| Improvize (`lib/improvize`) | definitions and references of all modules, a worklist | reachability and pruning; the linter index |
| Self-hosted compiler and library (`bootstrap/src`, `lib/avl.trip`, `lib/prelude.trip`) | TripLang programs | compiled by the above |
| Tools, build (`bin`, `scripts`, `bazel`) | none of their own | start-up and files |

### 1.3 What is hard here

* Rings: a slot is claimed by a compare-and-swap and copied with plain `memcpy`;
  it is published later than it was claimed; blocking calls sleep on a futex word
  they read before their second try.
* Runtime: one request travels client -> submission queue -> worker ->
  completion queue -> dispatcher -> client, and, parked, through a queue of
  waiters and the thread that wakes it; clients that drain stdout publish in
  competition with the pump.
* Pool: pops read a link of a slot that may already be somebody else's.
* Reducer: a reduction is cut into batches, may be parked at each cut, resumed by
  another thread, and takes shortcuts through a table of earlier results.
* Arena: lock-free lookups during growth, nodes published by their kind byte.
* Compiler: a program passes five representations; order of effects, scope of
  locals across join blocks, and the word a boolean is kept in must survive, and a
  stage must not produce what the validator of the next refuses.
* Front end: renaming, capture and shadowing, with several substitutions made one
  after the other on the same term.
* Modules: imports in any shape, names exported twice, tables computed twice by
  different code (the compilation and the summaries of a bundle).
* Wire format: sharing kept by an explicit stack; text cut anywhere; offsets.

### 1.4 What makes each part correct

* Ring: a slot is used by one thread at a time; items arrive once, unaltered, in
  ticket order; no wake-up is lost; everything enqueued is delivered.
* Pool: a slot is held by one thread, one parked suspension or one free list,
  none is lost, a parked state is taken up once and as it was saved.
* Runtime: each request is in exactly one place; events find their slot; nothing
  is resumed twice; output is published before its call returns; calls return.
* Reducer: what is returned as done is a normal form and the meaning of the
  request; each contraction is charged once; links are sound.
* Arena (planned): equal terms get one node as long as nothing races, no node is
  read before it is published, growth loses nothing.
* Session (planned): what a command returns depends on that command alone.
* Compiler: each form of a program does what the reference interpreter does, and
  a well-typed program reaches the end.
* Modules and bundles: dependencies first, each once; the summaries foretell the
  compilation; a bundle is read back as written.
* Front end: a name keeps its binder; a match takes the arm of its constructor.
* Pruning: what the entries need is kept, with the same meaning, and nothing else.
* Wire format: a term comes back with its sharing, its root last.

## 2. Modules

| Module | Kind | Models |
|---|---|---|
| `BoundedFifo` | abstract | a FIFO queue of bounded length and the hands of its consumers |
| `Ring` | detailed | A 104-193, one action per access to shared memory; the comparison of tickets as words |
| `RingProofs` | proofs | slot exclusion, refinement of `BoundedFifo`, no lost wake-up, words of 32 bits suffice |
| `ParkedWork` | abstract | a set of parked worker states, each taken up once |
| `ControlPool` | detailed | A 1385-1649, one action per access to a shared word |
| `ControlPoolProofs` | proofs | slots are neither shared nor lost, lists and counters are right, refinement of `ParkedWork` |
| `Thanatos` | detailed | T and `workerLoop`, over FIFO queues and an atomic pool |
| `ThanatosProofs` | proofs | one token per request, and what follows from it |
| `SKI` | operators | terms, redexes and contraction |
| `Reducer` | detailed | `workerLoop`, `step_once_with_links`, `step_iterative` for one session |
| `ReducerMeaning` | reference | normal-order reduction with I/O, written independently with recursion |
| `Reduction` | calculus, proofs | what it means that a term reduces to another, by derivations and without recursion |
| `ReducerProofs` | proofs | types, the step budget; answers and links are reductions, what is passed or done is settled |
| `MiniCore` | operators | mini-core: interpreter, validator, native subset; types and unification (`evaluator.ts`, `validator.ts`, `typeOf.ts`, `metadata.ts`) |
| `MiniAnf` | operators | A-normal form there and back, its validator (`toAnf.ts`, `anfToMiniCore.ts`, `validateAnf.ts`) |
| `MiniBlock` | operators | lowering to blocks; dominators and the validator (`fromAnf.ts`, `validateBlock.ts`) |
| `MiniPipeline` | detailed | the stages up to valid blocks as a machine; a meaning for blocks |
| `MiniLlvm`, `LlvmPipeline` | operators, detailed | emission in both representations (`emitLlvm.ts`, `validateLlvmV0.ts`); an assembler's checks and a machine for LLVM |
| `ModuleOrder` | detailed | the walk over the imports (`fromTrip.ts` 2144-2199) |
| `ModuleOrderProofs` | proofs | modules come once, after what they import; what the walk reports is so |
| `TripModules` | detailed | the tables of the compilation, from parsing to data types and constructors (`fromTrip.ts`) |
| `Bundle`, `BundleSummary` | detailed | the bundle text; inventory, parse summary and module environment (`bundleV1.ts`) |
| `Emission` | abstract | a topological emission of a graph of shared objects |
| `TopoOrder` | detailed | `collectTopoDagOrder` with its explicit stack |
| `TopoOrderProofs` | proofs | its invariant, the steps of `Emission`, the root comes last |
| `TopoDagWire` | detailed | encoder in chunks, combination, streaming decoder (`topoDagWire.ts`) |
| `ExternalRefs` | operators | terms and types of System F, the names a definition takes from outside (`externalReferences.ts`) |
| `Reachability` | detailed | pruning, twice in a row (`reachability.ts`) |
| `Substitution` | operators, reference | substitution that avoids capture (`substitution.ts`); what it is held to: terms with numbers for bound names, where substitution is replacement |
| `SubstitutionCalls` | detailed | substitutions one after the other on one term |
| `FrontEnd`, `Resolution` | operators, detailed | `data.ts`, `symbolTable.ts`, `elaboration.ts`; `compile` up to the type check (`compilation.ts`), and what resolved definitions and elaborated matches have to mean |
| `MCRing`, `MCControlPool`, `MCThanatos`, `MCReducer` | constants | values and symmetry for TLC |
| `MCLlvmPipeline` | constants | programs for the compiler |
| `MCBundle`, `MCReachability`, `MCSources` | constants | values for three tools |
| `MCTools` | composition | the tools side by side, one at work |

The layering: `Ring` is shown to implement `BoundedFifo`, and `Thanatos` uses
queues with that behaviour in place of rings; `ControlPool` is shown to implement
`ParkedWork`, and `Thanatos` and `Reducer` use suspensions with that behaviour;
`Thanatos` abstracts a term to the script of effects its reduction has, and
`Reducer` is the detailed account of such a reduction.

On the TypeScript side each stage is an operator or an action over the values the
stage before it made: `LlvmPipeline` extends `MiniPipeline`, `TripModules` runs
`ModuleOrder` inside its stages, `BundleSummary` stands beside `TripModules` and
compares, `TopoDagWire` runs `TopoOrder` for its encoder, and `Resolution` uses
`Substitution`, as `compilation.ts` calls it.

### 2.1 Ring

State is the header of a ring (`head`, `tail`, `notEmpty`, `notFull`), its slots
(`seq`, `cell`) and, per thread, a program counter with the locals of
`try_enqueue` / `try_dequeue` and of the blocking wrappers (`seen` is the futex
word read before the second try). `log` is a history of what was claimed, in
ticket order. Each atomic operation, each `memcpy` and each futex call is an
action of its own, named by where it stands (`EnqTail`, `EnqSeq`, `EnqClaim`,
`EnqCopy`, `EnqPublish`, `EnqCount`, `EnqNotify`, and so on). A weak
compare-and-swap may fail for no reason. A futex wait returns at once if the word
changed and otherwise sleeps until it is notified; a notification wakes one
sleeper. Tickets are unbounded here and 32 bits in the code: `Word` and `WordDiff`
are the words and the difference with a sign that `try_enqueue` and `try_dequeue`
compare, and `WordsSuffice` says when they decide as the tickets would. The futex
words are unbounded too, and nothing is said of a thread that sleeps over 2^32
changes of one.

### 2.2 ControlPool

State is the two list heads (index and version in one word), `next_free`, the
`ALLOCATED` flag, status and continuation of each slot, the saved states, the
counters of slots in use and the locals of each thread. A thread parks any state
or resumes any pointer that was ever handed out, so late resumes of a pointer
whose slot has been reused are among the behaviours. Plain accesses to a slot a
thread owns are grouped with the atomic access that follows or precedes them.
`free` is a history of both lists in order; `ListInMemory` says that the words in
memory are these lists. A park that finds no continuation or no suspension fails
as in the code, and the caller's retry is another call.

### 2.3 Thanatos

Clients, workers, the dispatcher, the pump and the stdin thread are processes.
A term is the script of what its reduction still does: `walk` (gas only), `step`
(gas and budget), `read`, `write`, `eof`. `pending` holds the request slots with
their mutexes (`held` lists the ones a client keeps across steps), `sq` and `cq`
the two queues, `susp` the pool, `ioWait` the `io_wait_map`. The steps of
`thanatos_reduce` are `Call`, `AcquireSlot`, `ClientSubmit`, `Completion` and what
follows it (return, resubmit, register a waiter, drain stdout), `ReleaseSlot`. The
wakers first take a suspension from a queue of waiters, then remove its entry
from the map, then resubmit: three steps between which everybody else may run.

A resumed script may end early (`Resumable`): outside REDUCE_FILE the frames of a
parked reduction are dropped, see finding 4, so what lay in the context of the
parked subterm is not done.

A byte of output is popped in one step (`PopStdout`) and published in the next
(`TakeStdoutWaiter`), both under the publisher lock (T 139-152); between them it is
in somebody's hands (`pub`), neither in the ring nor written.

### 2.4 SKI, Reducer and ReducerMeaning

`SKI` has the terms (a leaf, a byte or an application), the redexes the reducer
recognises and their contracta, including byte operations and the pairs that I/O
produces. `Reducer` has one worker and a session of requests. The stack machine is
one action per iteration of `step_iterative`: `Descend`, `ReturnLeft`,
`ReturnRight`, `Stuck`, `Contract`, `Read`, `ReadWaits`, `WriteRing`, `WriteFile`,
`WriteWaits`, `OutOfGas`, `OutOfBudget`; `StartPlain`, `StartLinked`, `StartCached`,
`EndBatch` and `Continue` are `step_once_with_links` and the loop around it. `links`
is the link table; `LinkPath` and `publish_link_ptr` are its compression. `Loaded`
is the set of nodes the arena has for the terms of the requests; a loaded
application applies loaded nodes, so a term is finite. There are two accounts of
what a reduction is. `ReducerMeaning` evaluates a request by recursion, without
batches, frames, links or parking, and states what the two have to do with each
other. It can be run, and only run. `Reduction` says by derivations which term
reduces to which, in any order of contraction; it can be proved about, and only
proved.

### 2.5 The compiler: MiniCore to LlvmPipeline

A program is a record of symbols, entry and metadata, as in `ast.ts`; a value is a
record with a kind. The interpreter is `evaluateMiniCore` with its counters (calls,
allocations, depth, dispatches), so "the same run" covers value, output, rest of the
input, failure, and the amount of work. `MiniPipeline` has one action per stage of
`compileTripModulesToLlvm` (`Validate`, `CheckSubset`, `ToAnf`, `ToBlocks`,
`ValidateBlocks`), and `LlvmPipeline` adds `EmitScalar` and `EmitBoxed`; what a
stage refuses ends in `rejected`. Blocks are sequences of records with a label made
from the same parts as in the code, so two blocks may clash only where they would
there. Meaning of blocks and of LLVM is given by an interpreter of the model, as the
repository has none: `RunBlocks`, `RunMain` with the C runtime that native programs
are linked with (`runtime/trip/trip_runtime.c`). Reads and writes are
`trip_read_one` and `trip_write_one` in all of them: a read past the end gives 0 and
the program goes on. `evaluator.ts:252` refuses these calls, so the interpreter of
the model, the reference of the other forms, gives them the meaning of the runtime.
`FunctionVerifies` is what the LLVM assembler checks: operand and return types,
single assignment, phis against predecessors. Numbers are 2^16 wide in place of 2^64
(`WordModulus`).

### 2.6 Modules and bundles

A frame of `ModuleOrder` is a call of `dfs` with the dependencies it has still to
visit; `Skip`, `Descend`, `NextDep`, `Leave` and the two failures are its branches.
`TripModules` parses, sorts, checks imports and then makes its tables in the passes of
`MiniCoreBuilder`: symbols, aliases that become ambiguous, data types and
constructors with their field types. A qualified name is a sequence of parts.
`BundleSummary` has the three summaries of `bundleV1.ts` as operators on the same
modules. `Bundle` has the text as a sequence of bytes, where a directive counts as
one byte that only a whole line can match; a source may contain directives.

### 2.7 Wire format

`TopoOrder` is one action per branch of the loop: pop what is emitted, emit a leaf,
emit an expanded application, expand. An object is a number, its children are
smaller, as terms are immutable and built upwards. `TopoDagWire` adds the
encoder's chunks, `combineTopoDagWires`, and the decoder that gets the text in
pieces; a text is a sequence of fields, so that offsets count fields in place of
characters.

### 2.8 Front end and pruning

Terms and types of System F share the constructors of `ExternalRefs`. Names are
strings, because a fresh name is made by adding a number to one. `Substitution`
follows the functions of `substitution.ts` case by case, their treatment of arms
and lets included; `SubstitutionCalls` applies up to two calls in a row and keeps
beside the term what it has to mean as a nameless term. `Resolution` is `compile`:
expand data, index, elaborate, then resolve definitions with a stack of the ones
in progress (a `frames` entry), check what is left. Its type check is left out.
`Reachability` resolves the entries, runs the worklist in any order, rewrites the
files, and does it again on what was left.

## 3. Runs

| Run | Question | Bounds |
|---|---|---|
| `ring` | are slots exclusive, are items delivered once and in order, is a wake-up lost, do wrapped words decide as tickets do? | 1 polling and 1 blocking producer, 2 blocking consumers, 2 slots, words of 2 bits, 3 calls |
| `ring_live` | is everything delivered, do blocked producers return? | 2 blocking producers, 1 consumer, 2 slots, 3 calls |
| `control_pool` | is a slot ever shared, lost, or freed twice; is a parked state taken up once? | 3 workers, 2 continuations, 2 suspensions, 5 calls |
| `thanatos` | does a hand-over lose, repeat or leak a request, is output late? | 2 clients, 2 workers, pump, stdin, completion queue and I/O rings of 1, 2 requests |
| `thanatos_live` | do calls return, whatever they compete for? | 3 clients on 2 slots, 1 worker, 2 suspensions, queues and stdin ring of 1, 3 requests that read: one yields, one uses up its steps, the third may meet the end of its file |
| `thanatos_lost_waiter` | is every parked reader resumed, is every parked writer? (neither) | 2 clients that read and write, 1 worker, stdin ring of 2, stdout ring of 1, 2 requests |
| `thanatos_unlimited` | does a call without limit return? (no) | limit narrowed to 2, a reduction of 3 steps |
| `reducer` | does the worker compute what the reference computes? | all S, K, I terms with up to 5 leaves, on rings and on files; sessions of 3 that share links; programs with I/O; a term that reduces to itself as call, as left subterm and over its links |
| `reducer_resume` | is the result of a resumed reduction a normal form? (no) | one program, one late byte |
| `reducer_cached_read` | does a read wait for input? (no) | the same program twice, one byte |
| `mini_compiler` | does a program do the same in every form, does a stage refuse what the one before it made? | 1656 well-typed and 973 other bodies of `main`, from 16 templates nested in each other, 4 inputs, the empty one and shorter ones than a program reads among them; 13 block modules by hand; both representations |
| `tools` | do the tools of sections 2.6-2.8 keep what they promise? | see below |

In `tools` one tool is at work and the others stay in one initial state, as they
share no data; the run is the disjoint sum of six checks. Bounds: wire format, all
DAGs over four objects and every root or pair of roots, pieces of up to 3 fields,
2354 foreign texts; modules, 1154 bundles of up to three modules, among them missing
ones, circles, diamonds, misnamed ones, names exported or declared twice; bundle
text, bundles of up to two modules with all sources of up to two pieces (text, line
end, header), 1396 in all, and every deletion, replacement, insertion and prefix of
six written ones, 4564 texts; pruning, 1056 programs of three modules and 4 lists of
entries; substitution, 75 terms with up to two binders over an occurrence, two
calls; modules of the front end, 762 sources of up to eight declarations.

Why the bounds are enough for the cases meant. Two slots and three calls let a ring
fill, empty and wrap, so a slow thread meets its slot one lap later; that is the
first place where a ticket could be mistaken. Words of two bits wrap in these calls.
They leave room for the signed difference only while the counter has not moved on,
and for the compare-and-swap however far it has; for wider words, in which a thread
may be behind by more, the theorem of section 5.1 speaks. Two consumers let a
wake-up go to the wrong one. Five calls on pools of two let a worker keep an old
head while others pop, free and reorder the list (which is what the versions guard
against), let the pool run dry in the middle of a park, and let three workers
contend for one pointer. In `thanatos` both clients and both workers can be inside
any pair of handlers, the completion queue can be full, and a parked writer meets
pump and draining clients. In `thanatos_live` a third client waits for a slot, two
requests wait for input at once, each queue can be full, and each suspension can be
left behind. Five leaves is the least number at which an argument of an S redex is
itself a redex inside a larger term; gas of 12 iterations cuts reductions of these
terms in the middle, and one batch comes round the cyclic term and stops where it
began. `Limit` (12 steps) and `Fuel` (40) end diverging terms; properties about
results speak of requests that end.

Deadlock checking is off because the bounds on calls and requests end every
behaviour; the liveness runs state what must not stop before that.

### 3.1 What the properties say

* `Ring`: `SlotExclusive` (no data race on a payload; `TicketInv`, which says why, is
  proved only),
  `NoItemLeftBehind` and `NoFreeSlotMissed` (a quiet ring has no sleeper that
  should be awake), `ImplementsFifo`, and under fairness `EverythingDelivered` and
  `BlockedProducersReturn`. With several consumers a freed slot behind the head
  can take the wake-up of a producer, so the two properties of blocked producers
  are stated for one consumer, as the completion queue has it. `WordsSuffice`: the
  signed difference of two words is that of the tickets for a thread that is
  `Fresh`: since it read its counter, the others have moved on by at most half a
  word, less the slots. Equal words are equal tickets in the compare-and-swap for a
  thread that is behind by less than a whole word. Beyond these bounds it is false,
  in the model and in the code: a thread that sleeps over 2^31 items between two
  instructions may take a full slot for a free one.
* `ControlPool`: `NoSharedSlot`, `NoLostSlot`, `ListInMemory`, `NoTrap` (the
  invariant checks in the code never fire), `ImplementsParkedWork`.
* `Thanatos`: `OneTokenPerRequest` (a request is in exactly one place),
  `NoDroppedEvents`, `NoFailedResume`, `RegistersOnce`, `NoLeakedSuspension`,
  `OutputBeforeReturn` (bytes another thread has popped and not yet published
  included), and under fairness `CallsReturn`: every call returns, unless a waker
  overtakes a client (`Overtaken`, the window of findings 1 and 2) or the pool of
  suspensions is used up for good (`PoolExhausted`: every suspension was left
  behind by a call that failed or used up its steps, or every worker spins in a
  retry to park). Both exceptions are reached in the run, and dropping either
  makes the property false.
* `Reducer`: `StepsAccounted`, `VisitedIsSettled` (what the stack machine has
  passed is normal, or reduces to itself), `DoneIsNormalForm`, `SameMeaning`,
  `ErrorIsDeserved`, `LinksSound`, for the requests that lost no frames and whose
  links record no read, since the findings show what happens otherwise.
* `mini_compiler`: `AcceptedRuns` (what the validator accepts never fails for want
  of a name, a target or an operand), `EveryStageAccepts` (a well-typed program is
  refused by no stage, and what is emitted passes the assembler),
  `LoweringKeepsMeaning` (A-normal form and blocks do what the interpreter does,
  work included), `NativeKeepsMeaning` (native code has the exit code, output and
  reads of the interpreter, also past the end of the input, for programs that end
  well).
* `tools`: `WireKept` (terms and their sharing come back, wherever the text is cut;
  both readers agree), `RootIsLast`, `SortIsRight` (dependencies come first, each module
  once; a circle or an unknown module is reported only if there is one, success only
  if there is none), `SummariesForetell` (six
  statements on what the summaries, the tables and the fate of a compilation say of each
  other), `BundleKept`, `PruningIsSafe`, `NamesKeepTheirBinders`. The conjunctions
  name their parts, which are stated where they are defined.

Some of these are false of the code without an exception. The exception is then
in the formula, the inputs of the run contain the case, and section 4.1 tells what
happens there:

* `AnfIsValid`: match binders recorded at an instantiated type.
* `PruningIsSafe` is about programs that are `Plain` and names that are `Declared`.
  `Plain`: no name is both a type's and a term's, imported and defined, or defined
  twice in a module; the name of a data type or constructor is defined in, exported
  by and imported from one module only. `Declared`: the module defines the name,
  imports it, or one module exports it. The compiler finds other constructors and
  data types too.
* `NamesKeepTheirBinders` is about substitutions that keep the binders:
  `KeepsBinders`, `TypeKeepsBinders` and `BatchKeepsBinders` say, before a call and
  from its arguments, in which a renaming goes wrong or an arm is left half done; a
  history variable, `orderly`, remembers that none of those was made. 240 of the
  1298 first calls of the run are excluded. `MatchTakesItsArm` asks of a match on an
  imported data type that its arms are written in the order of the constructors
  (`AsDeclared`), and `ResultTypeIsFresh` that the result type has not the name of a field
  type. `OnlyUnboundFails` has exceptions for definitions that need each other
  and natives of the same module, and none for substitutions.

Each property of a passing run has a mutant in `PROJECT.json`: an operator of the
module that changes one step the way a slip in the code would (a fault definition,
marked as such where it stands), under which the property is violated.

### 3.2 Fairness

Threads of the operating system are scheduled: every step of a process that stays
possible is taken (weak fairness per client, worker, dispatcher, pump, stdin thread,
and per thread of a ring). A thread that retries a compare-and-swap in competition
with others, or a lock that is free again and again, gets it eventually (strong
fairness of the claiming step of a ring and of the publishing step that takes the
publisher lock); the code's loops give no stronger guarantee, and a spurious failure
of a weak compare-and-swap for ever is excluded the same way. Symmetry is not sound
for liveness; the two liveness runs of `Thanatos` with several clients have an action
constraint in its place, `InOrder`: the first idle client calls, the first free
suspension is taken. Which client calls and which suspension is taken is under no
fairness condition, so every behaviour is one of these after a renaming that changes
with time, as long as nobody looks at a free suspension by its old name; that happens
only in states that are `Overtaken`. `thanatos_live` also has `CallsForJobs`, which
says what each of the three calls is (`Jobs`), in the order of the calls; that is a
bound, and they look for a slot in any order. The two constraints concern `Call` and the
choice of a suspension only; neither stops a process for which fairness is assumed.
No fairness is assumed of clients' decisions to call or of input to arrive beyond
what the stdin thread reads. The TypeScript side has no concurrency; its runs check
safety only.

## 4. Findings

1. `thanatos_lost_waiter`: a parked writer can be forgotten. The worker puts the
   suspension into `stdout_wait` before it posts the completion, so the pump can
   take it out before the client has entered it in `io_wait_map`
   (T 120-132, 480-493); the comment at T 492 says the pump will resubmit it.
2. `thanatos_lost_waiter`: so can a parked reader, with two clients. The byte one of
   them asked for takes the other's suspension out of `stdin_wait` before it is
   registered (T 106-118, 480); the byte the other asks for then wakes nobody who
   could read it for this request, and the call waits with a byte in the ring, where
   `thanatos.h:17` says it waits until one arrives. The run asks that not both
   happen in one behaviour, and its counterexample loses a reader and a writer.
3. `thanatos_unlimited`: the limit that stands for none is counted down. After
   2^32 - 1 contractions the request is parked with an empty budget and
   resubmitted for ever (A 2446-2469, 3025; T 463), where `thanatos.h:40` promises
   a normal form in unbounded steps. The run narrows the number.
4. `reducer_resume`: `step_once_with_links` resets the frame stack that
   `resume_worker_state` has just restored (A 2812), so a reduction parked inside
   an argument returns the argument. REDUCE_FILE is not affected.
5. `reducer_cached_read`: a result that depends on input is entered in the link
   table unless the read is at the top of the term (A 1986-2008, 2814), so the same
   program run again does not read.

One more thing was seen as a counterexample while the run `reducer` asked that
whatever a call returns is a normal form. A batch that ends with the term it began
with is taken for one that found nothing to contract (A 3056), and a left subterm
that comes back as it was for a normal form (A 2384). `S(CI)qq` with
`q = B(S(CI))I` is a redex without normal form that five contractions turn back
into itself; with a gas that ends the batch just there it is returned as the
result, and marked in the link table as a normal form. This is why the properties
say *settled* where a reader expects *normal*.

### 4.1 Disagreements met on the TypeScript side

Each of these was seen as a counterexample with the model. For the substitutions,
elaboration and pruning the inputs of `tools` still contain the case, and the
property has the exception in its formula, as section 3.1 tells: without the
exception the run finds it again. The others are left out of the inputs or excepted
in the same way. All runs check everything else.

* `fromTrip.ts:1365`: the type variables of the scrutinee and of the constructor
  share one map. For a scrutinee `Pair A A` and a constructor of `Pair A B`, both
  fields get `B`; the comment at 1360 speaks of a unification of the two types. A
  later validator refuses the caller.
* `validateAnf.ts:337` compares a match binder with the field type before
  instantiation, so it refuses the A-normal form of a match on `Pair U8 U8`.
* `emitLlvm.ts:665`: `Prelude.error` becomes a zero and the program goes on, where
  the interpreter (the reference semantics, `lib/minicore/README.md:66`) stops; in
  a function on bytes it becomes `ret ptr`, which the assembler rejects.
* `bundleV1.ts:102`: the LF after the header of a last, empty module may be
  missing, where `README.md:218` says "Parsing is byte-exact". `NearlyByteExact`
  states the rule with this one exception.
* `externalReferences.ts:191`: a type variable hides a term of its name, though
  the comment at 192 says "Types don't shadow terms, pass through"; a definition
  that is needed is pruned.
* `fromTrip.ts:671`: a constructor is found in any module when only one has it, and
  a data type in the first that has one (501), imported and exported or not.
  `reachability.ts` does not look there: a program that matches on such a
  constructor compiles, and does not after pruning, which drops the data type.
  `fromTrip.ts:1420` also takes such a constructor, when no own constructor has the
  name, before the module's own definition of that name.
* `substitution.ts:448` renames in the value of a `let`, where the binder does not
  bind; 474 does not rename below a type abstraction; 1047 picks a fresh name that
  is free in the body it is put over (`\x. x x_0 y` with `y := x`); a renaming also
  ends at a binder of the new name. Term binders are not renamed away from free type
  variables of what is put in (1071), and type binders count as term names
  (`freeTermVars`, 54-180). With several replacements, an arm is done once one
  parameter is renamed (886-897), without a look at the parameters after it, and 919
  leaves it alone when a parameter has the name of one of them.
* `substitution.ts:1397`: a reference to an imported type is an error, where the
  comment at 1331 says that imported symbols are left unresolved.
* `elaboration.ts:147`: arms of a match on imported constructors are applied in the
  order in which they are written, unless the data definitions of other modules are
  passed in, which `compile` does not do.
* `data.ts:142`: the result type `R` avoids the names of parameters and not those
  of field types: `data Box = Mk R` gets a constructor of `forall R. (R -> R) -> R`.

## 5. Proofs

Each theorem holds for every value of the constants that meets the named
assumptions of its module, and the hypotheses stated here.

### 5.1 Ring

`RingProofs` proves, for every number of slots above one, every set of threads
and of items (all but the last with unbounded tickets):

* `TypeCorrect == Spec => []TypeOK`, `TicketsInTurn == Spec => []TicketInv`,
  `SlotsExclusive == Spec => []SlotExclusive`;
* `RingIsQueue == Spec => ImplementsFifo`, the refinement of `BoundedFifo`;
* `NothingLeftBehind`: `NoItemLeftBehind`, if there is a consumer. Without one a
  quiet ring may hold items that nobody fetches;
* `NoRoomMissed`: `NoFreeSlotMissed`, if there is one consumer, as the completion
  queue has, and finitely many producers. With several consumers the property is
  false, see section 3.1;
* `TicketsFitWords == Spec => []WordsSuffice`, for words of any width that the
  number of slots divides (`WidthAssumption`; `ring->mask` makes it a power of two),
  and `WordsHaveTheSlot`: a word has the slot of its ticket.

`SlotExclusive` is not inductive: that two threads are not in one slot depends on
how they came to their tickets. `TicketInv` adds it: a thread inside a slot owns a
ticket below the counter it was taken from, and the slot's sequence number is that
ticket, or one more for a reader (`OwnTickets`); a thread about to claim has seen
its slot ready (`SeenReady`), which stays true because sequence numbers only grow;
and each slot stands for one ticket of the window from `head` to
`head + Entries - 1` (`SlotWindow`). When a claim succeeds, the counter still has
the value the thread has seen, so the slot's number is exactly the ticket. Two
threads in one slot then have the same ticket, and `OwnTickets` makes them one.
The proof uses that tickets with the same remainder differ by a multiple of
`Entries`, stated as lemmas on `Slot`.

The refinement adds what lies in the slots (`DataInv`): a published slot, and what
a consumer has copied, is the item the log has for that ticket. A claim by
compare-and-swap is then a step of the queue, and every other step a stutter. For
the wake-ups the invariants follow the futex words: a consumer that goes to sleep
read its word before its second try, so an item published since has changed the
word, or the thread that published it has still to notify (`WakeInv`). For room
the argument counts: where a producer sleeps, there are at most as many free slots
as producers that will look again and a wake-up under way (`RoomInv`).

Words need to know how far apart the numbers are that are compared. `NarrowWindow`
says that no slot is more than one round behind the tail and that none is free for a
ticket already consumed, and `NotAhead` that a ticket that is looked at was read
from its counter; with `Fresh` the sequence number and the ticket are then at most
half a word apart (`NearEnough`), and on such numbers the signed difference of words
is exact (`WordDiffExact`); equal words less than a word apart are of equal numbers
(`WordEqual`). `SlotWindow` alone bounds sequence numbers from above only.

### 5.2 Control pool

`ControlPoolProofs` proves, for any number of threads, continuations and
suspensions and any number of calls, and with unbounded versions:

* `SlotsNotShared == Spec => []NoSharedSlot`, `ListsIntact == Spec => []ListInMemory`,
  `TrapsNeverFire == Spec => []NoTrap`, `PoolTypes == Spec => []TypeOK`;
* `SlotsNotLost == Spec => []NoLostSlot`;
* `CountersExact == Spec => []CountInv`: `cont_in_use` and `susp_in_use` count the
  allocated slots and the pushes under way;
* `PoolIsParkedWork == Spec => ImplementsParkedWork`, the refinement of `ParkedWork`.

The first three hold each other up in one inductive invariant, `PoolInv`: what each
thread knows of the slots in its locals (`LocalOK`), that a list word it has read
is current as long as the version it read is (`SnapOK`, the argument against ABA),
that a parked suspension and its continuation are allocated (`ParkedOK`), and the
properties themselves. A successful pop finds the version it read, so its
`next_free` is the second slot of the list; had the slot been taken in the
meantime, the version would have moved on. The lemma `KeepsInv` does the work for
the thirteen steps that write at most slots their thread holds; the four that
hand a slot over (`PopCas`, `PushCas`, `Publish`, `Claim`) have a lemma each.

`NoLostSlot`, the counters and the refinement rest on `PoolInv`, each with an
invariant of its own: which thread answers for a slot that is on no list, how many
slots a counter stands for, and which state the continuation of a suspension holds.

### 5.3 Thanatos

`ThanatosProofs` proves, for any number of clients, workers, slots, suspensions
and requests, any capacities, scripts and step limits:

* `TypesCorrect == Spec => []TypeOK`;
* `OneToken == Spec => []OneTokenPerRequest`;
* `NothingDropped == Spec => []NoDroppedEvents`;
* `ResumesParked == Spec => []NoFailedResume`;
* `OneRegistration == Spec => []RegistersOnce`;
* `OutputFirst`: `OutputBeforeReturn`, if no script reads past the end of a file
  (`NoFiles`): a call that fails returns without draining stdout (T 502-506);
* `NothingLeaked`: `NoLeakedSuspension`, if no script reads past the end of a file
  and no call has a step limit: a call that fails, or that returns a suspension
  for its limit, leaves the suspension behind.

None of these is inductive; `OneTokenPerRequest` says how often a request occurs
in nine places, and not which event and suspension it has there. The inductive
invariant `Inv` is about *tokens*. A token is the continuation of a request, with
the term or the suspension it goes on with; it lies with a client that submits, in
an SQE, with a worker, in a CQE, with the dispatcher, in the slot, in
`io_wait_map`, or with the thread that has taken it out of there. `TokenInv` says
that a request has one exactly while it owns a slot, that no two tokens go on with
the same suspension, and that the suspension of a token is parked. An action moves
one token, makes one or ends one; `TokenMoves`, `TokenStarts` and `TokenEnds` say
once what each of these has to show, and `TokenFrame` what an action leaves alone.

The rest of `Inv` is what the actions need to move the right token: what a client
or a worker holds at each place of its loop (`ClientInv`, `WorkerInv`), that an
event names the suspension it leaves parked (`EventInv`), and that the slot of a
request still names the suspension while it waits in `io_wait_map` (`Named`).
That nothing is dropped is then a consequence: the request of a completion has a
slot, and were this slot done, or locked by its client, the request would have a
second token. A resumed suspension is parked because its token says so. The leak
and the output theorems use the same invariant, whose conjuncts on them depend on
`Fails` and `Completes`: whether the constants let a call fail, and whether every
call ends with its result.

`NamesAssumption` says that suspensions are neither programs nor the empty script,
as `is_control_ptr` tells them apart in the code. The lost waiters of findings 1 and 2
contradict none of this: their requests keep their one token, in `io_wait_map`.

### 5.4 Reducer

`ReducerProofs` proves, for all sessions, terms, inputs, gas and capacities:

* `BudgetAccounted == Spec => []StepsAccounted`;
* `ReducerTypes == Spec => []TypeOK`;
* `AnswersReduce == Spec => []AnswersAreReducts`: a request that has kept its frames
  is answered with a reduct of its term;
* `LinksReturn == Spec => []LinksAreReturned`: each link, those of earlier requests
  included, is from a node to a reduct of it, and each mark is on a settled node;
* `LeftsSettled == Spec => []LeftsAreSettled`: what the stack machine has gone past is
  settled;
* `DoneSettled == Spec => [][DoneIsSettled]_vars`: what is answered as done is settled;
* `BytesStayBytes == Spec => []ByteInv`: what is read and written are bytes.

*Settled* is normal, or reducing to itself: section 4 shows that no more is true.
`DoneIsSettled` has one exception, a batch that continues the frames of a resumed
request (on mapped files, or over a cycle of links): there the value compared with
the result is that of a subterm. `NormalIsFinal` (in `Reduction`) shows that the
word normal means what it should: no reduction starts from such a term.

The strengthening `StepInv` ties the account to the suspension while a request is
parked, to the reason it was parked for (a suspension returned to the caller was
parked for an empty budget), and to the record shape of worker states; steps are
grouped into those that move in the term, those that spend, and those that start,
park, resume or end a request. `TypeInv` adds that frames are applications, that
no worker state exceeds the budget of the request, that a request has a suspension
exactly while it is parked, and that the stdout ring stays within its capacity.

The reductions rest on `ReductionInv`. A derivation is a finite list of reductions,
each a contraction or made of earlier ones, so that "reduces to" is a statement
about a function on `1 .. n` and needs no recursion; two derivations are put one
behind the other, and one is lifted below an application. `Computes(t, frames, v,
mode)` says that plugging the value into the frames gives a reduct of `t`, told
without plugging: each frame waits for what the next one works on. It holds of
every node that the batch will link (`BatchInv`), of the request's term
(`RequestInv`) and is kept by each step of the machine, so that `publish_link_ptr`
enters reductions and nothing else (`LinkInv`). That what is passed is settled
uses that a left subterm that comes back unchanged either was stuck all the way
down or was contracted at least once.

### 5.5 Orders

`TopoOrderProofs` proves, for any number of objects and any graph on them:

* `OrderInvariant`: types, `WaitsBelow` and `OrderIsEmitted` are invariants;
* `OrderImplements`: each step is a step of `Emission` or a stutter, so an object
  is emitted once, after the objects it applies;
* `RootComesLast == OrderSpec => []RootIsLast`.

`WaitsBelow` is the strengthening: an expanded object waits in the stack with
smaller objects above it, among them its children that are not emitted yet.
When it is on top again its children are emitted, although a shared object may
have been pushed several times. That the root is last follows since the bottom of
the stack is always the root and all others are below it in the graph.

`ModuleOrderProofs` proves `ModulesInOrder == WalkSpec => [](DepsComeFirst /\ OnceEach)` for any
modules and imports, circles and missing modules included. The invariant says
where each dependency of an unfinished call is: visited, still in the rest of
its frame, or the frame above it; when a call finishes its rest is empty.
`OutcomeRight == WalkSpec => []OutcomeIsRight` adds what the walk reports. What is
reached is the least set that has the entry and is closed under imports. Each module the walk
has met is reached, and is reached from every call below it (`CallsReached`,
`CallsLead`), so a call that meets itself closes a circle; at the end the visited
modules are closed under imports, so nothing that is reached is left out, and those
before a module are closed too, so no circle comes back to it. `SortRight ==
WalkSpec => []SortIsRight` is the two together.

### 5.6 Only model-checked

* Liveness and everything under fairness (`EverythingDelivered`,
  `BlockedProducersReturn`, `CallsReturn`), which the prover cannot state.
* What compares the reducer with `ReducerMeaning`: `SameMeaning`,
  `DoneIsNormalForm`, `ErrorIsDeserved`, `VisitedIsSettled` and `LinksSound`. Their
  reference is recursive. The theorems of 5.4 say the part of it that derivations
  can say: that answers and links are reducts and what is done is settled. What they
  leave out is that the normal form of a term is unique (the confluence of the
  calculus), and the order of effects, which a derivation does not know.
* The properties of the compiler, the front end, the formats and pruning
  (`AcceptedRuns` to `NamesKeepTheirBinders`): they rest on recursive definitions
  over terms and texts, and on induction over them.
* Induction over numbers is available in one form, for a set in the place of a
  predicate (`SetInduction` in `Reduction`, from the library's well-foundedness of
  finite sets); that suffices for derivations and not for recursive operators.
* That the loop of `TopoOrder` and the walk of `ModuleOrder` end is seen in the runs,
  which are finite, and not stated.

## 6. What is not modelled

* 32-bit wrap of futex words, versions and request numbers (that of tickets is a
  property of `Ring`, not its arithmetic); memory order (the models
  are sequentially consistent; the code publishes with release and reads with
  acquire on the words the models make steps of).
* Arena: hash-consed nodes are terms; growth, epochs and duplicates are planned.
* Bulk contractions of unlimited requests and the limit of 2048 frames.
* Start and shutdown of the runtime, statistics, high-water marks.
* Sessions (`session.c`, `main.c`): command parsing and socket I/O.
* Wire formats in C and surface text; parsers, printers, LLVM text, command lines.
* `fromTrip.ts` below the tables: the compilation of function bodies, that is
  erasure, lifting of local functions, specialisation of matches. The programs of
  `mini_compiler` are what it would produce, and unification is in `MiniCore`.
* The type check of System F, type aliases and de Bruijn conversion; Hindley-Milner
  inference and bracket abstraction of the SKI library.
* `improvize/index.ts`: the rules of a linter, without state.
* Names with characters that are not letters, digits or underscores, which lose
  them in LLVM (`validateLlvmV0.ts:97`); numbers above 2^64 in the interpreter.
* The self-hosted compiler and the standard library in TripLang.

## 7. Plan

Done: `Ring`, `Thanatos`, `Reducer`, `ControlPool` and their proofs; then the wire
format, the compiler from mini-core to LLVM, modules and bundles, pruning,
substitution and the front end.

Next modules, in order of what depends on them:

1. `Arena`: `allocCons` with its bucket table, publication of a node, the seqlock
   of growth, epochs; refined against a set of nodes.
2. `Links`: several workers compressing and reading overlapping link paths; normal
   form marks survive.
3. `Session`: commands over one runtime, leftovers in the stdin ring, RESET,
   isolation of commands; the frame limit.
4. `Lifecycle`: start, shutdown flags, joins and the sentinel.
5. `BulkFusion`: bulk contraction against repeated single contraction.
6. The rest of `fromTrip`; bracket abstraction, inference, AVL rebalancing.

Next theorems: confluence of `Reduction`, so that the normal form a request is
answered with is the only one; that the emission of `TopoOrder` and the walk of
`ModuleOrder` end; then those of the modules above.
