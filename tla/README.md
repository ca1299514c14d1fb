# GatoCore: a verification project

GatoCore runs programs written in PTJS, a language with Portuguese keywords, in
two ways: a patched QuickJS interprets them, with a host that gives them files,
windows and workers and a standard library written in JavaScript; and a compiler
of its own translates a subset of the language to x86-64 assembly. This
directory holds TLA+ modules that model the parts of the system that carry its
logic, TLC configurations that check them on small instances, and theorems about
them whose proofs TLAPS checks.

Paths below are relative to the repository. `PROJECT.json` has, for every
definition that models code, the lines it stands for.

## Inventory

| Component | Where | State and operations | Hard behaviour | What makes it correct |
|---|---|---|---|---|
| Tokenizer, parser | `compiler/ptjs_native.js` 178-805 | none between calls; text to tree | precedence | the tree is the one the grammar gives |
| Type inference | 807-1186 | a type per name, parameter and result; two passes over all functions | calls to functions not walked yet | the kinds the code generator relies on are the kinds values have |
| Lowering | 1188-1640 | the context of a function: instructions, temporaries, locals, labels | loops, early returns, short forms of `para cada` | the IR prints what the source says |
| Register allocation | 1642-1834 | live intervals, `freeRegs`, `active`, places, spill slots | more live temporaries than registers | two live temporaries never share a place |
| Emission | 1862-2080 | the assembly of one IR instruction | operands in registers or spilled, low bytes of registers, division | each group of lines computes its instruction and touches nothing else |
| Frames and calls | 1836-1860, 2083-2120, `snippets/asm` | the stack, rsp, rbp, saved registers | alignment, nested calls | rsp aligned at calls, frames apart, registers restored |
| Peephole, assembly text, linking | the rest of `compiler/` | files | - | input and output |
| Native runtime | `runtime/native_runtime.c` | rings of 16 and 4 static buffers | a buffer reused while a program keeps its address | a text stays as long as the ring promises |
| Command line | `bin/gatocore` | a temporary directory | failure and interrupt between its steps | the directory is removed, the exit status passed on |
| Workers, messages | `engines/quickjs/quickjs-libc.c` 124-154, 2350-2410, 3440-3860 | two pipes per worker, each a queue with a mutex, a waker and a count of references; shared buffers | two threads that post, close and end at any moment | a message arrives, in order, and a pipe is freed once, by its last holder |
| Event loop | 2003-2262, 2480-2640, 5520-5650 | timers, descriptors, signals, jobs, rejections | what happens while `select` sleeps | no timer is slept over, no rejection or signal is missed |
| Terminal | 4067-4800 | saved settings and flags of standard input | a failure half way, an exit in raw mode | the terminal is left as it was found |
| Window | 4380-5395 | handles of libX11, a frame, keys, mouse | the user closes the window, calls fail half way | handles are freed once, the mouse stays inside, the end is seen |
| `incluir` | 4560-5060, `qjs.c` | the base directory of relative paths | nested scripts that throw | a path is resolved from the script that names it |
| Atomics | `engines/quickjs/quickjs.c` 59614-60000 | one list of waiters behind one mutex; waiters on the stacks of threads | a store between a comparison and a wait | no wake-up is lost; the list has no dead waiter |
| Promises and jobs | 1846-1893, 52959-53869 | state, reactions, one `already_resolved` per pair of functions, job queue | late, double and nested settling | a promise settles once, a reaction runs once, in order |
| Memory | 5926-6419, 51338-51388, 60132-60187 | reference counts, four lists, marks, weak references | cycles, weak references inside them | what is reachable lives, cycles are freed |
| Modules | 823-872, 30647-31617 | status, DFS indices, cycle roots, pending dependencies, async parents | cycles, top-level await, failures | a module runs once, after what it requests, and fails with it |
| Asynchronous generators | 20860-21196 | state and a queue of requests | requests while the body runs or a return is awaited | every request is answered, in order |
| Shapes | 4721-5150, 5199-5345, 8765-8955, 9883-9919 | tables of names shared by objects, values beside them | sharing, deletion, compaction, hash collisions | an object behaves as if its properties were its own |
| Map, Set, weak forms | 51338-52264 | records in insertion order, a hash table, locks of iterators | scripts that change a map as they walk it | a walk sees every record that stays, once |
| Big integers | 10874-12005, 55912-55973 | none; limbs in two's complement | carries, the correction of a quotient digit, sign limbs | integer arithmetic |
| Regular expressions | `engines/quickjs/libregexp.c` 1554-2614, 2740-3364 | code; a stack of choice points with captures to restore | empty loops, lookarounds, backtracking over captures | the match the specification gives |
| Rest of QuickJS | `engines/quickjs/` | - | - | vendored: parser, interpreter, typed arrays, Unicode, numbers, dates |
| `fila`, `stream` | `stdlib/ptstdlib.js` 1607-1655, 1937-1979 | an array and the index of its front | compaction | a first-in first-out queue in bounded space |
| `fila_circular` | 1656-1719 | a ring, two indices and a count | the wrap | a bounded first-in first-out queue |
| `pool` | 1784-1842 | slots and a stack of free indices | the script's seed function runs in the middle of `alocar` | a slot has one holder, and can be reused |
| `bitset`, `arena` | 1720-1783, 1843-1936 | 32-bit words; a byte array and a cursor | bit 31, alignment, last bytes | set semantics; disjoint grants |
| `servico` | 2992-3079, with 986-1117 | pid, ativo, ultimo_status | children exit at any time, numbers are reused, `aguardar` blocks | active means a live child; no child is forgotten |
| `quarentena`, scan engine | 3080-3212, 3475-3569 | records, files, signatures | two files with one quarantine name, repeated updates | what was isolated can be brought back |
| Term registry | 1241-1332, 3571-3673 | name to constructor | order of registration | a name means one thing |
| Workspace, files, jobs, other helpers | the rest of `stdlib/` | none, or the last result | - | - |
| Samples, tests, tools | `samples/`, `tests/`, `tools/` | - | - | not part of the system |

The parts of the compiler form a pipeline: inference decides kinds, lowering
chooses IR instructions by them, the allocator reads only what an instruction
writes and reads, emission reads the places the allocator chose, and the frame
gives the places their addresses. In the engine, the event loop runs the jobs
that promises queue and calls the handlers of timers, descriptors and messages;
modules and asynchronous generators continue in reactions of promises; agents
that wait in Atomics are the threads that workers start. The standard library's
structures are independent of each other; scripts are single-threaded, so they
interact only through callbacks (the seed function of `pool`) and through the
operating system (`servico`).

## Modules

### The native compiler

* `LinearScan` is `allocateTemps`. One action is one turn of a loop:
  `ScanInstruction` (first pass), `ExpireOld` (the loop of `expireOld`),
  `AllocateFree`, `SpillVictim`, `SpillCurrent` (the body of the second pass).
  A function is a sequence of `[def, use]` records, which is all the allocator
  looks at. `WellFormed` states what lowering guarantees: each temporary is
  written by one instruction, before those that read it.
* `Emission` runs the lines `emitInstruction` writes for one IR instruction on a
  machine with words of `WordBits` bits whose low `ByteBits` are `al`, for every
  place of the operands and every value, and compares the result with the
  meaning of the instruction.
* `NativeFrame` is `frameFor`, the two offset functions, and the prologue and
  epilogue. A function body is arbitrary: it may store to any of its places,
  call any function and return. Memory words carry the activation and place
  they were written for, so that a word landing on another is visible. A call
  happens only if its frame `Fits`: below the stack lies a page that ends the
  program (external).
* `Inference` and `Lowering` are `analyzeProgram` and `lowerExpr`/
  `lowerStatement` as recursive operators; `Compile` composes them and runs the
  IR next to a direct reading of the source. Texts are sequences of characters
  and lists sequences of numbers; no string is built. An assembler
  (external) refuses a file that defines a label twice.
* `RuntimeRings` is the static buffers behind `ptjs_string_char_at` and the
  `ptjs_identificar` functions.
* `MCBackend` puts these and `RegExp` side by side, the two compilers;
  `MCCompile`, `MCEmission` and `MCNativeFrame` give their constants.

### The script host

* `Workers`: the main thread and the workers it starts. Every action is what a
  thread does between two points where another thread can be seen: the
  constructor in its parts, each of which may fail (`CtorPipes`, `CtorObject`,
  `CtorThread`, `CtorFail`), `postMessage` with the waker signalled
  (`PostSignal`) before the message is linked (`PostAppend`), `js_os_poll` from
  `Select` over `Take` and `ReadMessage` to `CallOnmessage`, the finalizers and
  the end of a thread. Pipes and shared buffers are counted.
* `EventLoop`: `js_std_await` for the main module, then `js_std_loop` with
  `js_os_poll`; `at` is the place in the loop. A script is any sequence of calls
  of `os` between its call and its return. Time is `Tick`.
* `Terminal` splits raw mode into its system calls, each of which may fail, those
  that put the settings back included (`PutBack`; the code ignores their results,
  and `refused` remembers what the system refused), and lets a signal end the
  process between any two. `Video` is `video_abrir` with
  its failing steps, presenting, input and `video_fechar` over a libX11 whose
  events are arbitrary. `Incluir` is the global base directory through nested
  scripts that end or throw. The system and libX11 are external.
* `MCHost` puts them side by side, with the structures of the standard library and
  `BigInt`; `MCVideo` gives constants of `Video`.

### The script engine

* `AtomicsWait`: agents that compare, link and wait, notify, and change cells;
  the mutex is `holder`. A waiter is linked while its call lasts. Notify takes
  one waiter per step off the list, and then signals them, all under the mutex.
* `Promises`: one record of promises, resolving functions, reactions and jobs,
  changed by the functions of the code. Scripts, between jobs and inside
  handlers, make promises, settle those whose functions they hold, and add
  reactions.
* `CycleGC`: counts, marks, the lists of the collector and weak references; the
  collector's loops go one object at a time.
* `ModuleGraph`: linking and evaluation as walks of the graph, and the actions
  `Import` and `BodySettles` between which they run to their end.
* `AsyncGenerator`: the queue and the loop of `js_async_generator_resume_next`,
  over a body that yields, awaits, returns, throws and makes requests.
* `Shapes`: objects whose names are in shared, hashed tables. `PropertyMap` is
  the abstract specification (a list of properties per object), which `Shapes`
  implements.
* `MapRecords`: records, hash chains, growth, and cursors (iterators and
  `forEach`) that hold a record while scripts change the map. A value may be
  the last reference to an iterator over the same map (`owns`): freeing it with
  its record ends the iterator, which gives up the record it stands on
  (`Finalized`). `js_map_clear` is a walk that takes the next record before it
  frees this one, and `js_map_forEach` moves on before it frees what the callback
  returned; if the record they took is freed with it, they go on from freed
  memory (`strayed`), and the model ends. `BigInt`: the limb
  routines and the operations above them. `RegExp`: `lre_compile` on trees and
  the backtracking matcher one instruction at a time, against a reference
  meaning (`ExpectedMatch`) written from the semantics of the specification, as sets
  of ways to match; `MCRegExp` has the patterns.
* `MCEngine` puts the first six and `MapRecords` side by side.

### The standard library

* `BoundedQueue` is the abstract specification of a queue: its items and the
  answer of the last call. `FilaCircular` (one action per method, the refusing
  ones included) and `Fila` (`tirar` contains its `compactar`) are shown to
  implement it with `items` mapped to what `listar` and the getter `itens`
  return. Reading methods are no actions. `ScriptValues` is what scripts store.
* `Pool` splits `alocar` after it took the index: the seed function, or a getter
  that `shallowClone` reads, may call the pool again (the calls in progress are
  the stack `filling`) or throw, and a seed function may return `undefined`.
  `lost` is a history variable. `intOr` is modelled: `liberar(-1)` frees slot 0.
* `Service` composes `createService`, `execHost`, `waitPidHost` and `killHost`
  with the process table of the system (external), which gives any free number to
  any process: a child of a service, one the script starts otherwise
  (`ExecOther`), or a stranger. `shared` is a history variable, the services whose
  number, while they kept it, was also another child's. `aguardar` is a call
  (`Aguardar`) and a return (`AguardarRetorna`); while it waits no other method
  runs. Calls that return early without changing anything are no actions.

In the modules that put components side by side a behaviour chooses one
component at the start and follows it: they share no state, and the product
of their states would say nothing more. A property such as `PortsSound` or
`CollectorSound` is the conjunction of the component's type invariant and its
named invariants, which stand before it with a comment each.

Definitions whose names say what is wrong with them (`LimparKeepsHead`,
`SurvivingOneLess`, `TakenBackNever`, `WaitChecksUnlocked`, ...) stand before the
definition they vary and are used nowhere: each is a plausible mistake in that
piece of code that some property must notice. `PROJECT.json` pairs one with each
property; the others break further conjuncts of the same property.

## Runs

| Run | Instance | Checks |
|---|---|---|
| backend | `Backend.cfg`: 277 programs with every statement, loops in loops, every way out of a function; 4 temporaries, 2 registers, every function of at most 6 instructions; 3-bit words with 1-bit low part; frames of both parities, 2 activations above main; string rings of 3 and 2 buffers; patterns of a few atoms under every quantifier, texts of up to 3 characters | `PrintsAsSource`, `Ends`: same output as the source, and an end. `RunsSound`: intervals cover all uses, kinds agree, and the assembler refuses a file only when one function is named after another with `_foreach`. `AllocationRight`: live temporaries apart, values not overwritten, no register lost, no spill without pressure. `InstructionsRight`: every opcode but `&&` and `\|\|` computes its meaning, transfers control rightly, touches nothing else, traps only where division is impossible. `FramesSound`, `ReturnsToCaller`: alignment at calls, frames apart. `RecentStringsIntact`. `MatchesAsSpecified`, `BacktrackRestores`, `MatchEnds` |
| host | `Host.cfg`: one worker, one shared buffer, 2 posts per thread; 2 timers with ids that wrap at 2, one descriptor, one signal; 2 openings of a window; 4 nested scripts; a ring of 4 slots; threshold 2 and 5 live items; a pool of 3; 2 services and 2 process numbers; every pair of integers of 3 limbs of 2 bits | `PortsSound`, `InOrder`, `Arrives`: references exact, the waker agrees with the queue, messages in order and answered. `LoopSound`, `TimersFire`. `TerminalSound`: the terminal as found after every call of exit, but for what the system refused. `WindowSound`. `IncluirSound`. `RingSound`, `RingImplements`, `FilaSound`, `FilaImplements`. `PoolSound`, `GrantsAreExclusive`. `ServiceSound`. `BigIntExact` |
| engine | `Engine.cfg`: 3 agents and 2 one-bit cells; 4 promises, reactions or thenables; 3 objects, one a `WeakRef`; 5 graphs of 4 modules with every choice of awaiting modules and at most one that fails; 4 requests; 2 objects with 2 names; 3 records, 2 keys, 2 cursors | `WaitersSound`, `WakeupsRight`. `SettledOnce`, `ReactionsRight`. `CollectorSound`, `NoCycleLeft`. `ModulesSound`. `GeneratorSound`. `ShapesSound`, `BehavesAsOwn` (refinement of `PropertyMap`). `MapSound`, `WalksRight` |

Why the bounds suffice. Four temporaries and two registers let an interval
expire, be evicted and be spilled itself in one function; the theorems remove
the bound. In `Emission` the cases are which operands share a kind of place and
where words wrap, and a 3-bit word has both signs, overflow and the division
that overflows. In `NativeFrame` only the parity of a frame and one caller below
matter. With one worker and two posts each thread can take the last message
while the other posts the next, close its port and end; pipes of different
workers share nothing but the list of ports. Timer ids that wrap at 2 wrap in
the life of two timers. Three agents are a waiter, one that notifies it and one
that comes between; `NoLostWakeup` watches one of them, as they are alike. Three
objects form a cycle with a weak reference inside it, outside it, or to it. The
five graphs have a diamond, a cycle entered from two sides, nested cycles, a
module that requests itself and one requested twice. Four requests are two more
than a generator needs to complete with some left in its queue. Two objects and
two names let a shape be shared, extended, found again, cloned and compacted
(`CompactAt` is 2, where the code has 8, and the initial sizes are 1, so that
tables grow and shrink). Three records make the table grow under a cursor, and let one cursor stand
on an empty record while the record before it owns that cursor. Limbs
of two bits reach every carry and the correction of a quotient digit, and every
pair of integers of three limbs is computed with; `Threshold`
is 2, where the code has 64, and lets `compactar` run with and without live
items. In `Service` two numbers let two services keep one each or the same one,
live or stale, while strangers and other children of the script take either.
`Fuel`, `MaxDepth`, `MaxLen`, `MaxPosts`, `MaxTimers`, `MaxDelay`, `MaxJobs`,
`MaxSignals`, `MaxOpens`, `MaxNesting`, `MaxCalls`, `MaxFields`, `MaxRequests`,
`MaxItems`, `MaxRecords`, `MaxLimbs`, `MaxExponent` and `MaxShift` are the
named bounds.

Deadlock checking is off in host and engine: processes end,
scripts that have used up their bound stop, agents may all wait, and the slots
of a pool may all be lost. That none stops too early is what the liveness
properties and `NoneForgotten`, `EachReactionOnce` and `AnsweredUntilCompleted`
say.

Fairness.

* `Compile`: the machine goes on executing (weak fairness of an instruction).
* `Workers`: each thread runs (weak fairness of its step), which includes that a
  script returns from its handler.
* `EventLoop`: the thread runs and scripts return (weak fairness of `LoopStep`);
  time passes however often the thread is busy (strong fairness of `Tick`). No
  signal and no ready descriptor is assumed to come.
* `AtomicsWait`: an agent in a call goes on, and gets the mutex if it is free
  again and again (strong fairness of `InCall`); a signalled condition ends the
  wait. That a script which changes a cell notifies its waiters afterwards is
  built into `AtomicsOp`; timeouts are not assumed to come.
* `RegExp`: the matcher executes instructions. It ends because it backtracks
  over finitely many choices, not because of the timeout.

### Where the code and its documents disagree

Each of these runs ends with a counterexample.

* `native_frame_saved`: locals and spill slots are addressed from `[rbp-8]` down,
  where the prologue has pushed the saved registers; a function with a local
  returns other values in its caller's registers than it found.
* `emission_boolean`: normalising the right operand of `&&` and `||` goes through
  `al`, the low byte of the left operand; the result is the right operand.
* `compile_loose`: a `para cada` over a number at the top level is not rejected.
* `compile_forward`: a function that returns the boolean of a later function is
  rejected; with their order exchanged it compiles.
* `loop_signal`: a signal between the check of `os_pending_signals` and `select`
  is not answered while `select` sleeps.
* `video_reopen`: opening a window after the user closed the last one overwrites
  the handles of the old one, which nothing frees any more. In the passing run
  scripts do not do so (`ReopensAfterQuit`).
* `terminal_signal`: raw mode keeps Ctrl-C, and a process that it ends runs no exit
  handler and leaves the terminal raw, where `BUILTINS_SPEC.md` says that it must
  be restored at the exit of the process. `TerminalSound` is about the exits the
  program makes itself.
* `generator_stuck`: a completed asynchronous generator answers one request and
  leaves those behind it in the queue. The passing run states what does hold:
  every request is answered until the generator first completes.
* `bigint_unsigned`: `BigInt.asUintN` returns a negative number unchanged when it
  fits in the bits. `BigIntExact` leaves that operation out and covers all the
  others, `asIntN` included.

The frames finding is why `Compile` runs the IR and `LinearScan` reasons about
places: both are sound on their own, and the frame breaks what they rely on.

Behaviours met on the way that no document rules out. The first four are in the
models, and the properties are stated around them:

* The slot of a pool whose seed function throws or returns `undefined`, or whose
  clone throws, is never reused (`lost` in `Pool`).
* Label names are joined with underscores, so that functions `f` and `f_foreach`
  can define the same label (`compiler/ptjs_native.js:1290`), and the assembler
  refuses the program (`NamesMeet`; two of the programs have such names, and one
  of them is refused).
* A service keeps the number of a child it has reaped. When another child of the
  script gets the number, `status` of the old service reaps that child and reports
  its exit, and the service the child belongs to stays active for ever (`shared`
  in `Service`).
* `js_map_clear` and `js_map_forEach` go on from a record that was freed under them
  when what they free is the last iterator on it and the record was deleted
  before (`strayed` in `MapRecords`; `StraysByIteratorOnly` says that nothing else
  does it).

The others no property states:

* `intOr` turns a negative index of a pool into 0. A local defined only in a branch not taken
  is read as whatever its slot held (`compiler/ptjs_native.js:1268`). Both operands
  of `&&` and `||` are evaluated (1410).
* `bitset` counts in signed 32-bit words (`stdlib/ptstdlib.js:1730`).
* In `quickjs-libc.c`: a frame may be put to a window whose destruction is still in the queue (5273); a key released
  under another modifier stays pressed (4433); a function that calls `incluir`
  later resolves from the base directory of that moment (4575); a job that
  fails ends the inner loop over jobs, and the rest run in the next turn (5606).

## Theorems

All hold for every value of the constants that satisfies the named assumptions.

* `LinearScanProofs`. The inductive invariant is `AllocTypeOK`, `IntervalInv` (what
  the first pass has recorded, and that it covers the uses), `RegisterInv` (free
  and active registers partition the list), `SortedInv` (the active temporaries
  are sorted by their ends), `RetiredInv` (a temporary that left `active` ends
  before those still to come start), `SpillInv` (spill slots are numbered without
  gaps) and `NoSharedPlace`. `NoSharedPlace` is not inductive alone: that an
  expired register may be given away needs the order of `active`, and that an
  evicted temporary's register may needs that every other holder has retired.
  `AllocationSound` and `ValuesSurvive` (a value is in its place when it is read)
  follow. `SpillsUnderPressure` needs a count: when a temporary is spilled no
  register is free, so the active temporaries are as many as the registers; after
  `expireOld`, and because `active` is sorted, none of them has ended, so all of
  them and the current one are live at its first instruction, one more than there
  are registers. `AllocationCorrect` is the conjunction that the run checks.
  Assumptions: `CodesAssumption` (functions are `WellFormed`),
  `AllocatableAssumption` (no register is listed twice) and `TempsAssumption`
  (finitely many temporaries).
* `QueueProofs`, both queues. For the ring `RingTypeOK` with `RingConsistent` is
  inductive; the remainder is replaced by cases (`ModWraps`, `SlotWraps`).
  `RingImplementsQueue` is the refinement: `listar` after a step is the old list
  with one item appended or its head removed. Assumption: `ringCap > 0`, which
  the factory ensures. For `fila`, `FilaTypeOK` with `DeadSlotsBounded` is
  inductive; `FilaImplementsQueue` is the refinement, with `compactar` a change
  of representation that the queue does not see.
* `PoolProofs`. `PoolSound` is inductive with `OnePlace`: no index is twice on a
  stack, on both stacks, on one of them and occupied, or lost and any of these.
  `GrantsExclusive` is the action property that follows, `PoolCorrect` says that
  every slot is in exactly one place.
* `ServiceProofs`. Nothing is assumed of the numbers the system gives out.
  The invariant adds that a service outside `shared` is the only keeper of its
  number (`NumbersDistinct`), that a child of the script with this number is its
  own (`OwnChild`), and what the script may be blocked on. That every unreaped
  child is held by its service (`ChildrenHeld`) holds for the others too.

* `BackendProofs`, `NativeFrame`, `RuntimeRings` and `Emission`.
  `FramesAlwaysSound`: a word of the stack carries its activation and place, and
  stays only because later frames begin below it, so the invariant adds `FramesInLine` (the frames follow
  each other down the stack without a gap and without an overlap, and rsp and rbp
  are those of the innermost one). That frames are aligned needs the parity of
  locals, spill slots and saved registers together. `EpilogueReturns` is the action property. `RingsIntact`: the
  buffers the last calls returned are the last slots written, in order
  (`SlotsInOrder`), so the next one overwritten is the oldest. Assumptions: what
  lowering guarantees of the counts (`FrameAssumption`), a stack that starts
  aligned, rings that are not empty. `InstructionsAlwaysRight`: words of every
  width, every value of the operands, any registers and slots. The invariant
  (`EmissionInv`) names the points at which each kind of instruction may be and
  what the scratch registers hold there: the low byte `setcc` wrote, the sign
  `cqo` spread, the operands before `idiv`. The division is the hard case: the
  quotient of the double word has to be the quotient of the operands, and fits
  unless it is that of the least word by -1 (`SignExtends`, `Quotients`). `&&` and
  `||` are excluded by a hypothesis, since the run `emission_boolean` refutes them.
  Assumptions: no temporary in a register `emitInstruction` works in
  (`PlacesAssumption`: so it is in `snippets/alloc/register_classes.json`), and facts on
  powers of two that the prover does not derive (`PowersAssumption`).
* `HostProofs`, `Terminal`, `Incluir`, `EventLoop`, `Workers` and `Video`. `TerminalRestored`: the
  invariant is what is saved and what has been changed at each place of the
  calls (`TerminalStages`), of which `TerminalSound` sees only two, for the
  settings and the flags apart, since the system may refuse to put back one of
  them (`PutsTermiosBack`, `PutsFlagsBack`).
  `PathsFromScript` needs the directories saved by all scripts that are
  suspended. `LoopAlwaysSound`: `TimersFit` ties the id of each timer to the
  counter and to its age (the number of timers made since), which is what makes
  two equal ids a full turn apart; `LoopStages` says what each place of the loop
  has already seen to: past the jobs some are left only after one that failed,
  and past the check no rejection is. `MessagesInOrder` and `PipesAlwaysCounted`
  rest on one invariant, `WorkersInv`, for any number of workers: a pipe's count
  is the sum of its four possible holders (`HoldersCounted`), which needs to know
  how far the constructor and the thread of each worker have come
  (`WorkerStages`) and that a port never outlives its object (`PortsKept`); its
  mutex is held exactly while its one sender is between the signal and the
  message (`PostingHolds`); and what is queued is numbered on from what was
  received (`PipesFlow`), also in a pipe that is not made yet, so that the
  constructor starts from a clean one. Every step either moves one thread and at
  most one pipe (`GoesOnInv`, `ChangesOnlyFlow`), or makes and drops references
  (`FreesInv`, `DupsInv`), and then messages go only with the last holder.
  `WindowAlwaysSound` and `BackendFreed` have a hypothesis, `~ReopensAfterQuit`: the
  script does not call `video_abrir` again on a window its user closed before it
  called `video_fechar`. Without it both are false, which `video_reopen` shows.
  The invariant adds the types, what the picture on the screen was drawn from
  (`Pictured`) and that a window that is gone is not active (`GoneIsInactive`).
  That a frame covers the window needs division: every pixel of the window is a
  pixel of the frame repeated `scale` times in both directions, and the place of
  the mouse divided by the scale is one of the frame (`Division`,
  `DivisionUnique`, `QuotientBelow`).
* `EngineProofs`, `AsyncGenerator`, `AtomicsWait` and `Promises`.
  `GeneratorAlwaysSound`: the requests answered and those in the queue are
  numbered without a gap (`Numbering`), and the state, the place of the thread
  and what is awaited agree (`StateAgrees`), without which the body could be
  entered with nobody to answer. `WaitersAlwaysSound`: the list is changed only
  under the mutex (`MutexHeld`, `SignalsUnderMutex`), and is exactly the linked
  agents (`ListExact`); a waiter that was taken stays in its call until the mutex
  is free (`TakenWait`). `NotifiesOldest` is the action property that follows.
  `PromisesSettleOnce`: the invariant is that the right to settle a promise
  exists at most once, as a pair of functions not used yet or as a queued job
  that will make one, and only for pending promises (`OneSettles`); each
  function of the code is shown to pass the right on or to use it up
  (`UsedUp`, `SettledKeeps`, `AdoptingKeeps`, `NewPairKeeps`). With it go
  `HandledExact` and `ReportedExact`: `is_handled` says whether a reaction was ever
  added, and the host's list agrees. `ReactionsAlwaysRight` is about the order of
  things and needs two further invariants over such a heap. `Ordered`: every
  reaction is in one place, the list of its pending promise, then the queue, then
  it has run, and lists and queue hold the reactions of a promise in the order of
  their numbers. `Following`: a promise p that was resolved with q follows it
  through a queued thenable job, through unused functions of p in a reaction of
  q that waits or is queued, or by having the state and result of q already.
  This holds only because nobody else can settle p: the functions scripts have,
  and those `then` made, belong to promises that follow no other (`Public`),
  since the second pair that `js_promise_resolve_thenable_job` makes goes into
  the reaction alone. In the middle of a job one promise may follow nobody (the
  `hole`); each function of the code is shown to leave one or to close it.
  Assumption on the width of cells: `2 ^ Width` is a positive number, which the
  prover does not derive from `Width > 0`.
* `ListLemmas` has what these proofs need to know of sequences: one element
  appended, changed or taken out, lists without repetition and their length, the
  least element of a set of numbers, and division with a remainder. The least
  element replaces induction: where a list must have a first element with some
  property, the least index is taken.

Only model-checked: the liveness properties, which the prover cannot do;
`Inference`, `Lowering`, `Compile`, `ModuleGraph`, `CycleGC` and `RegExp`, whose
recursive operators it cannot unfold for every input, and `BigInt`, whose limb
loops are folds; `Shapes` and `MapRecords`, which filter sequences and fold over
them (`SelectSeq` and the folds are opaque to the prover); and the counts of shared buffers in `Workers`
(`SabsCounted`, a sum over all threads and queues), and with them `PortsSound` as
a whole.

## Not modelled, and the plan

Most of the repository's lines are QuickJS: 60,000 in `quickjs.c` alone, and
tables and tools beside it. The models cover what in it has state, concurrency or
an algorithm with cases that tests hardly reach; they stand for a small share of
its lines, because most of the others are not of that kind:

* the parser and bytecode compiler of `quickjs.c`, with the Portuguese keywords
  in its lexer, are a function from text to code; so are the tokenizer and parser
  of the native compiler;
* the interpreter loop gives each of some 250 opcodes its meaning: a model would
  be a copy;
* the built-in objects (`Array`, `String`, `Number`, `Date`, `JSON`, typed arrays,
  `DataView`) are mostly argument conversion around one loop each;
* `libunicode.c`, its tables and `unicode_gen.c` are data and generated code;
  `dtoa.c` is arithmetic on 64-bit words whose cases do not survive small widths;
* `run-test262.c`, `qjsc.c` and the samples are tools and input.

Formatting, messages, logging and memory that runs out are left out, except
where an error path gives back what was taken (`Workers`, `Video`, `Terminal`).

Next, in this order:

1. The interpreter's `finally` and its iterator closing, as code generated and
   run; closures over variables that leave their frame (`CycleGC` leaves them
   out); `Proxy` with its invariants against the target.
2. `CharRange` of `libunicode.c` and the sort of `cutils.c` (`rqsort`), as
   algorithms against a reference; typed arrays over a resizable buffer.
3. `Quarentena` and the scan engine over a small file system; `Arena` (disjoint
   and aligned grants) and `Bitset` (32-bit words against a set), both meant for
   proof; `stream` mapped beside `fila`; `NativeRun`, the temporary directory of
   the command line; `simplifyPath` against a reference definition.
4. Theorems: the refinement of `PropertyMap` by `Shapes`, and the counts of shared
   buffers in `Workers`.
