# Verification of the exception library and of the Karma computer

The repository holds two C++ programs that share no code:

* `exceptions/include`, a library that imitates C++ exceptions with `setjmp`
  and `longjmp`: `TRY`, `CATCH`, `Throw`, and objects that unwinding destroys;
* `karma/include`, a von Neumann computer: an assembler with include files and
  parallel compilation, a disassembler and an executor.

This directory models the core of both in TLA+, checks the models with TLC on
small instances, and proves the central invariants with TLAPS for every
instance. `PROJECT.json` maps each definition to the lines it stands for, and
lists the runs, the mutants that show what a property can catch, the hazards,
the findings and the theorems.

## 1. Inventory

### The exception library

| Component | State | Operations | What makes it correct |
|---|---|---|---|
| `Impl` (`impl/impl.cpp`), macros (`except`) | two thread-local stacks of nodes: `stack`, the TRYs not yet left, and `caught`, the handlers being executed; the flag `unwinding_in_progress` | `StartTry`, `Throw(data)`, `Throw()`, `CanCatch`, `Catch`, `MaybeCatch`, `CatchAll`, `FinishTry` | the two stacks are exactly the client's open TRYs and handlers; an exception goes to the innermost TRY body around the `Throw` and is matched by the first fitting `CATCH`; a second exception while unwinding terminates |
| `ObjectManager` (`objects/manager.cpp`) | `k_destroyers`, a stack of destroyers and checkpoints | `RecordCheckpoint`, `RecordObject`, `Pop`, `UnwindToCheckpoint` | unwinding destroys the objects of the scopes left, each once, in reverse order, and nothing else |
| `AutoObject` (`objects/auto.hpp`) | the stored object | constructors, destructor, forwarding operators | every constructed object has one record until it is destroyed |
| `Data` (`impl/data.hpp`) | an owned pointer and a type | `SetData`, `CanGet`, `Get`, copies and moves | the type decides which CATCH matches; one owner |
| concepts and traits | none | compile time | — |

*Interaction.* A TRY is a `for` loop whose parts call `Impl`; `Impl` calls
`ObjectManager`; unwinding calls destructors, that is client code, which may use
the library again before it returns. Only `Impl`'s state is per thread.

*Hard behaviour.* The nesting of bodies and handlers is told by comparing the
depths of two stacks; `Throw` changes both stacks, calls back into the client
and leaves by `longjmp`; destructors run half way through an unwinding and may
throw; a handler may rethrow, throw or change its exception; threads interleave
on the shared destroyers; `return` out of a TRY skips `FinishTry`.

### Karma

| Component | State | Operations | What makes it correct |
|---|---|---|---|
| specs (`specs/`) | constants | the layout of commands (`parse::RM`, `parse::RR`, ...) and of the executable file | what is encoded is decoded back; fields keep their width and sign |
| `Executor::Config` | blocks of registers, code and constants, bound of the stack | setters, presets, `operator&`, queries | the strictest of two configurations is in force |
| `Executor::Storage` | 16 registers, 2^20 words, flags, segment ends, base and current configuration | `RReg`, `WReg`, `RMem`, `WMem`, `CheckPushAllowed`, `PrepareForExecution` | an access out of range or blocked throws and changes nothing |
| `CommonExecutor` | — | pairs of registers, division, comparison, push, pop, `PrepareCall`, `Call`, `Return` | calls and returns nest, the frames of callers are untouched |
| `RMExecutor`, `RRExecutor`, `RIExecutor`, `JExecutor` | — | the 57 commands and 7 system calls | each command does its accesses in order and stops at the first error |
| `Executor::Impl` | — | load, the fetch and execute loop, error handling | one Executor can run programs one after another |
| `Exec` (`exec/exec.cpp`) | exec data | `Write`, `Read` with checks of the header | what was written is read back; damaged files are refused |
| compiler: `File`, `IncludesManager` | the include graph, the order of files | `GetFiles` | every file once, an included file before the including one |
| compiler: `FileCompiler` | the current line, the label waiting for its item, the words so far | `ProcessCurrLine`, `TryProcessLabel`, `TryProcessEntrypoint`, `TryProcessConstant`, `MustParseCommand` | labels stand at their items, constants, entrypoint and commands are told apart |
| compiler: `Labels`, `Entrypoint`, `Data` | definitions and uses of labels | `RecordCommandLabel`, `RecordUsage`, `MergeAll`, `ToExecData` | addresses shift by the right segment, each use gets its label's address |
| compiler: `Impl` | worker threads over slices of the files | `MustCompile` | any schedule of workers gives the sequential result; errors are reported |
| disassembler | labels recovered from addresses | `Disassemble` | compiling its output gives the same words |
| utils, error builders | none | strings, logging, messages | — |

*Interaction.* The compiler writes a file that the executor and the
disassembler read; inside the executor, commands reach registers and memory
through `Storage` only, which consults the configuration at each access.

*Hard behaviour.* Commands are chains of accesses that stop half way; the
combination of access, segment and configuration; arithmetic at the width of a
word; a call frame spread over five steps of two commands; state kept between
executions; in the compiler, worker threads and the merge of their results.

## 2. The modules

| Module | Models |
|---|---|
| `TryCatch` | what TRY, CATCH and Throw promise, in terms of the client's scopes only |
| `Except` | `Impl`, the macros, `ObjectManager` and the life of an `AutoObject`, one thread, under any client; `ImplementsTryCatch` is the refinement |
| `ExceptValues` | `Except` with the exceptions on the heap counted: which `Data` owns what through copies, moves and jumps |
| `ExceptThreads` | several threads: the thread-local state is exchanged on a switch, `k_destroyers` is not |
| `ExceptProofs` | the proofs about `Except` and `ExceptValues` |
| `ExceptRefinementProofs` | the proof that `Except` implements `TryCatch` |
| `KarmaStorage` | configuration, accesses of `Storage`, operations of `CommonExecutor` |
| `KarmaMachine` | the executor: every command, loading, errors, a queue of programs run by one Executor |
| `KarmaProofs` | the proofs about `KarmaMachine`: types and the program; what the configuration guards |
| `CallStack` | what the calling convention promises: separate frames |
| `KarmaCalls`, `KarmaCallsProofs` | the programs that keep the convention, shown to see `CallStack`; the proof |
| `KarmaSource` | the source files the compiler reads, as parsed lines |
| `KarmaData` | `Compiler::Data` with its labels and entrypoint: recording, merging, substitution |
| `KarmaCompile` | `MustCompile`: the search over the includes, the worker threads, the files line by line, the join, the merge, how a compilation ends |
| `KarmaCompileProofs` | the proofs about `KarmaCompile`: types, the order of the files, complete results |
| `KarmaCompileRefinementProofs` | the proof that `KarmaCompile` implements `Assembler` |
| `Assembler` | what a compilation promises: the executable of the whole program, or a refusal if it is not valid |
| `KarmaCommands` | the fields of a command word: `cmd::build` and `cmd::parse`, signs and widths |
| `KarmaStrings` | characters and strings: escapes, comments, quotes, a `char` in a word |
| `KarmaExec` | the executable file: `Exec::Write`, cut at any byte, and `Exec::Read` with its checks |
| `KarmaLines` | a line of assembler with its operands, the words it is compiled to or its error |
| `KarmaDisasm` | `Disassembler::Impl` and its `Labels`: constants, labels, commands |
| `KarmaToolchain` | the composition: compile, write, read, disassemble, compile the listing |
| `KarmaToolchainProofs` | the proofs about commands and constants in their words and in a listing, about the unfinished listing, and about a program on its way through files: types, what is read, what the words say |
| `KarmaListingProofs` | the proofs that a listing is compiled to the program that was listed, and that one listed again as it was |
| `MC...` | values for TLC |

The three parts of Karma are modelled at different grains and do not share a
state: `KarmaMachine` has every command and abstract words, `KarmaCompile` has
threads, files and labels but no bits, `KarmaToolchain` has bits and bytes but
one code of each format and no threads.

### Except and the code

`frames` is the client's own stack of scopes and calls; a position in it stands
for an address, so a jump buffer and the pointer in a destroyer are positions.
`stack`, `caught`, `unwinding_in_progress` and `k_destroyers` are the variables
of the same names. A library call is one step. `Throw` is the exception: the
loop that forgets handlers (`AbandonHandler`), the raise (`Raise`), each
destructor it calls (`DestroyObject`, the destructor's own steps,
`EndDestructor`) and the jump (`Longjmp`) are steps of their own, because client
code runs in between. The end of a TRY (`FinishTry`) has the three outcomes of
the code: the exception was not caught and is thrown on, a handler ended, a body
ended. The client is any program whose scopes nest: at each step it may open a
TRY or an object, leave its innermost scope, throw, rethrow or edit an exception
it caught. `std::terminate` ends the process. Leaving a TRY by `return`, `break`
or `goto` is an action only `SpecWithJumps` has.

### ExceptValues and the code

A `Data` that holds a value is a place where one exception of the heap is
owned. `values` counts the exceptions made and not yet destroyed, by what each
statement does: `Throw(exception)` makes one, `Throw()` copies the one of the
handler, popping a node destroys what it holds, a move leaves its source empty.
Two things destroy nothing although they look as if they did: `longjmp` leaves
the argument of `Throw` behind, and the assignments of `Data` overwrite
`data_` without deleting it (`data.hpp:136`, `:147`). They are harmless because
the argument has been moved out by then, and because `Raise` only assigns to an
empty node; that is what `ValuesAreOwned` says, along every path of rethrows,
handlers left by exceptions and TRYs that do not catch. The copy assignment of
`Data` is called from nowhere.

### KarmaStorage, KarmaMachine and the code

The size of a word, of the memory and the number of registers are constants. The
last three registers are r13, r14 and r15 as in the code. A command is written
as the chain of `Storage` operations its method calls, applied to a machine
record: `err` is the exception in flight, `val` what the last read returned. An
operation on a failed machine returns it unchanged, which is what an exception
does, and what was written before stays written. One step of the model is one
turn of `ExecuteImpl`'s loop: the check of r15, the fetch, the increment of r15,
then the command to its end. `Decode` says which command a word is; commands of
one shape share an action (`WordRR` is ADD, SUB, AND, OR and XOR).

Data is abstract where no property depends on it: doubles are pairs of words
from a given set, the bitwise operators are a constant function, input is any
word of a set. The empty optional of the stack's bound is `MemorySize`, as
`MaxStackSize` reads it. A program is the data that `Exec::Read` returns
(`Programs`); `queue` is the programs one Executor is still asked to run, and
`Jobs` the queues it may start with. `given` is the client's: the configuration
passed to `Execute` with the execution under way, which the code does not keep. A
HALT waits in `sigwait` until `SignalArrives`.

`KarmaCalls` adds one history variable, the kinds of the open frames, and lets a
step happen only if the program keeps the convention: it pops what it pushed,
calls after `prc`, returns from a call it entered, and starts with the stack
behind itself (`StartMain`), as the header that `Exec::Write` makes has it. Two
guards exclude what the code lets a program do to r13 and r14 while it pushes
and pops: a push into cell 0 makes r14 wrap around to the largest word
(`HasRoom`; `CheckPushAllowed` accepts it when the stack has no bound), and a
`pop` or a `call` may receive its value in r13 or r14 itself
(`ReceivesElsewhere`). The refinement mapping reads
every frame back out of memory along the saved values of r13, so a wrong order
of pushes or pops shows as a wrong frame.

### KarmaSource, KarmaData, KarmaCompile and the code

A line is what the parser tells apart: the label before the item, the item
(command, constant, entrypoint directive, none), the label it uses, the number
it gives. All the errors of a single line (unknown command, bad operand, extra
words, ...) are one item, `"bad"`: each of them throws from the same place. The
words of the executable carry their origin (file, line, position) and their
address field instead of bits, so that a word that is lost, doubled or moved is
seen. Tables of labels are sets of pairs.

The main thread is the variable `phase`; `visiting` is the recursion of
`ProcessFileIncludes`, one record per call. Each worker has its slice and the
line it is at; a step compiles one line, so that the workers interleave at every
line, and with the main thread while it starts the others. The slot of a file in
`files_data` is assigned once, at the end of the file, by `FinishFile`. A
`CompileError` in a worker has no handler in the thread's function, so `Terminate`
ends the process; errors of the includes, the merge and the substitution are in
the main thread and reach the caller. A file with no line besides its includes
is an error as well (`OpenEmptyFile`), because `ProcessCurrLine` is then given the
include directive, or an empty word, as its first token.

`Assembler` defines the same executable without files being compiled one by one:
it orders the files by the search over the includes, gives every item a place in
one program, and attaches to each label the place of the next item of its file.
`Valid` is what the standard asks of a program. It puts the contents of the files
together, so it accepts a file that only includes others or is empty, which the
compiler refuses: that demand is a definition of its own, `FilesHaveLines`, and
`karma_empty` shows where the two differ. A label at the end of an included file is
refused by `Valid` as by the compiler, although it stands before an item once the
contents are put together; the standard only asks that the next word be a command
or a type. The refinement says that whatever the schedule, the code writes this
executable, and refuses (by an error or by ending the process) exactly the programs
that are not valid or have a file without a line (`Compilable`). It says nothing of a compilation that was abandoned
for a reason outside the program: zero workers divide by zero, the output cannot
be opened, a thread cannot be started (with others running that ends the
process, `CannotStartWorker`), or a file that was read for its includes cannot be
opened again (`CannotReopen`).

### KarmaCommands to KarmaToolchain and the code

The text of a program is a sequence of parsed lines: the label, the item, its
code, registers, the number or the label of the operand, and the type of a
constant. The spelling of names and numbers is left out, since each has one
value. The text of characters and strings is kept byte by byte, because the
code escapes it, cuts comments at `#` and trims it before it looks at the
quotes, and the order of these is what can go wrong; a `char` is signed, and
its word has the sign extended. A double is its two words; `Rounded` says which
doubles fifteen digits change, and `Unreadable` which printed doubles `stod`
refuses.

The compiler is taken by what `KarmaCompile` is shown to implement: `Compile`
is the `Assembler`, instantiated with the lines of the one file (`SourceOf`), and
`AssembledData` puts the words in the places it gives. So the two grains meet in the
abstract specification.

A file is its header fields, its complete words and its length in bytes. No
write is checked in `Exec::Write`, and the process may end, so `Write` leaves
the file cut at any byte. `Read` has the checks in the order of the code, the
comparison of bytes with words among them, and leaves a word zero that the
stream could not give. The disassembler writes its listing as it goes, one
constant or command a step, so that an error in the middle leaves a part of it.
Empty lines are left out of the listing. Files from elsewhere (`ForeignFiles`)
give the reader damaged headers, and the disassembler every short segment over a
few words, with truncated constants, unknown types and unknown commands.

## 3. The runs

| Run | What it shows |
|---|---|
| `except` | In every interleaving of TRYs, objects, destructors, throws, rethrows and edits up to five frames: the two node stacks are the open TRYs and handlers, with usable depths (`NodesMatchTries`, `CaughtMatchesHandlers`); the destroyers are the open bodies and live objects (`RecordsMatchScopes`); delivery is to the right TRY with the right objects alive (`DeliveredCleanly`); every exception on the heap has one owner (`ValuesAreOwned`); every behaviour is one of `TryCatch`; each `Throw` reaches a handler or `std::terminate` (`EveryThrowIsHandled`) |
| `except_threads` | Violated: a `Throw` of one thread destroys another thread's objects |
| `except_jumps` | Violated: after `return` out of a TRY, a later `Throw` jumps into the dead TRY |
| `karma` | Every command after one set-up command and before any other: types, the loaded program stays intact, blocked registers are only changed by the commands that use them internally, pushes stay above the bound; and two programs on one Executor, also after a failure: what is blocked is what the configuration of the computer or the one passed with this execution blocks, register by register and cell by cell (`ConfigIsOfThisExecution`), and protects this program |
| `karma_calls` | Calls implement a stack of separate frames, and frames never overlap each other or the program |
| `karma_constants` | Violated: a write block of the constants alone does not stop a store into them |
| `karma_internal` | Violated: `call` and `calli` fail under the ExtraStrict preset |
| `karma_compile` | A compilation ends (`CompilationEnds`), compiles each file once and after what it includes (`IncludedFirst`), joins complete results (`JoinedResultsAreComplete`), and writes the executable of the abstract assembler or refuses (`ImplementsAssembler`), under every schedule of two workers |
| `karma_errors` | Violated: a compile error inside a file ends the process of the caller |
| `karma_empty` | Violated: a valid program with a file that adds nothing to it is refused |
| `karma_files` | A file whose writing stopped anywhere is not taken for a program (`OnlyWholeFilesAreRead`), what is read fits the memory (`LoadedProgramFits`), a listing that stopped half way does not compile (`PartialListingRefused`), a command word says what was written (`EncodedAsWritten`), the listing of a program compiles to the same program (`RecompilesToTheSame`) and is given again by it (`ListingIsStable`) |
| `karma_address` | Violated: the address 2^20 is accepted and changes the register of the command |

**Bounds.** `MaxFrames = 5` is enough for a TRY in a handler of a TRY around an
object whose destructor opens a TRY; two types and the clauses `CATCH(A)` and
`CATCH(B) CATCH()` give a match, a later match and no match. Two frames per thread or per jump
suffice for the counterexamples.

The computer of `karma` has six cells, two free registers beside r13-r15 and
6-bit words, so that words that are no address, addresses in the code, in the
constant, in the stack and beyond the memory, and registers without a successor
all occur; its programs are three commands and one constant, and run on into the
old contents of the memory. The word code of each command fits the 64 words, so
every command is stored, loaded and modified as data as well. The configurations
are none, Strict, and ExtraStrict with a stack of one cell, combined in pairs.
`karma_calls` has 18 cells: a main program with one argument and every callee of
four words, with recursion up to the overflow of the stack under both bounds.
A queue has one program of any commands, or two of one or two commands out of
five, of equal or different lengths: two already show what the first leaves to
the second.

The computer of `karma_files` has sixteen cells, two registers, words of eight
bits and characters of five, so that a word holds a signed character with room
for its sign, and every number is tried on both sides of its limit. There is one
code for each format, one that ignores its address, and three unknown ones. The
programs are all pairs of commands, and pairs with constants of every type,
valid or not, with every form of the entrypoint; the foreign files are up to two
words of code with the entrypoint inside and outside, constants of up to four
words, and damaged headers. `MaxRounds = 2` compiles a program (or
reads a foreign file), compiles its listing and disassembles that: a third round
would start from a listing that `ListingIsStable` says is the second.

`karma_compile` has every inclusion graph over three files with at most two
includes in a file (cycles, diamonds, a file that includes itself, files out of
reach), programs with a missing file and a directive without a filename, and
every pair of a main and an included file with at most two lines out of a set
that has each kind of line, defining, using and repeating two labels. Three
files on two workers make the slices uneven; two workers start while others run;
`n_workers` is 0 or 2, and is cut to 1 when there is one file.

**Fairness.** `except` assumes weak fairness of the library's own steps
(`LibrarySteps`), which hold the thread until they return, so that nothing but
the destructors they call can delay them; that those return is the premise
`DestructorsReturn` of the property, not an assumption of the specification.
`karma_compile` assumes weak fairness of the main thread and of each worker: the
operating system runs every thread that can run, and the compiler takes no lock
that one could keep from another. The
executor has no liveness property: HALT and input may wait for ever, and a
program may loop.

**Deadlock** is checked in the exception runs without threads and in the
compiler runs; after `std::terminate`, and after the end of a compilation, the
models stutter by `Stopped`. The runs of the executor stop when the queue is
empty, those of the toolchain when a program was refused or the last listing is
written, and `except_threads` when the process terminated, so deadlock is not
checked there.

## 4. The proofs

`tlapm` checks the eight proof modules to the last step. Each theorem holds for
every value of the constants that the named assumptions of the modules allow;
no proof module adds one.

**Except.** Proved for any types, catch sequences and bound: `TypeCorrect`,
`StackIsOpenTries`, `CaughtIsOpenHandlers`, `RecordsAreScopes` and
`DeliveryIsClean`, from `CatchAssumption`, `NoExceptionAssumption` and
`BoundAssumption`. The properties are not inductive: they say nothing of where a
`Throw` call can be in `frames`, nor that a raised node holds an exception.
`IInv` adds that at most one `Throw` executes, that it is on top until it
unwinds and that only destructors with their TRYs and objects are above it then,
that it has a target body, and that nodes that are raised or caught hold
exceptions. The other parts restate the properties on positions instead of sets
of positions. There is one lemma per action; the last lemmas go from `IInv` back
to the properties.

**Except implements TryCatch.** `LibraryImplements`, from the same assumptions. The
invariant is `IInv` and two parts TLC checked first: `SkippedInv`, that the
conditions passed over in a catch sequence do not hold (without it `DoCatch` might
enter a later block than the first that matches, as far as the invariant knows),
and `CarriedInv`, that the node a `Throw` unwinds to holds what was thrown. A
client sees all frames while no `Throw` executes (`NoThrow`), those up to its
target while one does (`UnderWay`), and none after `std::terminate` (`Gone`); so
an action shows the client a longer or shorter sequence, one scope changed, or
nothing. One lemma per action (`StartTryAllowed` to `FinishBodyAllowed`) names the
step of `TryCatch` it is:

| Action of `Except` | Step of `TryCatch` | Why |
|---|---|---|
| `Throw`, `Rethrow` | `Throw`, `Rethrow`; `Terminate` | the target is the innermost body; the top caught node is that of the innermost handler (`LastCaught`) |
| `AbandonHandler`, `Raise`, `SkipCatch` | none | an abandoned handler lies above the target, as the depths say |
| `DestroyObject` | `Unwind` | the top destroyer is the most recent object alive, above the target (`TopDestroyer`) |
| `Longjmp` | `Deliver` | at the checkpoint every object below is in an open scope; `CarriedInv` |
| `DoCatch` | `Catch` | `SkippedInv`: `next` is the least matching clause |
| `FinishRaised` | `NoMatch`; `Terminate` | no clause matched (`NothingMatched`); the last node is the only one |
| `EditCaught` | `Edit` | a caught node keeps the place of its handler (`HandlersSeen`) |
| `StartTry`, `RecordObject`, `PopObject`, the ends of bodies, handlers and destructors | the step of that name; none or `Unwound` inside a destructor that unwinding called | the frames below stay (`CalmMoves`, `Unseen`, `LeftInside`) |

**ExceptValues.** `EveryValueHasAnOwner`: the exceptions on the heap are those of
the raised nodes and the caught ones, and the argument of a `Throw` that has not
raised yet. `ValuesFollowExcept` says that counting restricts nothing, so that
`IInv` holds here. `ValuesInv` adds `OnlyRaisedHold` (a node in which nothing was
raised is empty), without which the pop at the end of a body might destroy a
value. The lemmas say what a push, a pop and a raise do to the number of raised
nodes; there is one per action again, and `IInv` says what is on top when a value
moves from one stack to the other.

**KarmaMachine.** Proved for any sizes, programs, configurations, decoding and
input: `MachineTypeCorrect` and `ProgramStaysIntact`. The invariant is the
conjunction of the two, which need each other: an access is in the memory
because addresses are words, and the cells below `ConstantsEnd` are those of the
image because the program fits. The argument follows the structure of the code:
`Sound` (the record is typed and the program, if protected, intact) is kept by
each access of `Storage`, therefore by each operation of `CommonExecutor`,
therefore by each command, complete or not. `WMemSound` is the heart of it: the
two checks of `WMem` together exclude every cell of the program when the code is
blocked for writing. Each group of commands has a lemma with one step per
command.

Its second part follows the same chains for what the configuration guards.
`BlockedRegistersStay`: `Kept` (the registers blocked for writing, but the ones
this command works on internally, are as they were fetched) goes through every
access. `PushesBounded`: a push of `CommonExecutor` checks the bound before it
writes, so the cells below it are unchanged (`InBounds`) and the stack is no
larger than the bound (`AtMostFull`); the second push of a call starts from where
the first left r14. `StepFinishes` says how the record of a finished chain
becomes the next state. `ConfigOfThisExecution` says of every register, segment and
cell of the stack that it is blocked exactly if the configuration of the computer
or the one passed with this execution blocks it. Its invariant `Combined` ties the
configuration in force to the one `given`; that combining two blocks what either
blocks, with bounds of the stack that may be absent, is
`MeetBlocksWhatEitherBlocks`. The assumptions are the named ones of `KarmaStorage` and
`KarmaMachine`: the memory is smaller than the range of a word, programs fit the
memory, decoded registers are registers, a queue holds programs
(`JobsAssumption`).

**KarmaCalls.** Proved for every program that keeps the convention:
`FramesAreNested`, and `CallsRefine`, the refinement of `CallStack`. What a program
sees of its frames is read from memory along the saved values of r13, so the
invariant says that this chain is sound. `CallsInv`: the main program is at the
bottom and every callee has its arguments below it (`KindsInv`); there are starts
`b` of the frames, from r13 down, such that each frame ends above the two or
three cells the next one saved and those hold the start of the frame before
(`Chain`); r14 stays above a program that is blocked for writing. The chain is a
sequence that exists, not `FrameBase`, because a command is easier to follow with
a sequence given than with a recursive function of the memory; `FrameBase` is then
shown to be the only one (`BaseIsChain`, by the least counterexample). A command
extends the chain, cuts it or leaves it; that it leaves the older cells alone is
what the lemmas about successful pushes, pops, calls and returns say, and a
command that fails leaves no live state to speak of.
The refinement is shown step by step (`StartStep` to `StopStep`, joined by
`StepRefines`): a frame read back from memory after a `call` is the frame before
with the two words of the caller in it, and after a `ret` the frames that remain
are the ones read before. That a command which fails half way, after one of its
pushes, is a `Stop` of `CallStack` is part of it. The assumptions are those of
`KarmaMachine`.

**KarmaCompile.** Proved for every set of files, every program, and any number of
workers: `CompileTypeCorrect`, `IncludesComeFirst` and `SlotsAreComplete`. `IInv`
has a part per thread of control: what each phase has done (`PhasesInv`); that the
recursion of `ProcessFileIncludes` stands on a chain of files each of which
includes the next, and that what a file includes is entered or still waits
(`SearchInv`); what that says of the files already left (`OrderInv`); that the
slices follow one another, as the division with remainder gives them
(`SlicesInv`); that an open file has given its words up to the current line
(`OpenFilesInv`); and that every slot below the last slice is complete or a worker
has still to come to it (`SlotsInv`). That the last slice ends at the last file is
the arithmetic of `SliceEnd`; that no two workers write the same slot is needed
nowhere, only that each slot is somebody's. A program (`Sources`) may be any that
`SourcesAssumption` allows, cycles among it; there are finitely many files
(`FilesAssumption`).

`CompilationImplementsAssembler` is the refinement of `Assembler`, for the same
programs and numbers of workers: what is written is the executable of the whole
program, and what is refused is not valid or has a file without a line.
`CompiledInv` adds three parts to `IInv`, one for each half-way state in which the
compiler has something that `Assembler` does not know:

* `SearchedInv`, of the search: what the calls on the stack still have to do
  leads to the order of `Assembler` (`LeadsToOrder`: every call returns what the
  traversal says of the rest of its includes). The traversal is a recursive
  function on pairs of names and entered files; that there is one (`VisitExists`)
  needs an order in which every recursive use is smaller, by the files not entered
  and then by the names left, which is why the files are finite.
* `CollectedInv`, of the workers: the data of an open file are those of its lines
  so far, with the label that waits for its item (`ReadSoFar`), and a slot below
  the last slice that no worker has still to come to holds those of its whole file.
* `MergedInv`, of the merge: the merged data are those of the places of the files
  merged so far, and no label stands at two items of them.

The tables of labels are described once, for any sequence: `Marks(x, m)` are the
labels that `m` puts at the elements of `x`, with their positions. An item added to
a file (`MarksAppended`) and a file merged with its addresses shifted
(`MarksJoined`) are then the same thing. An error of a line, of the merge or of the
substitution is a part of `Valid` or `FilesHaveLines` that does not hold (the lemmas
that end in `Refuses`), and the address found for a label is the position of the
item in the layout (`CommandAddress`, `ConstantAddress`).

**The toolchain.** `KarmaToolchainProofs` has three kinds of theorems. Those about
commands hold for any widths of the fields: `CommandsAreReadAsWritten` (the
executor sees the registers, the operand with its sign, or the address of the
label, as they were written) and `RebuiltCommandsMeanTheSame` (a known word,
disassembled and built again, means the same); they are what `EncodedAsWritten`
and `RecompilesToTheSame` say of one command. A word is a number of several
digits, one a field (`LastDigit`, `TwoDigits`, `Digits3`), and a field of signed
numbers is read back from its bits (`SignedIsReadBack`). The condition
`OperandFits` is where the address 2^20 of `karma_address` falls out. The provers
have no theory of powers: `PowersAssumption` states the laws that are needed, for
the exponents up to the width of a word, and TLC evaluates it.

Those about constants hold for any strings and any words around them.
`StringsAreReadBack`: what `Escape` makes of a string, between quotes, passes the
removal of comments and blanks and is read back by `Unescape`, because a backslash
stands before every `#` (`EscapeEscapesHashes`), the quotes are the first and the
last character left (`QuotedIsKept`), and reading the one or two characters of one
escaped character gives that character (`EscapedIsRead`, `UnescapeUndoesEscape`).
`ConstantsAreReadAsWritten`: a constant that was compiled is found again with its
type and its words (`ValueIsFound`: no word of a string but the last is zero,
`CharBack`), is written to a line the compiler accepts, and gives the same words.
`IsKept` names what a listing does not keep, which the runs show as well: a double
that 15 digits change, and what follows a zero char in a string. `Escape` and
`Unescape` are folds of the library: `Recursion` shows that a recursive function
exists, `FlattenSteps` and `ReadingSteps` what one step of it adds.
`EscapesAssumption` says that `\` and `#` are escaped and that quotes are neither
blanks nor `#`.

`PartialListings` is a theorem of the specification: a listing has no entrypoint
directive until the last step of the disassembler, which an error never reaches
(`ListingInv`), and the assembler finds no more in a file than stands in it
(`NoEndIsRefused`). For that the recursive definitions of `Assembler` are
unfolded by hand: a function that satisfies the defining equation exists
(`MainPlacesDefined`), and a line for which a claim fails would have a least one
before it (`Least`, `MainPlacesHold`); entering the only file enters nothing else
(`OneFileVisited`, `OneFileOrder`).

**A program on its way through files.** `KarmaToolchainProofs` also proves
`ToolchainTypeCorrect`, `WordsSayWhatWasWritten`, `LoadedProgramsFit` and
`OnlyWholeFiles`, for any widths, texts and foreign files, about the behaviours in
which what the compiler makes fits the memory (`AssembledFits`). That is a
hypothesis and not an invariant because the code does not check it: a source
with more than 2^20 words is compiled, to a file that `Exec::Read` refuses, with
addresses that do not fit their fields. What a foreign file holds is not assumed
to be anything. `ProgramInv` has four parts, each of which needs the others:

* `ReadInv`: the program under way is what `Exec::Read` made of the file it did
  not refuse. With `WordsOfBytes` it fits the memory, which bounds the numbers of
  the disassembler's labels.
* `TypesInv`: `TypeOK`; the labels of the constants stand at addresses of words
  that were gone through, so that there are no more of them than words; once the
  labels of the commands are made, every code is known. Its lemmas follow the
  operators of the disassembler and the assembler one by one. The two definitions that no prover can look into, `@@` and
  `:>`, were taken out of `KarmaDisasm` for this.
* `WrittenInv`: once something was written, the file is what `Exec::Write` makes
  of the program, cut at some byte. A cut file is shorter than its header says
  (`CutIsWhole`), because the sizes of a program that fits are words
  (`FitsTheHeader`).
* `EncodedAsWritten`. The assembler lists the commands of the text in their order
  (`CommandsInOrder`), lays out code and constants one after another
  (`ConstantsLaid`), so that a label's address is a cell of the program
  (`LabelAddressed`), and `CommandsAreReadAsWritten` does the rest
  (`EncodedAtCompile`). The other steps leave the text as it is, and then all the
  assembler says of it stays the same (`SameAddress`).

**The listing as a program.** `KarmaListingProofs` proves `ListingsRecompile`, from
the same hypothesis and assumptions: compiling what the disassembler wrote gives
the program back, whatever it was. `RelistedInv` is the invariant, beside
`ProgramInv`:

* `ListedInv` says what a listing is without the steps that made it (`ListingOf`):
  line `i` is constant `i`, which starts where the one before ends; then every
  command has its line, in order, behind a line of its own with its label if it has
  one; `end main` comes last. It holds of the part written so far
  (`ConstantsUpTo`, `CommandsUpTo`), through every step of the disassembler
  (`ListedInvNext`).
* While the text that is compiled is a listing, the program it was made from still
  fits the memory, so that the numbers in the labels are in their range.
* `RecompilesToTheSame` itself, which no step after the compilation disturbs. A word
  of a double is the one its own fifteen digits give (`PrintedWord`), so that one
  rounded double excuses no other; a word of a character is that of the char it is
  cut to.

The work is in `RelistedCompiles`, about one text and no steps. Every line is
accepted and says the words it was made from (`RelistedCommand`,
`ConstantReadsBack`: `ConstantsAreReadAsWritten` once more, here also for foreign
files, whose characters need not be characters); no two addresses have one label,
although constants and commands are numbered in two tables and one command is
called `main` (`RelistedLabels`); the assembler finds the constants, commands,
labels and uses where they are (`RelistedPlacesAre`, `RelistedDefined`,
`RelistedUsesAre`) and has no reason to refuse (`RelistedAccepted`); what it lays
out starts at the same addresses as in the program (`RelistedLayout`), so that a
label is replaced by the address it was made for (`RelistedAddress`). The
conclusion needs `RebuiltCommandsMeanTheSame` for the words of the commands, and
for the constants that the starts in `OriginalStarts` are the ends of the constants
before (`RelistedStarts`).

`ListingsAreStable` adds that disassembling the second program gives the same
lines. What was compiled from a listing is a program of that listing, by the same
description (`RelistedIsListing`): its commands mean the same, so they refer to the
same addresses and get the same labels (`SameCommandLabels`), and a constant that
was read from its line is written to the same line (`WrittenAgain`), which for a
double needs that the digits of a rounded double are its own (`LinesAssumption`).
And a program has one listing (`OneListing`): where a constant ends follows from
its words. A string with a zero inside ends earlier the second time; the property
leaves it out. `StableInv` carries this from the compilation through the file to
the next listing, with `OnlyWholeFiles` for the reading.

The assumptions are the named ones: `PowersAssumption` and `WordsAssumption`
state facts of arithmetic on the powers of two and that a character is no wider
than a word, `ExecAssumption` that the size of the memory in bytes is a word,
`CharsAssumption` and `EscapesAssumption` that the escape sequences are one to
one and which characters have one, `LabelNamesAssumption` that a label with an
address in its name is a label, `LinesAssumption` and `ToolchainAssumption` what
the texts and the foreign files are made of. All hold of the code's numbers, and
TLC evaluates them.

**Only model-checked,** and why:

* liveness under fairness (`EveryThrowIsHandled`, `CompilationEnds`): not in reach
  of the prover;
* the runs that are expected to find a violation.

## 5. Findings

* `WMem` protects the constants by the block of the code
  (`storage.cpp:101`); a configuration that blocks only the constants for
  writing protects nothing (`karma_constants`).
* `CommonExecutor::Call` reads r14 as a program would (`common_executor.cpp:90`),
  so `call` and `calli` fail after both pushes when r14 is blocked for reading
  and writing (`karma_internal`).
* A compile error in a file is thrown in a worker's thread, whose function has no
  handler (`compiler/impl.cpp:78`): `std::terminate` ends the process, also of a
  caller of `Compile`, which is documented to print the error (`karma_errors`).
* `k_destroyers` is shared by all threads while the rest of the library is per
  thread (`except_threads`).
* A TRY left by `return`, `break` or `goto` stays on the library's stacks
  (`except_jumps`).
* `GetAddress` accepts the size of the memory as an address
  (`file_compiler.cpp:402`), which has 21 bits: or-ed into the command it changes
  the register, `load r0 1048576` becomes `load r1 0` (`karma_address`).
* A file that only includes others, or is empty, is refused
  (`file_compiler.cpp:567`), although the standard compiles included files "as if
  their contents were copied" together
  (`docs/src/sections/standard/07_directives.tex:48`; `karma_empty`).

Where the documentation says something else, and the models follow the code, so
that no run shows it:

* An exception that no condition of a TRY matches is thrown again in the enclosing
  TRY (`exceptions/include/impl/impl.cpp:29`), as in C++ and as the library's tests
  expect (`tests/suits/README.md:83`), but `exceptions/include/README.md:155` says
  that `std::terminate` is called. `TryCatch!NoMatch`, and with it
  `ImplementsTryCatch`, is on the side of the code and the tests: `std::terminate`
  is called only if no TRY encloses the statement.
* The word of a character has the sign of its `char` extended
  (`file_compiler.cpp:202`, `:223`): the character 200 becomes 4294967240. The
  standard says that a char is stored as a number from 0 to 255
  (`docs/src/sections/standard/05_constants.tex:57`). `RecompilesToTheSame` compares
  the words the code makes; it holds for such characters as for the others, but what
  is the same both times is the extended word, not the number of the standard.

Undocumented: with zero workers the compiler divides by zero
(`compiler/impl.cpp:65`).

Seen while modelling the files, and part of the models as they are:

* `Exec::Read` compares the size in bytes with the memory in words
  (`exec.cpp:97`), so a program of more than a quarter of the memory is written
  by the compiler and refused by the executor. The check is too strict, never
  too weak: `LoadedProgramFits`.
* A program whose entrypoint is outside its code is disassembled to a listing
  that ends with `end main` and has no `main`, which does not compile
  (`RecompilesToTheSame` excepts it).
* A double near the largest or below the smallest normal one is printed with
  fifteen digits that `stod` then refuses; other doubles lose their last bits.
* A string of a source with a zero character in it is written whole and read up
  to the zero: its second listing is shorter (`ListingIsStable` excepts it).
* Only the addresses of commands in the code and the starts of constants get
  labels: an address in the middle of a constant stays a number, as does the
  type of a constant that starts at it.
* PUTCHAR compares the whole word with the largest character
  (`ri_executor.cpp:77`), so a character whose sign was extended by the
  compiler is refused when it is printed.
* With Clang the workers of the compiler write the log without a lock
  (`compiler/impl.cpp:42`); the log is left out of the models.

## 6. Not modelled, and the plan

Not modelled, and why:

* the error builders, the wording of messages, and the logger: they only make
  text (where an error is thrown, and which, is modelled);
* `utils/generator.hpp`, `utils/traits.hpp` and the concepts of the exception
  library: a coroutine that hands over the lines in order, and compile time;
* the forwarding operators and the overloads of the constructors of
  `AutoObject`: each is one call of the stored object, and the records of
  `ObjectManager` are modelled for all of them at once;
* `AutoObject`s whose lifetimes do not nest: the client of `Except` opens and
  leaves scopes as automatic storage does, which the README of the library asks
  for;
* the spelling of names and numbers, and failures to open a file other than the
  sources and the output of a compilation: each is an error before any state;
* labels added to an address by a bitwise or when a program has more than 2^20
  words (`labels.cpp`): such a program does not fit any memory;
* tests, sample programs, documentation and build files.
