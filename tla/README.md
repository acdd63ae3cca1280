# A verification development for lama-rv

lama-rv compiles the bytecode of the Lama language to RISC-V assembly. The
assembly is linked with a runtime in C that owns all objects and collects
garbage. This directory holds TLA+ modules of both halves, the TLC
configurations that check them on small instances, and theorems checked by the
TLA+ proof system. `PROJECT.json` maps every definition to the lines it was
translated from and lists runs, mutants, findings and hazards.

    tlc -config MCLamaMark.cfg MCLamaMark      # any MC module with its .cfg
    tlapm LamaMark_proofs.tla                  # the proofs of a component

## 1. The system

| component | source | state | operations | modules |
|---|---|---|---|---|
| heap layout, headers, iterators | `runtime/gc.c`, `gc.h`, `runtime_common.h` | chunk, headers with a `forward_address` word | heap and field iterators, pointer tests | `LamaHeap` |
| marking | `gc.c` 249-274, 515-582 | mark and enqueued bits, a queue inside the headers | `mark_phase`, `mark`, `queue_*` | `LamaMark`, `LamaMark_proofs` |
| compaction | `gc.c` 276-512 | old and new chunk, `free_ptr` | `compute_locations`, `update_references`, `scan_and_fix_*`, `physically_relocate` | `LamaCompact`, `LamaCompact_proofs` |
| allocation, constructors, extra roots | `gc.c` 58-240, 584-640, `runtime.c` 700-915 | allocation pointer, `extra_roots` | `alloc`, `gc_alloc`, `Barray`, `Bsexp`, `Bclosure`, `Bsta`, `Belem`, ... | `LamaGC`, `ObjectStore`, `LamaGC_proofs`, `LamaRefinement_proofs` |
| trace worklist of the compiler | `comp/src/lama_rv.cpp`, `compiler.h` 25-64 | `todo`, `done`, `current_frame`, `st.top` | `emit`, `add_jump_target`, `inst_begin`, `should_emit` | `LamaEmit`, `LamaEmit_proofs` |
| symbolic stack, emitted code | `symb_stack.h`, `code_buffer.h`, `emit.cpp`, `compile_call` | none beyond the height; of the emitted code: registers and stack | one `emit_code` per instruction | `LamaCode`, `LamaCode_proofs` |
| strings, comparison, hashing, patterns | `runtime.c`, `comp/src/runtime.cpp` | `stringBuf`, the frames of the running functions | `Bstring`, `Lstring`, `Lclone`, `Lsubstring`, `Lcompare`, `Lhash`, `LtagHash`, ... | `LamaValues`, `LamaRuntime`, `RuntimeCalls`, `LamaFrames_proofs`, `LamaRuntime_proofs` |
| input, output, files, printf, time, regexp | `runtime.c` | `global_sysargs` | `LgetEnv`, `LreadLine`, `Lfread`, `Bsprintf`, `set_args`; wrappers of libc | `LamaRuntime`; the wrappers are not modelled |
| bytecode file and instruction reader | `bytefile.cpp`, `read.cpp`, `inst_reader.h` | the file in memory, `ip`, `function_index`, `strings` | `read_file`, `read_inst` | `LamaReader` |
| printing, dump, disassembly | `disasm.cpp`, `print.cpp`, `dump.cpp` | `ip` | `disassemble`, `dump`, one `print` per instruction | `LamaReader` |
| build, CI, regression tests | `Makefile`s, `CMakeLists.txt` | | | not modelled: no program logic |

How they interact. The compiler runs first and alone; its output calls the
runtime by `call` with values in `a0`..`a7`. The runtime never calls back. It
finds the program's values by scanning memory: the words between
`__gc_stack_top` (set by `PRE_GC` in the runtime function that was entered) and
`__gc_stack_bottom` (set by `premain`), the words of the section `custom_data`,
and the addresses in `extra_roots`. So the two halves share an unwritten
contract, which several properties are about: what the emitted code keeps
alive must lie where the collector looks, and nowhere else.

Nothing is concurrent. What is hard instead:

* the collector changes every address of the program's data in the middle of an
  allocation, works in the memory it is reorganising and uses one header word
  for a mark bit, a queue bit, a queue cell and a forward address at once;
* the functions of the runtime hold values in C arrays and local variables that
  the collector must find, and call each other: a string passes through up to
  three of them, each of which registers what it still needs;
* a name of a constructor is hashed by the compiler, carried by an immediate,
  compared by the runtime and decoded when it is printed;
* two programs read the same file with code that was written twice;
* the worklist of the compiler is an unordered map: traces are emitted in any
  order, while the height of the symbolic stack and the frame are carried along
  a trace;
* the emitted code must keep registers, a frame, saved words and padding in
  agreement over calls by offsets computed in different places.

What makes each component correct:

* marking: marks exactly the live objects, never overruns the queue, terminates;
* compaction: no step changes the object graph the program sees, objects slide
  to disjoint places, the heap is ready for the next collection;
* allocation: indistinguishable from a store of unlimited size;
* runtime functions: a call returns what it was called for, computed from the
  arguments as they were, and the program sees no other change; the pool of extra
  roots is a stack that every call leaves as it was;
* comparison, hashing and patterns: an order; equal values have the same hash; a
  pattern of a name matches the values of that name and no others;
* readers: the disassembler and the compiler see the same instructions;
* worklist: heights agree however the targets are ordered, every label is
  defined, exactly the reachable code is emitted;
* emitted code: at every instruction registers and memory hold what the stack
  machine holds; calls leave nothing behind and lose nothing.

## 2. The modules

Names of operators and variables are those of the source where TLA+ allows.

**LamaHeap.** `heap` is the `memory_chunk` (begin, size, current), `mem` maps
header addresses to objects, `fwd` maps them to `forward_address` words
(address part, mark bit, enqueued bit), `slots` holds the words outside the heap
and `extra` the extra roots. Addresses count words and a pointer is the address
of the content, `HeaderWords` above the header. Sizes are those of
`array_size`, `string_size`, `closure_size` and `sexp_size`. Characters of
strings, code pointers of closures and tags are represented by the identity of
their object, which `DEBUG_VERSION` headers hold too. The pointer tests are those of the
code, with the inclusive upper bound.

**LamaMark.** One action per iteration of `mark_phase`, of the loop of `mark`
and of its field loop. The queue is not a sequence: cell k is the address part
of the k-th header of the heap, and the iterators are header addresses, as in
the code.

**LamaCompact.** EXTENDS LamaMark and adds the passes of `compact_phase`, one
action per object or root. The old chunk is a record, because after `mmap` a
word may be an address in the old chunk, in the new chunk before objects
slide, or after. `ReadOld`, `ReadNew` and `ReadNow` read a word in the three
systems; `GraphRoots` and `GraphObjects` are the graph that the words denote at
any moment, and `CollectionInvisible` says that no step changes it. `memmove`
destroys the headers it overlaps.

Three things that the code takes for granted are stated. `mmap` returns memory in
which there is nothing yet, so a scanned word that is the address of something else
(code, the C stack, static data) does not point into the new chunk (`Unused`, a
guard of `MapChunk`). And the word at `__gc_stack_bottom`, which `update_references`
fixes although `mark_phase` did not visit it, refers to no object that only it
refers to (`BottomFollowed`): it lies in the frame of the C function that called
main. Third, `FixedAsRegion` is the test of `scan_and_fix_region_roots` with both
its inclusive bounds: a registered word at `__gc_stack_top` (`StackTop`) or at
`__stop_custom_data` (`GlobalStop`) is marked from and then skipped, although the
scan of the stack begins one word further up and that of the globals ends one word
below. The object it refers to moves and the word does not follow.
`EdgesHoldNoObject`, part of `CollectInit`, excludes it: no such word refers to an
object. The source bears it out with one exception. `runtime.c` registers words of
arguments that `malloc` returned (`RVBarray`, `RVBsexp`), local variables of its own
functions, which are below the frame address that `PRE_GC` stores (`content`, `fmt`,
`p`, the array of `set_args`), the static `global_sysargs`, and the exception, the
parameter of `RVLstring` (and of `RVBstring`, which holds the address of a literal):
that one is a word of the frame whose end `__gc_stack_top` is. Above that end the
scan finds it, at the end it would be the word that is skipped; which of the two it
is depends on the layout the C compiler chooses, so this is an assumption on the
build: nothing in the source promises it, and the assertion in `push_extra_root`
(`gc.c:627`) holds for every address. A request counts at least one word, as every
object has a header.

**LamaGC.** EXTENDS LamaCompact; the program (`Assign`, `Belem`, `Bsta`,
`CallConstructor`) runs between calls of the runtime. A constructor copies its
arguments to `ArgLoc`, pushes them as extra roots, allocates, possibly collects,
fills the fields and pops. The exit on a full pool of extra roots is a guard
here; `LamaRuntime` has it.
**ObjectStore** is its abstract specification: variables, objects, no addresses
and no collector; unreachable objects may be forgotten. `Abstract` in LamaGC
instantiates it with the object graph as the refinement mapping. `GCAssumption`
says of the constants what the code fixes: variables and the words of `ArgLoc` are
different and none of them, nor a root of `PermanentRoots`, is one of the two words that
are skipped; the shapes have the sizes of the allocators, and a return address
(`Nowhere`) lies outside the first chunk. An identity is taken from `FreshIds`: a
finite `Ids` bounds how many objects exist at a time, and no theorem asks
that it be finite.

**LamaValues.** What the runtime computes from a store of objects without
changing it: `Lcompare`, `Lhash` (the sequence of numbers that `HASH_APPEND`
mixes), `LtagHash`, `de_hash`, `Btag`, `Bstring_patt`, and the characters that
`printValue` and `stringcat` write. A character is a boxed code; an integer, a
bracket or a letter of a name in a text is one character. A C string ends at its
first NUL (`CStr`), the length of an object does not.

**LamaRuntime.** EXTENDS LamaValues. `Body` gives each function as the sequence
of what it does to shared state: `PRE_GC`, pushes, calls of other functions,
the allocation, `fill` (the loops that copy arguments to the new object), pops,
`POST_GC`; one action per kind of step, and each push or pop step stands for the
loop that pushes or pops all the arguments. `frames` are the activation records;
their `mem` holds the words of C arrays and variables whose addresses are passed
on, and a cell `<<d, k>>` is such an address, `<<0, k>>` an argument in the
memory of the program. `top` is the frame that `__gc_stack_top` points to, `pool`
the extra roots. `alloc` may collect: then a word survives if it lies in the
program's stack, in a frame outside `top`, or in `pool`, and every other
reference becomes stale. The new object gets the least identity that is free (`Ids`
bounds how many there are; the proofs allow all natural numbers). Copying from, comparing or passing on a stale word, an
allocation without `__gc_stack_top` and a pop that does not match set `status`
to "broken"; the exits of the code set it to "failed". In `set_args` the left
side of `p[i] = Bstring(..)` is evaluated before the call or after it.

**RuntimeCalls** is the abstract specification of `LamaRuntime`: one step per
call, with a store that holds exactly what the program can reach, and neither
frames nor collector. `Promise` in LamaRuntime instantiates it; the object that
is under construction is not yet visible.

**LamaReader.** `file` is the bytecode file; code is a sequence of bytes, an
integer four of them, whose value is in the first. `read_file` checks the sizes,
`disassemble_line` and `bcdump_line` are one iteration of the loops of
`disassemble` and `dump`. The tables of operands are those of the two switches
of `disasm.cpp` and of the one of `read.cpp` with the classes of
`instructions.h` and their `print`. The names of operators and patterns come from
the tables of either program (`ops` and `pats`, `binop_names` and `pattern_names`). Reading behind the end is fatal for the one
and undefined for the other, and listed as such.

**LamaEmit.** `code` is the map from offsets to instructions, each reduced to
what it pops and pushes, its target and its locals. `todo`, `done`, `top` and
`frame` are the compiler's. `depth` is the height that the bytecode intends at
each offset: the assumption `WellFormed` is that of a bytecode compiler, that all
ways to an instruction agree. A label is defined where its offset enters `done`.

**LamaCode.** `reg` and `mem` are the registers and the stack memory of the
emitted program; `frames` and `globals` are the stack machine it imitates. The
program is any sequence of instructions. A symbolic cell is a register of
`StackRegs` or a word below `sp`; an instruction whose destination is a cell in
memory loses its result where `code_buffer.h` does not store it back.
`Prepare` is the code of `compile_call` in front of the call, `AfterCall` the
code behind it; `SaveRegisters` and `End` are prologue and epilogue. A C
function keeps the callee-saved registers and returns any value. Main first
calls `__init`, whose result stays on its stack. Registers without a cell and
words below `sp` are set to `Junk`: nobody may rely on them. `CodeAssumption`
says of the constants that the registers are different ones, that the saved and
the call-saved ones are even in number (12 and 16 in the code), and that the
globals lie above the stack. The stack ends at address 0 and is taken to be large
enough: `Prepare` and `SaveRegisters` have guards for it.

Reduced in `LamaCode`: `ConditionalJump` acts on registers like `Drop`; the
constants and addresses that `String`, `SExpression`, `Tag` and `Fail` load are
`Const`, followed by `CallRuntime`; of the binary operators there is "less
than"; `StoreStack` is left out. `Return`, `Closure`, `CallClosure`, `Array`,
`PatternInst`, `LoadArray` and captured variables end the compiler (`TODO()`).

Operators with the comment "Mistaken variant" are plausible bugs of the
definition that follows them. No specification uses them. `PROJECT.json` pairs
each property with one; putting the variant in place of the definition makes
TLC report that property.

## 3. The runs

| run | instance | states | question |
|---|---|---|---|
| `mark` | every heap of 1-3 objects of four shapes, up to 2 fields, every graph, 1 stack word, 1 extra root, 1 global | 105 232 | does the queue inside the headers visit exactly the live objects? |
| `compact` | the same kind of heaps, collected as a whole; extra roots that are also a stack word or at the edges of the scanned areas; two chunk addresses, the old one and one above | 376 346 | does the object graph survive every step? |
| `gc` | 2 variables, up to 2 live objects before each call, chunk of 5 words that grows, unlimited steps | 108 309 | does the runtime implement `ObjectStore`? |
| `globals` | as `gc`, with the section layout of the compiler | violation | are global variables roots? |
| `emit` | every well-formed program of main (4 instructions) and f (3), every order of `todo` | 43 041 | are traces consistent and complete? |
| `emit_frame` | the same with a local in main | violation | is a local checked against its own function? |
| `code` | 3 s-registers, 2 values, main and two shapes of functions, 2 operands | 104 052 | are operands, arguments, locals and globals in place? |
| `code_frame` | 1 value, calls and recursion to depth 3, 4 operands, an argument on the stack, assigned arguments | 137 580 | are frames, saved registers and alignment right? |
| `code_argument_store` | as `code`, with an assignment to an argument | violation | does an argument take the assigned value? |
| `runtime` | the 20 functions and `set_args`, 16 of them called by the program, 2 variables, before a call up to 3 objects and elements together, texts of 0-2 characters, pool of 3 | 641 540 | does every call do what it promises, wherever objects move? do comparison, hash, names and patterns agree? |
| `reader` | a function and 2 further instructions out of 66, 9 lists of public functions, up to 3 bytes missing | 447 903 | do disassembler and compiler read the same? |
| `code_roots` | as `code` | violation | are the operands left during a runtime call scanned? |

Why the bounds are enough to be of interest. Three objects allow a cell of the
queue to belong to an object that is itself queued, marked or the one in work,
cycles, sharing, unreachable objects between live ones, and a move that
overlaps its source. Empty arrays (content address equal to `heap.current` at the
end of the heap), closures (first word skipped), strings (no fields) and
s-expressions (tag word) are the shapes in which the iterators differ. In `gc`
a chunk holds one or two objects, so collections happen all the time, with and
without growth, and identities are reused. Seven instructions give forward,
backward and cross-function targets, unreachable code and a trace that runs
into code already emitted. Few registers keep `code` small; the numbers of saved
and of call-saved registers are even as in the code (12 and 16), since the
alignment depends on it.

In `runtime` the pool has room for three roots: a constructor of three arguments
fills it, fails when the program's arguments are registered too, and the nested calls
of `RVLstring`, `Lstring`, `Bstring` and `LmakeString` need two. The program calls
what the compiler emits calls of, and besides `LmakeString`, `Lsubstring`, `Lclone`,
`LgetEnv` and `Bclosure`, which this compiler never calls: the runtime offers more
than the programs that exist use. `Barray`, `Bsexp`, `Bstring` and `Lstring` run
inside the other functions. Before a call there may be
one object with two elements, two objects of which one has an element, or three
empty ones (`MaxSize`): two different objects can be the arguments of every function,
and none has more than one object under construction. Once `set_args` has
published its array, which is not counted, the program holds one empty object at most
(`MaxSizeAfter`): what matters then is that the pool has a place less and that the
array stays what it was. Calls begin from integers 0 and the objects made by
calls (`MadeIds`); further initial stores (`Started`) with two objects of two or three levels
and other integers are there for comparison, hash and patterns, which go down beyond
`HASH_DEPTH`, which is 1, and the program only reads their fields. Characters have 2
bits and immediates 6, so that names
of two characters fit and names of three do not, and integers 3 bits, so that
differences overflow. Symmetry exchanges the two variables, which no property
tells apart. In `reader` two instructions behind the first let the second
program stand anywhere when they differ, and public functions come in order, out of
order, or behind one that is not public.

Properties with an exception, because the code does not do more; each is a hazard:

* `CompareOrders` excepts integers of the upper half of the range, whose
  difference does not fit (`runtime.c:637`).
* `EqualValuesHashAlike` excepts strings with a NUL: `Lhash` mixes in the whole
  length, `Lcompare` stops at the NUL (`runtime.c:573`).
* `TagsFaithful` excepts names whose hash does not fit in the immediate of `li`, an
  `int`: with 6 bits per character names of six or more characters (`emit.cpp:34`).
* `ReadersAgree` excepts the name of the operator 13 (`!!` in `disasm.cpp`, `||` in `print.cpp`) and constants
  that `BOX` does not fit into an `int`, and accepts
  that `bcdump` stops at an instruction it cannot print, at an unknown opcode,
  or where public functions are not in the order of the code (`read.cpp:78`).
* `RuntimeCalls` allows an argument of the program to be lost, which happens when
  the array moves between the two halves of the assignment (`runtime.c:1356`).

Bounds that are there because the code is wrong beyond them, as its text
shows; each is a hazard in `PROJECT.json`:

* `MaxOperands` keeps cells in registers. A spilled constant is stored relative
  to `fp` and read relative to `sp` (`emit.cpp:18`), most instructions do not
  store a result to a memory cell, and spilled slot 0 is the word of a saved
  register.
* `MaxResult`: the result of a call that becomes the twelfth operand or a later
  one is overwritten when temporary registers are restored (`compiler.h:124`);
  `code` keeps below. `code_frame` goes to it, since it asks nothing of values.
* functions of `code` have fewer arguments than there are registers: of more than eight
  the last eight go to the registers (`compiler.h:94`), and local 0 of the
  callee is the last word of the caller's frame (`emit.cpp:165`).
* `MainLocals` is even: `__init` is called with padding for locals of main that
  are not there yet (`emit.cpp:101`).
* `LeavesAsFound` excepts `s1`: main calls `__init` before it saves registers and
  the result goes to `s1`.

Fairness. The runtime and the compiler are sequential; a call, once made, runs
on. So `MarkSpec`, `CollectSpec` and `EmitSpec` have weak fairness of their next-state relation,
and `GCSpec` of `Runtime` only: the program may stop at any moment. Nothing is
assumed of the order in which `todo` is emptied. `CHECK_DEADLOCK FALSE` stands
where a phase ends (marking, a collection, the compilation, the exit of main).
`LamaCode`, `LamaRuntime` and `LamaReader` state safety only: their steps are the
statements of functions without a loop of their own.
The program of `LamaRuntime` may end in `failure`, the one of `LamaReader` ends.

### What the violations show

* `globals`: `header()` puts only fill words into `custom_data` and the globals
  into `.data`. An object that only a global refers to is collected.
* `emit_frame`: `current_frame` is set by `Begin` and not saved with a target in
  `todo`. A jump target of main that is taken after the code of f is emitted
  with the frame of f: a `DCHECK` fails on a legal local, or registers are
  restored from wrong offsets.
* `code_argument_store`: `symb_emit_mv(value, arg(i))` has destination and source
  the wrong way round. `regression/test082.lama` assigns an argument.
* `code_roots`: operands in s-registers are saved by nobody, or by C functions
  below `__gc_stack_top`. If the called function collects, they dangle.

Two further disagreements are excluded where they would show, and have no run of their
own. The listings of `disasm` and `bcdump` differ in the operator 13, so the line by
line comparison of `regression/Makefile:20` fails for every program that has it
(`SameLine` excepts it). And `scan_and_fix_region_roots` skips a registered word at
`__gc_stack_top` or `__stop_custom_data` as "already fixed from scanning the stack"
(`gc.c:360`) although no scan passes there (`EdgesHoldNoObject` excludes it).

## 4. The proofs

`LamaMark_proofs` proves, for every heap, root set and graph (`HeapAssumption` is
the only assumption on constants), that `MarkInvariant` is inductive, and from
it `MarkTypeOK`, `QueueHoldsEachObjectOnce`, `QueueFits`, `MarkedExactlyLive` and
`MarkOnlyMarks`. What the code guarantees is not enough to prove it, so the
invariant adds:

* `CellsPaidFor`: at most as many headers have been used as queue cells as
  objects have been reached. With the object about to be enqueued not yet
  reached there is one header more, and the tail iterator stands on it
  (`TailIsAnObject`). This is the argument for the remark in `gc.h` that the space
  is sufficient.
* `QueueHoldsEachObjectOnce` as a property of the header words: writing a cell
  must not disturb the bits of the same word, and the other way round.
* `FieldsFollowed`, `RootsFollowed` and `OnlyLiveReached`, from which exactness
  follows when the phase ends.

There is one lemma per action (`MarkRootStep`, `DequeueStep`,
`EnqueueFieldStep`, ...); steps that write no header share `QuietStep`, the
others `MarkingStep`.

`LamaEmit_proofs` proves, for every well-formed program (`OffsetAssumption`),
that `EmitInvariant` is inductive: every recorded height is the intended one,
and whatever follows emitted code is emitted, in `todo`, or next. From it
follow the agreement of heights (no `DCHECK` on a height fails, in any order),
the definition of labels, and that exactly the reachable code is emitted. All
emitting actions are instances of `EmittingStep`.

`LamaCompact_proofs` EXTENDS the proofs of marking and follows a whole
collection. Its assumptions are `HeapAssumption` and `CompactAssumption` (chunk
addresses and the two macros are natural numbers, and the words at the edges belong to
no scanned area). The hypothesis `EdgesHoldNoObject` is in `CollectInit`: with a
registered object at `__gc_stack_top` the theorems are false. `CompactInvariant` is inductive
(`CollectStep`, one lemma per action), for every heap, every place `mmap` may
choose and every order of roots. While marking runs it is `MarkInvariant`; when
`compute_locations` begins, what is needed from then on is derived from
`MarkedExactlyLive`. It speaks of where every kept object is going to be:

* `Placed` are the objects whose location is known and that are not there yet,
  `Arrived` those that are there, and `FinalHeaders` where all of them will be.
  `PlacesInOrder`: the locations of `Placed` follow each other without gaps, in
  the order of the objects and never above them.
* `FrontierBehindIterator`: what has arrived ends where the next object goes, at or
  below the iterator. So `memmove` destroys no header that is still to be
  read, although it does destroy headers. `TiledOnBothSides` is the heap's order on
  both sides of that gap.
* `WordsReadable`: a word is an address in the old chunk (`OldWord`) or one in the
  new chunk as it is going to be (`NewWord`), depending on what the pass has done.
  The chunks do not overlap, so that the word itself tells which.
* `OnlyLiveKept`: the least set closed under roots and fields is everything kept,
  read through `FinalTarget`, by which marks may be dropped on the way.
* `EdgesNeedNoFixing`: what the skipped words hold is no address in the old chunk, so
  that every word is as good as fixed when objects begin to move (`FixOrderCovers`).

From it follow `CompactTypeOK`, `IteratorMeetsHeaders`, `ObjectsSlideDown` and
`CompactedInOrder`. The second part of the module proves that no step changes the object
graph (`CollectionInvisible`): what a word denotes depends on its `FinalTarget` only
(`Shows`), and each step either leaves that alone or changes the word together
with the phase that says how to read it.

`LamaGC_proofs` proves `GCInvariant` inductive for the program with its runtime,
and from it `GCTypeOK`, `ReadyToCollect`, `OneCollectionSuffices` and
`VariablesHoldValues`. Outside a collection the invariant is `HeapReady` (the heap is in
order, but for the object under construction, and the collector's variables
are at rest), from which `CollectInit` follows when the chunk is full, also that no
registered word is one that is skipped (`NoRootAtEdge`); inside it is
`CompactInvariant`, and the theorems about a collection take it from there to
the allocation. That the program's words are values (`ValuesHeld`) is carried
through a collection by the result that the graph does not change.
`NowhereApart` keeps return addresses from looking like objects of a chunk.

The type invariants `MarkTypeOK`, `CompactTypeOK`, `GCTypeOK` and `EmitTypeOK` are
conjuncts of the invariants that the runs check and theorems of their own; that of
`LamaCode` is `MachineOK`, the first conjunct of `ConventionInvariant`.

The theorems about `LamaGC` have a hypothesis, `VariablesAreRoots`: every variable is a
word of the scanned stack, an extra root or a word of the global area. It is
what the emitted code owes to the runtime. The programs of `gc` satisfy it; the
program of `globals`, which has the section layout of the compiler, does not, and
TLC shows what happens then.

`LamaRefinement_proofs` proves that `GCSpec` implements `ObjectStore`
(`ImplementsObjectStore`). Identities of kept objects are distinct
(`ObjectsDistinct`, an invariant of its own, through every copy and move), so
the graph is a function from identities to objects; and what kept words lead to is
kept (`LeadToKept`). Then every step of the collector is `Abstract!Forget` of what marking
has not reached, or a stutter; an allocation and the begin of a collection are
stutters; `Assign`, `Belem`, `Bsta`, the call and the return of a constructor are the
abstract steps.

`LamaCode_proofs` proves `ConventionInvariant` inductive, for every number of
registers, arguments, locals and operands, every depth of calls and every
program, under `CodeAssumption` and the hypothesis `OperandsInRegisters`: no
operand is spilled, as spilled constants are written over saved registers (see the
bounds above). From it follow `FrameInPlace`, `CalleeRestores` and
`LeavesAsFound`, and, if main has an even number of locals, `CallsAligned`. The
invariant has to speak of all activations at once:

* `Base` and `FrameEnd` are where the frame of an activation begins and ends,
  recovered from the stack pointers of the calls above it. `CallInPlace`: between the
  end of a frame and the stack pointer of its last call lie exactly the saved
  registers, the padding and the extra arguments; `FramesApart`: frames follow each
  other downwards with at least the saved registers between two of them.
* `WordsHold`: the words that `Begin` has saved hold what the activation found
  (`ReturnWords`), and those below the frame of one that has called hold its return
  address and the address of the globals (`CallWords`). A store of the running
  activation is at or below its `fp`, but for assigned arguments, which lie in the
  words its caller drops.
* `RegistersHold`: what the registers hold between any two steps.

`PrepareEffect` and `CallingEffect` say what `Prepare` does to registers, memory and
the activation that calls; `SameActivations` serves the actions that leave the
frames where they are, `StackSteps` those that only move operands.

The second half of the module proves that values are in place. `ValuesInvariant`
is inductive on top of the convention, under the hypothesis `ValuesFit`, and
`OperandsInPlace`, `ArgumentsInPlace`, `LocalsInPlace` and `GlobalsInPlace` follow
(`ValuesAtInstruction`). It says of every activation, running or not, where its
values are: in registers while it runs (`ValuesInRegisters`) or, below a call,
operands in the registers that the call will have restored (`KeptOperands`),
arguments in the words that the call saved (`ArgumentWords`), locals in the frame
(`LocalWords`). Each conjunct of `ValuesFit` excludes a place where the code does
otherwise, and each is a hazard or a finding:

* `OperandsInRegisters`: spilled cells do not keep their values (`emit.cpp:18`).
* `MaxResult <= Len(SReg)`: a result in a temporary register is overwritten when the
  temporaries are restored (`compiler.h:124`).
* fewer arguments than argument registers: with more, the wrong arguments are in
  registers (`emit.cpp:178`); and local 0 of a callee is the last word of its
  caller's frame (`emit.cpp:165`), which must be the saved `a7` of a caller that
  has no argument there, or padding.
* `StoredArgs = {}`: a store to an argument has its operands exchanged
  (`code_argument_store`).

Programs with calls, operands, arguments and locals satisfy all four; run `code` is
one such instance. `AfterCallValues` is the heart of the proof: what `pop` puts back,
from the words that `PrepareEffect` says were written and that nobody below has
touched, is what the caller had; `SaveRegistersValues` and `EndValues` are the two ends
of a callee.

`LamaFrames_proofs` and `LamaRuntime_proofs` prove that `RootsInvariant` is inductive,
and from it `RootsDisciplined`: for every program, every set of functions it calls, any
numbers of arguments, elements and arguments of `set_args`, every size of the pool and
every choice of collections. The assumptions are those on the constants
(`ValuesAssumption`, `RuntimeAssumption`, `FunctionsAssumption`): the pool has a place,
texts and arguments exist, identities are natural numbers, the initial stores
have no reference that leads nowhere. `RootsDisciplined` alone says nothing of
why a pop finds what it removes; the invariant says

* `PoolIsStack`: the pool is the root of `set_args`, once it is published, and then
  what each frame has registered and not removed (`HeldCells`), from the outermost
  frame to the innermost;
* `TopIsOutermost`: `top` is the outermost of the functions between `PRE_GC` and
  `POST_GC`, and no other has its flag set;
* `BufferInUse`: a text is in `stringBuf` only between `print` and `delete`;
* `WordsFollow`: words of the program and fields of finished objects are values,
  and every other word is stale or leads to an object that is there;
* `FrameInOrder`, for every frame: its arguments are cells of the frames up to its own or of the
  program's memory, a frame below the top one stands behind a call, and as long as it
  is still going to fill, copy or pass on a word, that word is not stale.
  `ArgumentsFit` is what is particular to `Lsubstring`, `Lclone` and `set_args`;
* `ObjectAtHand`: the running function's object is there once it is allocated.

`LamaFrames_proofs` first has what is needed of `FlattenSeq` and of `Reach`, which are
defined by recursive functions: `FlattenIs` and `ClosesReaches` say that the values of any function with the same
equations are theirs, and induction is by the least number for which a claim
fails (`LeastNumber`). The bodies follow: `InOrder` is what all of them
have in common - each pair of `PRE_GC` and `POST_GC`, push and pop, `print` and
`delete` is one bracket, every allocation and every call lies in the brackets it
needs - and `BodyInOrder` proves it of each function, `SetArgsBodyInOrder` of
`set_args` with any number of arguments. The rest of the module follows one step of
the innermost frame (`Forward`), a call (`Entering`) and a return (`Leaving`)
through pool, `top` and buffer.

`LamaRuntime_proofs` has one lemma per action. `AllocKeeps` is the one that matters: of a collection it
takes only that a word keeps its object or becomes stale, and that words of
the program's stack, of frames outside `top` and of the pool keep it
(`Allocated`). That the arguments of a function that still fills are among these
(`AllocCells`) follows from its body, where the allocation is inside
push and pop, and from `PoolIsStack`; for the words of a caller from the same
argument about the callers' bodies. `CallKeeps` and `ReturnKeeps` hand over this
obligation; `CallRuntimeKeeps` and `InitKeeps` show that calls of the program and
`set_args` begin with it. In `set_args` the address computed before
the call may become stale; nothing is claimed of it, and a store through it is lost.

Model-checked only:

* that each call of the runtime returns what it promises (`ImplementsRuntimeCalls`);
* `CompareOrders`, `EqualValuesHashAlike` and `TagsFaithful`, which speak of what the recursive
  functions of `LamaValues` compute, character by character;
* `ReadersAgree`, and everything in `LamaReader`;
* `MarkTerminates`, `CollectionTerminates`, `ConstructorsReturn` and `EmitTerminates`:
  liveness under fairness and ENABLED are out of the prover's reach.

## 5. Not modelled

* Failures of `mmap` and `munmap`; the length that `munmap` is given (words, not
  bytes: `gc.c:299`, `gc.c:608`); memory as a limited resource.
* The 64-bit range of sizes and addresses.
* `__gc_stack_bottom` is taken to lie above the frame of main: it is the `fp` of
  the C function that calls main, whatever that function keeps in it.
* `__shutdown`, the test helpers and debug output of `gc.c`.
* `set_args` is called by nothing in the sources: in `LamaRuntime` it may be the
  first call, in `LamaGC` `PermanentRoots` stands for its root.
* Of the runtime: `LmatchSubString`, `Lregexp`, `LregexpMatch`, `LflatCompare`, the patterns
  that test a bit of a header, `Bsta` on the values of `LamaRuntime`,
  the branches for 32 bits; growth of `stringBuf`. A negative length of
  `Lsubstring` passes its test (`runtime.c:454`), and `ASSERT_STRING` accepts unboxed values
  (`runtime.c:54`): the callers of the model pass neither. `Lcompare`, `Lhash` and `Lstring` do not return for
  cyclic values; the program of `LamaRuntime` makes none.
* `errno` is read without a call that has failed (`runtime.c:1235`,
  `bytefile.cpp:21`): `LreadLine` at the end of the input returns 0 or ends the
  program, `read_file` is taken to find it clear.
* Of the readers: the headers of the listings; `disasm`
  reads outside its tables for the operator 0 and those above 13, which the model
  takes for the end of what it can say.
* I/O, formatting, wrappers of libc, assembler and linker.

## 6. Plan

In this order:

1. `LamaHeap`, `LamaMark`, `LamaCompact`, `LamaGC` over `ObjectStore` - done.
2. `LamaEmit` - done. `LamaMark_proofs`, `LamaEmit_proofs` - done.
3. `LamaCode` - done for cells in registers.
4. `LamaCode_proofs`: the calling convention, and that the values are in place - done.
5. `LamaCompact_proofs`, `LamaGC_proofs`, `LamaRefinement_proofs` - done.
6. `LamaValues`, `LamaRuntime` over `RuntimeCalls`, `LamaReader` - done.
7. `LamaFrames_proofs`, `LamaRuntime_proofs`: the discipline of the extra
   roots - done. That every call returns what `RuntimeCalls` promises needs, on top
   of `RootsInvariant`, what the new object holds at each step.
8. `LamaReader_proofs`: the sizes that `read_file` accepts bound every string
   and public symbol, `bcdump` never reads behind the file.
9. Composition of `LamaCode` with `LamaGC`: the words that the emitted code
   leaves to the collector as its roots.
10. Cyclic values and `Bsta` in `LamaRuntime`, growth of `stringBuf`.
