# Verification of adac-hybrid-msp430

The repository turns Ada sources into programs for the MSP430. A Python driver
chains llvm-gcc, llc and msp430-elf-gcc; a binder serves gprbuild; a stripped
GNAT run-time library, the LLVM run-time functions and an entry point are linked
into programs; sample applications under `test/` run on a chip or an emulator and
check what comes out. These modules describe, in TLA+, the parts that keep state
or take decisions and the routines that compute, check them with TLC on small
instances, and prove what matters most with TLAPS for every instance.

Paths below are relative to `src/`. `RT` stands for `src/gnat-runtime/src`, `LR`
for `src/llvm-runtime/src`, and `MM` for `test/opengeode/managemode`.

## 1. Inventory

| Component | Source | State it keeps | Operations | Status |
|---|---|---|---|---|
| Secondary stack | `RT/s-secsta.adb` | `Is_Initialized`, header `(Top, Last)`, `Mem` | `SS_Mark`, `SS_Allocate`, `SS_Release`, `SS_Init` | modelled, proved |
| Mode controller | `MM/SDL/code/managemode.adb`, `MM/envstub.adb` | SDL state, threshold, last reading; switches, telemetry, bus voltage | 3 provided and 6 required interfaces | modelled, proved |
| Compiler driver | `src/msp430-elf-adac/msp430-elf-adac` | options, lists, files in the current directory | compile, post-process, link, clean up | modelled, proved |
| C pointers | `RT/i-cpoint.adb` | memory | `Copy_Array`, `Copy_Terminated_Array`, `Virtual_Length`, `Value`, arithmetic | modelled, proved |
| Serial link | `test/bsp/msp430g2553/usci.adb`, `test/uart/uart.adb` | buffer, flags and registers of the USCI | `Init`, `Write`, `WriteArray`, `Read`, `ReadArray` | modelled, proved |
| Atomic operations | `LR/atomic.c` | memory, an array of spinlocks | load, store, exchange, compare_exchange, five fetches | modelled, proved |
| Thread-local variables | `LR/emutls.c` | controls, key, arrays of addresses, heap | first access, growth, destructors | modelled but for the version for Windows, proved |
| Integer helpers | `LR/*.c` | none | checked arithmetic, products, divisions, shifts, comparisons, bit counts | modelled as functions, partly proved |
| Soft floating point | `LR/fp_*.inc`, `LR/*f2.c`, `bridge.c`, ... | none | arithmetic, comparisons, conversions, powers, complex products and quotients | modelled as functions |
| Exponentiation | `RT/s-exp*.adb`, `RT/s-exn*.adb` | none | integer, modular and real powers | modelled as functions; those of integers proved |
| Float attributes | `RT/s-fatflt.adb`, `RT/s-fatlfl.adb` | none | exponent, fraction, rounding, neighbours, scaling, remainder | modelled as functions |
| Bit fields and packed arrays | `RT/s-bituti.adb`, `RT/s-bitops.adb` | memory | `Copy_Bitfield`; and, or, xor, not, equality | modelled as functions, proved |
| Images of numbers | `RT/s-imgint.adb`, `RT/s-imgdec.adb`, ... | none | text of integers and decimals | modelled as functions, one claim proved |
| Binder | `src/msp430-elf-adac/msp430-elf-adabind` | sections of the exchange file | parse, map, rewrite in place | modelled, proved |
| Exceptions | `RT/a-except.adb` | none; a raise restarts the chip | `Raise_*`, `Rcheck_*`, last chance handler | partly (the restart) |
| Others | see section 7 | | | not modelled |

### How they interact

- The **driver** runs commands that communicate by files of the current
  directory: llvm-gcc writes `.bc` and `.ali`, llc reads `.bc` and writes `.s`,
  the driver edits `.s`, msp430-elf-gcc reads it, a `finally` block removes all
  three. Drivers that make or gprbuild start together share the directory. The
  **binder** tells gprbuild, in the file in which it was asked, which objects the
  units found in the project are in.
- Code the compiler generates calls the **secondary stack** around every scope
  with results of unknown size, and the **run-time routines** wherever the
  processor has no instruction: these take their operands and return. A run-time
  check that fails, an exhausted stack or heap, or an exception a program raises
  calls the last chance handler, which jumps to address 0. That restarts the chip:
  `.bss` is cleared, elaboration runs again, and nothing is propagated or finalized.
- **Atomic operations** on objects of sizes the processor does not move at once
  take a lock of an array that the address picks. **Thread-local variables** get
  an index common to all threads under a mutex, and an object of each thread in an
  array that a pthread key points to. Both are called by any thread at any time.
- The **mode controller** is one SDL process. A caller invokes a provided
  interface; the transition calls required interfaces of the environment one by
  one, in the caller's thread, and ends in `NEXT_STATE`. The environment is read
  and commanded between these calls, and it moves on its own.
- The **serial driver** and the USCI share two flags and two one-byte registers.
  The program polls; the hardware shifts bytes in and out at the baud rate; the
  peer sends when it likes.

The Makefile of the LLVM runtime builds `mulosi4.c`, `mulodi4.c` and `bridge.c`
alone. The other files are kept beside them as the sources they came with, and
call the same helpers; `atomic.c` and `emutls.c` are the concurrent ones.

### Which behaviours are hard

Failure of one command in a chain whose status nobody reads; files a previous or
a concurrent driver left; nesting and exhaustion of a stack with modular
addresses; a voltage that changes between the calls of one transition; modes
entered by two different ways; two parties that overwrite each other's byte;
arrays that overlap; pointers that wrap to null; values copied cell by cell while
another thread stores; an index read without the mutex that guards it;
destructors that use what they destroy; carries, sticky bits and signs at the ends
of the number range. `PROJECT.json` lists each at its line under `hazards`, with
the properties that would catch it.

## 2. How the work was done

The order follows the weight of the component: the stack and the controller run
on the satellite, the driver decides what runs there at all, concurrent code
comes before routines that only compute.

| Step | Modules | Composes | Abstract specification | Proofs |
|---|---|---|---|---|
| A | `SecondaryStack` | the stack and the restart by `a-except` | `ScopedPool` | `SecondaryStackProofs` |
| B | `ManageMode` | controller and environment | - | `ManageModeProofs` |
| C | `Adac` | drivers, tools, directory | - | `AdacProofs` |
| D | `Uart` | program, driver, USCI, peer | - | `UartProofs` |
| E | `PointerCopy` | copies and measurements | the move in one step | `PointerCopyProofs` |
| F | `AtomicOps`, `Atomic` | threads, locks, memory | `AtomicMemory` | `AtomicProofs` |
| G | `EmutlsSizes`, `Emutls` | threads, mutex, key, heap | - | `EmutlsProofs`, the sizes in `RuntimeProofs` |
| H | `Words`, `CompilerRtInt`, `CompilerRtBits`, `SoftFloat`, `FloatConvert`, `ComplexFloat`, `Exponentiation`, `FloatAttributes`, `BitfieldCopy`, `PackedArrays`, `Images`, `Adabind` | `RuntimeCalls` and `MCRuntime`, the calls | `IntContracts`, `Rounding`, `FloatContracts`, and the contracts within the others | `RuntimeProofs` |

Conventions: parameters are CONSTANTS with a named assumption; there is one
action for each operation, or for each step other parties can come between; an
inductive invariant is a conjunction of named parts in the module itself, so that
TLC checks on an instance what TLAPS proves in general; proofs have modules of
their own; a routine that computes is an operator, with what it owes stated of
exact numbers or single bits next to it; no module uses a RECURSIVE operator.

## 3. Modules and code

### SecondaryStack (and ScopedPool, SecondaryStackProofs)

| TLA+ | Code |
|---|---|
| `isInitialized`, `top`, `last` | `Is_Initialized` and the header of the chunk |
| `scopes`, each with `mark` and `blocks` | the marks generated code holds, and the blocks it was given since |
| `CurrentTop`, `CurrentLast` | `Get_Sec_Stack`, which initializes on first use |
| `SS_Mark` | entry of a scope: `M := SS_Mark` |
| `SS_Allocate(n)`, `SS_AllocateRaises(n)` | `SS_Allocate` with its comparison in modular arithmetic |
| `LeaveScope` | `SS_Release (M)` at the end of a scope |
| `Restart` | the last chance handler, the watchdog or the supply |

Sizes are all of `Storage_Count`, positions are the modular `Mark_Id`; the
addition wraps as in the code. Two assumptions come from the code: the chunk
holds the header (the `pragma Assert` of `SS_Init`), and twice the chunk and the
alignment fit the address space, so that a request of `Storage_Count'Last`,
rounded up, cannot wrap below `Last`. `ScopedPool` says what the compiler relies
on, without marks or headers: a scope owns blocks, a new block is aligned, inside
and apart from all owned ones, and leaving a scope disowns exactly its blocks.

### ManageMode (and ManageModeProofs)

`state`, `mode_voltage_threshold` and `mode_current_voltage` are the fields of
`ctxt`. A provided interface puts the calls its transition is going to make into
`todo`; each call is an action of its own, so the bus voltage (`VoltageChanges`)
may move before, between and after them. `get_current_voltage` decides the rest
of the transition, as the `DECISION` in the code does right after the call.
`Safe_Entry`, `Operational_Entry` and `Idle_Entry` are the SDL connections.
`modeHk` and `executionReport` are what the environment received last, the two
switches what it was commanded last. The environment starts as `envstub.adb`
does: switches off, voltage 0.0, the record not initialized.

### PointerCopy (and PointerCopyProofs)

`mem` is byte memory without address 0; an element takes `Elmt_Size` bytes, so
overlaps by half an element occur. `StartCopy` is `Copy_Array` up to its loop:
the comparison of the addresses and the start of the pointers, with arithmetic
modulo the address space. Each round of a loop is an action (`CopyForward`,
`CopyBackward`, `Scan`, `Measure`), an assignment of an element is one step.
`Copy_Terminated_Array` measures, then goes on with `StartCopy`. `Virtual_Length`
stands for `Value` as well, whose loop is the same. A caller passes null, or
pointers to arrays that lie in memory; lengths and limits are any `ptrdiff_t`.

### Adac (and AdacProofs)

A driver is a process `p` with a command line `Args[p]`; `pc[p]` is the statement
it is about to execute. `ParseArg` is the loop over the arguments with the option
that hides the next one. Each command is an action on `dir`, the directory.
Files keep which source and version they were made from, how often constructors
were appended (`ctors`) and how the main program is called (`main`). Failing
tools are modelled by what they leave: a source in `Broken` leaves the old bitcode or
none; llc, for bitcode in `LlcFails`, without bitcode or with garbled options, leaves
the old assembly or none; sed without a file does nothing; msp430-elf-gcc makes no
object. `Broken` and `LlcFails` are triples of a driver, a source and a version: a
driver compiles a version once, so that they describe every pattern of failures,
those of the source and those of the moment. LLVM's tools remove the output of a
command that fails; half a file, which they leave if they are killed outright, is
not modelled, nor is an error of sed or of Python's `open` on a file that is there.
The clean-up takes two steps for each path, `CheckExists` and
`RemovePath`, because another driver may remove the path in between. `Edit`
changes a source and `Kill` ends a driver at any moment. Pairs in `Apart` never
run at the same time, which is how a unit is compiled again.

`Join` keeps of `" ".join(...)` only the form of the result: a list becomes a
string, and a string joined again becomes garbled unless it was empty (an option
is longer than one character).

### Uart (and UartProofs)

`pc` tells which call of `uart.adb` is running; `Write` and `Read` are one round
of the loops of `WriteArray` and `ReadArray`, each with the poll before it; `Poll`
is a round of a polling loop that changes nothing. `LoadShiftRegister` and
`ByteSent` are the transmitter, `ByteReceived` is the peer with the receiver.
Whether the peer is `paced` is chosen at the start: a paced one sends a byte when
the receiver is on and its last byte was read; the other sends at any time, before
the receiver is on as well.

### Atomic (and AtomicOps, AtomicMemory, AtomicProofs)

An object is a run of cells the machine moves one at a time, each with one bit, so
that a value torn between two writers can be told from either. A thread calls an
operation, takes the lock `lock_for_pointer` picks for the address, compares,
reads and writes the object cell by cell, gives the lock back and returns; a
lock-free size is one instruction. Attempts at a lock that fail change nothing.
`AtomicMemory` is what the interface promises: between its call and its return
every operation takes effect on the whole object at one step. The mapping counts
the cells a thread in its write loop has still to write as written (`absMem`), and
an operation takes effect when the lock is taken (store), at the last cell
compared or read, or at the lock-free instruction. `OverlapAssumption` is what the
comment on `lock_for_pointer` asks for: "all values that may be part of the same
memory operation hash to the same value".

### Emutls (and EmutlsSizes, EmutlsProofs)

The version on pthreads. The action of a thread is the code between two accesses
to what threads share: the index read without the mutex (`emutls_get_index`), the
once control, the mutex, the index read again, `malloc` and `realloc`. These may
fail at any time, and then abort the program; else they return a block of
`Placed(free)`, any choice among the free blocks, of which the run takes the first
one. Each thread has an array of addresses in the key;
it grows to the size `emutls_new_data_array_size` gives. A thread that exits runs
the destructors of the keys in rounds, as POSIX says; the program has a destructor
of its own that uses thread-local variables again, in `UserRounds` of them.
`RoundsSuffice` says that these leave the destructor of emutls a round to skip and a
round to free; without it POSIX gives up and what is left is lost.
`SKIP` is the number of rounds the destructor of emutls waits, 1 on Bionic.
`EmutlsSizes` has the sizes, with the alignment by hand of `emutls_memalign_alloc`.

### The routines that compute

Operators with the names of the functions, over words and formats of any size.

| Module | Code | What it owes, and where that is stated |
|---|---|---|
| `Words` | `int_types.h`, `int_lib.h` | halves, signs and shifts of words |
| `CompilerRtInt`, `CompilerRtBits` | the integer files of `LR`, `mulosi4.c` and `mulodi4.c` among them | `IntContracts`, and `BitsAreCounted` in `CompilerRtBits`: the comment above each function, said of integers |
| `EmutlsSizes` | the sizes of `emutls.c` | `ObjectFits`, `SlotFits`: an object in its block, an index in its array |
| `SoftFloat` | `fp_lib.h`, `fp_add_impl.inc`, `fp_mul_impl.inc`, the three `div?f3.c`, `comp?f2.c`, `bridge.c` | `FloatContracts`: the exact result rounded once (`Rounding`), flushed to zero where a comment says so |
| `FloatConvert` | `fp_extend*`, `fp_trunc*`, `fp_fix*`, `float*.c`, `powi?f2.c` | `FloatContracts` |
| `ComplexFloat` | `mul?c3.c`, `div?c3.c` | the formulas, and infinities kept as Annex G of C asks |
| `Exponentiation` | ten packages `s-exp*`, `s-exn*` | repeated multiplication, and the exception exactly when it overflows |
| `FloatAttributes` | `System.Fat_Flt`, `System.Fat_LFlt` | each attribute as the Ada manual defines it, on exact numbers |
| `BitfieldCopy` | `s-bituti.adb` | bit by bit copy, in both orders of bits, neighbours untouched |
| `PackedArrays` | `s-bitops.adb` | the operation bit by bit |
| `Images` | `s-imgint`, `s-imguns`, `s-imgdec`, `s-imgbiu`, `s-imgwiu` and their long versions | the number the text denotes, rounded as `'Image` rounds |
| `Adabind` | `msp430-elf-adabind` | one object for each dependency, in order; no half of a file taken for a whole |

`RuntimeCalls` and `MCRuntime` compose them: the first operands are put down, then
the last ones with the call, then the call returns, and the invariants speak of the
call. `RuntimeCalls` has the calls of the integer helpers, of powers of integers, of
`emutls.c`, of bit fields, packed arrays and the binder with every operand, which is
what is proved; `MCRuntime` gives them operands TLC can enumerate and adds the calls
of everything else. A bit field lies in a memory of whole Vals, because
`Copy_Bitfield` reads and writes aligned ones. A string of bits begins at a byte. Its
result may take the place of an operand, as in `A := A and B`, or lie before or beside
it, but must not begin between its first byte and its end, where the loop would
overwrite what is still to be read.

## 4. Runs

| Run | Question | Bounds | Result |
|---|---|---|---|
| `secondary_stack` | Can any nesting of scopes and sizes break the stack, and does it implement `ScopedPool`? | 14-byte chunk (10 usable), alignment 2, 64 addresses, 3 scopes, restarts | holds |
| `manage_mode` | Do switches, telemetry and reports agree with the mode; does a low reading end in safe mode? | 3 voltages | holds |
| `manage_mode_payload` | Is the payload off whenever the satellite is idle? | as above | violated: finding 1 |
| `adac_build` | make -j with edits, versions that llvm-gcc or llc rejects, a last command that may fail, two drivers of one unit after each other, each killed anywhere | 3 drivers, 3 units, 2 versions | holds |
| `adac_stale` | Does a rejected source make the driver fail with `keep_intermediates`? | 2 runs of one unit | violated: finding 2 |
| `adac_options` | Do options arrive as given for every Ada file? | 1 driver, 2 files | violated: finding 3 |
| `uart` | Is anything written lost; is the peer answered; what does the echo contain when bytes are overrun? | every message up to 4 bytes of 3 letters, buffer of 3, peer paced or not | holds |
| `pointer_copy` | Are arrays moved whole for every overlap, and measured right? | 7 bytes of every content, 2-byte elements, lengths -4 .. 3 | holds |
| `atomic` | Does every operation take effect at one moment, and does some operation always complete? | 2 threads, 2 overlapping objects of 3 and 2 cells and a lock-free one, 2 locks | holds |
| `emutls` | Are addresses a thread's own and final, is all freed, does every call return? | 2 threads, 2 variables, 3 addresses for objects and 3 for arrays, 4 rounds, the program's destructor in up to 2 | holds |
| `runtime` | Do the routines that compute return what they owe? | see below | holds |
| `fix_saturates` | Does every conversion to a signed integer saturate? | as `runtime` | violated: finding 4 |

Why the bounds are enough. The stack: blocks of sizes 0 to 10, three depths and
every order of them give each way to fill, overfill and nest, and the 64
addresses keep the largest request above the chunk as 65536 do on the chip.
The controller: voltages matter only by comparison with the threshold, which is
itself one of the three values, so below, equal and above all occur, with every
history of commands. Copies: seven bytes hold three elements, so overlaps by a
half, one and two elements, in both directions, occur, and the contents are all
there are. Drivers share state only through files named after base names: one
with two files, one that is killed and one that finds what was left show every
conflict between a pair. The refused versions are chosen so that stale bitcode and a
stale assembly file are both reached and linked, and so that a file nobody else has
is refused by each of the two tools. The serial link: a message shorter than, as long as and
longer than the buffer, with the terminator at every place. Atomic: two threads
are a pair in conflict, the overlapping objects differ in address and length, and
the third has a lock of its own. Emutls: the second index makes the array grow,
one object less than the threads could have together makes the heap run out, and two
rounds of the program's destructor make the objects appear again after they were
freed. For all of these the proofs cover every other size.

`runtime`: integers of 4, 8 and 16 bits, on all operands of 4 bits and around
every power of two of the others, and the counts of bits in 8 bits; formats of 2, 5,
11 and 14 significand bits in the places of half, single, double and quadruple precision, with zeros, denormals,
numbers about one and at both ends, infinities and NaNs, and significands of few
and of many bits; integers of 9, 15 and 20 bits to convert; bytes of 2 bits in Vals
of two, at every offset and size; decimals of up to four digits that round up or
down at each of them, with every scale, Aft and exponent; exchange files of up to
five lines; remainders of numbers up to 64 exponents apart in the smallest format.
The code is the same text for every width, and its cases depend on the order of the
exponents, on carries and on bits cut off; each of them occurs in these.

The bounds a model has (`MaxVersion`, `MaxScopes`, `MaxSize`, `MaxLength`,
`Rounds`, `UserRounds`) are named constants.

### Properties in words

`StackInv`: header, marks and blocks keep their order. `BlocksInsideChunk`,
`BlocksDisjoint`: blocks lie in the chunk and share no byte. `NothingLeaks`: every
byte below Top is in a live block. `PoolSpec`: every step of the stack is a step of
the pool or a stutter.

`DevicesFollowMode`: at rest, safe mode has both switches off and operational mode
both on. `GatherIsTruthful`: when a gathering returns, the record shows the mode
reached and the reading that decided it, and a low reading ended in safe mode.
`ReportIsTruthful`: a success report comes with the requested mode, a failure
report with no change. `SafeIsLeftOnCommand`: safe mode is left for idle only, on
a command and while the last reading allows it. `LowReadingEndsSafe`: a low
reading leads to safe mode. `ModeInv` is the invariant behind them.

`CopyMoves`: after a copy the target holds what the source held at the call and no
other byte changed. `LengthIsMeasured`: a terminated copy has the length up to and
with the first terminator or up to the limit, `Virtual_Length` the one without it.
`PointerErrorOnlyAtTop`: a legal copy raises `Pointer_Error` only if it goes
backward and its target ends at the last address. `CopyInv` is the invariant
behind them.

A file is *refused* when llvm-gcc or llc rejects it or gets options joined twice, and
*shared* when another driver has one of its base name. `ObjectIsFresh`: the link
reads the sources of this run, each with its constructors once and the main program
renamed; something else only for a file that is refused and shared. `StatusTells`:
status 1 only if a file was refused, and always if one was that is not shared.
`RejectedMeansFailure`, which the code does not keep, asks for status 1 whenever a
file was refused. `NothingLeftBehind`: when all have ended by
themselves no intermediate file is left. `EveryDriverEnds`, `OptionsArriveAsGiven`:
as they say. `AdacInv` is the invariant behind them.

`UartInv`: what was written is on the line, in the shift register or in
`TransmissionBuffer`, with the states of both sides that go with it.
`EchoIsOfThePeer`: the echo is a subsequence of what the peer sent, without the
terminator, at any speed. `PeerIsAnswered`: with pace, a message with an end is
answered by the greeting and the echo of it.

`AtomicInv`: a lock is taken exactly by the one thread in it, and what a loop has
done to memory is what its cursor says. `Linearizable`: `Atomic` implements
`AtomicMemory`. `SomebodyCompletes`: while operations run, one of them completes.

`EmutlsInv`: indexes are unique and in range, the key exists before it is used, the
mutex is held where it must be, arrays belong to one thread and their slots hold the
objects of the variables with that index. `AddressesAreOwn`: no object is given to two
threads or for two variables. `AddressesAreFinal`: a thread that asked for a
variable gets the same object until it is destroyed. `NothingLeaks`: objects and
arrays belong to threads that have not ended. `CallsReturn`: every access returns,
unless the program aborts.

`IntegersAreExact` (the checked operations, products, divisions, shifts,
comparisons and powers of integers), `CountsAreExact` (counts of bits),
`ArithmeticIsRounded`, `ConversionsAreRight`, `ObjectsFit` (the blocks of
`EmutlsSizes`), `PackedArraysAreBits`, `DependenciesAreBound`, `AttributesAreExact`,
`ImagesAreRounded`: each routine returns what the table in section 3 says it owes.

### Findings

1. **Payload on in idle mode.** `command_voltage` in operational mode ends in
   `NEXT_STATE Idle` (`MM/SDL/code/managemode.adb:218`) without the connection
   `Idle_Entry`, whose comment says `switch_payload(false)`; the satellite is idle with
   its payload on.
2. **Stale object.** The driver ignores the status of every command. With
   `keep_intermediates`, a source that does not compile yields the object of the
   version before it and status 0; so does a source that llc fails on, and so do both
   without `keep_intermediates` after a driver that was killed. The status of msp430-elf-gcc is dropped in the
   same way: when it fails there is no object and the status is 0.
3. **Garbled options.** `" ".join` is applied in the loop over the files to the
   variable it assigns; for the second Ada file the options come one character at a
   time.
4. **Conversions that wrap.** `LR/fp_fixint_impl.inc:30` says "If the value is too
   large for the integer type, saturate."; the test is one exponent too high for a
   signed type, and numbers from 2^(w-1) up to 2^w wrap. `ConversionsAreRight`
   checks all others.

### Observed, and not the subject of a run

- The README writes the driver's option prefix `-Wdac,`, the code looks for
  `-Wadac,`.
- Intermediates are named after the base name of the source and lie in the current
  directory, so drivers at once on `unit.adb` and `lib/unit.adb` would write, link
  and remove each other's files. `NamesApart` in `Adac` excludes this, and only this,
  and the theorems start from it. What it does not exclude is that a refused file is
  replaced by the bitcode or the assembly that a driver of the same base name left,
  because it kept its files or was killed (finding 2): llvm-gcc or llc fails, the old
  file is post-processed and linked, and the status is 0. The properties say for which
  files this may happen.
- `SafeIsLeftOnCommand` and `LowReadingEndsSafe` speak of the last reading, as the
  code does; that this reading may be old is not their subject.
- `fp_lib.h` counts leading zeros with `__builtin_clz`, whose argument has 16 bits on
  this chip; the model counts those of the whole word. The Makefile does not build the
  files that use it.
- `uart.adb` makes one call of `ReadArray`. After a full buffer the terminator is
  still to be read, and a second call would return it as an empty message.
- `reporting.adb` copies messages into a 16-byte buffer; a longer one raises, which
  restarts the test. `uint32_t` in `utils.ads` is mod 4294967295, one less than 2^32.
- `Bit_And` of `System.Bit_Ops` takes every length but 8 and 16 for four bytes
  (`s-bitops.adb`: "called only for 1, 2, or 4 byte lengths"), though `s-bitops.ads:46`
  promises the operation on a bit string of any length; `PackedArraysAreBits` asks it
  of these three lengths only.
- `Overlap_OK` in `s-bituti.adb:302` compares the byte after the source with the
  aligned start of the target, so it is false for some large copies that do not
  overlap. Copies are right there; with assertions compiled in the call would raise.
- The comment at `s-imgdec.adb:117-121` says that a positive value gets a leading
  blank if N is not positive; the code fills none.
- `Exn_Long_Float` with an exponent of 5 and more multiplies in `Float`; an exponent
  of `Integer'First` never comes to an end with checks suppressed.
- `Scaling` into denormal numbers rounds more than once; the result is still next to
  the exact one, which is what `AttributesAreExact` asks of it.
- In complex quotients a finite divisor whose parts add up to an overflow gives NaN
  over an infinity (`divsc3.c:48`); it is left out of the property.
- An object across two blocks of 16 bytes takes the lock of the first one only;
  `OverlapAssumption` leaves such overlaps to the callers, as the comment does.

## 5. Fairness

- `ManageMode`: weak fairness of the steps of a running transition. A provided
  interface is a procedure call that has nothing to wait for; once called it runs.
  Commands and voltages have no fairness.
- `Adac`: weak fairness of each driver, since the operating system schedules every
  process and each command ends by itself. No fairness of edits or of kills.
- `Uart`: weak fairness of the program, of the USCI (the baud clock runs) and of the
  peer (it sends its whole message). `PeerIsAnswered` asks for an answer only to a
  message with an end: without one the program polls for ever, and rightly so.
- `Atomic`: weak fairness of each thread. A spinlock is not fair: a thread may find
  the lock taken every time it tries, so no thread in particular is promised its
  lock, and the property is that some operation completes.
- `Emutls`: weak fairness of each thread. It is enough although there is a mutex,
  because the mutex is taken only while a variable has no index, which ends after
  finitely many accesses. Threads end and a program out of memory aborts, so this run
  does not look for deadlocks; `CallsReturn` would find a thread that waits for ever.
- `SecondaryStack` and `PointerCopy` have no liveness property: the first has no
  loop and the second only counted ones. The routines that compute are operators.

## 6. Proofs

All theorems hold for every value of the constants under the module's named
assumptions; those about words start from the rule for powers of two as well, which
the paragraph on `RuntimeProofs` states. Nothing else is assumed.

**SecondaryStackProofs** (`StackAssumption`, `AlignmentAssumption`). The safety
properties are not inductive: that two blocks are disjoint after an allocation
needs that all blocks end at or below Top, and after a release that those of outer
scopes end at or below the mark. `StackInv` adds that marks grow with the depth
(`MarksOrdered`), that the blocks of a scope lie between its mark and the next one
(`BlocksBetweenMarks`), that one scope's blocks do not overlap (`ScopeDisjoint`) and
that Top and all marks are aligned (`BlocksAligned`). `StackInvariant` proves it
action by action; `InsideChunk` and `Disjoint` follow. `NoLeak` needs in addition that
there is nothing but live blocks of outer scopes below each mark
(`CoveredBelowMarks`). `ImplementsPool` maps the initial state and every step to
`ScopedPool`; the aligned, free and inside position is where the invariant is used.

**ManageModeProofs** (`VoltageAssumption`). `ModeInv` says that at each step of a
transition there is a mode `s` it is bound for: the steps left are those into `s`,
the switches already set fit `s` (`Switching`, `Telling`), the report sent or to be
sent agrees with `s` (`Leads`), and safe mode is left only where allowed
(`MayLeaveSafe`). Without the steps left over, the switches in the middle of a
transition would contradict any mode. `ModeInvariant` proves it; `DevicesFollow`,
`GatherTruthful`, `ReportTruthful` and `SafeLeftOnCommand` read the properties off it,
the action properties at `NEXT_STATE`.

**AdacProofs** (`AdacAssumption`, `CommandLineAssumption`, and `NamesApart` as the
hypothesis of each theorem; the command lines of all three runs satisfy it). Nothing
is assumed of what llvm-gcc, llc and msp430-elf-gcc reject. There are two halves. *Non-interference*: a step of a driver
changes its own variables and files under its own base names while it runs
(`Mine`, `StepIsMine`); drivers that share a base name take turns (`TakeTurns`); so
a driver's files stay as they are while it runs, and for ever where no other has
their name (`NotDisturbed`, `OthersKeep`). *Progress of one driver*: `UnitsRight`
says that the files before the current one are compiled from what llvm-gcc read,
the current one as far as the program counter tells, and of those after it nothing
lies about. Of a refused file there is nothing, which `findContructorNames` notices.
A shared file is the exception: before its turn anything may lie about, and if it is
refused that remains; if it is not, llvm-gcc and llc overwrite it, which makes a
rebuild after a kill sound. `OptionsRight` counts how often the two lists were joined,
by which the garbled options are known (`JoinedOnceMore`), `ExitRight` knows how the
driver will end, `SweepRight` that the path about to be removed is there, and
`FilesHaveOwners` that every file has a driver that will remove it. One lemma for
each action shows that it keeps them (`RunLlvmGccKeeps`, ...). `AdacInvariant` is the
result; `ObjectsAreFresh`, `NothingIsLeftBehind` and `StatusIsTrue` follow.

**PointerCopyProofs** (`PointerAssumption`). `CopyInv` describes memory in a loop as
the memory at the call with the bytes moved so far: a prefix of the target when
going forward, a suffix when going backward; and the pointers as the place of the
next element if another round is due (after the last one they may have wrapped).
`OneForward` and `OneBackward` carry the argument: the direction was chosen so that
the element read next has not been overwritten. For the measuring loops the
invariant keeps that there is no terminator so far and that there is one, or the
limit, further on (`NotPast`). `CopyInvariant`, `Moves`, `Measured` and `ErrorAtTop`
are the results.

**UartProofs** (`UartAssumption`). `UartInv` keeps the flags of the USCI in step with
its registers and with `NothingLost`: what is on the line, in the shift register
and in the buffer is what was written, in order; a store while the flag is down
would break it, and `CanWrite` excludes that. `EchoIsSound` carries, for the bytes
read, the increasing places at which the peer sent them (`InOrder`).

**AtomicProofs** (`ObjectsAssumption`, `LocksAssumption`,
`OverlapAssumption`). `AtomicInv` says that a lock is one exactly while one thread
holds it (`LocksExclude`), and that a thread in a loop has found, read or written
the cells below its cursor (`LoopsAreRight`). That other threads do not disturb
these cells is the lemma `Alone`: objects that share cells have one lock.
`AtomicRefinesMemory` maps every step to a step of `AtomicMemory` or a stutter; the
cells written one by one do not show in `absMem`, because they count as written from
the step on at which the operation takes effect.

**EmutlsProofs** (`AddressesAssumption`, `MallocAssumption`, `SizesAssumption`).
That two threads never share an object depends on everything before it, so
`EmutlsInv` has one part for each step of the argument, and each part has its lemma.
The mutex belongs to the one thread in the critical section (`MutexExcludes`). So
no two variables get one index, and the number given out last is `num`
(`IndexesAreUnique`). A thread past `emutls_init_once` finds the key
(`KeyIsCreatedBeforeUse`), and the index it carries is that of the control it was
called with (`CallsAreRight`), although others write `num` and `index` meanwhile. An
array is in the key of one thread (`ArraysAreOwn`); a slot of it holds the object of
the variable with its index, or nothing (`SlotsAreRight`), after `realloc` and the
`memset` behind it too. With `RoundsAreRight`, on where the rounds of destructors
stand, `EmutlsInvariant` is inductive. `AddressesOwn` is a part of it, and
`AddressesFinal` reads it step by step. `NothingLost` has the hypothesis
`RoundsSuffice` and adds that a thread that ended has no array (`EndedHaveNone`).

**RuntimeProofs** (`WidthAssumption`: `si_int` has four bytes of one bit or more;
`SizesAssumption`; `BytesAssumption`: a storage unit has a bit and a Val a byte).
`IntegersExact` is the property `IntegersAreExact` of every call, with words of *every* width and all operands; `OperandsAreWords` is the invariant that
operands are words of the width called for, and fields and strings in their memories,
the rest is about functions:

- `ChecksExact`: checked sums, products, absolute values and negations abort, or set
  the flag, exactly when the result does not fit, although they look at wrapped
  results and at quotients of the largest numbers.
- `ProductsExact`: a product put together from four products of halves loses no
  carry. `ComparisonsExact`: comparing halves orders the whole.
- `ShiftsExact`: shifts within a half, across the halves and by half the width are
  products with, and quotients by, a power of two, the sign included (`ashlExact`,
  `lshrExact`, `ashrExact`); mirrored bytes are in their places (`BytesAre`).
- `UnsignedDivisionExact`: the heart is `TurnOnce` and `TurnIs`. After every turn the
  remainder is that of the bits that came in so far, and the quotient has, below the
  bits still to come, that of the same (`Divided`). The sign of d - r - 1 in w bits
  tells whether d fits only if the difference is in range, which `LeavesRoom` says:
  d is at most half of the range, or there is one turn, of an n with the top bit.
  `ShiftSubtractIs` is the loop by induction over its
  turns, done by the least turn that fails, with the theorems on well-founded sets
  that need no operator. How many turns there are comes from the lengths of the
  operands (`BitLengthIs`, `LoopIs`); `DivModIs` has every special case of
  `__udivmoddi4` around the loop, zero halves and powers of two.
- `SignedDivisionExact`: magnitudes as words, that of the smallest number included,
  and the signs put back; the quotient of the smallest number by -1 wraps.
- `IntegerPowersExact`: after every turn the result is the power for the bits of the
  exponent seen so far, and the factor that for the next bit alone (`CheckedTurn`,
  `ModularTurn`; `CheckedLoop` and `ModularLoop` are the induction). With checks both
  may be the exception. The result may be so early because once a power does not fit
  no later one does (`PowersOverflow`: only 0, 1 and -1 have powers that stay small,
  `PowersLeave`), and the factor may not fit because its weight is at most the
  exponent: the exit before the last squaring is what this needs. Without checks both
  are congruent to the power modulo the type's, which decides a value of the type.

To the provers `^` has no meaning: the hypothesis `PowersOf2(Nat)` of these theorems
says that 2^0 = 1, 2^1 = 2, powers of two are positive integers, and
2^(i + j) = 2^i * 2^j. That is arithmetic, true of all natural numbers, and TLC
checks it as far as it can write the powers, up to 2^30 (`PowersOfTwo` in
`MCRuntime`).

`ObjectsFitAlways` is the property `ObjectsFit` for every address, alignment and size
of an object, and every index, header and pointer. `NothingCutOff` is about images:
`s-imgdec.adb` keeps a call it says is "hard (or perhaps impossible)" to make output
a digit, because "we lack a proof that no such example exists". This is that proof:
rounding leaves at most Aft digits behind the point, so nothing is left to be cut off.

`DependenciesBound` is the property `DependenciesAreBound` of every exchange file, of
any length. The heart is `LinesAreRead`, the invariant of the parser: after k lines a
section holds exactly the lines below the last header of its name, up to the next
header or line k (`HeaderIsTaken`, `LineIsTaken`); `FileIsRead` is the induction, done
by the least line at which it fails, as for the loop of the division. A section has one
such place (`BelowIs`), so what the binder wrote, taken apart by the same rule, is the
project files and one object for each dependency (`OutputLines`, `BelowOfOutput`).
What a killed binder leaves is a beginning of that output with at most one line cut,
and has no `DEPENDENCY FILES` header (`HeadersOfOutput`): a binder started on it fails
(`LeftIsRefused`). The provers do not know a literal to be a `STRING`, so the lemmas
speak of `Written`, the lines of files together with those the binder writes.

`PackedArraysExact` is the property `PackedArraysAreBits` for storage units and Vals of
any size, every memory and either order of bits. Masks and shifts become statements
about single bits first: a bit is found by division, remainders and shifts move bits
(`BitOfRemainder`, `BitOfShr`, `BitOfShl`), and numbers with the same bits are the same
(`BitsDecide`). For strings, `ByteLoopIs` says that the loop of `System.Bit_Ops` gives
each byte of the result from the bytes of the strings as they were, because the result
is behind what is still to be read (`IsBehind`); `EqualBytes` and `MaskedBytes` take
`Bit_Eq` apart into whole bytes and the bits of one more under a mask. For fields,
`LoadIs` and `StoreIs` say which bit of an object comes from which bit of memory in
either order, `SetFieldAtIs` that a field stored in one Val or across two leaves the
rest of them as it was, and `SmallField` that a field of at most a Val is copied.
`LargeField` is three copies, the bits up to the next aligned Val of the target, whole
Vals, and the tail; `ValsCopied` is the loop between them, whose source may lie across
two Vals. `CopiesCompose` makes them one copy, provided that none reads what one before
it has written. That needs the target before the source or apart from it, which is the
condition the comment at `s-bituti.adb:119` states; a field of at most a Val needs
none (`s-bituti.adb:109`).

Only model-checked are the liveness properties `LowReadingEndsSafe`,
`EveryDriverEnds`, `PeerIsAnswered`, `SomebodyCompletes` and `CallsReturn`, since
liveness under fairness is out of the prover's reach, and of what the routines
compute all that is not named above: counts of bits (the masks are bit operations
the provers do not know), floating point with its powers and attributes, and images
but for `NothingCutOff`. What of these is a loop over data
would need, like the division, an argument of its own for each loop; none is stated.

## 7. Not modelled, and why

- Contents of sources, bitcode and assembly, apart from what the driver changes in
  them; baud rate, ports and clocks; wording of messages and reports.
- `Copy_Array` on pointers that are not to arrays in memory: Ada calls that
  erroneous. `Value` with a length, and the difference of two pointers, are one
  expression each.
- Emutls: the version for Windows, which differs in the names of the calls, and the
  unregistration of the key when a library is unloaded.
- Elementary functions (`RT/a-ngelfu.adb`): they approximate reals by polynomials
  and iterations, and owe an error bound on real numbers, which the tools cannot
  state. Generic arrays of numbers: one-line formulas over them.
- Images of enumerations, characters and Booleans: slices of a table the compiler
  writes. The heap: two tests of the size around `malloc`. Tag look-ups, character
  output and declarations of the run-time library.
- Exceptions: `Raise_Error` is null, and the other procedures differ in a code
  nobody reads; their effect, the restart, is in `SecondaryStack`.
- Opengeode `basicsdl`: three states and one input without asynchronous parts; a
  property would restate its transitions.
- Test reporting: formatting of messages that go out through the modelled link.
- Queries of processors and operating systems the chip does not have, and
  unwinding, in the LLVM runtime; the ASN.1 run-time library, of which the test
  calls nothing; the scripts that drive boards with fixed delays, the Makefiles and
  `main.c`.
