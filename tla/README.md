# TLA+ models of the Rune VM

Rune is an embeddable bytecode VM written in C (`src/src/vm/vm.c`), with an
assembler (`src/src/compiler/rune_asm.c`) and an example embedder
(`src/examples/host.c`). This directory holds the TLA+ models of it, the TLC
configurations that check them, and `PROJECT.json`. That file maps every model
definition to the source lines it translates, and lists the runs, the mutants,
the findings and the hazards.

## 1. Inventory of the system

| Part | Source | State | Operations |
|---|---|---|---|
| Container reader, CRC-32 | vm.c:183-251 | reader position, error flag | `crc32_update`, `read_u8/u16/u32/string/bytes` |
| Module loader | vm.c:257-551 | `rune_module`: types, imports, funcs, globals, exports, memory limits, data segments, `init_func` | `rune_module_load`, eight section parsers, `rune_module_free` |
| Host function table | vm.c:623-642, 785-796 | `host_fns[0..host_fn_count)` | `rune_vm_register`, `vm_resolve_host` |
| VM initialisation | vm.c:652-716 | `initialized`, memory, globals | `rune_vm_init` |
| Linear memory | vm.c:725-762, 1103-1235 | `memory`, `memory_pages`, `memory_max` | loads, stores, `MEM_SIZE/GROW/FILL/COPY`, `rune_vm_mem_read/write/readstr` |
| Call stack and frames | vm.c:798-836, 1247-1249 | `frames[]`, `frame_count`, `arg_buf`, `arg_count` | the frame push and pop of `vm_exec`, `ARG`, `CALL`, `CALL_HOST` |
| Interpreter core | vm.c:798-1254 | `pc` and the register window of each frame, `fuel_used` | one `case` per opcode, `FUEL_TICK`, `MEM_CHECK` |
| Embedding API | vm.c:576-621, 1260-1288 | `cfg` (`stack_size`, `memory_limit`, `fuel_limit`) | `rune_vm_new/free/call/refuel` |
| Assembler | rune_asm.c | the tables, `current_func` and each function's code buffer | `rune_asm_*` builders and emitters, `rune_asm_label`, `rune_asm_patch_jump`, `rune_asm_finalize` |
| Example host | host.c | none | `build_demo_module`; the callbacks `print_i32`, `print_str`, `get_time`; register, init, call |
| Unit tests | vm.c:1289-1722 | none | modules built with the assembler, run with assertions |

The Rust FFI header `src/rune.h` has no implementation in the repository.
`src/PUSH.md` is prose. Neither is modelled.

### How the parts interact

The embedder calls `rune_vm_register` for each host function, then
`rune_vm_init`, then `rune_vm_call` any number of times. `rune_vm_refuel` may
come between calls.

- `rune_vm_init` checks that every import has an entry and allocates `max_pages`.
  It copies the data segments and the globals, sets `initialized`, and runs
  `_init` through `vm_exec`.
- `vm_exec` is C-recursive:
  - `CALL` of a body pushes a frame and recurses.
  - `CALL` of an import, and `CALL_HOST`, run the host callback on the same C
    stack without a frame.
  - A callback may itself call `rune_vm_call`. The nested call shares
    `frames`, `frame_count`, `arg_buf` and `fuel_used` with the call it
    interrupts.

Errors take one of two ways back out of a call:

- Most errors leave through `done:`, which does `frame_count--`.
- `MEM_CHECK` and `FUEL_TICK` `return` directly, skipping the decrement.

### What is hard here

These are the behaviours a test would hardly reach:

- A host callback re-entering the VM.
- A trap deep in a call chain, and how it unwinds `frame_count`.
- Fuel that runs out in a nested call or in a later call. `fuel_used` is never
  reset except by `rune_vm_refuel`.
- `uint32` wrap in `MEM_GROW` and in the data-segment check.
- `initial > max` memory declarations.
- `ARG`'s extra store into `arg_buf[s1]`.
- The order of `initialized = true` and `_init`.

Each hazard is listed in `PROJECT.json` at the line where it bites.

### Properties per part

- **Call stack:**
  - frame pushes stay inside `frames[]` (`FrameBound`);
  - a suspended caller's frame is never touched (`CallerFramesPreserved`);
  - `frame_count` returns to 0 after a call (`StackDiscipline`, spec §8).
- **Fuel:**
  - no more instructions run between refuels than the limit (`FuelBound`);
  - every call returns when a limit is set (`CallsTerminate`).
- **Memory:**
  - the checked size never exceeds the allocation (`PagesWithinAllocation`);
  - no access leaves the buffer (`MemorySafe`, spec §8 bounds safety).
- **Initialisation:** a failed init leaves the VM uninitialized
  (`InitFailureLeavesUninitialized`, spec §4.5).
- **Embedding API:** the VM, with the interpreter and the callbacks hidden,
  implements the contract `VMApi` (`ApiRefinement`).
- **ARG:** `arg_buf[0..arg_count)` holds exactly what the running activation's
  `ARG`s staged since its last call (`StagedArgsAsWritten`, spec §4.2).
- **CRC-32:**
  - the assembler's and the loader's checksums agree with CRC-32, so every
    assembled container passes the check (`CrcMatchesReference`);
  - any single-bit error is caught (`SingleBitDetected`, spec §8).
- **Loader and assembler:**
  - what the assembler writes loads back to the same tables, also with an
    unknown section inserted (`RoundTrip`, spec §8);
  - a container cut inside a section is rejected (`TruncationDetected`);
  - a container damaged in one bit of its magic, version, CRC field or body,
    or cut inside its header, is rejected before a section is read
    (`CorruptionDetected`, spec §4.1 and §8);
  - no count makes the loader write past `mod->funcs` (`NoOutOfBoundsWrite`);
  - export indices name functions (`ExportsInRange`, spec §4.4);
  - a jump patched to a label lands on that label in the VM
    (`PatchedJumpsLand`).

## 2. Modules

### `VM.tla`: one VM and its embedder

**Constants.** The constants describe an already loaded module:

- `Code` and `RegCount` are the bodies.
- `ImportName` is the import table.
- `Exports`, `DataSegs`, `GlobalInit`, `HasMemory`, `MemInitial` and
  `MemMaxDecl` are the other sections.

The other constants are the configuration and the embedder's choices: the
registrations it may make, the names and argument vectors it may call with,
the fuel budgets and the memory limits.

**State.** Each variable is named after a field of `struct rune_vm`:

- `frames`, `frameCount`, `argBuf`, `argCount`, `fuelUsed`, `fuelLimit`.
- `memPages` and `memMax`.
- `allocCells`, the size of the `calloc`'d buffer.
- `mem`, `globals`, `hostFns` and `initialized`.

The C recursion is the sequence `cstack` of activations:

- An `exec` activation owns the frame slot that `frame_count` had when it was
  pushed.
- A `host` activation is a running callback.

Because `frameCount` is a separate counter, the model can tell it apart from
the real depth. That is how the leaked frames show. `ret` carries the result of
a finished activation to the one below it.

**Actions.** One interpreter iteration is one step:

- `FUEL_TICK`, fetch and the `case` body together.
- `FallOff` is the loop exit.
- `FuelExhausted` is the failing tick.
- Each modelled opcode family is one action: `ExecJump`, `ExecCall`,
  `ExecCallHost`, `ExecArg`, `ExecArith`, `ExecGlobal`, `ExecLoadStore`,
  `ExecMemGrow`, `ExecMemBulk`, …

A call's return is split into two actions, which are the two outcomes of
`result = vm_exec(...)` in the caller:

- `CallReturned` writes `R(dst)`.
- `CallFailed` goes to `done`.

Host callbacks are `HostReturn`, `HostReenter` and `HostResume`. Each host
activation carries the `argc`/`argv` it was called with: the staged arguments
for `CALL_HOST`, or the caller's arguments for a direct `CALL` of an import.

- `"i32"` is `host_print_i32` (`PrintI32`): `TYPE` unless `argv[0]` is an
  i32.
- `"str"` is `host_print_str` (`PrintStr`): `TYPE` for fewer than two
  arguments, `BOUNDS` for a negative length, then `rune_vm_mem_read`
  (`MemReadOk`). That is the VM's own bounds check, and the cells it copies
  count for `MemorySafe`.
- `"reenter"` calls an export through `rune_vm_call`. It may return the
  nested call's error or swallow it, as a real callback may.

The embedder actions are `Register`, `InitVm`, `CallExport`, `Refuel` and
`Complete`. `Complete` is the return of the outermost activation.

**Abstraction.**

- i32 values are `W`-bit words.
- A memory cell is one access unit, so loads and stores have size 1.
- Undefined behaviour is a choice between the outcomes a build can give.
  `INT_MIN / -1` and `INT_MIN % -1` in `DIV32`/`REM32` either wrap (AArch64's
  `sdiv`) or raise SIGFPE (x86's `idiv`). SIGFPE kills the embedding process
  mid-call. The model shows this as a `killed` activation that never takes
  another step.
- Every i32 opcode is modelled: arithmetic, the bit operations, the eight
  comparisons, `LDTRUE`/`LDFALSE` and `BOOL_TO_I32`, all in `ExecArith`.
  Shift counts are masked to the width (`b & (W - 1)`, the code's `& 31`),
  and `CLZ32`/`CTZ32` of zero give `W`. `&`, `|` and `^` are looked up in
  `BitTab`, a table over all pairs of words built once from `BitWise`.
- `BOOL_TO_I32` reads `.as.b`, the low byte, whatever the register's tag. A
  byte other than 0 or 1 is not a valid `bool`, so the result is a choice
  between 1 and the byte itself (`BoolToI32`).
- The i64, f32, f64 and other conversion opcodes are not modelled. They have
  the same control flow as `ExecArith`: write `R(dst)`, then `pc + 1`.
- Strings are model values.

**Not modelled.** The `!initialized` guard at vm.c:801 is left out, because
every caller already has `initialized` TRUE. Allocation failures are also left
out.

`MC_VM.tla` instantiates `VM` with a guest module of nine bodies and one
import `log`. The embedder may register `log` with any of the three callbacks:

| Body | What it does |
|---|---|
| `add` | adds its two arguments |
| `loop` | loops forever |
| `nest` | stages arguments; calls `log` through `CALL` and `add`; calls `CALL_HOST log` |
| `mem` | grows memory, stores, loads, then `MEM_SIZE`, `MEM_FILL`, `MEM_COPY` |
| `glob` | increments a global and falls off the end; also exported as `_init` |
| `rec` | recurses without a base case |
| `misc` | takes the signed and unsigned remainder and quotient; then traps, or reaches a global index out of range |
| `bad` | the other five comparisons and `LDFALSE`; then an unknown opcode, or a `CALL_HOST` of a missing import |
| `bits` | the eleven bit operations on its arguments, `BOOL_TO_I32`, `LDTRUE`, all into R2; `RET 2` returns R0 all the same, because vm.c:868 ignores the operand |

Between them, the bodies reach every action and every error code.

`MC_VMArgs.tla` extends `MC_VM` with a history variable `intent`. It holds,
for the running bytecode activation, the register value each `ARG` since its
last call named for its slot. Any step that pushes or pops `cstack`, or puts a
result in flight, resets it: a callee starts with nothing staged, and a
caller's staging ends at its call. `StagedArgsAsWritten` compares
`arg_buf`/`arg_count` with `intent`.

### `Crc32.tla`: the container checksum

`rune_module_load` computes `crc32_update(0, payload)` over the bytes after
the header and compares it with the header (vm.c:437-441). The assembler
writes `crc32_buf(payload)` into that field (rune_asm.c:442). The two
functions are separate copies of the same loop.

**State.** One step of the model is one pass of the outer `for` loop:

- `msg` is the payload and `i` the loop index;
- `load` and `asm` are the two functions' `crc` registers over `msg`;
- `bad` is the loader's register over `msg` with bit `flip[2]` of byte
  `flip[1]` inverted;
- `ref` is a ghost variable, the reference remainder of the bytes fed so far.

A `uint32_t` is a record of two 16-bit halves. This keeps all 32 bits and
avoids TLC's signed 32-bit integers (0xEDB88320 does not fit). `Step` is
the inner statement `crc = (crc >> 1) ^ (0xEDB88320u & -(crc & 1))`, and
`ByteStep` is `crc ^= data[i]` followed by eight `Step`s. `LoadStart`
(`~0`), `AsmStart` (`~0u`) and `Result` (`~crc`) are the lines around the
loop. `^` is `XorH`, bit by bit. TLC evaluates it for two bytes at a time
from `XorByte`, a table of `XorH` that it computes once (`XorHalf`).

**Reference.** A GF(2) polynomial is a set of exponents, and `Rem` divides by
the CRC-32 generator. `ref` starts as the preset x^31+...+1, and each byte
does `ref' = (ref * x^8 + B * x^32) mod G`, where `B` is the byte with
bit 0 as the highest coefficient. This is long division by Horner's rule. It
shares nothing with the shift-register code except the generator.

**Inputs.** `MC_Msgs` holds every payload of up to three bytes over
{0, 1, 128, 255, 90} (156 payloads, reaching bits 0 and 7 and the all-ones
and alternating patterns), plus "123456789". Every single-bit flip of each
payload is a separate initial state.

### `Asm.tla`: the assembler's container writer

Pure operators, no variables. An assembler state is a record with the fields
of `struct rune_asm` that `rune_asm_finalize` and the emitters read,
`current_func` included (`cur`). `EmptyAsm` is `rune_asm_new`. Each builder
call returns the next state:

- `rune_asm_type`, `_import`, `_func`, `_memory`, `_global`, `_data`,
  `_export_func` and `_export_memory`;
- `AsmBeginCode` and `AsmEndCode`;
- `AsmEmit`, `AsmEmitI`, `AsmEmitI64` and `AsmLdi32` append an instruction
  word `<<op, dst, s1, s2>>` (spec §4.2) and its immediates to the open
  function;
- `AsmLabel` is the open function's length in words;
- `AsmPatchJump` writes `JumpRel(patch, target) = target - (patch + 2)` over
  the immediate after word `patch`, with `buf_patch_u32` (`PatchU32`).

The builders keep the code's quirks: an import takes the next function index,
and names are cut by `strncpy`.

`U8`..`U64` and `Str8` are the `buf_push_*` helpers, and `Section` is
`emit_section`. `Sections(a)` lists, in `rune_asm_finalize`'s fixed order,
the sections the code emits: each only when it has entries, and MEMORY only
when declared. `Encode(a)` is the payload after the header. The opcode and
type numbers live in `rune_bytecode.h`, which is not in the repository. They
are the constants `Opcode` and `TypeCode`, and any distinct values serve.
`rune_asm_ldi32` is declared there too, so `AsmLdi32` follows spec §4.2.

### `Loader.tla`: `rune_module_load`

**State.**

- `in`: the container, as the header's fields (`AsmHeader`) and the bytes
  after it, and where it came from;
- `crc`: the index of `crc32_update`'s loop, its register, and the register
  of `crc32_buf` over the bytes the writer's CRC covered (the header's `src`);
- `rd`: `reader_t` (`pos`, `error`), plus the last value read;
- `err` and `result`: the loop's error and `*out_err`;
- `mod`: the module's tables;
- `phase`: checking the header, in the CRC loop, at the top of the `while` loop, inside a parser's `for` loop,
  left by `break`, or returned;
- `sec`: the section being parsed (`sect_id`, `sect_size`, `sect_start`, the
  count the parser read and its loop index `i`);
- a ghost, `oob`, set when a write leaves `mod->funcs`.

**Values.** A `uint32_t` is the `int32_t` with the same bits. Sums and
differences of a count with `import_count` then wrap exactly as in C, and
unsigned comparisons are written out (`UGt`). This is what lets a count of
0xFFFFFFFF reach the wrap in `parse_func_section` and `parse_code_section`.
A u64 is a pair of words.

**Operators.** The reader functions are operators on the reader record.
`read_u16`, `read_u32` and `read_u64` are written as `Take`: n `read_u8`
calls in a row, which take the bytes left and set the sticky error at the
first missing byte. One entry of each parser's `for` loop is an operator
(`TypeEntry` ... `DataEntry`). A parser that fails keeps only its error,
because `rune_module_free` discards the module.

**Actions.** One step per unit of the code's control flow:

- `CheckHeader`: `len < sizeof(rune_file_header_t)` (`BADMODULE`), the magic
  (`BADMAGIC`) and the version (`VERSION`), in that order (vm.c:429-435);
- `FeedCrc`: one pass of `crc32_update`'s loop over the bytes after the
  header (`CrcLen` bytes), and one pass of `crc32_buf`'s over the header's
  `src` (`SrcLen` bytes). The two loops share a step counter but each stops
  at its own length, so a slip in the loader's length leaves the writer's
  checksum as it is. `CheckCrc` waits for both. Running the writer's loop here keeps a
  thousand containers' checksums out of the constant inputs: TLC evaluates
  such a fold lazily and deeply and does not finish it;
- `CheckCrc`: `computed != hdr->crc32` is `BADMODULE` (vm.c:441); otherwise
  the module is allocated and the section loop starts. The header's CRC is
  `crc32_buf`'s result with the bits of the header's `flip` inverted;
- `SectionHeaderBad`: an iteration whose section header cannot be read;
- `BeginCounted`, `BeginFunc`, `BeginCode`: the section header, a parser's
  count read, its check and the `calloc` (and, for FUNC, the "Mark imports"
  loop). The FUNC total and the CODE expected count wrap as in C;
- `ReadEntry`, `ReadCode`: one pass of a parser's `for` loop. A failed read
  returns `BADMODULE`. A CODE body whose index `import_count + i` is past
  `func_count` sets `oob`;
- `EndEntries`: the loop has run `count` times, and the padding read follows;
- `LoadMemory`, `SkipUnknown`: the MEMORY parser and the `default` case, each
  with its padding read;
- `Finish`: the error check after the loop and the `_init` scan. That scan
  uses `strcmp` semantics (`CStr`).

The byte loop is `Crc32`'s `ByteStep`, taken with `INSTANCE`. `Asm`'s
`AsmHeader` is the header `rune_asm_finalize` patches in last
(rune_asm.c:436-445). It holds magic, version, zero flags and reserved, and
the CRC of the body. `HeaderSize` (20) and the values of `Magic` and
`Version` come from spec §4.1, because the header struct is not in the
repository.

**Inputs** (`MC_Loader.tla`):

- nine modules built through the emitters, each with the jumps it patched:
  - `AddB` is spec example 1;
  - `HostB` is example 7, with memory, a global, a data segment, a memory
    export and an `_init` export added;
  - `DemoB` is `build_demo_module` of `examples/host.c`: six types, three
    imports, a memory export, a 16-byte data segment and three bodies;
  - `BranchB` is the `max` module of `test_branching`, with a JZ patched
    forward;
  - `LoopB` is the loop of `test_fuel_limit`, with a JNZ patched backward;
  - `ArithB`, `MemB`, `DivB` and `GlobB` are the modules of
    `test_arithmetic`, `test_memory` (memory declared before the function),
    `test_div_by_zero` and `test_globals` (a global declared before the
    type);
- the same with an unknown section inserted at every section boundary;
- every prefix that ends inside a section, and every prefix that ends inside
  an unknown last section (only the `r.error` check after the loop rejects
  those);
- each of the above behind a header written for its bytes, so the CRC passes
  and the section loop's own defences are what is checked;
- per module, the written container damaged after writing (`Damaged`):
  - one bit inverted in the first magic byte, the version, or the CRC field
    (bit 0 and bit 31);
  - one bit (0 or 7) inverted in the first, a middle or the last byte after
    the header;
  - the container cut to 0 or 19 bytes, inside the header.

This gives 1170 initial states and about 107k states in all. Most of the
states are passes of the CRC loop. Flags and reserved are not damaged:
nothing checks them, and the CRC does not cover the header.

Names and payload bytes are distinct short byte strings (`N(k)`, `Greeting`).
Only their lengths and distinctness reach the container.

`VmJumpTarget(code, p)` is the `PC` that `vm_exec` computes for a taken jump
at word `p` (vm.c:871-875). `PatchedJumpsLand` composes the three components:
the offset the assembler patched, the code slice the loader stored and the
VM's jump rule.

The violation runs use the crafted containers `MC_Loader.tla` defines next to
their runs.

### `VMApi.tla`: what a VM promises its embedder

This is the abstract specification of the public `rune_vm_*` functions. The
interpreter is hidden. Its variables are:

- `registered`, the registrations in order;
- `initialized`;
- `op`, the operation in progress (`"idle"`, `"init"` or `"call"`);
- `err`, the latest result;
- `fuel`, the fuel limit.

Its actions:

- `Register` appends before initialization and answers `BADMODULE` after it.
- `InitFails` returns `NOIMPORT` unless every import has a registration. It
  may return `OOM` or `BOUNDS`, and it leaves everything else as it was.
- `InitSucceeds` sets `initialized`. It either returns `OK` or starts `_init`.
- `Call` starts a call.
- `Return` ends the operation in progress. A call on an uninitialized VM
  returns `BADMODULE`. Any other call returns `OK` or an execution error
  (`ExecErrs`), never `BADMODULE`.
- `Refuel` sets the limit.

Everything `vm_exec` and the callbacks do between a start and its return is
stuttering here: nested calls, host callbacks, re-entry, traps and leaked
frames.

`VM.tla` ends with the refinement mapping:

```
Api == INSTANCE VMApi WITH registered <- hostFns, op <- apiOp, err <- lastErr,
                           fuel <- fuelLimit, Needed <- {ImportName[i] : i \in Imports}
```

`ApiRefinement == Api!Spec` is a `PROPERTY` of `vm_main`. No auxiliary
variable is needed: `apiOp` already records the operation in progress, and
`lastErr` is written only when an operation returns.

Writing the refinement corrected a first version of the contract, which said
that a call returns only the guest's own traps. TLC showed that `CALL_HOST`
of an index past `import_count` gives `NOIMPORT` on an initialized VM
(vm.c:926-930). That is now in `ExecErrs`. `ExecErrs` also allows the `OOM` of a
failed register-window `calloc`, because the contract states what the code may
return. `VM` does not model allocation failure (section 4), so no behaviour
of `VM` produces that `OOM`.

### Runs

| Run | Expect | Checks | Shows |
|---|---|---|---|
| `vm_main` (`MC_VM.cfg`) | pass | `TypeOK`, `FrameBound`, `FuelBound`, `PagesWithinAllocation`, `CallerFramesPreserved`, `ApiRefinement` | Up to 4 embedder operations with every registration, call name and argument vector, `(INT_MIN, -1)` among them, starting with a fuel limit of 12 (about 83k states). Frames stay in bounds; suspended callers are untouched, even through host re-entry and leaked frames; fuel bounds the dispatched instructions; `MEM_GROW` never passes the allocation. Through all of that, the VM implements `VMApi`. |
| `vm_live` | pass | `CallsTerminate` | With a fuel limit every init and call returns, including `loop`, `rec` and re-entry. |
| `vm_init` | pass | `InitFailureLeavesUninitialized` | `NOIMPORT`, `OOM` and data-segment `BOUNDS` all leave the VM uninitialized. |
| `crc` (`MC_Crc32.cfg`) | pass | `TypeOK`, `CrcMatchesReference`, `SingleBitDetected` | After every loop pass, both functions return the CRC-32 of the bytes fed, by polynomial division; the inputs include "123456789". Every single-bit flip of every payload changes the loader's CRC (spec §8). |
| `loader` (`MC_Loader.cfg`) | pass | `TypeOK`, `RoundTrip`, `TruncationDetected`, `CorruptionDetected`, `PatchedJumpsLand` | The assembler's output for nine modules, behind the header it patches in, loads back to the builder calls' tables, with or without an unknown section. Host.c's demo module and six unit-test modules are among the nine. Every cut inside a section, including a skipped unknown one, fails with `BADMODULE`. One inverted bit in the magic, version, CRC field or body, or a cut inside the header, is rejected before the section loop reads a byte: header checks and CRC. Every patched jump, forward or backward, sends the VM's `PC` to its label. |
| `loader_wrap` | violation | `NoOutOfBoundsWrite` | One import and a FUNC or CODE count of 0xFFFFFFFF: the uint32 sum or difference wraps, passes the checks and writes past `mod->funcs` (code bug, vm.c:310/388). |
| `loader_export` | violation | `ExportsInRange` | An export of function 5 in a one-function module loads (vm.c:378, spec §4.4). |
| `vm_leak` | violation | `StackDiscipline` | A `FUEL` or `BOUNDS` trap leaks a frame (code bug, vm.c:761/768). |
| `vm_inittrap` | violation | `InitFailureLeavesUninitialized` | A failing `_init` leaves `initialized` TRUE (vm.c:706, spec §4.5). |
| `vm_growwrap` | violation | `MemorySafe` | `MEM_GROW -1` wraps and memsets past the buffer (vm.c:1207). |
| `vm_initgtmax` | violation | `MemorySafe` | With initial > max, a store passes `MEM_CHECK` outside the buffer (vm.c:682). |
| `vm_arg` (`MC_VMArgs`) | violation | `StagedArgsAsWritten` | `ARG 0, R1` overwrites slot 1 (vm.c:945). With `nest`'s two `ARG`s swapped, so that nothing is clobbered, the same property fails in 21 states another way: a FUEL trap right after an `ARG` leaves `arg_count` at 1 for the next call (vm.c:768, 929). |

Each property of a passing run has a mutant in `PROJECT.json`: a plausible
slip in the code that TLC must catch with that run.

### Bounds

- `W = 4`: 16-value words, so the wrap of `-1` and of `memory_pages + req`
  happens, and jump offsets cover the 13-word bodies.
- `StackSize = 3`: `rec` overflows, and `nest` → `log` → re-entry → `add` fits.
- `PageSize = 2`, `MemInitial = 1`, `MemMaxDecl = 2`: one successful grow and
  one refused grow.
- `MaxParams = 2` and `NumRegs = 3`: `ARG` can reach its spurious slot.
- `MaxApiCalls = 4`: register, init and two calls is the shortest sequence in
  which a leak from the first call affects the second.
- `MaxSteps = 14` caps dispatches between refuels when there is no fuel limit;
  with a limit of 12 it never binds. `vm_main` starts with the limit of 12 only,
  which keeps it inside its time budget under coverage. The runs `vm_arg`,
  `vm_init`, `vm_leak`, `vm_growwrap`, `vm_initgtmax` and `vm_inittrap` start
  without a limit as well.

For `Crc32`: three-byte payloads give 24 bit positions for the
single-bit claim and cross the 16-bit halves of the register. Nine bytes
put more than 32 bits through the register, so the preset is fully shifted
out on the check string.

For `Loader`: the nine modules together emit all eight section kinds,
imports, parameter types other than i32, a negative global, data segments,
both export kinds, and a forward and a backward patched jump. Every cut point
of every payload is checked, not a sample. The damaged bytes sit at both ends
of the body and in its middle, and each header field is damaged on its own.
A header check left out lets a damaged container load, which
`CorruptionDetected` catches. A loader CRC loop one byte short rejects every
container, since the writer's loop keeps its own length; `RoundTrip` catches
that, not `CorruptionDetected`. The crafted containers are the
smallest that reach each path.

### Fairness

`Spec` has weak fairness on `Internal`, the interpreter and callback steps. This
is justified because:

- `vm_exec` is a single-threaded loop with no waits;
- the callbacks of `host.c` return.

The embedder has no fairness: it may stop calling at any time. The runs
therefore say `CHECK_DEADLOCK FALSE`.

`Crc32` and `Loader` have no liveness property and no fairness. Their runs
say `CHECK_DEADLOCK FALSE` because the loops really end: every iteration of
the section loop consumes at least its five header bytes or sets the error.

## 3. Plan

Done: `VM.tla`, `VMApi.tla` with the refinement, `Crc32.tla`, `Asm.tla` with
instruction emission and jump patching, `Loader.tla` with host.c's and the
unit tests' modules, and `rune_vm_mem_read` through host.c's callbacks. The
runs are listed above.

Next, in order:

1. **Stale staged arguments** (spec §9). The model already carries the staged
   values into callees and into `host_print_str`. What is missing is a
   history property saying which arguments a callee must receive.
2. **Loader ↔ VM.** Feed the tables `Loader` produces into `VM`'s module
   constants, so that an unvalidated export or `init_func` index is followed
   into `vm_exec` (vm.c:810).
3. **Remaining `VM` work:**
   - a per-call fuel run for host.c's comment;
   - determinism (spec §8).
4. **Divergences seen but not yet given a run.** Each is listed as a hazard
   in `PROJECT.json`:
   - duplicate registrations resolve first-match, where spec §4.5 says
     last-wins (vm.c:790);
   - FUNC before IMPORT leaves function 0 an unmarked, code-less body
     (vm.c:318);
   - a parser reading past its declared section size is accepted
     (vm.c:485, spec §4.1);
   - the assembler numbers functions in declaration order, while the loader
     puts imports first (rune_asm.c:206).
5. **Loader details:** an embedded zero in an `_init` name; repeated sections.

## 4. Not modelled

- **`src/rune.h`** declares the Rust FFI. Its implementation is not in the
  repository.
- **`src/PUSH.md`** is prose.
- **Other accessors.** `rune_vm_mem_write` and `rune_vm_mem_readstr` have no
  caller in the repository. The readstr hazard is listed in `PROJECT.json`.
- **Cleanup and I/O.** `rune_vm_free`, `rune_module_free`,
  `rune_module_load_file` and `rune_asm_free` only free or read files.
  `host.c`'s printing is I/O.
- **Allocation failure** anywhere. The `OOM` of `rune_vm_init` that `VM` does
  produce is the `memory_limit` check, not a failed `calloc`.
- **Opcodes.** The i64, float and conversion opcodes are not modelled.
- **Unit tests.** The modules of six tests are loader inputs in `MC_Loader`
  (`test_add_i32` and `test_host_calls` are covered by `AddB` and `HostB`).
  Their assertions on results are not checked: `VM` runs programs written as
  instruction records, not decoded bytes, and keeps narrower words.
