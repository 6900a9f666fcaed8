--------------------------------- MODULE VM ---------------------------------
(***************************************************************************)
(* One Rune VM instance (struct rune_vm, src/src/vm/vm.c) driven by its    *)
(* embedder: rune_vm_register, rune_vm_init, rune_vm_call, rune_vm_refuel, *)
(* and the interpreter vm_exec that runs guest bytecode for them.          *)
(*                                                                         *)
(* The C recursion of vm_exec and of host callbacks is the sequence        *)
(* cstack of activations.  A bytecode activation owns the register window *)
(* frames[slot], where slot is the value frame_count had when it was       *)
(* pushed; frame_count itself is the separate counter frameCount, so the   *)
(* model can tell the counter and the real call depth apart.  A host       *)
(* activation is a running callback; it may return, fail, or re-enter the  *)
(* VM through rune_vm_call.  One interpreter iteration (FUEL_TICK, fetch,  *)
(* execute) is one step.                                                   *)
(*                                                                         *)
(* Data is abstracted: i32 values are W-bit words, memory is an array of   *)
(* cells with one cell per access unit, and each modelled opcode family    *)
(* stands for the opcodes of vm.c that share its control flow.             *)
(***************************************************************************)
EXTENDS Integers, SequencesExt

CONSTANTS
  W,            \* width of i32/uint32 in the model, in bits
  StackSize,    \* cfg.stack_size: length of vm->frames
  NumRegs,      \* RUNE_MAX_REGS: size of a register window
  MaxParams,    \* RUNE_MAX_PARAMS: slots of vm->arg_buf
  PageSize,     \* RUNE_PAGE_SIZE, in memory cells
  MemLimits,    \* values of cfg.memory_limit (in cells) the embedder may pick
  FuelLimits,   \* values of cfg.fuel_limit the embedder may pick
  ImportName,   \* [0..K-1 -> names]: mod->imports[i] as one (module, name) value
  RegCount,     \* [body function -> reg_count]
  Code,         \* [body function -> Seq(word)]: the code slice of each body
  Exports,      \* Seq([kind, idx, name]): mod->exports in file order
  HasMemory,    \* mod->has_memory
  MemInitial,   \* mod->mem_initial_pages
  MemMaxDecl,   \* mod->mem_max_pages as declared (0 = same as initial)
  DataSegs,     \* Seq([offset, size, val]): mod->data_segs
  GlobalInit,   \* Seq(value): initial values of mod->globals
  HostFns,      \* registrations the embedder may make: [name, cb]
  CallNames,    \* export names the embedder may pass to rune_vm_call
  ArgVecs,      \* argument vectors the embedder may pass to rune_vm_call
  Budgets,      \* fuel budgets the embedder may pass to rune_vm_refuel
  MaxApiCalls,  \* bound on embedder operations
  MaxSteps,     \* bound on instructions dispatched between refuels
  ZeroTag,      \* type tag of an all-zero rune_val_t (header not in the repository)
  NoRet         \* model value: no result is in flight

Imports == DOMAIN ImportName
Bodies  == DOMAIN Code
Funcs   == Imports \cup Bodies
Regs    == 0..NumRegs - 1
Slots   == 0..StackSize - 1
Mod     == 2 ^ W

ASSUME /\ W \in 2..8 /\ StackSize \in Nat \ {0}
       /\ MaxParams \in 1..NumRegs
       /\ Imports = 0..Cardinality(Imports) - 1
       /\ Bodies = Cardinality(Imports)..Cardinality(Funcs) - 1

(* rune_val_t: a tagged union; i32 and bool share the integer bits v.     *)
I32(n)   == [t |-> "i32", v |-> n % Mod]
Bool(b)  == [t |-> "bool", v |-> IF b THEN 1 ELSE 0]
Void     == [t |-> "void", v |-> 0]
ZeroVal  == [t |-> ZeroTag, v |-> 0]
Value    == [t : {"i32", "bool", "void", ZeroTag}, v : 0..Mod - 1]
Signed(x) == IF x >= Mod \div 2 THEN x - Mod ELSE x

(* mod->init_func: the first FUNC export named "_init", or -1.           *)
InitFunc ==
  LET hits == {k \in 1..Len(Exports) :
                 Exports[k].kind = "FUNC" /\ Exports[k].name = "_init"}
  IN IF hits = {} THEN -1 ELSE Exports[Min(hits)].idx

(* The first FUNC export with this name, as rune_vm_call scans for it.   *)
ExportHits(name) ==
  {k \in 1..Len(Exports) : Exports[k].kind = "FUNC" /\ Exports[k].name = name}

(* The scan's result for every name rune_vm_call is passed, built once.  *)
CallHits == [n \in CallNames |-> ExportHits(n)]

VARIABLES
  hostFns,      \* vm->host_fns[0..host_fn_count)
  initialized,  \* vm->initialized
  memPages,     \* vm->memory_pages
  memMax,       \* vm->memory_max
  allocCells,   \* cells of the vm->memory buffer (0 = NULL)
  mem,          \* contents of vm->memory
  oob,          \* history: some write touched a cell outside the buffer
  globals,      \* vm->globals
  frames,       \* vm->frames[]: func_idx, pc, register window
  frameCount,   \* vm->frame_count
  argBuf,       \* vm->arg_buf
  argCount,     \* vm->arg_count
  fuelUsed,     \* vm->fuel_used
  fuelLimit,    \* vm->cfg.fuel_limit
  memLimit,     \* vm->cfg.memory_limit
  cstack,       \* the C call stack of vm_exec and host callback activations
  ret,          \* result travelling from a finished activation to its caller
  apiOp,        \* embedder operation in progress: "idle", "init" or "call"
  lastOp,       \* the embedder's latest operation
  lastErr,      \* rune_err_t returned by it
  lastVal,      \* *ret written by rune_vm_call
  executed,     \* history: instructions dispatched since rune_vm_new/refuel
  apiCount      \* embedder operations so far (bounded by MaxApiCalls)

vars == <<hostFns, initialized, memPages, memMax, allocCells, mem, oob,
          globals, frames, frameCount, argBuf, argCount, fuelUsed, fuelLimit,
          memLimit, cstack, ret, apiOp, lastOp, lastErr, lastVal, executed,
          apiCount>>
memVars  == <<memPages, memMax, allocCells, mem, oob>>
embedVars == <<hostFns, initialized, globals, fuelLimit, memLimit, lastOp,
               lastErr, lastVal, apiCount>>

ExecAct(s)       == [kind |-> "exec", slot |-> s, dst |-> 0, imp |-> 0,
                     cb |-> "none", phase |-> "none", args |-> <<>>]
HostAct(i, c, a) == [kind |-> "host", slot |-> 0, dst |-> 0, imp |-> i,
                     cb |-> c, phase |-> "run", args |-> a]
Result(e, v)  == [err |-> e, val |-> v]

(* vm_resolve_host: the FIRST registered entry whose name matches.       *)
Matches(i)  == {j \in 1..Len(hostFns) : hostFns[j].name = ImportName[i]}
Resolved(i) == i \in Imports /\ Matches(i) # {}
Entry(i)    == hostFns[Min(Matches(i))]

-----------------------------------------------------------------------------
(* vm_exec entry.  Each operator below defines frames', frameCount',      *)
(* cstack' and ret'; base is the C stack the new activation goes onto and *)
(* fr the frames array as the caller leaves it.                           *)

(* Mutation: the overflow test written with <= .                         *)
StackHasRoomLax == frameCount <= StackSize

(* The frame-overflow check guarding frames[frame_count++].              *)
StackHasRoom == frameCount < StackSize

(* An immediate error return to the caller on top of base.               *)
Fail(base, fr, e) ==
  /\ cstack' = base
  /\ frames' = fr
  /\ ret' = Result(e, Void)
  /\ UNCHANGED frameCount

(* Push a frame: zero the window, copy min(argc, reg_count) arguments.   *)
PushFrame(f, argv, base, fr) ==
  LET s == frameCount
      n == Min({Len(argv), RegCount[f]})
  IN /\ frames' = [fr EXCEPT ![s] =
                     [func |-> f, pc |-> 0,
                      regs |-> [r \in Regs |-> IF r < n THEN argv[r + 1]
                                                        ELSE ZeroVal]]]
     /\ frameCount' = s + 1
     /\ cstack' = Append(base, ExecAct(s))
     /\ ret' = NoRet

(* Mutation: the import path leaving through "done" (frame_count--)     *)
(* although it pushed no frame.                                            *)
HostDispatchPop(f, argv, base, fr) ==
  /\ cstack' = Append(base, HostAct(f, Entry(f).cb, argv))
  /\ frames' = fr
  /\ ret' = NoRet
  /\ frameCount' = frameCount - 1

(* A direct call of an import: h->fn runs on the C stack, no frame.       *)
HostDispatch(f, argv, base, fr) ==
  /\ cstack' = Append(base, HostAct(f, Entry(f).cb, argv))
  /\ frames' = fr
  /\ ret' = NoRet
  /\ UNCHANGED frameCount

(* vm_exec(vm, f, argc, argv): the not-initialized guard (vm.c:801) can   *)
(* never fire, since every caller runs with initialized already TRUE, and *)
(* is left out.  An import is dispatched to its host entry without a      *)
(* frame; init checked that every import resolves and the table is frozen *)
(* afterwards, so the NOIMPORT branch is kept only for fidelity.          *)
Enter(f, argv, base, fr) ==
  \/ /\ ~StackHasRoom
     /\ Fail(base, fr, "STACKOVERFLOW")
  \/ /\ StackHasRoom
     /\ f \in Imports
     /\ IF Resolved(f) THEN HostDispatch(f, argv, base, fr)
                        ELSE Fail(base, fr, "NOIMPORT")
  \/ /\ StackHasRoom
     /\ f \in Bodies
     /\ PushFrame(f, argv, base, fr)

(* rune_vm_call(vm, name, argc, argv, ret), from the embedder or from a   *)
(* host callback.                                                         *)
VmCall(name, argv, base) ==
  \/ /\ ~initialized
     /\ Fail(base, frames, "BADMODULE")
  \/ /\ initialized
     /\ CallHits[name] = {}
     /\ Fail(base, frames, "NOEXPORT")
  \/ /\ initialized
     /\ CallHits[name] # {}
     /\ Enter(Exports[Min(CallHits[name])].idx, argv, base, frames)

-----------------------------------------------------------------------------
(* Embedder operations.  The embedder is single-threaded: it starts an    *)
(* operation only when none is in progress.                               *)

EmbedderIdle ==
  /\ apiOp = "idle"
  /\ apiCount < MaxApiCalls

(* Mutation: rune_vm_register without its initialized check.              *)
RegisterNoInitCheck(h) ==
  /\ EmbedderIdle
  /\ apiCount' = apiCount + 1
  /\ lastOp' = "register"
  /\ hostFns' = Append(hostFns, h)
  /\ lastErr' = "OK"
  /\ UNCHANGED <<initialized, memVars, globals, frames, frameCount, argBuf,
                 argCount, fuelUsed, fuelLimit, memLimit, cstack, ret, apiOp,
                 lastVal, executed>>

(* rune_vm_register: append an entry; rejected once initialized.         *)
Register(h) ==
  /\ EmbedderIdle
  /\ apiCount' = apiCount + 1
  /\ lastOp' = "register"
  /\ \/ /\ initialized
        /\ lastErr' = "BADMODULE"
        /\ UNCHANGED hostFns
     \/ /\ ~initialized
        /\ hostFns' = Append(hostFns, h)
        /\ lastErr' = "OK"
  /\ UNCHANGED <<initialized, memVars, globals, frames, frameCount, argBuf,
                 argCount, fuelUsed, fuelLimit, memLimit, cstack, ret, apiOp,
                 lastVal, executed>>

(* rune_vm_init helpers: max_pages normalisation, the data segments in    *)
(* file order up to the first one that fails the (uint32) end check, and  *)
(* the cells each memcpy writes (offset is not wrapped: pointer + offset). *)
MaxPages    == IF MemMaxDecl > 0 THEN MemMaxDecl ELSE MemInitial
SegEnd(k)   == (DataSegs[k].offset + DataSegs[k].size) % Mod
SegCells(k) == {DataSegs[k].offset + j : j \in 0..DataSegs[k].size - 1}
BadSegs     == {k \in 1..Len(DataSegs) : SegEnd(k) > MemInitial * PageSize}
Applied     == IF BadSegs = {} THEN 1..Len(DataSegs) ELSE 1..Min(BadSegs) - 1
InitMem ==
  [c \in 0..MaxPages * PageSize - 1 |->
     LET ks == {k \in Applied : c \in SegCells(k)}
     IN IF ks = {} THEN 0 ELSE DataSegs[Max(ks)].val]
InitWritesOutside ==
  \E k \in Applied : \E c \in SegCells(k) : c >= MaxPages * PageSize

(* Mutation: initialized set before the data segments are applied.       *)
DataSegFailedLate ==
  /\ lastErr' = "BOUNDS"
  /\ initialized' = TRUE
  /\ globals' = GlobalInit
  /\ UNCHANGED <<frames, frameCount, cstack, ret, apiOp>>

(* A data segment ends past the initial pages: BOUNDS, before the globals *)
(* are copied and before initialized is set.                              *)
DataSegFailed ==
  /\ lastErr' = "BOUNDS"
  /\ UNCHANGED <<initialized, globals, frames, frameCount, cstack, ret, apiOp>>

(* rune_vm_init: imports, memory limit, allocation, data segments,        *)
(* globals, initialized := TRUE, then _init through vm_exec.             *)
InitVm ==
  /\ EmbedderIdle
  /\ apiCount' = apiCount + 1
  /\ lastOp' = "init"
  /\ \/ /\ \E i \in Imports : Matches(i) = {}
        /\ lastErr' = "NOIMPORT"
        /\ UNCHANGED <<initialized, memVars, globals, frames, frameCount,
                       cstack, ret, apiOp>>
     \/ /\ \A i \in Imports : Matches(i) # {}
        /\ HasMemory /\ MaxPages * PageSize > memLimit
        /\ lastErr' = "OOM"
        /\ UNCHANGED <<initialized, memVars, globals, frames, frameCount,
                       cstack, ret, apiOp>>
     \/ /\ \A i \in Imports : Matches(i) # {}
        /\ ~HasMemory \/ MaxPages * PageSize <= memLimit
        /\ IF HasMemory
             THEN /\ mem' = InitMem
                  /\ allocCells' = MaxPages * PageSize
                  /\ memPages' = MemInitial
                  /\ memMax' = MaxPages
                  /\ oob' = (oob \/ InitWritesOutside)
             ELSE UNCHANGED memVars
        /\ IF HasMemory /\ BadSegs # {}
             THEN DataSegFailed
             ELSE /\ globals' = GlobalInit
                  /\ initialized' = TRUE
                  /\ IF InitFunc >= 0
                       THEN /\ apiOp' = "init"
                            /\ Enter(InitFunc, <<>>, <<>>, frames)
                            /\ UNCHANGED lastErr
                       ELSE /\ lastErr' = "OK"
                            /\ UNCHANGED <<frames, frameCount, cstack, ret,
                                           apiOp>>
  /\ UNCHANGED <<hostFns, argBuf, argCount, fuelUsed, fuelLimit, memLimit,
                 lastVal, executed>>

(* rune_vm_call from the embedder.                                        *)
CallExport(name, argv) ==
  /\ EmbedderIdle
  /\ apiCount' = apiCount + 1
  /\ apiOp' = "call"
  /\ lastOp' = "call"
  /\ VmCall(name, argv, <<>>)
  /\ UNCHANGED <<hostFns, initialized, memVars, globals, argBuf, argCount,
                 fuelUsed, fuelLimit, memLimit, lastErr, lastVal, executed>>

(* rune_vm_refuel: reset the counter and set a new budget.               *)
Refuel(b) ==
  /\ EmbedderIdle
  /\ apiCount' = apiCount + 1
  /\ lastOp' = "refuel"
  /\ fuelUsed' = 0
  /\ fuelLimit' = b
  /\ executed' = 0
  /\ UNCHANGED <<hostFns, initialized, memVars, globals, frames, frameCount,
                 argBuf, argCount, memLimit, cstack, ret, apiOp, lastErr,
                 lastVal>>

(* The outermost activation has returned: the embedder's call returns.    *)
Complete ==
  /\ apiOp # "idle"
  /\ cstack = <<>>
  /\ ret # NoRet
  /\ lastErr' = ret.err
  /\ lastVal' = IF apiOp = "call" THEN ret.val ELSE lastVal
  /\ ret' = NoRet
  /\ apiOp' = "idle"
  /\ UNCHANGED <<hostFns, initialized, memVars, globals, frames, frameCount,
                 argBuf, argCount, fuelUsed, fuelLimit, memLimit, cstack,
                 lastOp, executed, apiCount>>

-----------------------------------------------------------------------------
(* The interpreter loop of vm_exec.  The running activation is the top of *)
(* cstack when it is a bytecode activation and no result is in flight.    *)

Top   == Last(cstack)
Cur   == frames[Top.slot]
Body  == Code[Cur.func]
PC    == Cur.pc
IW    == Body[PC + 1]                 \* code[PC]: the instruction word
Imm   == Body[PC + 2].imm             \* read_imm32: the word after it
R(n)  == Cur.regs[n]

ExecRunning ==
  /\ cstack # <<>>
  /\ Top.kind = "exec"
  /\ ret = NoRet
  /\ Cur.func \in Bodies

(* while (PC < code_words) *)
InCode == PC < Len(Body)

(* FUEL_TICK: ++fuel_used > fuel_limit, only when a limit is set.        *)
(* Mutations: the limit tested before the increment; the tick dropped.   *)
FuelOutLate == fuelLimit > 0 /\ fuelUsed > fuelLimit
TickNone    == fuelUsed

FuelOut == fuelLimit > 0 /\ fuelUsed + 1 > fuelLimit
Tick    == IF fuelLimit > 0 THEN fuelUsed + 1 ELSE fuelUsed

(* NEXT(): a fuel tick that passes, then the fetch of an opcode.  The    *)
(* dispatch count is capped by MaxSteps when no fuel limit is set.       *)
Dispatch(ops) ==
  /\ ExecRunning
  /\ InCode
  /\ ~FuelOut
  /\ executed < MaxSteps
  /\ IW.op \in ops
  /\ fuelUsed' = Tick
  /\ executed' = executed + 1

(* Set the running frame's pc and registers.                              *)
SetFrame(npc, regs) ==
  frames' = [frames EXCEPT ![Top.slot] = [@ EXCEPT !.pc = npc, !.regs = regs]]

(* "goto done": frame_count--, return result to the caller.              *)
Done(e, v) ==
  /\ frameCount' = frameCount - 1
  /\ cstack' = Front(cstack)
  /\ ret' = Result(e, v)

(* A direct "return" out of vm_exec from MEM_CHECK or FUEL_TICK: the      *)
(* activation ends but frame_count is NOT decremented.                    *)
Bail(e) ==
  /\ cstack' = Front(cstack)
  /\ ret' = Result(e, Void)
  /\ UNCHANGED frameCount

(* Jump target: PC is already past the immediate; uint32 arithmetic.     *)
Target == (PC + 2 + Signed(Imm)) % Mod

(* The zero test shared by JZ and JNZ: bool by !b, i32 by == 0, any other *)
(* tag (including void and f32/f64) counts as non-zero.                   *)
IsZero(c) == c.t \in {"bool", "i32"} /\ c.v = 0

(* DIV32, DIVU32, REM32 and REMU32 test the divisor for zero only; the    *)
(* unsigned ones read both operands as uint32.  INT_MIN / -1 and          *)
(* INT_MIN % -1 are undefined behaviour: the build may produce the        *)
(* two's-complement wrap (what AArch64's sdiv gives) or raise SIGFPE      *)
(* (x86's idiv), which kills the embedding process in the middle of the   *)
(* call; the dead process is an activation that never takes a step.       *)
DivOps == {"DIV32", "DIVU32", "REM32", "REMU32"}
DivOverflow(op, a, b) == op \in {"DIV32", "REM32"} /\ a = -(Mod \div 2) /\ b = -1

Killed == [kind |-> "killed", slot |-> 0, dst |-> 0, imp |-> 0, cb |-> "none",
           phase |-> "none", args |-> <<>>]

(* The bit operations: a shift count is masked to the width (b & 31).     *)
BitOps   == {"AND32", "OR32", "XOR32", "SHL32", "SHR32", "SHRU32", "NEG32",
             "NOT32", "CLZ32", "CTZ32", "POPCNT32"}
IntOps   == {"ADD32", "SUB32", "MUL32"} \cup DivOps \cup BitOps
CmpOps   == {"EQ32", "NE32", "LT32", "LE32", "GT32", "GE32", "LTU32", "LEU32"}
BoolOps  == {"LDTRUE", "LDFALSE", "BOOL_TO_I32"}
ArithOps == IntOps \cup CmpOps \cup BoolOps
JumpOps  == {"JMP", "JZ", "JNZ", "JLT", "JLE"}
KnownOps == IntOps \cup CmpOps \cup JumpOps \cup
            {"NOP", "TRAP", "RET", "CALL", "CALL_HOST", "ARG", "LDI32", "MOV",
             "LDGLOBAL", "STGLOBAL", "LOAD", "STORE", "MEM_SIZE", "MEM_GROW",
             "MEM_COPY", "MEM_FILL"} \cup BoolOps

VmUnchanged == UNCHANGED <<embedVars, apiOp>>

(* The loop condition fails: implicit return of R0 (vm.c:1245).          *)
FallOff ==
  /\ ExecRunning
  /\ ~InCode
  /\ Done("OK", R(0))
  /\ UNCHANGED <<memVars, frames, argBuf, argCount, fuelUsed, executed>>
  /\ VmUnchanged

(* FUEL_TICK fails: fuel_used is still incremented, then return FUEL.    *)
FuelExhausted ==
  /\ ExecRunning
  /\ InCode
  /\ FuelOut
  /\ fuelUsed' = fuelUsed + 1
  /\ Bail("FUEL")
  /\ UNCHANGED <<memVars, frames, argBuf, argCount, executed>>
  /\ VmUnchanged

ExecNop ==
  /\ Dispatch({"NOP"})
  /\ SetFrame(PC + 1, Cur.regs)
  /\ UNCHANGED <<memVars, frameCount, argBuf, argCount, cstack, ret>>
  /\ VmUnchanged

ExecTrap ==
  /\ Dispatch({"TRAP"})
  /\ Done("TRAP", Void)
  /\ UNCHANGED <<memVars, frames, argBuf, argCount>>
  /\ VmUnchanged

ExecRet ==
  /\ Dispatch({"RET"})
  /\ Done("OK", R(0))
  /\ UNCHANGED <<memVars, frames, argBuf, argCount>>
  /\ VmUnchanged

(* JMP/JZ/JNZ/JLT/JLE: signed offset from the word after the immediate.  *)
Taken ==
  CASE IW.op = "JMP" -> TRUE
    [] IW.op = "JZ"  -> IsZero(R(IW.s1))
    [] IW.op = "JNZ" -> ~IsZero(R(IW.s1))
    [] IW.op = "JLT" -> Signed(R(IW.s1).v) < Signed(R(IW.s2).v)
    [] IW.op = "JLE" -> Signed(R(IW.s1).v) <= Signed(R(IW.s2).v)

ExecJump ==
  /\ Dispatch(JumpOps)
  /\ SetFrame(IF Taken THEN Target ELSE PC + 2, Cur.regs)
  /\ UNCHANGED <<memVars, frameCount, argBuf, argCount, cstack, ret>>
  /\ VmUnchanged

(* The staged arguments vm->arg_buf[0..arg_count).                       *)
Staged == [k \in 1..argCount |-> argBuf[k - 1]]

(* The caller, suspended at PC past the immediate, waiting to store the   *)
(* callee's result in R(dst).                                             *)
Suspended == [cstack EXCEPT ![Len(cstack)].dst = IW.dst]
Advanced  == [frames EXCEPT ![Top.slot].pc = PC + 2]

(* CALL fi: take the staged args, clear arg_count, recurse into vm_exec.  *)
ExecCall ==
  /\ Dispatch({"CALL"})
  /\ argCount' = 0
  /\ Enter(Imm, Staged, Suspended, Advanced)
  /\ UNCHANGED <<memVars, argBuf>>
  /\ VmUnchanged

(* CALL_HOST i: an unresolved import fails before arg_count is cleared.   *)
ExecCallHost ==
  /\ Dispatch({"CALL_HOST"})
  /\ IF Resolved(Imm)
       THEN /\ argCount' = 0
            /\ cstack' = Append(Suspended, HostAct(Imm, Entry(Imm).cb, Staged))
            /\ frames' = Advanced
            /\ UNCHANGED <<frameCount, ret>>
       ELSE /\ Done("NOIMPORT", Void)
            /\ UNCHANGED <<argCount, frames>>
  /\ UNCHANGED <<memVars, argBuf>>
  /\ VmUnchanged

(* ARG dst s1 s2 (vm.c:944-950): the first store, to arg_buf[s1], happens *)
(* whenever s1 < RUNE_MAX_PARAMS; then arg_buf[dst] = R(s1).               *)
ExecArg ==
  /\ Dispatch({"ARG"})
  /\ LET first == IF IW.s1 < MaxParams
                    THEN [argBuf EXCEPT ![IW.s1] =
                            R(IF IW.s2 # 0 THEN IW.s2 ELSE IW.dst)]
                    ELSE argBuf
     IN argBuf' = [first EXCEPT ![IW.dst] = R(IW.s1)]
  /\ argCount' = IF IW.dst >= argCount THEN IW.dst + 1 ELSE argCount
  /\ SetFrame(PC + 1, Cur.regs)
  /\ UNCHANGED <<memVars, frameCount, cstack, ret>>
  /\ VmUnchanged

(* An instruction that only writes R(dst) and moves on.                   *)
WriteReg(len, v) ==
  /\ SetFrame(PC + len, [Cur.regs EXCEPT ![IW.dst] = v])
  /\ UNCHANGED <<memVars, frameCount, argBuf, argCount, cstack, ret>>
  /\ VmUnchanged

ExecLdi == Dispatch({"LDI32"}) /\ WriteReg(2, I32(Imm))
ExecMov == Dispatch({"MOV"}) /\ WriteReg(1, R(IW.s1))

(* Bit i of an unsigned word; bit p op bit q for &, | and ^ of C; the   *)
(* word whose every bit is that of the operands' bits; the number of      *)
(* significant bits and the index of the lowest set bit.                   *)
Words         == 0..Mod - 1
Bit(u, i)     == (u \div 2 ^ i) % 2
BitOf(op, p, q) ==
  CASE op = "AND32" -> p * q
    [] op = "OR32"  -> IF p + q > 0 THEN 1 ELSE 0
    [] op = "XOR32" -> (p + q) % 2
BitWise(op, x, y) ==
  CHOOSE z \in Words : \A i \in 0..W - 1 : Bit(z, i) = BitOf(op, Bit(x, i), Bit(y, i))
BitLen(u)  == CHOOSE n \in 0..W : u < 2 ^ n /\ (n = 0 \/ u >= 2 ^ (n - 1))
LowBit(u)  == CHOOSE n \in 0..W - 1 : Bit(u, n) = 1 /\ u % 2 ^ n = 0

(* The three operations as tables over all words, built once.            *)
BitTab == [op \in {"AND32", "OR32", "XOR32"} |->
             [p \in Words \X Words |-> BitWise(op, p[1], p[2])]]
Shift(b)   == BitTab["AND32"][b % Mod, W - 1]

(* The bit operations, the comparisons beyond EQ, LT and LE, and the      *)
(* bool loads; the unsigned ones read the operands as uint32 (x % Mod).   *)
BitArith(op, a, b) ==
  LET ua == a % Mod  ub == b % Mod
  IN CASE op \in {"AND32", "OR32", "XOR32"} -> I32(BitTab[op][ua, ub])
       [] op = "SHL32"    -> I32(a * 2 ^ Shift(b))
       [] op = "SHR32"    -> I32(a \div 2 ^ Shift(b))
       [] op = "SHRU32"   -> I32(ua \div 2 ^ Shift(b))
       [] op = "NEG32"    -> I32(-a)
       [] op = "NOT32"    -> I32(-a - 1)
       [] op = "CLZ32"    -> I32(W - BitLen(ua))
       [] op = "CTZ32"    -> I32(IF ua = 0 THEN W ELSE LowBit(ua))
       [] op = "POPCNT32" -> I32(Cardinality({i \in 0..W - 1 : Bit(ua, i) = 1}))
       [] op = "NE32"     -> Bool(a # b)
       [] op = "GT32"     -> Bool(a > b)
       [] op = "GE32"     -> Bool(a >= b)
       [] op = "LTU32"    -> Bool(ua < ub)
       [] op = "LEU32"    -> Bool(ua <= ub)
       [] op = "LDTRUE"   -> Bool(TRUE)
       [] op = "LDFALSE"  -> Bool(FALSE)

(* C division truncates toward zero, and % takes the sign of the dividend. *)
Quot(a, b) == IF (a < 0) = (b < 0) THEN (IF a < 0 THEN -a ELSE a) \div
                                       (IF b < 0 THEN -b ELSE b)
              ELSE -((IF a < 0 THEN -a ELSE a) \div (IF b < 0 THEN -b ELSE b))

(* Mutation: results not reduced to 32 bits.                             *)
ArithNoWrap(op, a, b) ==
  CASE op = "ADD32" -> [t |-> "i32", v |-> a + b]
    [] op = "SUB32" -> [t |-> "i32", v |-> a - b]
    [] op = "MUL32" -> [t |-> "i32", v |-> a * b]
    [] op = "DIV32" -> I32(Quot(a, b))
    [] op = "REM32" -> I32(a - Quot(a, b) * b)
    [] op = "DIVU32" -> I32((a % Mod) \div (b % Mod))
    [] op = "REMU32" -> I32((a % Mod) % (b % Mod))
    [] op = "EQ32"  -> Bool(a = b)
    [] op = "LT32"  -> Bool(a < b)
    [] op = "LE32"  -> Bool(a <= b)
    [] OTHER        -> BitArith(op, a, b)

Arith(op, a, b) ==
  CASE op = "ADD32" -> I32(a + b)
    [] op = "SUB32" -> I32(a - b)
    [] op = "MUL32" -> I32(a * b)
    [] op = "DIV32" -> I32(Quot(a, b))
    [] op = "REM32" -> I32(a - Quot(a, b) * b)
    [] op = "DIVU32" -> I32((a % Mod) \div (b % Mod))
    [] op = "REMU32" -> I32((a % Mod) % (b % Mod))
    [] op = "EQ32"  -> Bool(a = b)
    [] op = "LT32"  -> Bool(a < b)
    [] op = "LE32"  -> Bool(a <= b)
    [] OTHER        -> BitArith(op, a, b)

(* BOOL_TO_I32 reads the register's .as.b, its low byte.  A byte other    *)
(* than 0 or 1 is not a bool: the compiler may branch on it (1) or widen  *)
(* it as it stands (the byte itself), and either build is possible.       *)
BoolToI32(v) == IF v \in {0, 1} THEN {v} ELSE {1, v}

(* The instructions that write R(dst) from R(s1) and R(s2): i32           *)
(* arithmetic and comparisons on the .as.i32 bits, whatever the tag, the  *)
(* bool loads and BOOL_TO_I32.                                            *)
ExecArith ==
  /\ Dispatch(ArithOps)
  /\ LET a == Signed(R(IW.s1).v)
         b == Signed(R(IW.s2).v)
     IN \/ /\ IW.op \in DivOps /\ b = 0
           /\ Done("DIVZERO", Void)
           /\ UNCHANGED <<memVars, frames, argBuf, argCount>>
           /\ VmUnchanged
        \/ /\ DivOverflow(IW.op, a, b)
           /\ cstack' = <<Killed>>
           /\ UNCHANGED <<memVars, frames, frameCount, argBuf, argCount, ret>>
           /\ VmUnchanged
        \/ /\ IW.op = "BOOL_TO_I32"
           /\ \E r \in BoolToI32(R(IW.s1).v) : WriteReg(1, I32(r))
        \/ /\ ~(IW.op \in DivOps /\ b = 0) /\ IW.op # "BOOL_TO_I32"
           /\ WriteReg(1, Arith(IW.op, a, b))

(* LDGLOBAL / STGLOBAL gi: an index past global_count is BOUNDS.         *)
ExecGlobal ==
  /\ Dispatch({"LDGLOBAL", "STGLOBAL"})
  /\ \/ /\ Imm >= Len(GlobalInit)
        /\ Done("BOUNDS", Void)
        /\ UNCHANGED <<memVars, frames, argBuf, argCount, globals>>
     \/ /\ Imm < Len(GlobalInit) /\ IW.op = "LDGLOBAL"
        /\ SetFrame(PC + 2, [Cur.regs EXCEPT ![IW.dst] = globals[Imm + 1]])
        /\ UNCHANGED <<memVars, frameCount, argBuf, argCount, cstack, ret,
                       globals>>
     \/ /\ Imm < Len(GlobalInit) /\ IW.op = "STGLOBAL"
        /\ globals' = [globals EXCEPT ![Imm + 1] = R(IW.s1)]
        /\ SetFrame(PC + 2, Cur.regs)
        /\ UNCHANGED <<memVars, frameCount, argBuf, argCount, cstack, ret>>
  /\ UNCHANGED <<hostFns, initialized, fuelLimit, memLimit, lastOp, lastErr,
                 lastVal, apiCount, apiOp>>

-----------------------------------------------------------------------------
(* Linear memory.  One cell per access unit; allocCells is the size of the *)
(* calloc'd buffer, memPages * PageSize the bound MEM_CHECK enforces.      *)

MemPresent == allocCells > 0          \* vm->memory != NULL

(* MEM_CHECK(offset, sz): 64-bit sum, so the check itself cannot wrap.    *)
MemCheck(off, sz) == MemPresent /\ off + sz <= memPages * PageSize

Cells(off, sz) == {off + j : j \in 0..sz - 1}

(* A read outside the buffer is undefined; it yields some cell value.     *)
ReadCell(c) == IF c < allocCells THEN mem[c] ELSE 0

(* Write f[c] to each cell c of S; a cell past the buffer is corruption.  *)
WriteCells(S, f) ==
  /\ mem' = [c \in DOMAIN mem |-> IF c \in S THEN f[c] ELSE mem[c]]
  /\ oob' = (oob \/ \E c \in S : c >= allocCells)
  /\ UNCHANGED <<memPages, memMax, allocCells>>

Off == (R(IW.s1).v + Imm) % Mod       \* uint32 off = R(s1) + imm

(* LOADx / STOREx dst, s1, imm: MEM_CHECK returns BOUNDS directly.        *)
ExecLoadStore ==
  /\ Dispatch({"LOAD", "STORE"})
  /\ \/ /\ ~MemCheck(Off, 1)
        /\ Bail("BOUNDS")
        /\ UNCHANGED <<memVars, frames, argBuf, argCount>>
        /\ VmUnchanged
     \/ /\ MemCheck(Off, 1) /\ IW.op = "LOAD"
        /\ SetFrame(PC + 2, [Cur.regs EXCEPT ![IW.dst] = I32(ReadCell(Off))])
        /\ oob' = (oob \/ Off >= allocCells)
        /\ UNCHANGED <<memPages, memMax, allocCells, mem, frameCount, argBuf,
                       argCount, cstack, ret>>
        /\ VmUnchanged
     \/ /\ MemCheck(Off, 1) /\ IW.op = "STORE"
        /\ WriteCells({Off}, [c \in {Off} |-> R(IW.dst).v])
        /\ SetFrame(PC + 2, Cur.regs)
        /\ UNCHANGED <<frameCount, argBuf, argCount, cstack, ret>>
        /\ VmUnchanged

ExecMemSize == Dispatch({"MEM_SIZE"}) /\ WriteReg(1, I32(memPages))

(* MEM_GROW dst, s1: new_pages = memory_pages + req in uint32; the memset *)
(* clears req * RUNE_PAGE_SIZE bytes (also uint32) from the old end.      *)
(* Mutation: the request, not the new page count, compared with the max. *)
GrowFitsReq(req, newPages) == req <= memMax

GrowFits(req, newPages) == newPages <= memMax

ExecMemGrow ==
  /\ Dispatch({"MEM_GROW"})
  /\ LET req      == R(IW.s1).v
         newPages == (memPages + req) % Mod
         cleared  == Cells(memPages * PageSize, (req * PageSize) % Mod)
     IN \/ /\ ~GrowFits(req, newPages)
           /\ WriteReg(1, I32(-1))
        \/ /\ GrowFits(req, newPages)
           /\ mem' = [c \in DOMAIN mem |-> IF c \in cleared THEN 0 ELSE mem[c]]
           /\ oob' = (oob \/ \E c \in cleared : c >= allocCells)
           /\ memPages' = newPages
           /\ SetFrame(PC + 1, [Cur.regs EXCEPT ![IW.dst] = I32(memPages)])
           /\ UNCHANGED <<memMax, allocCells, frameCount, argBuf, argCount,
                          cstack, ret>>
           /\ VmUnchanged

(* MEM_FILL dst, s1, s2: memset(memory + R(dst), R(s1), R(s2)).           *)
(* MEM_COPY dst, s1, s2: memmove(memory + R(dst), memory + R(s1), R(s2)). *)
ExecMemBulk ==
  /\ Dispatch({"MEM_FILL", "MEM_COPY"})
  /\ LET pdst == R(IW.dst).v
         psrc == R(IW.s1).v
         sz   == R(IW.s2).v
         ok   == MemCheck(pdst, sz) /\ (IW.op = "MEM_COPY" => MemCheck(psrc, sz))
     IN \/ /\ ~ok
           /\ Bail("BOUNDS")
           /\ UNCHANGED <<memVars, frames, argBuf, argCount>>
           /\ VmUnchanged
        \/ /\ ok
           /\ WriteCells(Cells(pdst, sz),
                [c \in Cells(pdst, sz) |->
                   IF IW.op = "MEM_FILL" THEN psrc
                   ELSE ReadCell(psrc + (c - pdst))])
           /\ SetFrame(PC + 1, Cur.regs)
           /\ UNCHANGED <<frameCount, argBuf, argCount, cstack, ret>>
           /\ VmUnchanged

(* default: an opcode the switch does not know.                           *)
ExecBadOpcode ==
  /\ ExecRunning /\ InCode /\ ~FuelOut /\ executed < MaxSteps
  /\ IW.op \notin KnownOps
  /\ fuelUsed' = Tick
  /\ executed' = executed + 1
  /\ Done("BADOPCODE", Void)
  /\ UNCHANGED <<memVars, frames, argBuf, argCount>>
  /\ VmUnchanged

-----------------------------------------------------------------------------
(* Results arriving at a suspended activation.                            *)

(* CALL / CALL_HOST: result OK, so R(dst) = ret and the loop goes on.     *)
CallReturned ==
  /\ cstack # <<>> /\ Top.kind = "exec" /\ ret # NoRet
  /\ ret.err = "OK"
  /\ frames' = [frames EXCEPT ![Top.slot].regs[Top.dst] = ret.val]
  /\ ret' = NoRet
  /\ UNCHANGED <<memVars, frameCount, argBuf, argCount, fuelUsed, executed,
                 cstack>>
  /\ VmUnchanged

(* CALL / CALL_HOST: an error result, so "goto done" with it.            *)
CallFailed ==
  /\ cstack # <<>> /\ Top.kind = "exec" /\ ret # NoRet
  /\ ret.err # "OK"
  /\ Done(ret.err, Void)
  /\ UNCHANGED <<memVars, frames, argBuf, argCount, fuelUsed, executed>>
  /\ VmUnchanged

(* Host callbacks, each given the argc/argv it was called with.  "i32"   *)
(* and "str" are host_print_i32 and host_print_str of examples/host.c;    *)
(* "reenter" calls an export through rune_vm_call with no arguments.      *)
HostUnchanged == UNCHANGED <<memVars, frames, frameCount, argBuf, argCount,
                             fuelUsed, executed>> /\ VmUnchanged

(* host_print_i32: TYPE unless argv[0] is an i32; *ret = void.            *)
PrintI32(args) ==
  IF Len(args) >= 1 /\ args[1].t = "i32" THEN Result("OK", Void)
                                        ELSE Result("TYPE", Void)

(* rune_vm_mem_read: the size_t sum offset + len cannot wrap.             *)
MemReadOk(off, len) == MemPresent /\ off + len <= memPages * PageSize

(* host_print_str: ptr is argv[0]'s bits, len argv[1] as an int32; TYPE   *)
(* for fewer than two arguments, BOUNDS for len outside 0..65536 or from  *)
(* rune_vm_mem_read, which otherwise copies the len cells at ptr.         *)
PrintStr(args) ==
  LET ptr == args[1].v
      len == Signed(args[2].v)
  IN IF Len(args) < 2 THEN Result("TYPE", Void)
     ELSE IF len < 0 \/ len > 65536 \/ ~MemReadOk(ptr, len)
          THEN Result("BOUNDS", Void)
          ELSE Result("OK", Void)

StrCells(args) ==
  IF PrintStr(args).err = "OK" THEN Cells(args[1].v, Signed(args[2].v)) ELSE {}

HostReturn ==
  /\ cstack # <<>> /\ Top.kind = "host" /\ Top.phase = "run"
  /\ cstack' = Front(cstack)
  /\ \/ /\ Top.cb = "i32"
        /\ ret' = PrintI32(Top.args)
        /\ UNCHANGED oob
     \/ /\ Top.cb = "str"
        /\ ret' = PrintStr(Top.args)
        /\ oob' = (oob \/ \E c \in StrCells(Top.args) : c >= allocCells)
  /\ UNCHANGED <<memPages, memMax, allocCells, mem, frames, frameCount,
                 argBuf, argCount, fuelUsed, executed>>
  /\ VmUnchanged

HostReenter ==
  /\ cstack # <<>> /\ Top.kind = "host" /\ Top.phase = "run"
  /\ Top.cb = "reenter"
  /\ \E n \in CallNames :
       VmCall(n, <<>>, [cstack EXCEPT ![Len(cstack)].phase = "wait"])
  /\ UNCHANGED <<memVars, argBuf, argCount, fuelUsed, executed>>
  /\ VmUnchanged

(* A re-entering callback gets rune_vm_call's result back; it may return *)
(* that error, or ignore it and return OK with the value.                *)
HostResume ==
  /\ cstack # <<>> /\ Top.kind = "host" /\ Top.phase = "wait"
  /\ ret # NoRet
  /\ cstack' = Front(cstack)
  /\ ret' \in {ret, Result("OK", ret.val)}
  /\ HostUnchanged

-----------------------------------------------------------------------------
(* rune_vm_new: everything zeroed by calloc, the config chosen by the     *)
(* embedder.                                                              *)
Init ==
  /\ hostFns = <<>>
  /\ initialized = FALSE
  /\ memPages = 0 /\ memMax = 0 /\ allocCells = 0
  /\ mem = [c \in {} |-> 0]
  /\ oob = FALSE
  /\ globals = <<>>
  /\ frames = [s \in Slots |-> [func |-> 0, pc |-> 0,
                                regs |-> [r \in Regs |-> ZeroVal]]]
  /\ frameCount = 0
  /\ argBuf = [k \in 0..MaxParams - 1 |-> ZeroVal]
  /\ argCount = 0
  /\ fuelUsed = 0
  /\ fuelLimit \in FuelLimits
  /\ memLimit \in MemLimits
  /\ cstack = <<>>
  /\ ret = NoRet
  /\ apiOp = "idle"
  /\ lastOp = "new"
  /\ lastErr = "OK"
  /\ lastVal = Void
  /\ executed = 0
  /\ apiCount = 0

(* Steps of the interpreter and of host callbacks: the embedder's thread *)
(* is inside rune_vm_init or rune_vm_call.                                *)
Internal ==
  \/ FallOff \/ FuelExhausted \/ ExecNop \/ ExecTrap \/ ExecRet \/ ExecJump
  \/ ExecCall \/ ExecCallHost \/ ExecArg \/ ExecLdi \/ ExecMov \/ ExecArith
  \/ ExecGlobal \/ ExecLoadStore
  \/ ExecMemSize \/ ExecMemGrow \/ ExecMemBulk \/ ExecBadOpcode
  \/ CallReturned \/ CallFailed \/ HostReturn \/ HostReenter \/ HostResume
  \/ Complete

Embedder ==
  /\ EmbedderIdle      \* each operation's own first guard, checked once
  /\ \/ \E h \in HostFns : Register(h)
     \/ InitVm
     \/ \E n \in CallNames, a \in ArgVecs : CallExport(n, a)
     \/ \E b \in Budgets : Refuel(b)

Next == Internal \/ Embedder

(* vm_exec is a single-threaded loop and host callbacks return: a started *)
(* operation keeps taking steps.  The embedder itself may stop calling.   *)
Spec == Init /\ [][Next]_vars /\ WF_vars(Internal)

-----------------------------------------------------------------------------
TypeOK ==
  /\ initialized \in BOOLEAN /\ oob \in BOOLEAN
  /\ frameCount \in Nat /\ argCount \in Nat /\ fuelUsed \in Nat
  /\ \A s \in Slots : frames[s].pc \in Nat /\ frames[s].regs \in [Regs -> Value]
  /\ argBuf \in [0..MaxParams - 1 -> Value]
  /\ \A k \in 1..Len(cstack) : cstack[k].kind \in {"exec", "host", "killed"}
  /\ ret = NoRet \/ ret.val \in Value
  /\ apiOp \in {"idle", "init", "call"}

(* Every frame vm_exec pushes lies inside vm->frames (frame_count <       *)
(* stack_size at each push), whatever frames earlier traps leaked and     *)
(* however host callbacks re-enter.                                       *)
FrameBound ==
  /\ frameCount <= StackSize
  /\ \A k \in 1..Len(cstack) : cstack[k].kind = "exec" => cstack[k].slot \in Slots

(* A step never changes the register window or pc of a bytecode          *)
(* activation suspended below the top of the call stack: a callee, a host *)
(* callback or a re-entrant call never reuses a live frame slot.          *)
CallerFramesPreserved ==
  [][\A k \in 1..Len(cstack) :
       (k < Len(cstack) /\ k < Len(cstack') /\ cstack[k].kind = "exec")
         => frames'[cstack[k].slot] = frames[cstack[k].slot]]_vars

(* No more instructions are dispatched between two refuels than the fuel  *)
(* limit, counting nested calls and host re-entry (one shared counter).   *)
FuelBound == fuelLimit > 0 => executed <= fuelLimit

(* With a fuel limit every rune_vm_init / rune_vm_call returns.           *)
CallsTerminate == apiOp # "idle" ~> apiOp = "idle"

(* MEM_GROW never makes the checked size larger than the allocation.      *)
PagesWithinAllocation == memPages * PageSize <= allocCells

(* No load, store, memset or memcpy of the VM touches a cell outside the  *)
(* linear-memory buffer (spec section 8, bounds safety).                  *)
MemorySafe == ~oob

(* Spec section 8, stack discipline: frame_count is the same before and   *)
(* after any completed rune_vm_call (0 whenever the embedder is idle).    *)
StackDiscipline == apiOp = "idle" => frameCount = 0

(* Spec section 4.5: a failing rune_vm_init leaves the VM uninitialized.  *)
InitFailureLeavesUninitialized ==
  (apiOp = "idle" /\ lastOp = "init" /\ lastErr # "OK") => ~initialized

(* The VM implements VMApi: the embedder sees registration frozen by      *)
(* initialization, rune_vm_init failing before initialized is set unless  *)
(* it is _init that fails, a call on an uninitialized VM returning         *)
(* BADMODULE, and every call on an initialized VM, through nested calls,   *)
(* host callbacks and re-entry, ending with OK or an execution error and   *)
(* leaving the registrations, initialized and the fuel limit as they were. *)
Api == INSTANCE VMApi WITH registered <- hostFns, op <- apiOp, err <- lastErr,
                           fuel <- fuelLimit, Needed <- {ImportName[i] : i \in Imports}

ApiRefinement == Api!Spec
=============================================================================
