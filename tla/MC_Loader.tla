----------------------------- MODULE MC_Loader -----------------------------
(***************************************************************************)
(* Containers for Loader: the payloads rune_asm_finalize writes for two   *)
(* modules, the same with an unknown section inserted at every section    *)
(* boundary, and every cut of them that ends inside a section.             *)
(***************************************************************************)
EXTENDS Loader

(* RUNE_SECT_*, RUNE_EXPORT_*, the type bytes and the opcodes live in a    *)
(* header that is not part of the repository; any distinct values serve.   *)
MC_SectId ==
  [TYPE |-> 1, IMPORT |-> 2, FUNC |-> 3, MEMORY |-> 4,
   GLOBAL |-> 5, EXPORT |-> 6, CODE |-> 7, DATA |-> 8]
MC_ExportKind == [FUNC |-> 0, MEMORY |-> 1]
MC_TypeCode == [I32 |-> 1, I64 |-> 2, PTR |-> 3]
MC_GlobalTypes == {1, 2, 3, 4}
MC_Opcode ==
  [ADD32 |-> 16, GT32 |-> 17, MOV |-> 18, RET |-> 2, JZ |-> 4, JNZ |-> 5,
   ARG |-> 8, CALL_HOST |-> 7, LDI32 |-> 9, MUL32 |-> 19, DIV32 |-> 20,
   REM32 |-> 21, LOAD32 |-> 22, STORE32 |-> 23, LDGLOBAL |-> 24, STGLOBAL |-> 25]
UnknownId == 99

(* RUNE_MAGIC and RUNE_BC_VERSION are in the same missing header.          *)
MC_Magic == <<82, 85, 78, 69>>
MC_Version == 1

I32 == MC_TypeCode.I32
I32x2 == <<I32, I32>>

(* Names and payloads are distinct short byte strings; only their lengths *)
(* and distinctness matter to the container.                              *)
N(k) == <<96 + k>>

(* Each module below is [asm, jumps]: the builder calls, and the jumps     *)
(* patched to a label as [f, at, to] (function, patched word, label word). *)

(* Spec section 9, example 1: add: (i32, i32) -> i32.                      *)
AddB ==
  LET t == AsmType(EmptyAsm, I32x2, <<I32>>)
      f == AsmFunc(t, 0, 4, 0)
      e == AsmExportFunc(f, 0, N(1))
      c == AsmEndCode(AsmEmit(AsmEmit(AsmBeginCode(e, 0), "ADD32", 0, 0, 1),
                              "RET", 0, 0, 0))
  IN [asm |-> c, jumps |-> {}]

(* Spec section 9, example 7, with memory, a global, a data segment and   *)
(* an "_init" export added: import test::sink, then call_twice.            *)
HostB ==
  LET t1 == AsmType(EmptyAsm, <<I32>>, <<>>)
      t2 == AsmType(t1, I32x2, <<I32>>)
      im == AsmImport(t2, N(2), N(3), 0)
      f  == AsmFunc(im, 1, 4, 0)
      c1 == AsmEmit(AsmBeginCode(f, 1), "ARG", 0, 0, 0)
      c2 == AsmEmit(AsmEmitI(c1, "CALL_HOST", 2, 0, 0, 0), "RET", 0, 0, 0)
      me == AsmMemory(AsmEndCode(c2), 1, 0)
      g  == AsmGlobal(me, I32, TRUE, <<-1, 0>>)
      d  == AsmData(g, 16, N(4))
      e1 == AsmExportFunc(d, 1, N(5))
      e2 == AsmExportFunc(e1, 1, InitName)
  IN [asm |-> AsmExportMemory(e2, N(6)), jumps |-> {}]

(* test_branching (vm.c): max(a, b), a JZ patched forward to the else     *)
(* label.                                                                  *)
BranchB ==
  LET t  == AsmType(EmptyAsm, I32x2, <<I32>>)
      f  == AsmFunc(t, 0, 4, 0)
      e  == AsmExportFunc(f, 0, N(7))
      c1 == AsmEmit(AsmBeginCode(e, 0), "GT32", 2, 0, 1)
      jz == AsmLabel(c1)
      c2 == AsmEmit(AsmEmit(AsmEmitI(c1, "JZ", 0, 2, 0, 0), "MOV", 0, 0, 0),
                    "RET", 0, 0, 0)
      el == AsmLabel(c2)
      c3 == AsmPatchJump(c2, jz, el)
      c4 == AsmEmit(AsmEmit(c3, "MOV", 0, 1, 0), "RET", 0, 0, 0)
  IN [asm |-> AsmEndCode(c4), jumps |-> {[f |-> 0, at |-> jz, to |-> el]}]

(* test_fuel_limit (vm.c): loop, a JNZ patched back to the top label.     *)
LoopB ==
  LET t   == AsmType(EmptyAsm, <<>>, <<>>)
      f   == AsmFunc(t, 0, 2, 0)
      e   == AsmExportFunc(f, 0, N(8))
      c0  == AsmBeginCode(e, 0)
      top == AsmLabel(c0)
      c1  == AsmLdi32(c0, 0, 1)
      jnz == AsmLabel(c1)
      c2  == AsmPatchJump(AsmEmitI(c1, "JNZ", 0, 0, 0, 0), jnz, top)
  IN [asm |-> AsmEndCode(AsmEmit(c2, "RET", 0, 0, 0)),
      jumps |-> {[f |-> 0, at |-> jnz, to |-> top]}]

(* test_arithmetic (vm.c): ops(x) = ((x * 6) / 4) % 3 in eight registers. *)
ArithB ==
  LET t  == AsmType(EmptyAsm, <<I32>>, <<I32>>)
      e  == AsmExportFunc(AsmFunc(t, 0, 8, 0), 0, N(9))
      c1 == AsmEmit(AsmLdi32(AsmBeginCode(e, 0), 1, 6), "MUL32", 2, 0, 1)
      c2 == AsmEmit(AsmLdi32(c1, 3, 4), "DIV32", 4, 2, 3)
      c3 == AsmEmit(AsmLdi32(c2, 5, 3), "REM32", 0, 4, 5)
  IN [asm |-> AsmEndCode(AsmEmit(c3, "RET", 0, 0, 0)), jumps |-> {}]

(* test_memory (vm.c): memory (1, 2) declared before the function, which  *)
(* stores its argument at offset 100 and loads it back.                    *)
MemB ==
  LET t  == AsmType(EmptyAsm, <<I32>>, <<I32>>)
      e  == AsmExportFunc(AsmFunc(AsmMemory(t, 1, 2), 0, 4, 0), 0, N(10))
      c1 == AsmEmitI(AsmLdi32(AsmBeginCode(e, 0), 1, 0), "STORE32", 0, 1, 0, 100)
      c2 == AsmEmitI(c1, "LOAD32", 0, 1, 0, 100)
  IN [asm |-> AsmEndCode(AsmEmit(c2, "RET", 0, 0, 0)), jumps |-> {}]

(* test_div_by_zero (vm.c): div(a, b).                                     *)
DivB ==
  LET t == AsmType(EmptyAsm, I32x2, <<I32>>)
      e == AsmExportFunc(AsmFunc(t, 0, 4, 0), 0, N(11))
      c == AsmEmit(AsmEmit(AsmBeginCode(e, 0), "DIV32", 0, 0, 1), "RET", 0, 0, 0)
  IN [asm |-> AsmEndCode(c), jumps |-> {}]

(* test_globals (vm.c): a mutable i32 global 0 declared first, and         *)
(* increment() adding one to it.                                           *)
GlobB ==
  LET g  == AsmGlobal(EmptyAsm, I32, TRUE, <<0, 0>>)
      t  == AsmType(g, <<>>, <<I32>>)
      e  == AsmExportFunc(AsmFunc(t, 0, 4, 0), 0, N(12))
      c1 == AsmLdi32(AsmEmitI(AsmBeginCode(e, 0), "LDGLOBAL", 0, 0, 0, 0), 1, 1)
      c2 == AsmEmitI(AsmEmit(c1, "ADD32", 0, 0, 1), "STGLOBAL", 0, 0, 0, 0)
  IN [asm |-> AsmEndCode(AsmEmit(c2, "RET", 0, 0, 0)), jumps |-> {}]

(* examples/host.c, build_demo_module: three env imports, one page of    *)
(* memory exported, the 16-byte greeting at 0, and compute, greet and      *)
(* timestamp (function indices 3, 4, 5 after the imports).                  *)
Greeting == [k \in 1..16 |-> 72]

DemoB ==
  LET PTR == MC_TypeCode.PTR
      I64 == MC_TypeCode.I64
      ty == AsmType(AsmType(AsmType(AsmType(AsmType(EmptyAsm, <<>>, <<>>),
              <<I32>>, <<>>), <<PTR, I32>>, <<>>), <<>>, <<I64>>), I32x2, <<I32>>)
      im == AsmImport(AsmImport(AsmImport(ty, N(1), N(2), 1), N(1), N(3), 2),
                      N(1), N(4), 3)
      me == AsmData(AsmExportMemory(AsmMemory(im, 1, 4), N(5)), 0, Greeting)
      f3 == AsmExportFunc(AsmFunc(me, 4, 4, 0), 3, N(6))
      c3 == AsmEmit(AsmEmit(AsmBeginCode(f3, 3), "ADD32", 2, 0, 1), "ARG", 0, 2, 0)
      d3 == AsmEndCode(AsmEmit(AsmEmit(AsmEmitI(c3, "CALL_HOST", 3, 0, 0, 0),
                                       "MOV", 0, 2, 0), "RET", 0, 0, 0))
      f4 == AsmExportFunc(AsmFunc(AsmType(d3, <<>>, <<>>), 5, 4, 0), 4, N(7))
      c4 == AsmLdi32(AsmLdi32(AsmBeginCode(f4, 4), 0, 0), 1, Len(Greeting))
      d4 == AsmEndCode(AsmEmit(AsmEmitI(AsmEmit(AsmEmit(c4, "ARG", 0, 0, 0),
                          "ARG", 1, 1, 0), "CALL_HOST", 2, 0, 0, 1), "RET", 0, 0, 0))
      f5 == AsmExportFunc(AsmFunc(d4, 3, 2, 0), 5, N(8))
      d5 == AsmEndCode(AsmEmit(AsmEmitI(AsmBeginCode(f5, 5), "CALL_HOST", 0, 0, 0, 2),
                               "RET", 0, 0, 0))
  IN [asm |-> d5, jumps |-> {}]

Built == {AddB, HostB, BranchB, LoopB, DemoB, ArithB, MemB, DivB, GlobB}
Asms  == {x.asm : x \in Built}

(* The jumps patched in module a.                                          *)
JumpsOf(a) == UNION {x.jumps : x \in {y \in Built : y.asm = a}}

(* vm_exec's taken JMP/JZ/JNZ/JLT/JLE at word p of code (bytes): NEXT     *)
(* leaves PC = p + 1, read_imm32 takes word p + 1 as the int32 offset and  *)
(* leaves PC = p + 2, then PC = (uint32_t)((int32_t)PC + offset), held as *)
(* the int32 of its bits like every uint32 of Loader (p is small, so the  *)
(* sum cannot wrap).                                                       *)
VmJumpTarget(code, p) == p + 2 + Word32(SubSeq(code, 4 * p + 5, 4 * p + 8))

(* A branch the assembler patched to a label lands on that label: the      *)
(* offset rune_asm_patch_jump writes (vm.c's test_branching and            *)
(* test_fuel_limit, forward and backward), carried through                 *)
(* rune_module_load's code slice, sends the VM's PC to the label's word.   *)
PatchedJumpsLand ==
  phase = "done" /\ result = "OK" /\ in.tag = "asm" =>
    \A j \in JumpsOf(in.asm) : VmJumpTarget(mod.funcs[j.f + 1].code, j.at) = j.to

(* The byte offsets at which a section starts or the payload ends.        *)
Boundaries(a) ==
  {Len(FlattenSeq(SubSeq(Sections(a), 1, j))) : j \in 0..Len(Sections(a))}

WithUnknown(a, j) ==
  FlattenSeq(SubSeq(Sections(a), 1, j) \o <<Section(UnknownId, <<7, 7, 7>>)>>
             \o SubSeq(Sections(a), j + 1, Len(Sections(a))))

(* The containers of each module: as written, with an unknown section      *)
(* inserted before each section or at the end, cut inside any section, and *)
(* cut inside an unknown last section (only the r.error check after the    *)
(* loop rejects those).                                                    *)
Payloads ==
  {[bytes |-> Encode(a), tag |-> "asm", asm |-> a] : a \in Asms}
  \cup UNION {{[bytes |-> WithUnknown(a, j), tag |-> "unknown", asm |-> a] :
                 j \in 0..Len(Sections(a))} : a \in Asms}
  \cup UNION {{[bytes |-> SubSeq(Encode(a), 1, k), tag |-> "trunc", asm |-> a] :
                 k \in (1..Len(Encode(a))) \ Boundaries(a)} : a \in Asms}
  \cup UNION {{[bytes |-> SubSeq(WithUnknown(a, Len(Sections(a))), 1, Len(Encode(a)) + k),
                 tag |-> "trunc", asm |-> a] : k \in 1..7} : a \in Asms}

(* Each payload behind a header written for it, as finalize writes one.  *)
Written(x) == [hdr |-> AsmHeader(x.bytes), bytes |-> x.bytes, tag |-> x.tag, asm |-> x.asm]

(* The containers of each module damaged after they were written: one bit *)
(* inverted in the first magic byte, the version, the CRC field (bit 0 and *)
(* bit 31), or the first, a middle or the last byte after the header; and  *)
(* cut to 0 or 19 bytes, inside the header.                                 *)
Damaged(a) ==
  LET b == Encode(a)
      h == AsmHeader(b)
      D(hh, bb) == [hdr |-> hh, bytes |-> bb, tag |-> "damaged", asm |-> a]
  IN {D([h EXCEPT !.magic = Crc!Flip(@, 1, 0)], b),
      D([h EXCEPT !.version = Crc!Flip(<<@>>, 1, 0)[1]], b),
      D([h EXCEPT !.flip = Crc!Word(0, 1)], b),
      D([h EXCEPT !.flip = Crc!Word(32768, 0)], b),
      D([h EXCEPT !.len = 0, !.src = <<>>], <<>>),
      D([h EXCEPT !.len = 19, !.src = <<>>], <<>>)}
     \cup {D(h, Crc!Flip(b, k, j)) : k \in {1, Len(b) \div 2, Len(b)}, j \in {0, 7}}

MC_Inputs ==
  {Written(x) : x \in Payloads} \cup UNION {Damaged(a) : a \in Asms}

-----------------------------------------------------------------------------
(* Containers for the runs that look for a counterexample.                 *)

(* rune_asm_export_func does not check its index either.                   *)
BadExportAsm == AsmExportFunc(AddB.asm, 5, N(9))

Inputs_Export ==
  {Written([bytes |-> Encode(BadExportAsm), tag |-> "crafted", asm |-> BadExportAsm])}

(* One import, then a count of 0xFFFFFFFF: in FUNC (the total wraps to 0)  *)
(* or in CODE with FUNC missing (the expected count wraps to 0xFFFFFFFF).  *)
Inputs_Wrap ==
  {Written([bytes |-> Section(MC_SectId.IMPORT, ImportBody(HostB.asm))
                                  \o Section(MC_SectId.FUNC, U32(-1)),
            tag |-> "crafted", asm |-> EmptyAsm]),
   Written([bytes |-> Section(MC_SectId.IMPORT, ImportBody(HostB.asm))
                                  \o Section(MC_SectId.CODE, U32(-1) \o U32(0)),
            tag |-> "crafted", asm |-> EmptyAsm])}
====
