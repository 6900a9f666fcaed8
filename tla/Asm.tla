-------------------------------- MODULE Asm --------------------------------
(***************************************************************************)
(* The container writer of the bytecode assembler                          *)
(* (src/src/compiler/rune_asm.c): the builder calls that fill a rune_asm_t *)
(* and rune_asm_finalize, which emits the sections after the header.       *)
(*                                                                         *)
(* An assembler state is a record with the fields of struct rune_asm that  *)
(* finalize and the emit calls read; cur is current_func.  A string is the *)
(* sequence of its bytes.  A function body is its byte string: each        *)
(* instruction word is <<op, dst, s1, s2>> (spec section 5, op in the low  *)
(* byte), each immediate a little-endian word.  The asserts on the table   *)
(* sizes (MAX_TYPES, ...) and on current_func are preconditions every      *)
(* builder sequence here meets; they are not modelled.                     *)
(***************************************************************************)
EXTENDS Integers, Sequences, SequencesExt

CONSTANTS
  SectId,       \* RUNE_SECT_*: [TYPE |-> .., IMPORT |-> .., ..., DATA |-> ..]
  ExportKind,   \* RUNE_EXPORT_*: [FUNC |-> .., MEMORY |-> ..]
  TypeCode,     \* rune_type_t: [I32 |-> .., I64 |-> .., PTR |-> ..]
  Opcode,       \* rune_opcode_t: [ADD32 |-> .., RET |-> .., ...]
  Magic,        \* RUNE_MAGIC: its RUNE_MAGIC_LEN bytes
  Version       \* RUNE_BC_VERSION

(* The checksum loops of Crc32 as operators; its variables are not used.   *)
Crc == INSTANCE Crc32 WITH Msgs <- {}, msg <- <<>>, flip <- <<0, 0>>, i <- 1,
         load <- [hi |-> 0, lo |-> 0], asm <- [hi |-> 0, lo |-> 0],
         bad <- [hi |-> 0, lo |-> 0], ref <- {}

-----------------------------------------------------------------------------
(* Little-endian pushes: buf_push_u8/u16/u32/u64/bytes/str8.  A u64 is a  *)
(* pair <<low word, high word>>, which keeps values within TLC's integers. *)

U8(v)  == <<v % 256>>
U16(v) == <<v % 256, (v \div 256) % 256>>
U32(v) == <<v % 256, (v \div 256) % 256, (v \div 65536) % 256, (v \div 16777216) % 256>>
U64(v) == U32(v[1]) \o U32(v[2])

(* uint8_t len = (uint8_t)strlen(s); the builders keep names below 256.   *)
Str8(s) == LET n == Len(s) % 256 IN <<n>> \o SubSeq(s, 1, n)

(* strncpy(dst, src, sizeof(dst) - 1) into a zeroed array: at most n bytes *)
(* of the name are kept.                                                   *)
Keep(s, n) == IF Len(s) <= n THEN s ELSE SubSeq(s, 1, n)

(* emit_section: id, body length, body.                                    *)
Section(id, body) == <<id>> \o U32(Len(body)) \o body

-----------------------------------------------------------------------------
(* Builder calls.                                                          *)

EmptyAsm ==
  [types |-> <<>>, imports |-> <<>>, funcs |-> <<>>, exports |-> <<>>,
   globals |-> <<>>, data |-> <<>>, hasMem |-> FALSE, memInit |-> 0, memMax |-> 0,
   cur |-> -1]

(* rune_asm_type(a, pc, params, rc, rets)                                  *)
AsmType(a, params, rets) ==
  [a EXCEPT !.types = Append(@, [params |-> params, rets |-> rets])]

(* rune_asm_import: the import takes the next function index as well.      *)
AsmImport(a, mod, name, type) ==
  [a EXCEPT !.imports = Append(@, [module |-> Keep(mod, 63), name |-> Keep(name, 63),
                                   type |-> type]),
            !.funcs = Append(@, [imp |-> TRUE, type |-> type, reg |-> 0,
                                 local |-> 0, code |-> <<>>])]

(* rune_asm_memory: a max of 0 means the initial size.                     *)
AsmMemory(a, initial, max) ==
  [a EXCEPT !.hasMem = TRUE, !.memInit = initial,
            !.memMax = IF max # 0 THEN max ELSE initial]

(* rune_asm_func                                                           *)
AsmFunc(a, type, reg, local) ==
  [a EXCEPT !.funcs = Append(@, [imp |-> FALSE, type |-> type, reg |-> reg,
                                 local |-> local, code |-> <<>>])]

(* rune_asm_begin_code: f (0-based) becomes the open function and its      *)
(* code buffer is emptied; rune_asm_end_code closes it.                    *)
AsmBeginCode(a, f) == [a EXCEPT !.cur = f, !.funcs[f + 1].code = <<>>]
AsmEndCode(a)      == [a EXCEPT !.cur = -1]

(* buf_patch_u32(b, pos, v): the four bytes at pos (0-based) become v.     *)
PatchU32(b, pos, v) ==
  [k \in 1..Len(b) |-> IF k - 1 - pos \in 0..3 THEN U32(v)[k - pos] ELSE b[k]]

(* Append bytes to the open function's code buffer.                        *)
Push(a, bytes) == [a EXCEPT !.funcs[a.cur + 1].code = @ \o bytes]

(* rune_asm_emit: the instruction word RUNE_INSTR(op, dst, s1, s2).        *)
AsmEmit(a, op, dst, s1, s2) == Push(a, <<Opcode[op], dst, s1, s2>>)

(* rune_asm_emit_i: the word, then one immediate word.                     *)
AsmEmitI(a, op, dst, s1, s2, imm) == Push(AsmEmit(a, op, dst, s1, s2), U32(imm))

(* rune_asm_emit_i64: the word, then the low and the high immediate word.  *)
AsmEmitI64(a, op, dst, imm) == Push(AsmEmit(a, op, dst, 0, 0), U64(imm))

(* rune_asm_ldi32 (declared in a header that is not in the repository):   *)
(* LDI32 dst with its imm32, spec section 5.                               *)
AsmLdi32(a, dst, imm) == AsmEmitI(a, "LDI32", dst, 0, 0, imm)

(* rune_asm_label: the open function's length in words.                    *)
AsmLabel(a) == Len(a.funcs[a.cur + 1].code) \div 4

(* rune_asm_patch_jump: the immediate after word patch becomes the int32  *)
(* offset from the word after that immediate to word target.               *)
(* Mutation: the offset taken from the word after the instruction.         *)
JumpRelFromImm(patch, target) == target - (patch + 1)

JumpRel(patch, target) == target - (patch + 2)

AsmPatchJump(a, patch, target) ==
  [a EXCEPT !.funcs[a.cur + 1].code =
              PatchU32(@, (patch + 1) * 4, JumpRel(patch, target))]

(* rune_asm_export_func and rune_asm_export_memory                         *)
AsmExportFunc(a, idx, name) ==
  [a EXCEPT !.exports = Append(@, [kind |-> ExportKind.FUNC, idx |-> idx,
                                   name |-> Keep(name, 127)])]
AsmExportMemory(a, name) ==
  [a EXCEPT !.exports = Append(@, [kind |-> ExportKind.MEMORY, idx |-> 0,
                                   name |-> Keep(name, 127)])]

(* rune_asm_global: raw is the u64 finalize writes for the initial value, *)
(* (uint64_t)(uint32_t)i32 for an i32.                                     *)
AsmGlobal(a, type, mutable, raw) ==
  [a EXCEPT !.globals = Append(@, [type |-> type, mut |-> mutable, raw |-> raw])]

(* rune_asm_data                                                           *)
AsmData(a, offset, bytes) ==
  [a EXCEPT !.data = Append(@, [offset |-> offset, bytes |-> bytes])]

-----------------------------------------------------------------------------
(* rune_asm_finalize: the sections in their fixed order, each emitted only *)
(* when it has entries (MEMORY when declared).                             *)

Cat(f(_), s) == FlattenSeq([k \in 1..Len(s) |-> f(s[k])])

Bodies(a) == SelectSeq(a.funcs, LAMBDA f : ~f.imp)

TypeBody(a) ==
  U32(Len(a.types)) \o
  Cat(LAMBDA t : <<Len(t.params), Len(t.rets)>> \o t.params \o t.rets, a.types)

ImportBody(a) ==
  U32(Len(a.imports)) \o
  Cat(LAMBDA im : Str8(im.module) \o Str8(im.name) \o U16(im.type), a.imports)

FuncBody(a) ==
  U32(Len(Bodies(a))) \o
  Cat(LAMBDA f : U16(f.type) \o U8(f.reg) \o U8(f.local), Bodies(a))

MemoryBody(a) == U16(a.memInit) \o U16(a.memMax)

GlobalBody(a) ==
  U32(Len(a.globals)) \o
  Cat(LAMBDA g : U8(g.type) \o U8(IF g.mut THEN 1 ELSE 0) \o U64(g.raw), a.globals)

ExportBody(a) ==
  U32(Len(a.exports)) \o
  Cat(LAMBDA e : U8(e.kind) \o U32(e.idx) \o Str8(e.name), a.exports)

CodeBody(a) ==
  U32(Len(Bodies(a))) \o Cat(LAMBDA f : U32(Len(f.code)) \o f.code, Bodies(a))

DataBody(a) ==
  U32(Len(a.data)) \o
  Cat(LAMBDA d : U8(0) \o U32(d.offset) \o U32(Len(d.bytes)) \o d.bytes, a.data)

(* The emitted sections, in order.                                         *)
Sections(a) ==
  LET S(cond, id, body) == IF cond THEN <<Section(id, body)>> ELSE <<>>
  IN S(a.types # <<>>,    SectId.TYPE,   TypeBody(a)) \o
     S(a.imports # <<>>,  SectId.IMPORT, ImportBody(a)) \o
     S(Bodies(a) # <<>>,  SectId.FUNC,   FuncBody(a)) \o
     S(a.hasMem,          SectId.MEMORY, MemoryBody(a)) \o
     S(a.globals # <<>>,  SectId.GLOBAL, GlobalBody(a)) \o
     S(a.exports # <<>>,  SectId.EXPORT, ExportBody(a)) \o
     S(Bodies(a) # <<>>,  SectId.CODE,   CodeBody(a)) \o
     S(a.data # <<>>,     SectId.DATA,   DataBody(a))

(* Everything after the header: the bytes the CRC covers.                  *)
Encode(a) == FlattenSeq(Sections(a))

(* sizeof(rune_file_header_t): magic (4), version, flags, reserved and     *)
(* crc32 (u32 each), as spec section 4.1 lays it out.                      *)
HeaderSize == 20

(* The header finalize reserves first and patches last.  A header is a     *)
(* record of its fields; len is the number of its bytes present.  crc32 is *)
(* crc32_buf over src, the bytes after the header as they were written,    *)
(* with the bits of flip inverted (none here); Loader runs crc32_buf's     *)
(* loop over src in step with the loader's own.                            *)
AsmHeader(body) ==
  [len |-> HeaderSize, magic |-> Magic, version |-> Version, flags |-> 0,
   reserved |-> 0, src |-> body, flip |-> Crc!Zero]
====
