------------------------------- MODULE Loader -------------------------------
(***************************************************************************)
(* rune_module_load (src/src/vm/vm.c): the header checks, the CRC over    *)
(* the bytes after the header (one step per pass of crc32_update's loop,   *)
(* with crc32_buf's loop over the bytes the writer covered in step with    *)
(* it), and the section loop.  One section-loop step is one iteration of  *)
(* the while loop: the section header, the                                 *)
(* parser of that section kind, and the padding read; Finish is the error  *)
(* check after the loop and the scan for "_init".                          *)
(*                                                                         *)
(* The reader is a record [pos, err, v]: reader_t's pos and error, and the *)
(* value the last read returned.  A uint32_t is held as the int32_t of the *)
(* same bits, so the wrap-around of uint32_t sums and differences is       *)
(* exact and stays within TLC's integers; a u64 is a pair of them.         *)
(* A parser that returns an error leaves a module that                     *)
(* rune_module_free discards, so only its error is kept.  A write outside  *)
(* the funcs array is undefined behaviour: the model records it in oob and *)
(* stops there.                                                            *)
(***************************************************************************)
EXTENDS Asm

CONSTANTS
  MaxFuncs,      \* RUNE_MAX_FUNCS
  MaxGlobals,    \* RUNE_MAX_GLOBALS
  MaxParams,     \* RUNE_MAX_PARAMS
  GlobalTypes,   \* the bytes of RUNE_TYPE_I32, I64, F32, F64
  Inputs         \* records [hdr, bytes, tag, asm]: the header (as Asm's
                 \* AsmHeader) and the bytes after it

VARIABLES
  in,       \* the container being loaded
  rd,       \* the reader r
  err,      \* err, the loop's error code
  mod,      \* the fields of *mod the parsers fill
  phase,    \* "loop", "entries" (in a parser's for loop), "break", "done"
  sec,      \* the section being parsed: sect_id, sect_size, sect_start,
            \* its count and the loop index i
  result,   \* what *out_err is set to
  oob,      \* ghost: a write outside mod->funcs happened
  crc       \* [i, load, asm]: the loop index of crc32_update, its crc, and
            \* the crc of crc32_buf over the header's src

vars == <<in, rd, err, mod, phase, sec, result, oob, crc>>

Bytes == in.bytes

-----------------------------------------------------------------------------
(* Reader helpers.                                                         *)

(* read_u8 with the increment done before the bounds check.              *)
RdU8Advance(b, r) ==
  IF r.pos >= Len(b) THEN [r EXCEPT !.err = TRUE, !.pos = @ + 1, !.v = 0]
  ELSE [r EXCEPT !.pos = @ + 1, !.v = b[r.pos + 1]]

(* read_u8: at the end it sets error and returns 0 without advancing.     *)

RdU8(b, r) ==
  IF r.pos >= Len(b) THEN [r EXCEPT !.err = TRUE, !.v = 0]
  ELSE [r EXCEPT !.pos = @ + 1, !.v = b[r.pos + 1]]

(* n read_u8 calls in a row: the bytes left are taken and the first read  *)
(* past the end sets error; later ones fail without advancing, as the     *)
(* first did.  v holds the bytes read, 0 for each failed read.             *)
Take(b, r, n) ==
  LET k == IF r.pos + n <= Len(b) THEN n ELSE Len(b) - r.pos
  IN [pos |-> r.pos + k, err |-> r.err \/ k < n,
      v |-> [j \in 1..n |-> IF j <= k THEN b[r.pos + j] ELSE 0]]

(* The uint32_t of four little-endian bytes, as the int32_t of its bits.  *)
Word32(s) ==
  s[1] + 256 * s[2] + 65536 * s[3] + 16777216 * (IF s[4] >= 128 THEN s[4] - 256 ELSE s[4])

(* read_u16, read_u32 and read_u64: two, four and eight read_u8 calls.    *)
RdU16(b, r) == [Take(b, r, 2) EXCEPT !.v = @[1] + 256 * @[2]]
RdU32(b, r) == [Take(b, r, 4) EXCEPT !.v = Word32(@)]
RdU64(b, r) == [Take(b, r, 8) EXCEPT !.v = <<Word32(SubSeq(@, 1, 4)), Word32(SubSeq(@, 5, 8))>>]

(* read_bytes clamping n to the bytes left instead of failing.            *)
RdBytesClamp(b, r, n) ==
  LET k == IF n < 0 \/ r.pos + n > Len(b) THEN Len(b) - r.pos ELSE n
  IN [r EXCEPT !.pos = @ + k, !.v = SubSeq(b, r.pos + 1, r.pos + k)]

(* read_bytes: fails, without advancing, when pos + n passes the end; a   *)
(* count of 2^31 or more always does.                                      *)
RdBytes(b, r, n) ==
  IF n < 0 \/ r.pos + n > Len(b) THEN [r EXCEPT !.err = TRUE, !.v = <<>>]
  ELSE [r EXCEPT !.pos = @ + n, !.v = SubSeq(b, r.pos + 1, r.pos + n)]

(* read_string(r, 1): a u8 length, then that many bytes.                   *)
RdString(b, r) ==
  LET l == RdU8(b, r)
  IN IF l.err \/ l.v > 4096 THEN [l EXCEPT !.err = TRUE, !.v = <<>>]
     ELSE RdBytes(b, l, l.v)

(* x > k for the uint32_t x and a small constant k.                        *)
UGt(x, k) == x < 0 \/ x > k

-----------------------------------------------------------------------------
(* One entry of each section body, as [ok, r, e].                        *)

TypeEntry(b, r) ==
  LET pc == RdU8(b, r)
      rc == RdU8(b, pc)
      ps == Take(b, rc, pc.v)
      rs == Take(b, ps, rc.v)
  IN IF rc.err \/ pc.v > MaxParams \/ rc.v > 1 THEN [ok |-> FALSE, r |-> rc, e |-> <<>>]
     ELSE [ok |-> ~rs.err, r |-> rs, e |-> [params |-> ps.v, rets |-> rs.v]]

ImportEntry(b, r) ==
  LET mo == RdString(b, r)
      na == RdString(b, mo)
      ty == RdU16(b, na)
  IN [ok |-> ~ty.err, r |-> ty, e |-> [module |-> mo.v, name |-> na.v, type |-> ty.v]]

FuncEntry(b, r) ==
  LET ty == RdU16(b, r)
      rg == RdU8(b, ty)
      lo == RdU8(b, rg)
  IN [ok |-> ~lo.err, r |-> lo,
      e |-> [imp |-> FALSE, type |-> ty.v, reg |-> rg.v, local |-> lo.v, code |-> <<>>]]

(* The switch on the type: a byte outside GlobalTypes is BADMODULE; raw    *)
(* is kept as its bits.                                                    *)
GlobalEntry(b, r) ==
  LET ty  == RdU8(b, r)
      mu  == RdU8(b, ty)
      raw == RdU64(b, mu)
  IN [ok |-> ~raw.err /\ ty.v \in GlobalTypes, r |-> raw,
      e |-> [type |-> ty.v, mut |-> mu.v # 0, raw |-> raw.v]]

ExportEntry(b, r) ==
  LET ki == RdU8(b, r)
      ix == RdU32(b, ki)
      na == RdString(b, ix)
  IN [ok |-> ~na.err, r |-> na, e |-> [kind |-> ki.v, idx |-> ix.v, name |-> na.v]]

CodeEntry(b, r) ==
  LET sz == RdU32(b, r)
      co == RdBytes(b, sz, sz.v)
  IN IF sz.err \/ sz.v % 4 # 0 THEN [ok |-> FALSE, r |-> sz, e |-> <<>>]
     ELSE [ok |-> ~co.err, r |-> co, e |-> co.v]

(* The mem_idx byte is read and ignored.                                   *)
DataEntry(b, r) ==
  LET mi == RdU8(b, r)
      of == RdU32(b, mi)
      sz == RdU32(b, of)
      da == RdBytes(b, sz, sz.v)
  IN [ok |-> ~da.err, r |-> da, e |-> [offset |-> of.v, bytes |-> da.v]]

(* The entry the for loop of parse_<id>_section reads in one pass.        *)
EntryOf(id, b, r) ==
  CASE id = SectId.TYPE   -> TypeEntry(b, r)
    [] id = SectId.IMPORT -> ImportEntry(b, r)
    [] id = SectId.FUNC   -> FuncEntry(b, r)
    [] id = SectId.GLOBAL -> GlobalEntry(b, r)
    [] id = SectId.EXPORT -> ExportEntry(b, r)
    [] id = SectId.CODE   -> CodeEntry(b, r)
    [] id = SectId.DATA   -> DataEntry(b, r)

(* The table of *mod each section kind fills, and the bound on its count. *)
Table(id) ==
  CASE id = SectId.TYPE   -> "types"
    [] id = SectId.IMPORT -> "imports"
    [] id = SectId.FUNC   -> "funcs"
    [] id = SectId.GLOBAL -> "globals"
    [] id = SectId.EXPORT -> "exports"
    [] id = SectId.DATA   -> "data"

Limit(id) ==
  CASE id = SectId.TYPE   -> MaxFuncs
    [] id = SectId.IMPORT -> MaxFuncs
    [] id = SectId.GLOBAL -> MaxGlobals
    [] id = SectId.EXPORT -> 65536
    [] id = SectId.DATA   -> 4096

(* The sections whose parser is a read_u32 count and a loop over it with   *)
(* the count checked against a bound and the table calloc'd.               *)
Counted == {SectId.TYPE, SectId.IMPORT, SectId.GLOBAL, SectId.EXPORT, SectId.DATA}

(* i < count for the uint32_t count.                                       *)
ULt(i, c) == c < 0 \/ i < c

(* The function table with the marking loop left out.                     *)
MarkImportsNone(m) == <<>>

(* The "Mark imports" loop: funcs[i] for every import i.                  *)
MarkImports(m) ==
  [k \in 1..Len(m.imports) |-> [imp |-> TRUE, type |-> m.imports[k].type,
                                reg |-> 0, local |-> 0, code |-> <<>>]]

(* if (consumed < sect_size) read_bytes(&r, sect_size - consumed), the     *)
(* comparison in size_t; a size of 2^31 or more always fails the read.    *)
Pad(b, r, size, consumed) ==
  CASE size < 0         -> [r EXCEPT !.err = TRUE]
    [] consumed < size  -> RdBytes(b, r, size - consumed)
    [] OTHER            -> r

(* The C string of a name: strcmp stops at the first zero byte.           *)
CStr(s) ==
  LET z == {k \in 1..Len(s) : s[k] = 0}
  IN IF z = {} THEN s ELSE SubSeq(s, 1, Min(z) - 1)

InitName == <<95, 105, 110, 105, 116>>     \* "_init"

(* The first FUNC export named "_init", as (int32_t)idx, else -1.         *)
InitOf(es) ==
  LET ks == {k \in 1..Len(es) : es[k].kind = ExportKind.FUNC /\ CStr(es[k].name) = InitName}
  IN IF ks = {} THEN -1 ELSE es[Min(ks)].idx

EmptyMod ==
  [types |-> <<>>, imports |-> <<>>, funcs |-> <<>>, hasMem |-> FALSE,
   memInit |-> 0, memMax |-> 0, globals |-> <<>>, exports |-> <<>>,
   data |-> <<>>, initFunc |-> -1]

-----------------------------------------------------------------------------
(* rune_module_load is called with the container; crc32_update starts with *)
(* crc = ~0 and crc32_buf with ~0u.  The module (calloc, init_func = -1),  *)
(* the reader over the bytes after the header and err = RUNE_OK are the    *)
(* state the section loop starts from.                                      *)
Init ==
  /\ in \in Inputs
  /\ rd = [pos |-> 0, err |-> FALSE, v |-> 0]
  /\ err = "OK"
  /\ mod = EmptyMod
  /\ phase = "header"
  /\ sec = [id |-> 0, size |-> 0, start |-> 0, count |-> 0, i |-> 0]
  /\ result = "none"
  /\ oob = FALSE
  /\ crc = [i |-> 1, load |-> Crc!LoadStart, asm |-> Crc!AsmStart]

(* rune_module_load returns NULL with *out_err = e before any allocation. *)
Reject(e) == result' = e /\ phase' = "done"

(* Mutation: the version check left out, as when a new field is added    *)
(* between the magic and the CRC.                                          *)
HeaderErrorNoVersion ==
  CASE in.hdr.len < HeaderSize      -> "BADMODULE"
    [] in.hdr.magic # Magic         -> "BADMAGIC"
    [] OTHER                        -> "OK"

(* The checks before the CRC: len < sizeof(rune_file_header_t) is          *)
(* BADMODULE, then memcmp of the magic, then the version.                  *)
HeaderError ==
  CASE in.hdr.len < HeaderSize      -> "BADMODULE"
    [] in.hdr.magic # Magic         -> "BADMAGIC"
    [] in.hdr.version # Version     -> "VERSION"
    [] OTHER                        -> "OK"

CheckHeader ==
  /\ phase = "header"
  /\ IF HeaderError # "OK" THEN Reject(HeaderError)
     ELSE phase' = "crc" /\ UNCHANGED result
  /\ UNCHANGED <<in, crc, rd, err, mod, sec, oob>>

(* len - sizeof(rune_file_header_t): the bytes crc32_update runs over.     *)
CrcLen == Len(Bytes)

(* The writer's crc32_buf runs over its own body, the header's src, for  *)
(* as many bytes as that body has, whatever length the loader reads.      *)
SrcLen == Len(in.hdr.src)

(* One pass of the for loop of crc32_update over the bytes after the      *)
(* header, and, independently, one of crc32_buf's over the header's src:  *)
(* each loop stops at its own length.                                     *)
FeedCrc ==
  /\ phase = "crc" /\ (crc.i <= CrcLen \/ crc.i <= SrcLen)
  /\ crc' = [i    |-> crc.i + 1,
             load |-> IF crc.i <= CrcLen
                        THEN Crc!ByteStep(crc.load, Bytes[crc.i]) ELSE crc.load,
             asm  |-> IF crc.i <= SrcLen
                        THEN Crc!ByteStep(crc.asm, in.hdr.src[crc.i]) ELSE crc.asm]
  /\ UNCHANGED <<in, rd, err, mod, phase, sec, result, oob>>

(* computed != hdr->crc32 is BADMODULE; otherwise the module is allocated, *)
(* the bytes copied and the reader set over the bytes after the header.   *)
(* (An allocation failure, OOM, is not modelled.)                          *)
CheckCrc ==
  /\ phase = "crc" /\ crc.i > CrcLen /\ crc.i > SrcLen
  /\ IF Crc!Result(crc.load) # Crc!XorW(Crc!Result(crc.asm), in.hdr.flip)
       THEN Reject("BADMODULE")
       ELSE phase' = "loop" /\ UNCHANGED result
  /\ UNCHANGED <<in, crc, rd, err, mod, sec, oob>>

(* The top of an iteration of the while loop: sect_id and sect_size.      *)
Looping == phase = "loop" /\ ~rd.err /\ rd.pos < Len(Bytes)
SectId8 == RdU8(Bytes, rd)
SectSize == RdU32(Bytes, SectId8)

(* A parser returned an error: err is set and the loop left by break.     *)
Fail(r, e) == rd' = r /\ err' = e /\ phase' = "break"

(* The section header cannot be read: err = BADMODULE, break.              *)
SectionHeaderBad ==
  /\ Looping /\ SectSize.err
  /\ Fail(SectSize, "BADMODULE")
  /\ UNCHANGED <<in, crc, mod, sec, result, oob>>

(* The reads of a section are done: the padding read, and the next        *)
(* iteration.                                                              *)
EndSection(r, id, size, start) ==
  /\ rd' = Pad(Bytes, r, size, r.pos - start)
  /\ phase' = "loop"
  /\ sec' = [id |-> id, size |-> size, start |-> start, count |-> 0, i |-> 0]

(* A counted section: the count is read and checked, the table calloc'd,  *)
(* and the loop over the entries starts.                                   *)
BeginCounted ==
  /\ Looping /\ ~SectSize.err /\ SectId8.v \in Counted
  /\ LET id == SectId8.v
         c  == RdU32(Bytes, SectSize)
     IN IF c.err \/ UGt(c.v, Limit(id))
          THEN Fail(c, "BADMODULE") /\ UNCHANGED <<mod, sec>>
          ELSE /\ rd' = c /\ phase' = "entries" /\ UNCHANGED err
               /\ mod' = [mod EXCEPT ![Table(id)] = <<>>]
               /\ sec' = [id |-> id, size |-> SectSize.v, start |-> SectSize.pos,
                          count |-> c.v, i |-> 0]
  /\ UNCHANGED <<in, crc, result, oob>>

(* parse_func_section: total = import_count + body_count in uint32_t.     *)
(* When the sum wraps, total is below import_count and the marking loop   *)
(* writes past the calloc(total) array.                                    *)
BeginFunc ==
  /\ Looping /\ ~SectSize.err /\ SectId8.v = SectId.FUNC
  /\ LET c     == RdU32(Bytes, SectSize)
         total == Len(mod.imports) + c.v
     IN CASE c.err \/ UGt(total, MaxFuncs) ->
               Fail(c, "BADMODULE") /\ UNCHANGED <<mod, sec, oob>>
          [] c.v < 0 -> Fail(c, "UB") /\ oob' = TRUE /\ UNCHANGED <<mod, sec>>
          [] OTHER ->
               /\ rd' = c /\ phase' = "entries" /\ UNCHANGED <<err, oob>>
               /\ mod' = [mod EXCEPT !.funcs = MarkImports(mod)]
               /\ sec' = [id |-> SectId.FUNC, size |-> SectSize.v,
                          start |-> SectSize.pos, count |-> c.v, i |-> 0]
  /\ UNCHANGED <<in, crc, result>>

(* parse_code_section: expected = func_count - import_count in uint32_t;  *)
(* the count must equal it.                                                *)
BeginCode ==
  /\ Looping /\ ~SectSize.err /\ SectId8.v = SectId.CODE
  /\ LET c        == RdU32(Bytes, SectSize)
         expected == Len(mod.funcs) - Len(mod.imports)
     IN IF c.err \/ c.v # expected
          THEN Fail(c, "BADMODULE") /\ UNCHANGED sec
          ELSE /\ rd' = c /\ phase' = "entries" /\ UNCHANGED err
               /\ sec' = [id |-> SectId.CODE, size |-> SectSize.v,
                          start |-> SectSize.pos, count |-> c.v, i |-> 0]
  /\ UNCHANGED <<in, crc, mod, result, oob>>

(* parse_memory_section, then the padding read.                            *)
LoadMemory ==
  /\ Looping /\ ~SectSize.err /\ SectId8.v = SectId.MEMORY
  /\ LET ini == RdU16(Bytes, SectSize)
         max == RdU16(Bytes, ini)
     IN IF max.err
          THEN Fail(max, "BADMODULE") /\ UNCHANGED <<mod, sec>>
          ELSE /\ mod' = [mod EXCEPT !.hasMem = TRUE, !.memInit = ini.v, !.memMax = max.v]
               /\ EndSection(max, SectId.MEMORY, SectSize.v, SectSize.pos)
               /\ UNCHANGED err
  /\ UNCHANGED <<in, crc, result, oob>>

(* The default case: read_bytes(&r, sect_size) skips an unknown section.  *)
SkipUnknown ==
  /\ Looping /\ ~SectSize.err
  /\ SectId8.v \notin Counted \cup {SectId.FUNC, SectId.CODE, SectId.MEMORY}
  /\ EndSection(RdBytes(Bytes, SectSize, SectSize.v), SectId8.v, SectSize.v, SectSize.pos)
  /\ UNCHANGED <<in, crc, err, mod, result, oob>>

(* One pass of a parser's for loop: the entry is read; if its reads       *)
(* failed the parser returns BADMODULE, otherwise the entry is stored at   *)
(* index i of its table (funcs[import_count + i] for FUNC).               *)
ReadEntry ==
  /\ phase = "entries" /\ sec.id # SectId.CODE /\ ULt(sec.i, sec.count)
  /\ LET x == EntryOf(sec.id, Bytes, rd)
     IN IF ~x.ok
          THEN Fail(x.r, "BADMODULE") /\ UNCHANGED <<mod, sec>>
          ELSE /\ rd' = x.r /\ UNCHANGED <<err, phase>>
               /\ mod' = [mod EXCEPT ![Table(sec.id)] = Append(@, x.e)]
               /\ sec' = [sec EXCEPT !.i = @ + 1]
  /\ UNCHANGED <<in, crc, result, oob>>

(* One pass of parse_code_section's loop: the body is stored in           *)
(* funcs[import_count + i], which lies past the array when the count was  *)
(* a wrapped expected.                                                     *)
ReadCode ==
  /\ phase = "entries" /\ sec.id = SectId.CODE /\ ULt(sec.i, sec.count)
  /\ LET x == EntryOf(SectId.CODE, Bytes, rd)
         k == Len(mod.imports) + sec.i + 1
     IN CASE ~x.ok             -> Fail(x.r, "BADMODULE") /\ UNCHANGED <<mod, sec, oob>>
          [] k > Len(mod.funcs) -> Fail(x.r, "UB") /\ oob' = TRUE /\ UNCHANGED <<mod, sec>>
          [] OTHER ->
               /\ rd' = x.r /\ UNCHANGED <<err, phase, oob>>
               /\ mod' = [mod EXCEPT !.funcs[k].code = x.e]
               /\ sec' = [sec EXCEPT !.i = @ + 1]
  /\ UNCHANGED <<in, crc, result>>

(* The for loop has run count times: the parser returns RUNE_OK.          *)
EndEntries ==
  /\ phase = "entries" /\ ~ULt(sec.i, sec.count)
  /\ EndSection(rd, sec.id, sec.size, sec.start)
  /\ UNCHANGED <<in, crc, err, mod, result, oob>>

(* After the loop: on an error the module is freed and the error (or      *)
(* BADMODULE for a reader error) returned; otherwise init_func is set from *)
(* the exports and RUNE_OK returned.                                       *)
Finish ==
  /\ \/ phase = "break"
     \/ phase = "loop" /\ (rd.err \/ rd.pos >= Len(Bytes))
  /\ phase' = "done"
  /\ IF err # "OK" \/ rd.err
       THEN /\ result' = IF err # "OK" THEN err ELSE "BADMODULE"
            /\ mod' = mod
       ELSE /\ result' = "OK"
            /\ mod' = [mod EXCEPT !.initFunc = InitOf(mod.exports)]
  /\ UNCHANGED <<in, crc, rd, err, sec, oob>>

Next ==
  \/ CheckHeader \/ FeedCrc \/ CheckCrc
  \/ SectionHeaderBad \/ BeginCounted \/ BeginFunc \/ BeginCode
  \/ LoadMemory \/ SkipUnknown \/ ReadEntry \/ ReadCode \/ EndEntries \/ Finish

Spec == Init /\ [][Next]_vars

-----------------------------------------------------------------------------
Errs == {"none", "OK", "BADMODULE", "BADMAGIC", "VERSION", "UB"}

TypeOK ==
  /\ in.tag \in {"asm", "unknown", "trunc", "crafted", "damaged"}
  /\ rd.pos \in 0..Len(Bytes) /\ rd.err \in BOOLEAN
  /\ err \in Errs \ {"none"} /\ result \in Errs
  /\ phase \in {"header", "crc", "loop", "entries", "break", "done"}
  /\ sec.i \in Nat /\ sec.start \in 0..Len(Bytes)
  /\ mod.initFunc \in Int
  /\ \A k \in 1..Len(mod.funcs) : mod.funcs[k].imp \in BOOLEAN
  /\ oob \in BOOLEAN
  /\ crc.i \in 1..Len(Bytes) + 1 /\ Crc!IsWord(crc.load) /\ Crc!IsWord(crc.asm)

(* Spec sections 4.1 and 8: a container with one bit inverted in its      *)
(* magic, its version, its CRC field or the bytes after the header, or     *)
(* cut inside the header, is rejected before the section loop reads a     *)
(* byte: by the checks at vm.c:429-441, crc32_update over the bytes after  *)
(* the header agreeing with crc32_buf over what the writer covered only   *)
(* when nothing was damaged.                                               *)
CorruptionDetected ==
  phase = "done" /\ in.tag = "damaged" => result # "OK" /\ rd.pos = 0

(* What the loader should hold after loading the output of rune_asm:      *)
(* every table as the builder calls filled it, imports first in the       *)
(* function index space, and init_func the first FUNC export "_init".     *)
Expected(a) ==
  [types |-> a.types, imports |-> a.imports,
   funcs |-> SelectSeq(a.funcs, LAMBDA f : f.imp) \o Bodies(a),
   hasMem |-> a.hasMem, memInit |-> a.memInit, memMax |-> a.memMax,
   globals |-> a.globals, exports |-> a.exports, data |-> a.data,
   initFunc |-> InitOf(a.exports)]

(* Spec section 8, round trip: rune_module_load accepts every container   *)
(* rune_asm_finalize writes, also with an unknown section inserted         *)
(* between two sections, and the parsed module matches the builder calls. *)
RoundTrip ==
  phase = "done" /\ in.tag \in {"asm", "unknown"} =>
    /\ result = "OK"
    /\ mod = Expected(in.asm)

(* Spec section 4.4, "export indices valid per kind": every FUNC export   *)
(* of a loaded module names one of its functions; rune_module_load copies  *)
(* idx and init_func from the bytes without a check.                       *)
ExportsInRange ==
  phase = "done" /\ result = "OK" =>
    \A k \in 1..Len(mod.exports) :
      mod.exports[k].kind = ExportKind.FUNC => mod.exports[k].idx \in 0..Len(mod.funcs) - 1

(* Loading never writes outside the funcs array (parse_func_section and   *)
(* parse_code_section index it with import_count + i).                     *)
NoOutOfBoundsWrite == ~oob

(* Spec section 4.1: a container cut anywhere inside a section, header or *)
(* body, is rejected with BADMODULE by the reader's sticky error flag and *)
(* the padding read.                                                       *)
TruncationDetected ==
  phase = "done" /\ in.tag = "trunc" => result = "BADMODULE"
====
