------------------------------- MODULE MC_VM -------------------------------
(* Model-checking instance of VM: a small guest module of the shape        *)
(* rune_asm produces, one import "env::log", and the embedder operations   *)
(* of examples/host.c.  Words are W = 4 bits wide.                        *)
EXTENDS VM

(* An instruction word and an immediate word.                             *)
Ins(op, d, a, b) == [op |-> op, dst |-> d, s1 |-> a, s2 |-> b]
K(n)             == [imm |-> n % 16]

MC_ImportName == 0 :> "log"

(* 1 add(a, b) = a + b                                                    *)
(* 2 loop: R0 = 1; while (R0) {}                                          *)
(* 3 nest(a, b): stage (b, 2), CALL log, CALL add, CALL_HOST log, return *)
(* 4 mem(n): grow by n pages, store, load, size, fill, copy               *)
(* 5 glob: g0 = g0 + 1, falling off the end                              *)
(* 6 rec: calls itself                                                     *)
(* 7 misc(a, b): a % b and a / b, signed and unsigned, then a trap or a   *)
(*   global index out of range                                             *)
(* 8 bad(a, b): the other comparisons, then an unknown opcode or a call  *)
(*   of a missing import                                                   *)
(* 9 bits(a, b): the bit operations on a and b into R2, then RET, which  *)
(*   returns R0 (vm.c:868 ignores the RET operand)                        *)
MC_Code ==
  (1 :> << Ins("ADD32", 0, 0, 1), Ins("RET", 0, 0, 0) >>) @@
  (2 :> << Ins("LDI32", 0, 0, 0), K(1), Ins("JNZ", 0, 0, 0), K(-4) >>) @@
  (3 :> << Ins("LDI32", 2, 0, 0), K(2), Ins("ARG", 1, 2, 0), Ins("ARG", 0, 1, 0),
           Ins("CALL", 1, 0, 0), K(0), Ins("CALL", 0, 0, 0), K(1),
           Ins("CALL_HOST", 1, 0, 0), K(0), Ins("RET", 0, 0, 0) >>) @@
  (4 :> << Ins("MEM_GROW", 1, 0, 0), Ins("STORE", 1, 0, 0), K(1),
           Ins("LOAD", 0, 0, 0), K(0), Ins("MEM_SIZE", 2, 0, 0),
           Ins("MEM_FILL", 1, 0, 2), Ins("MEM_COPY", 0, 1, 2),
           Ins("RET", 0, 0, 0) >>) @@
  (5 :> << Ins("LDGLOBAL", 0, 0, 0), K(0), Ins("LDI32", 1, 0, 0), K(1),
           Ins("ADD32", 0, 0, 1), Ins("STGLOBAL", 0, 0, 0), K(0) >>) @@
  (6 :> << Ins("CALL", 0, 0, 0), K(6), Ins("RET", 0, 0, 0) >>) @@
  (7 :> << Ins("REM32", 2, 0, 1), Ins("REMU32", 2, 0, 1),
           Ins("DIVU32", 2, 0, 1), Ins("DIV32", 2, 0, 1), Ins("JZ", 0, 2, 0), K(1), Ins("TRAP", 0, 0, 0),
           Ins("EQ32", 2, 0, 1), Ins("MOV", 1, 2, 0), Ins("NOP", 0, 0, 0),
           Ins("JLE", 0, 0, 1), K(2), Ins("JMP", 0, 0, 0), K(0),
           Ins("LDGLOBAL", 0, 0, 0), K(5) >>) @@
  (8 :> << Ins("NE32", 2, 0, 1), Ins("GT32", 2, 0, 1), Ins("GE32", 2, 0, 1),
           Ins("LTU32", 2, 0, 1), Ins("LEU32", 2, 0, 1), Ins("LDFALSE", 2, 0, 0),
           Ins("JLT", 0, 0, 1), K(1), Ins("BAD", 0, 0, 0),
           Ins("CALL_HOST", 0, 0, 0), K(3) >>) @@
  (9 :> << Ins("AND32", 2, 0, 1), Ins("OR32", 2, 0, 1), Ins("XOR32", 2, 0, 1),
           Ins("SHL32", 2, 0, 1), Ins("SHR32", 2, 0, 1), Ins("SHRU32", 2, 0, 1),
           Ins("NEG32", 2, 0, 0), Ins("NOT32", 2, 0, 0), Ins("CLZ32", 2, 0, 0),
           Ins("CTZ32", 2, 0, 0), Ins("POPCNT32", 2, 0, 0),
           Ins("BOOL_TO_I32", 2, 0, 0), Ins("LDTRUE", 2, 0, 0),
           Ins("RET", 2, 0, 0) >>)

MC_RegCount == [f \in 1..9 |-> 3]

MC_Exports ==
  << [kind |-> "FUNC", idx |-> 1, name |-> "add"],
     [kind |-> "FUNC", idx |-> 2, name |-> "loop"],
     [kind |-> "FUNC", idx |-> 3, name |-> "nest"],
     [kind |-> "FUNC", idx |-> 4, name |-> "mem"],
     [kind |-> "FUNC", idx |-> 5, name |-> "glob"],
     [kind |-> "FUNC", idx |-> 6, name |-> "rec"],
     [kind |-> "FUNC", idx |-> 7, name |-> "misc"],
     [kind |-> "FUNC", idx |-> 8, name |-> "bad"],
     [kind |-> "FUNC", idx |-> 9, name |-> "bits"] >>

(* The same module with glob exported as "_init" as well.                *)
MC_ExportsInit == MC_Exports \o << [kind |-> "FUNC", idx |-> 5, name |-> "_init"] >>

(* The module with misc, which fails without arguments, as "_init".      *)
MC_ExportsTrap == MC_Exports \o << [kind |-> "FUNC", idx |-> 7, name |-> "_init"] >>

MC_DataSegs   == << [offset |-> 0, size |-> 1, val |-> 5] >>
(* A second segment ending past the initial pages.                        *)
MC_BadSegs    == MC_DataSegs \o << [offset |-> 1, size |-> 2, val |-> 3] >>
MC_GlobalInit == << I32(0) >>

MC_HostFns == { [name |-> "log", cb |-> c] : c \in {"i32", "str", "reenter"} }
MC_ArgVecs == { <<>>, << I32(1), I32(2) >>, << I32(-1), I32(0) >>,
                << I32(2), I32(1) >> }
(* The same with (INT_MIN, -1), which misc divides.                      *)
MC_DivArgVecs == MC_ArgVecs \cup { << I32(-(Mod \div 2)), I32(-1) >> }
(* Arguments without the negative page count.                            *)
MC_PosArgVecs == MC_ArgVecs \ { << I32(-1), I32(0) >> }
====
