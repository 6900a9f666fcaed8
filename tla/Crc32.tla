------------------------------- MODULE Crc32 -------------------------------
(***************************************************************************)
(* The container checksum: crc32_update (src/src/vm/vm.c), which           *)
(* rune_module_load runs as crc32_update(0, ...) over everything after     *)
(* the header, and crc32_buf (src/src/compiler/rune_asm.c), which the      *)
(* assembler writes into the header.  Both are the bitwise reflected       *)
(* CRC-32 with polynomial 0xEDB88320.                                      *)
(*                                                                         *)
(* The outer loop of both functions is a step of the model: each step      *)
(* feeds one byte to three registers in lock step, the loader's and the    *)
(* assembler's over the payload, and the loader's over the payload with   *)
(* one bit flipped.  A uint32_t is a record of its two 16-bit halves, so   *)
(* the full 32-bit width is kept within TLC's integer range.  The          *)
(* reference is the textbook definition: the remainder of polynomial       *)
(* division over GF(2) by the CRC-32 generator, with the register preset   *)
(* and the result inverted, kept in the ghost variable ref and extended by *)
(* one byte per step (Horner's rule, since the remainder is a ring         *)
(* homomorphism).                                                          *)
(***************************************************************************)
EXTENDS Integers, Sequences, FiniteSets

CONSTANT Msgs      \* the byte strings checked: sequences of 0..255

VARIABLES
  msg,    \* the bytes after the header of one container
  flip,   \* <<k, j>>: bit j of byte k is inverted in the damaged copy
  i,      \* the outer loop index, 1-based: bytes 1..i-1 have been fed
  load,   \* crc in crc32_update(0, msg, len)
  asm,    \* crc in crc32_buf(msg, len)
  bad,    \* crc in crc32_update(0, damaged copy of msg, len)
  ref     \* reference: the remainder of the bytes fed so far

vars == <<msg, flip, i, load, asm, bad, ref>>

Half == 0..65535
Word(h, l) == [hi |-> h, lo |-> l]
Zero == Word(0, 0)
Ones == Word(65535, 65535)

Poly == Word(60856, 33568)       \* 0xEDB88320u = 0xEDB8, 0x8320

(* Exclusive or of two halves, one bit at a time from the low end.        *)
RECURSIVE XorH(_, _)
XorH(x, y) ==
  IF x = 0 /\ y = 0 THEN 0 ELSE ((x + y) % 2) + 2 * XorH(x \div 2, y \div 2)

(* A plausible slip: combining with + where ^ is meant.                   *)
XorWAdd(a, b) == Word(a.hi + b.hi, a.lo + b.lo)

(* ^ of two bytes, as a table TLC computes once: entry 256 * x + y.        *)
XorByte == [p \in 0..65535 |-> XorH(p \div 256, p % 256)]

(* ^ of two halves, a byte at a time.                                      *)
XorHalf(x, y) ==
  256 * XorByte[256 * (x \div 256) + (y \div 256)] + XorByte[256 * (x % 256) + (y % 256)]

XorW(a, b) == Word(XorHalf(a.hi, b.hi), XorHalf(a.lo, b.lo))
NotW(a)    == Word(65535 - a.hi, 65535 - a.lo)

(* The byte with its top bit lost, as a 7-bit channel would deliver it.   *)
ByteWordLow7(b) == Word(0, b % 128)

(* (uint32_t)data[i]: the byte in the low eight bits.                      *)
ByteWord(b) == Word(0, b)

(* crc = (crc >> 1) ^ (0xEDB88320u & -(crc & 1)): -(crc & 1) is all ones *)
(* exactly when the low bit is set.                                       *)
Step(c) ==
  LET shifted == Word(c.hi \div 2, c.lo \div 2 + (c.hi % 2) * 32768)
  IN XorW(shifted, IF c.lo % 2 = 1 THEN Poly ELSE Zero)

(* One pass of the outer loop: crc ^= data[i]; then the eight inner       *)
(* iterations.                                                            *)
ByteStep(c, b) ==
  Step(Step(Step(Step(Step(Step(Step(Step(XorW(c, ByteWord(b))))))))))

(* crc32_update(0, ...): crc = ~crc before the loop.                      *)
LoadStart == NotW(Zero)

(* crc32_buf without its initialiser: the register starts at 0.          *)
AsmStartZero == Zero

(* crc32_buf: uint32_t crc = ~0u.                                         *)
AsmStart == Ones

(* Both functions: return ~crc.                                           *)
Result(c) == NotW(c)

(* Byte k of s with bit j inverted; <<0, 0>> stands for no flip.          *)
Flip(s, k, j) ==
  IF k = 0 THEN s
  ELSE [s EXCEPT ![k] = IF (@ \div 2 ^ j) % 2 = 1 THEN @ - 2 ^ j ELSE @ + 2 ^ j]

Flips(s) == IF s = <<>> THEN {<<0, 0>>}
            ELSE {<<k, j>> : k \in 1..Len(s), j \in 0..7}

Damaged == Flip(msg, flip[1], flip[2])

-----------------------------------------------------------------------------
(* Reference.  A GF(2) polynomial is the set of exponents whose           *)
(* coefficient is 1; addition is symmetric difference.                    *)

Plus(p, q) == (p \ q) \cup (q \ p)
Shift(p, k) == {e + k : e \in p}
Deg(p) == CHOOSE d \in p : \A e \in p : e <= d

(* x^32+x^26+x^23+x^22+x^16+x^12+x^11+x^10+x^8+x^7+x^5+x^4+x^2+x+1        *)
Generator == {32, 26, 23, 22, 16, 12, 11, 10, 8, 7, 5, 4, 2, 1, 0}

(* p mod Generator: cancel the leading term, from the top degree down.   *)
Rem(p) ==
  LET top == IF p = {} THEN 0 ELSE Deg(p)
      R[d \in 32..top + 1] ==
        IF d = top + 1 THEN p
        ELSE LET q == R[d + 1]
             IN IF d \in q THEN Plus(q, Shift(Generator, d - 32)) ELSE q
  IN IF top < 32 THEN p ELSE R[32]

(* Bits go out least significant first: bit j of a byte is the           *)
(* coefficient of x^(7 - j) in that byte's polynomial.                     *)
BytePoly(b) == {7 - j : j \in {j \in 0..7 : (b \div 2 ^ j) % 2 = 1}}

(* The register preset to all ones: x^31 + ... + x + 1.                   *)
Preset == 0..31

(* One more byte: (r * x^8 + B * x^32) mod Generator.                      *)
RefFeed(r, b) == Rem(Plus(Shift(r, 8), Shift(BytePoly(b), 32)))

(* The positions of the one bits of a word.                              *)
WordBits(w) ==
  {b \in 0..15 : (w.lo \div 2 ^ b) % 2 = 1} \cup
  {b + 16 : b \in {b \in 0..15 : (w.hi \div 2 ^ b) % 2 = 1}}

(* The one bits of the CRC-32 whose remainder is r: reflect, invert.      *)
RefCrc(r) == {b \in 0..31 : (31 - b) \notin r}

-----------------------------------------------------------------------------
Init ==
  /\ msg \in Msgs
  /\ flip \in Flips(msg)
  /\ i = 1
  /\ load = LoadStart
  /\ asm = AsmStart
  /\ bad = LoadStart
  /\ ref = Preset

(* for (size_t i = 0; i < len; i++) { ... } in both functions.            *)
FeedByte ==
  /\ i <= Len(msg)
  /\ load' = ByteStep(load, msg[i])
  /\ asm' = ByteStep(asm, msg[i])
  /\ bad' = ByteStep(bad, Damaged[i])
  /\ ref' = RefFeed(ref, msg[i])
  /\ i' = i + 1
  /\ UNCHANGED <<msg, flip>>

(* The loop has ended; the functions return.                               *)
Finished == i > Len(msg)

Next == FeedByte

Spec == Init /\ [][Next]_vars

-----------------------------------------------------------------------------
IsWord(w) == w \in [hi : Half, lo : Half]

TypeOK ==
  /\ msg \in Seq(0..255)
  /\ flip \in Flips(msg)
  /\ i \in 1..Len(msg) + 1
  /\ IsWord(load) /\ IsWord(asm) /\ IsWord(bad)
  /\ ref \subseteq 0..31

(* After every pass of the loop, what crc32_buf and crc32_update(0, ...)  *)
(* would return if the data ended there is the CRC-32 of the bytes fed so *)
(* far, and the two agree: every container rune_asm writes passes the     *)
(* check at vm.c:441.                                                      *)
CrcMatchesReference ==
  /\ WordBits(Result(asm)) = RefCrc(ref)
  /\ WordBits(Result(load)) = RefCrc(ref)

(* The ASCII string "123456789".                                          *)
CheckMsg == <<49, 50, 51, 52, 53, 54, 55, 56, 57>>

(* Spec section 8, CRC integrity: flipping any single bit after the       *)
(* header changes the value rune_module_load computes, so the check at    *)
(* vm.c:441 rejects the container with BADMODULE.                         *)
SingleBitDetected ==
  Finished /\ flip # <<0, 0>> => Result(bad) # Result(asm)
====
