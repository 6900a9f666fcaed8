------------------------------ MODULE MC_Crc32 ------------------------------
EXTENDS Crc32

(* Payloads of up to three bytes over bytes with the low bit, the high    *)
(* bit, all bits and alternating bits set, and the nine-byte check string. *)
MC_Bytes == {0, 1, 128, 255, 90}
MC_Msgs  == UNION {[1..n -> MC_Bytes] : n \in 0..3} \cup {CheckMsg}
====
