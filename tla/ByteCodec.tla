------------------------------ MODULE ByteCodec ------------------------------
(***************************************************************************)
(* Integers in bytes.  A byte is one of 0..ByteBase-1 (256 in the          *)
(* program), a u64 is U64Bytes of them (8).                                *)
(***************************************************************************)
EXTENDS Positional, SequencesExt

CONSTANTS ByteBase, U64Bytes

ASSUME ByteAssumption == ByteBase \in Nat \ {0, 1} /\ U64Bytes \in Nat \ {0}

Byte == 0..(ByteBase - 1)

BigEndian(bytes) == Horner(ByteBase, bytes)
LittleEndian(bytes) == Horner(ByteBase, Reverse(bytes))

\* to_le_bytes of a u64 or, of another width, of another integer.
BytesOf(n, width) == [i \in 1..width |-> (n \div Power(ByteBase, i - 1)) % ByteBase]
U64(n) == BytesOf(n, U64Bytes)
U64Max == Power(ByteBase, U64Bytes) - 1
=============================================================================
