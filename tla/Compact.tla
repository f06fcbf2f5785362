-------------------------------- MODULE Compact --------------------------------
(***************************************************************************)
(* Difficulties (hasher.rs): a target is a number of HashSize bytes, its   *)
(* compact form a size in bytes and the three leading bytes, the top bit   *)
(* of which is a sign and stays clear.                                     *)
(***************************************************************************)
EXTENDS Integers

CONSTANTS
    Byte,       \* values of a byte (256): its top bit is a half of them
    HashSize,   \* bytes of a hash (32)
    PowLimit,   \* the highest target
    Span,       \* seconds a span of blocks should take (stime)
    TimeRange   \* values of the u32 that time is counted in (2^32)

(* 256 ^ n, for shifts by n bytes. *)
BytePow[n \in 0..HashSize] == IF n = 0 THEN 1 ELSE BytePow[n - 1] * Byte

ASSUME CompactAssumption ==
    /\ Byte \in Nat /\ Byte >= 2 /\ Byte % 2 = 0 /\ HashSize \in Nat /\ HashSize > 3
    /\ Span \in Nat \ {0} /\ PowLimit \in Nat /\ TimeRange \in Nat \ {0}
    \* what compute_bits multiplies fits a hash
    /\ PowLimit * Span * 4 < BytePow[HashSize]

SignBit == BytePow[3] \div 2     \* 0x800000

NumBytes(v) == CHOOSE n \in 0..HashSize : v < BytePow[n] /\ \A k \in 0..(n - 1) : v >= BytePow[k]

(* Hasher::try_from: the target of a compact form, and whether a hash holds it. *)
Expand(c) ==
    LET man == c.man % SignBit
    IN  IF c.size <= 3 THEN man \div BytePow[3 - c.size] ELSE man * BytePow[c.size - 3]
CanExpand(c) == Expand(c) < BytePow[HashSize]

\* mutant of ToCompact: the leading bytes may reach the sign
ToCompactSigned(v) ==
    LET s == NumBytes(v)
    IN  [size |-> s,
         man |-> IF s <= 3 THEN v * BytePow[3 - s] ELSE v \div BytePow[s - 3]]

(* Hasher::compact. *)
ToCompact(v) ==
    LET s   == NumBytes(v)
        man == IF s <= 3 THEN v * BytePow[3 - s] ELSE v \div BytePow[s - 3]
    IN  IF man >= SignBit THEN [size |-> s + 1, man |-> man \div Byte] ELSE [size |-> s, man |-> man]

(* The time between the two blocks as a u32: the cast wraps when the last   *)
(* one is the earlier, which only debug builds assert is not so.            *)
Elapsed(diff) == diff % TimeRange

(* The time the last span took, kept within a factor of four. *)
Clamped(sub) == IF sub < Span \div 4 THEN Span \div 4 ELSE IF sub > Span * 4 THEN Span * 4 ELSE sub

\* mutant of ComputeBits: the limit is forgotten
ComputeBitsUnlimited(diff, bits) ==
    ToCompact((Expand(bits) * Clamped(Elapsed(diff))) \div Span)

(* Hasher::compute_bits, diff the time of one block less that of the other. *)
ComputeBits(diff, bits) ==
    LET pow == (Expand(bits) * Clamped(Elapsed(diff))) \div Span
    IN  IF pow <= PowLimit THEN ToCompact(pow) ELSE ToCompact(PowLimit)

(* Hasher::verify_pow. *)
VerifyPow(id, bits) == CanExpand(bits) /\ PowLimit >= Expand(bits) /\ id <= Expand(bits)
=============================================================================
