-------------------------------- MODULE Bytes --------------------------------
(***************************************************************************)
(* What a frame is made of: little-endian numbers, sets of flags, packed   *)
(* times (time.rs), ids (protocol/id.rs) and keys (key.rs). A byte is a    *)
(* number below 256; a set of flags is the set of their values.            *)
(***************************************************************************)
EXTENDS Integers, Sequences, FiniteSets, FiniteSetsExt, SequencesExt

Byte == 0 .. 255
Zeros(n) == [i \in 1 .. n |-> 0]

\* the bytes of a number, in two's complement; those of a longer one than four repeat
\* its sign (numbers stay below 2^31, the arithmetic of the checker)
LE2(v) == <<v % 256, (v \div 256) % 256>>
LE4(v) == <<v % 256, (v \div 256) % 256, (v \div 65536) % 256, (v \div 16777216) % 256>>
LE8(v) == LE4(v) \o LE4(IF v < 0 THEN -1 ELSE 0)
Num2(b) == b[1] + 256 * b[2]
Num4(b) == Num2(b) + 65536 * (b[3] + 256 * b[4])

\* whether a length needs more than four bytes
ExceedsU32(n) == n \div 16777216 > 255

\* the flags in a number, and the number they make together
Flags8 == {1, 2, 4, 8, 16, 32, 64, 128}
Flags16 == Flags8 \cup {256 * p : p \in Flags8}
FlagsOf(all, v) == {p \in all : (v \div p) % 2 = 1}
Bit(p, flags) == IF p \in flags THEN p ELSE 0
LowBits(flags) ==
  Bit(1, flags) + Bit(2, flags) + Bit(4, flags) + Bit(8, flags)
    + Bit(16, flags) + Bit(32, flags) + Bit(64, flags) + Bit(128, flags)
Bits(flags) == LowBits(flags) + 256 * LowBits({p \in Flags8 : 256 * p \in flags})

(* PackedTime: 16 bits of flags over a value of 16 bits. *)
WithFlags(value, flags) == [value |-> value, flags |-> flags]
MergeFlags(time, flags) == [time EXCEPT !.flags = @ \cup flags]

TimeBits(time) == LE2(time.value) \o LE2(Bits(time.flags))
TimeOf(b) == WithFlags(Num2(SubSeq(b, 1, 2)), FlagsOf(Flags16, Num2(SubSeq(b, 3, 4))))

(* Id16: new() is 48 bits of time, 48 random bits and a counter; what      *)
(* matters is that the n-th call returns an id of its own. A group event's *)
(* lock id is a version over a client id.                                  *)
NewId(n) ==
  <<1, 2, 3, 4, 5, 6, 7, 8, 9, 10, 11, 12>>
    \o <<(n \div 16777216) % 128, (n \div 65536) % 256, (n \div 256) % 256, n % 256>>
IsCount(n) == n \in Nat /\ n \div 16777216 < 128      \* the counter starts over at 2^31
ZeroId16 == Zeros(16)
GroupEventId(client, version) == LE8(version) \o LE8(client)

(* Key16: a name of at most 16 bytes is padded on the left; a longer one   *)
(* is replaced by its MD5 digest, here 16 bytes that no short name gives.  *)
Key16(name) ==
  IF Len(name) > 16 THEN [i \in 1 .. 16 |-> 128 + (name[i] % 128)]
  ELSE Zeros(16 - Len(name)) \o name

\* the bytes that Rust's String::from_utf8 takes, of those the models use
IsUtf8(b) == \A i \in DOMAIN b : b[i] < 128
==============================================================================
