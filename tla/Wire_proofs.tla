----------------------------- MODULE Wire_proofs -----------------------------
(***************************************************************************)
(* Both ends of a connection agree, for all callers, operations, data,     *)
(* defaults and answers: what the server reads is what the callers wrote,  *)
(* with the times they asked for, and what a call returns is what the      *)
(* server answered to it, also the list or map in its data.  First what is *)
(* put into bytes is shown to be read from them, from numbers and flags up *)
(* to pipelines and frames; then that the streams are frames one behind    *)
(* the other, of which the readers take the next one; from that the        *)
(* invariant of Wire; and last what the reading of data finds.             *)
(***************************************************************************)
EXTENDS Wire, SequenceTheorems, TLAPS


(***************************************************************************)
(* Bytes: sequences joined, and pieces found in them.                      *)
(***************************************************************************)

(* The sequences of n bytes. *)
BytesOf(n) == {b \in Seq(Byte) : Len(b) = n}

(* What PackedTime holds: 16 bits of value and 16 of flags. *)
Times == [value : 0 .. U16MAX, flags : SUBSET Flags16]

(* w is s followed by t. *)
Joined(w, s, t) == s \in Seq(Byte) /\ t \in Seq(Byte) /\ w = s \o t

(* h has the n bytes x behind its first m. *)
Has(h, m, n, x) ==
  h \in Seq(Byte) /\ m \in Nat /\ n \in Nat /\ m + n <= Len(h) /\ x = Slice(h, m, n)

(* Only a number can be a size. *)
LEMMA SizeIsNat == \A m, s : s \in BytesOf(m) => m \in Nat
BY LenProperties DEF BytesOf

(* Bytes have a size. *)
LEMMA SizeOf == \A s : s \in Seq(Byte) => s \in BytesOf(Len(s)) /\ Len(s) \in Nat
BY LenProperties DEF BytesOf

(* The size of two pieces joined is the sum of theirs. *)
LEMMA Concat ==
  \A w, m, n, s, t :
    Joined(w, s, t) /\ s \in BytesOf(m) /\ t \in BytesOf(n) => w \in BytesOf(m + n)
BY DEF BytesOf, Joined

(* Every byte of a join comes from one of its two pieces, at its place. *)
LEMMA JoinedBytes ==
  \A w, s, t : Joined(w, s, t) =>
    /\ w \in Seq(Byte) /\ Len(w) = Len(s) + Len(t) /\ Len(s) \in Nat /\ Len(t) \in Nat
    /\ \A i \in 1 .. Len(s) : w[i] = s[i]
    /\ \A i \in 1 .. Len(t) : w[Len(s) + i] = t[i]
<1> SUFFICES ASSUME NEW s \in Seq(Byte), NEW t \in Seq(Byte), NEW w, w = s \o t
             PROVE  /\ w \in Seq(Byte) /\ Len(w) = Len(s) + Len(t)
                    /\ Len(s) \in Nat /\ Len(t) \in Nat
                    /\ \A i \in 1 .. Len(s) : w[i] = s[i]
                    /\ \A i \in 1 .. Len(t) : w[Len(s) + i] = t[i]
  BY DEF Joined
<1>1. Len(s) \in Nat /\ Len(t) \in Nat
  BY LenProperties
<1>2. /\ s \o t \in Seq(Byte) /\ Len(s \o t) = Len(s) + Len(t)
      /\ \A i \in 1 .. Len(s) + Len(t) : (s \o t)[i] = IF i <= Len(s) THEN s[i] ELSE t[i - Len(s)]
  BY ConcatProperties
<1>3. /\ w \in Seq(Byte) /\ Len(w) = Len(s) + Len(t)
      /\ \A i \in 1 .. Len(s) + Len(t) : w[i] = IF i <= Len(s) THEN s[i] ELSE t[i - Len(s)]
  BY <1>2, Zenon
<1> QED BY <1>1, <1>3

(* Bytes may be joined in any grouping. *)
LEMMA BytesAssociative == \A s, t, u \in Seq(Byte) : (s \o t) \o u = s \o (t \o u)
BY ConcatAssociative, SMTT(20)

(* An element of bytes is a byte. *)
LEMMA ByteAt ==
  \A m, s, i : s \in BytesOf(m) /\ i \in 1 .. m => s[i] \in Byte
BY ElementOfSeq DEF BytesOf

(* What a slice within a sequence is made of. *)
LEMMA Slices ==
  ASSUME NEW s \in Seq(Byte), NEW m \in Nat, NEW n \in Nat, m + n <= Len(s)
  PROVE  /\ Slice(s, m, n) \in Seq(Byte) /\ Len(Slice(s, m, n)) = n
         /\ \A i \in 1 .. n : Slice(s, m, n)[i] = s[m + i]
<1>1. Len(s) \in Nat
  BY LenProperties
<1>2. \A i \in 1 .. Len(s) : s[i] \in Byte
  BY ElementOfSeq
<1> DEFINE a == m + 1  b == m + n
<1>3. a \in Int /\ b \in Int /\ \A i \in a .. b : s[i] \in Byte
  BY <1>1, <1>2
<1> HIDE DEF a, b
<1>4. /\ SubSeq(s, a, b) \in Seq(Byte)
      /\ Len(SubSeq(s, a, b)) = IF a <= b THEN b - a + 1 ELSE 0
      /\ \A i \in 1 .. b - a + 1 : SubSeq(s, a, b)[i] = s[a + i - 1]
  BY <1>3, SubSeqProperties
<1>5. Slice(s, m, n) = SubSeq(s, a, b)
  BY DEF Slice, a, b
<1>6. /\ Slice(s, m, n) \in Seq(Byte)
      /\ Len(Slice(s, m, n)) = IF a <= b THEN b - a + 1 ELSE 0
      /\ \A i \in 1 .. b - a + 1 : Slice(s, m, n)[i] = s[a + i - 1]
  BY <1>4, <1>5
<1>7. b - a + 1 = n /\ (IF a <= b THEN b - a + 1 ELSE 0) = n /\ \A i \in 1 .. n : a + i - 1 = m + i
  BY DEF a, b
<1> QED BY <1>6, <1>7, Zenon

(* A slice is known by its bytes. *)
LEMMA SliceIs ==
  ASSUME NEW s \in Seq(Byte), NEW m \in Nat, NEW n \in Nat, m + n <= Len(s),
         NEW x \in Seq(Byte), Len(x) = n, \A i \in 1 .. n : s[m + i] = x[i]
  PROVE  Slice(s, m, n) = x
<1>1. /\ Slice(s, m, n) \in Seq(Byte) /\ Len(Slice(s, m, n)) = n
      /\ \A i \in 1 .. n : Slice(s, m, n)[i] = s[m + i]
  BY Slices
<1> QED BY <1>1, SeqEqual

(* What is in the first piece is in the join at the same place. *)
LEMMA HasLeft ==
  \A w, s, t, m, n, x : Joined(w, s, t) /\ Has(s, m, n, x) => Has(w, m, n, x)
<1> SUFFICES ASSUME NEW w, NEW s, NEW t, NEW m, NEW n, NEW x, Joined(w, s, t), Has(s, m, n, x)
             PROVE  Has(w, m, n, x)
  OBVIOUS
<1>1. /\ s \in Seq(Byte) /\ m \in Nat /\ n \in Nat /\ m + n <= Len(s) /\ x = Slice(s, m, n)
  BY DEF Has
<1>2. /\ w \in Seq(Byte) /\ Len(w) = Len(s) + Len(t) /\ Len(s) \in Nat /\ Len(t) \in Nat
      /\ \A i \in 1 .. Len(s) : w[i] = s[i]
  BY JoinedBytes
<1>3. x \in Seq(Byte) /\ Len(x) = n /\ \A i \in 1 .. n : x[i] = s[m + i]
  BY <1>1, Slices
<1>4. m + n <= Len(w)
  BY <1>1, <1>2
<1>5. \A i \in 1 .. n : w[m + i] = x[i]
  <2> TAKE i \in 1 .. n
  <2>1. m + i \in 1 .. Len(s)
    BY <1>1, <1>2
  <2>2. w[m + i] = s[m + i] /\ s[m + i] = x[i]
    BY <1>2, <1>3, <2>1, Zenon
  <2> QED BY <2>2
<1>6. Slice(w, m, n) = x
  <2>1. w \in Seq(Byte) /\ m \in Nat /\ n \in Nat /\ x \in Seq(Byte) /\ Len(x) = n
    BY <1>1, <1>2, <1>3, Zenon
  <2> QED BY <1>4, <1>5, <2>1, SliceIs
<1> QED BY <1>1, <1>2, <1>4, <1>6, Zenon DEF Has

(* What is in the second piece is in the join, behind the first. *)
LEMMA HasInside ==
  \A w, s, t, k, m, n, x :
    Joined(w, s, t) /\ s \in BytesOf(k) /\ Has(t, m, n, x) => Has(w, k + m, n, x)
<1> SUFFICES ASSUME NEW w, NEW k, NEW s \in BytesOf(k), NEW t, NEW m, NEW n, NEW x,
                    Joined(w, s, t), Has(t, m, n, x)
             PROVE  Has(w, k + m, n, x)
  OBVIOUS
<1>1. /\ t \in Seq(Byte) /\ m \in Nat /\ n \in Nat /\ m + n <= Len(t) /\ x = Slice(t, m, n)
  BY DEF Has
<1>2. k = Len(s)
  BY DEF BytesOf
<1>3. /\ w \in Seq(Byte) /\ Len(w) = k + Len(t) /\ k \in Nat /\ Len(t) \in Nat
      /\ \A i \in 1 .. Len(t) : w[k + i] = t[i]
  BY <1>2, JoinedBytes
<1>4. x \in Seq(Byte) /\ Len(x) = n /\ \A i \in 1 .. n : x[i] = t[m + i]
  BY <1>1, Slices
<1>5. k + m \in Nat /\ k + m + n <= Len(w)
  BY <1>1, <1>3
<1>6. \A i \in 1 .. n : w[k + m + i] = x[i]
  <2> TAKE i \in 1 .. n
  <2>1. m + i \in 1 .. Len(t) /\ k + (m + i) = k + m + i
    BY <1>1, <1>3
  <2> QED BY <1>3, <1>4, <2>1
<1>7. Slice(w, k + m, n) = x
  <2>1. /\ w \in Seq(Byte) /\ k + m \in Nat /\ n \in Nat /\ k + m + n <= Len(w)
        /\ x \in Seq(Byte) /\ Len(x) = n
    BY <1>1, <1>3, <1>4, <1>5, Zenon
  <2> QED BY <1>6, <2>1, SliceIs
<1> QED BY <1>1, <1>3, <1>5, <1>7, Zenon DEF Has

(* Bytes have themselves in them. *)
LEMMA HasAll == \A s, n : s \in BytesOf(n) => Has(s, 0, n, s)
<1> SUFFICES ASSUME NEW n, NEW s \in BytesOf(n) PROVE Has(s, 0, n, s)
  OBVIOUS
<1>1. s \in Seq(Byte) /\ Len(s) = n /\ n \in Nat
  BY SizeIsNat DEF BytesOf
<1>2. Slice(s, 0, n) = s
  BY <1>1, SliceIs
<1> QED BY <1>1, <1>2 DEF Has

(* A join has its second piece behind its first. *)
LEMMA HasRight ==
  \A w, s, t, m, n : Joined(w, s, t) /\ s \in BytesOf(m) /\ t \in BytesOf(n) => Has(w, m, n, t)
<1> SUFFICES ASSUME NEW w, NEW m, NEW n, NEW s \in BytesOf(m), NEW t \in BytesOf(n),
                    Joined(w, s, t)
             PROVE  Has(w, m, n, t)
  OBVIOUS
<1>1. Has(t, 0, n, t) /\ m \in Nat
  BY HasAll, SizeIsNat
<1>2. Has(w, m + 0, n, t)
  BY <1>1, HasInside
<1>3. m + 0 = m
  BY <1>1
<1> QED BY <1>2, <1>3

(* A stream is cut where its first piece ends: SubSeq takes the piece, Rest what follows. *)
LEMMA FirstPart ==
  ASSUME NEW w, NEW m, NEW s, NEW t, Joined(w, s, t), s \in BytesOf(m)
  PROVE  SubSeq(w, 1, m) = s /\ Rest(w, m) = t
<1> DEFINE n == Len(t)
<1>1. t \in BytesOf(n) /\ n \in Nat /\ m \in Nat
  BY SizeOf, SizeIsNat DEF Joined
<1>2. w \in BytesOf(m + n)
  BY <1>1, Concat
<1> HIDE DEF n
<1>3. Has(w, 0, m, s) /\ Has(w, m, n, t)
  BY <1>1, HasAll, HasLeft, HasRight
<1>4. Slice(w, 0, m) = s /\ Slice(w, m, n) = t /\ Len(w) = m + n
  BY <1>2, <1>3, Zenon DEF Has, BytesOf
<1>5. 0 + 1 = 1 /\ 0 + m = m
  BY <1>1
<1>6. SubSeq(w, 1, m) = s
  BY <1>4, <1>5, Zenon DEF Slice
<1>7. Rest(w, m) = t
  BY <1>4, Zenon DEF Rest, Slice
<1> QED BY <1>6, <1>7, Zenon

(* The bytes of a piece at their places. *)
LEMMA HasByte ==
  \A h, m, n, x, i : Has(h, m, n, x) /\ i \in 1 .. n => h[m + i] = x[i]
<1> TAKE h, m, n, x, i
<1> HAVE Has(h, m, n, x) /\ i \in 1 .. n
<1>1. h \in Seq(Byte) /\ m \in Nat /\ n \in Nat /\ m + n <= Len(h) /\ x = Slice(h, m, n)
  BY DEF Has
<1> QED BY <1>1, Slices, Zenon

(***************************************************************************)
(* Numbers, flags, times and ids: what is put into bytes is read from them.*)
(***************************************************************************)

(* The bound of a u16 as a number. *)
LEMMA BelowU16 == \A v \in Int : v \in 0 .. U16MAX <=> 0 <= v /\ v <= 65535
<1> DEFINE m == 65535
<1>1. U16MAX = m /\ m \in Int
  BY DEF U16MAX
<1> HIDE DEF m
<1>2. \A v \in Int : v \in 0 .. U16MAX <=> 0 <= v /\ v <= m
  BY <1>1
<1> QED BY <1>2 DEF m

(* to_le_bytes of a u16 is two bytes. *)
LEMMA LE2Typed == \A v \in Int : LE2(v) \in BytesOf(2)
BY DEF LE2, Byte, BytesOf

(* to_le_bytes of a u32 is four. *)
LEMMA LE4Typed == \A v \in Int : LE4(v) \in BytesOf(4)
BY DEF LE4, Byte, BytesOf

(* Two bytes make a u16. *)
LEMMA Num2Typed == \A b : b[1] \in Byte /\ b[2] \in Byte => Num2(b) \in 0 .. U16MAX
<1> SUFFICES ASSUME NEW b, b[1] \in Byte, b[2] \in Byte PROVE Num2(b) \in 0 .. U16MAX
  OBVIOUS
<1>1. \A x, y \in Byte : x + 256 * y \in Int /\ 0 <= x + 256 * y /\ x + 256 * y <= 65535
  BY DEF Byte
<1>2. \A x, y \in Byte : x + 256 * y \in 0 .. U16MAX
  BY <1>1, BelowU16
<1> QED BY <1>2 DEF Num2

(* A u16 is read back. *)
LEMMA Num2OfLE2 == \A v \in 0 .. U16MAX : Num2(LE2(v)) = v
<1>1. \A v \in Nat : v < 65536 => Num2(LE2(v)) = v
  BY DEF LE2, Num2
<1>2. \A v \in 0 .. U16MAX : v \in Nat /\ v < 65536
  <2>1. \A v \in Int : 0 <= v /\ v <= 65535 => v \in Nat /\ v < 65536
    OBVIOUS
  <2>2. \A v \in 0 .. U16MAX : v \in Int
    OBVIOUS
  <2>3. \A v \in 0 .. U16MAX : 0 <= v /\ v <= 65535
    BY <2>2, BelowU16
  <2> QED BY <2>1, <2>2, <2>3
<1> QED BY <1>1, <1>2

(* A length is read back, as long as it needs no more than four bytes: what encode checks. *)
LEMMA Num4OfLE4 == \A v \in Nat : ~ExceedsU32(v) => Num4(LE4(v)) = v
BY DEF LE4, Num4, Num2, ExceedsU32

(* The padding of a frame is bytes. *)
LEMMA ZerosTyped == \A n \in Nat : Zeros(n) \in BytesOf(n)
<1> TAKE n \in Nat
<1>1. Zeros(n) \in [1 .. n -> Byte]
  BY DEF Zeros, Byte
<1> QED BY <1>1 DEF BytesOf

(* The flags below 256 make a byte. *)
LEMMA LowBitsTyped == \A F : LowBits(F) \in Byte
BY DEF LowBits, Bit, Byte

(* Each flag of that byte is a bit of its own. *)
LEMMA LowBitsRead ==
  \A F : \A p \in Flags8 : (LowBits(F) \div p) % 2 = 1 <=> p \in F
<1> TAKE F
<1>1. (LowBits(F) \div 1) % 2 = 1 <=> 1 \in F
  BY DEF LowBits, Bit
<1>2. (LowBits(F) \div 2) % 2 = 1 <=> 2 \in F
  BY DEF LowBits, Bit
<1>3. (LowBits(F) \div 4) % 2 = 1 <=> 4 \in F
  BY DEF LowBits, Bit
<1>4. (LowBits(F) \div 8) % 2 = 1 <=> 8 \in F
  BY DEF LowBits, Bit
<1>5. (LowBits(F) \div 16) % 2 = 1 <=> 16 \in F
  BY DEF LowBits, Bit
<1>6. (LowBits(F) \div 32) % 2 = 1 <=> 32 \in F
  BY DEF LowBits, Bit
<1>7. (LowBits(F) \div 64) % 2 = 1 <=> 64 \in F
  BY DEF LowBits, Bit
<1>8. (LowBits(F) \div 128) % 2 = 1 <=> 128 \in F
  BY DEF LowBits, Bit
<1> QED BY <1>1, <1>2, <1>3, <1>4, <1>5, <1>6, <1>7, <1>8 DEF Flags8

(* A byte of flags is read back. *)
LEMMA Flags8Read ==
  \A F \in SUBSET Flags8 : Bits(F) \in Byte /\ FlagsOf(Flags8, Bits(F)) = F
<1> TAKE F \in SUBSET Flags8
<1>1. Bits(F) = LowBits(F)
  <2>1. {p \in Flags8 : 256 * p \in F} = {}
    BY DEF Flags8
  <2>2. LowBits({}) = 0
    BY DEF LowBits, Bit
  <2>3. Bits(F) = LowBits(F) + 256 * 0
    BY <2>1, <2>2 DEF Bits
  <2> QED BY <2>3, LowBitsTyped DEF Byte
<1> QED BY <1>1, LowBitsTyped, LowBitsRead DEF FlagsOf

(* The low flags of 16 bits do not depend on the high byte. *)
LEMMA LowFlag ==
  \A x, y \in Byte : \A p \in Flags8 : ((x + 256 * y) \div p) % 2 = (x \div p) % 2
<1> SUFFICES ASSUME NEW x \in Byte, NEW y \in Byte
             PROVE  \A p \in Flags8 : ((x + 256 * y) \div p) % 2 = (x \div p) % 2
  OBVIOUS
<1>0. x \in Int /\ y \in Int
  BY DEF Byte
<1>1. ((x + 256 * y) \div 1) % 2 = (x \div 1) % 2
  BY <1>0
<1>2. ((x + 256 * y) \div 2) % 2 = (x \div 2) % 2
  BY <1>0
<1>3. ((x + 256 * y) \div 4) % 2 = (x \div 4) % 2
  BY <1>0
<1>4. ((x + 256 * y) \div 8) % 2 = (x \div 8) % 2
  BY <1>0
<1>5. ((x + 256 * y) \div 16) % 2 = (x \div 16) % 2
  BY <1>0
<1>6. ((x + 256 * y) \div 32) % 2 = (x \div 32) % 2
  BY <1>0
<1>7. ((x + 256 * y) \div 64) % 2 = (x \div 64) % 2
  BY <1>0
<1>8. ((x + 256 * y) \div 128) % 2 = (x \div 128) % 2
  BY <1>0
<1> QED BY <1>1, <1>2, <1>3, <1>4, <1>5, <1>6, <1>7, <1>8 DEF Flags8

(* The high flags are the flags of the high byte. *)
LEMMA HighFlag ==
  \A x, y \in Byte : \A p \in Flags8 : (x + 256 * y) \div (256 * p) = y \div p
<1> SUFFICES ASSUME NEW x \in Byte, NEW y \in Byte
             PROVE  \A p \in Flags8 : (x + 256 * y) \div (256 * p) = y \div p
  OBVIOUS
<1>0. x \in Int /\ y \in Int /\ 0 <= x /\ x < 256
  BY DEF Byte
<1>1. (x + 256 * y) \div 256 = y \div 1
  BY <1>0
<1>2. (x + 256 * y) \div 512 = y \div 2
  BY <1>0
<1>3. (x + 256 * y) \div 1024 = y \div 4
  BY <1>0
<1>4. (x + 256 * y) \div 2048 = y \div 8
  BY <1>0
<1>5. (x + 256 * y) \div 4096 = y \div 16
  BY <1>0
<1>6. (x + 256 * y) \div 8192 = y \div 32
  BY <1>0
<1>7. (x + 256 * y) \div 16384 = y \div 64
  BY <1>0
<1>8. (x + 256 * y) \div 32768 = y \div 128
  BY <1>0
<1> QED BY <1>1, <1>2, <1>3, <1>4, <1>5, <1>6, <1>7, <1>8 DEF Flags8

(* Sixteen flags are read back. *)
LEMMA Flags16Read ==
  \A F \in SUBSET Flags16 : Bits(F) \in 0 .. U16MAX /\ FlagsOf(Flags16, Bits(F)) = F
<1> TAKE F \in SUBSET Flags16
<1> DEFINE x == LowBits(F)
           H == {p \in Flags8 : 256 * p \in F}
           y == LowBits(H)
<1>1. x \in Byte /\ y \in Byte /\ Bits(F) = x + 256 * y
  BY LowBitsTyped DEF Bits
<1>2. Bits(F) \in 0 .. U16MAX
  <2> HIDE DEF x, y
  <2>1. x + 256 * y \in Int /\ 0 <= x + 256 * y /\ x + 256 * y <= 65535
    BY <1>1 DEF Byte
  <2> QED BY <1>1, <2>1, BelowU16
<1>3. \A p \in Flags8 : (Bits(F) \div p) % 2 = 1 <=> p \in F
  <2>1. \A p \in Flags8 : (x \div p) % 2 = 1 <=> p \in F
    BY LowBitsRead
  <2> HIDE DEF x, y
  <2> QED BY <1>1, <2>1, LowFlag
<1>4. \A p \in Flags8 : (Bits(F) \div (256 * p)) % 2 = 1 <=> 256 * p \in F
  <2>1. \A p \in Flags8 : (y \div p) % 2 = 1 <=> 256 * p \in F
    BY LowBitsRead
  <2> HIDE DEF x, y
  <2> QED BY <1>1, <2>1, HighFlag
<1>5. \A p \in Flags16 : (Bits(F) \div p) % 2 = 1 <=> p \in F
  BY <1>3, <1>4 DEF Flags16
<1> QED BY <1>2, <1>5 DEF FlagsOf

(* PackedTime goes through its four bytes unchanged. *)
LEMMA TimeRead ==
  \A t \in Times : TimeBits(t) \in BytesOf(4) /\ TimeOf(TimeBits(t)) = t
<1> SUFFICES ASSUME NEW t \in Times
             PROVE  TimeBits(t) \in BytesOf(4) /\ TimeOf(TimeBits(t)) = t
  OBVIOUS
<1> DEFINE v == LE2(t.value)  f == LE2(Bits(t.flags))
<1>1. t.value \in 0 .. U16MAX /\ t.flags \in SUBSET Flags16
  BY DEF Times
<1>2. t.value \in Int /\ Bits(t.flags) \in 0 .. U16MAX /\ Bits(t.flags) \in Int
  BY <1>1, Flags16Read
<1>3. v \in BytesOf(2) /\ f \in BytesOf(2) /\ Num2(v) = t.value /\ Num2(f) = Bits(t.flags)
  BY <1>1, <1>2, LE2Typed, Num2OfLE2
<1>4. FlagsOf(Flags16, Num2(f)) = t.flags
  BY <1>1, <1>3, Flags16Read
<1>5. Joined(TimeBits(t), v, f)
  BY <1>3, Zenon DEF Joined, BytesOf, TimeBits
<1> HIDE DEF v, f
<1>6. TimeBits(t) \in BytesOf(4)
  BY <1>3, <1>5, Concat
<1>7. Slice(TimeBits(t), 0, 2) = v /\ Slice(TimeBits(t), 2, 2) = f
  <2>1. Has(v, 0, 2, v) /\ Has(TimeBits(t), 2, 2, f)
    BY <1>3, <1>5, HasAll, HasRight
  <2>2. Has(TimeBits(t), 0, 2, v)
    BY <1>5, <2>1, HasLeft
  <2> QED BY <2>1, <2>2, Zenon DEF Has
<1>8. SubSeq(TimeBits(t), 1, 2) = v /\ SubSeq(TimeBits(t), 3, 4) = f
  <2>1. \A b : Slice(b, 0, 2) = SubSeq(b, 1, 2) /\ Slice(b, 2, 2) = SubSeq(b, 3, 4)
    BY DEF Slice
  <2> QED BY <1>7, <2>1, Zenon
<1>9. TimeOf(TimeBits(t)) = [value |-> t.value, flags |-> t.flags]
  <2>1. TimeOf(TimeBits(t)) = [value |-> Num2(v), flags |-> FlagsOf(Flags16, Num2(f))]
    BY <1>8, Zenon DEF TimeOf, WithFlags
  <2> QED BY <1>3, <1>4, <2>1
<1>10. t = [value |-> t.value, flags |-> t.flags]
  BY DEF Times
<1> QED BY <1>6, <1>9, <1>10

(* An id is 16 bytes. *)
LEMMA NewIdTyped == \A n \in Int : NewId(n) \in BytesOf(16)
<1> TAKE n \in Int
<1> DEFINE a == <<1, 2, 3, 4, 5, 6, 7, 8, 9, 10, 11, 12>>
           b == <<(n \div 16777216) % 128, (n \div 65536) % 256, (n \div 256) % 256, n % 256>>
<1>1. a \in BytesOf(12)
  BY DEF Byte, BytesOf
<1>2. b \in BytesOf(4)
  BY DEF Byte, BytesOf
<1>3. NewId(n) = a \o b
  BY DEF NewId
<1> HIDE DEF a, b
<1>4. Joined(NewId(n), a, b)
  BY <1>1, <1>2, <1>3, Zenon DEF Joined, BytesOf
<1> QED BY <1>1, <1>2, <1>4, Concat

(* Two ids of the counter differ, until it starts over. *)
LEMMA NewIdInjective ==
  \A m, n \in Nat : IsCount(m) /\ IsCount(n) /\ NewId(m) = NewId(n) => m = n
<1> SUFFICES ASSUME NEW m \in Nat, NEW n \in Nat, IsCount(m), IsCount(n), NewId(m) = NewId(n)
             PROVE  m = n
  OBVIOUS
<1>1. /\ NewId(m)[13] = (m \div 16777216) % 128 /\ NewId(m)[14] = (m \div 65536) % 256
      /\ NewId(m)[15] = (m \div 256) % 256 /\ NewId(m)[16] = m % 256
  BY DEF NewId
<1>2. /\ NewId(n)[13] = (n \div 16777216) % 128 /\ NewId(n)[14] = (n \div 65536) % 256
      /\ NewId(n)[15] = (n \div 256) % 256 /\ NewId(n)[16] = n % 256
  BY DEF NewId
<1>3. /\ (m \div 16777216) % 128 = (n \div 16777216) % 128
      /\ (m \div 65536) % 256 = (n \div 65536) % 256
      /\ (m \div 256) % 256 = (n \div 256) % 256
      /\ m % 256 = n % 256
  BY <1>1, <1>2
<1> QED BY <1>3 DEF IsCount

(* A key is 16 bytes, whatever the name. *)
LEMMA Key16Typed == \A name \in Seq(Byte) : Key16(name) \in BytesOf(16)
<1> TAKE name \in Seq(Byte)
<1>0. Len(name) \in Nat
  BY LenProperties
<1>1. CASE Len(name) > 16
  <2> DEFINE k(n) == [i \in 1 .. n |-> 128 + (name[i] % 128)]
  <2>1. \A n \in Nat : n <= Len(name) => k(n) \in BytesOf(n)
    <3> SUFFICES ASSUME NEW n \in Nat, n <= Len(name) PROVE k(n) \in BytesOf(n)
      OBVIOUS
    <3>1. \A i \in 1 .. n : name[i] \in Byte
      BY <1>0, ElementOfSeq
    <3>2. \A x \in Byte : 128 + (x % 128) \in Byte
      BY DEF Byte
    <3>3. k(n) \in [1 .. n -> Byte]
      BY <3>1, <3>2
    <3> QED BY <3>3 DEF BytesOf
  <2>2. Key16(name) = k(16)
    BY <1>1, Zenon DEF Key16
  <2> HIDE DEF k
  <2> QED BY <1>0, <1>1, <2>1, <2>2
<1>2. CASE Len(name) <= 16
  <2>1. 16 - Len(name) \in Nat /\ name \in BytesOf(Len(name))
    BY <1>0, <1>2 DEF BytesOf
  <2>2. Zeros(16 - Len(name)) \in BytesOf(16 - Len(name))
    BY <2>1, ZerosTyped
  <2>3. ~(Len(name) > 16)
    BY <1>0, <1>2
  <2>4. Key16(name) = Zeros(16 - Len(name)) \o name
    BY <2>3, Zenon DEF Key16
  <2>5. Joined(Key16(name), Zeros(16 - Len(name)), name)
    BY <2>1, <2>2, <2>4, Zenon DEF Joined, BytesOf
  <2>6. Key16(name) \in BytesOf((16 - Len(name)) + Len(name))
    BY <2>1, <2>2, <2>5, Concat, Zenon
  <2>7. (16 - Len(name)) + Len(name) = 16
    BY <1>0
  <2> QED BY <2>6, <2>7, Zenon
<1> QED BY <1>0, <1>1, <1>2

(* A version over a client id makes a lock id. *)
LEMMA GroupEventIdTyped == \A u, v \in Int : GroupEventId(u, v) \in BytesOf(16)
<1>1. \A v \in Int : LE8(v) \in BytesOf(8)
  <2> TAKE v \in Int
  <2> DEFINE a == LE4(v)  b == LE4(IF v < 0 THEN -1 ELSE 0)
  <2>1. a \in BytesOf(4) /\ b \in BytesOf(4)
    BY LE4Typed
  <2>2. Joined(LE8(v), a, b)
    BY <2>1, Zenon DEF Joined, BytesOf, LE8
  <2> HIDE DEF a, b
  <2> QED BY <2>1, <2>2, Concat
<1> TAKE u, v \in Int
<1>2. LE8(v) \in BytesOf(8) /\ LE8(u) \in BytesOf(8)
  BY <1>1
<1>3. Joined(GroupEventId(u, v), LE8(v), LE8(u))
  BY <1>2, Zenon DEF Joined, BytesOf, GroupEventId
<1>4. 8 + 8 = 16
  OBVIOUS
<1> QED BY <1>2, <1>3, <1>4, Concat, Zenon

(***************************************************************************)
(* Headers: the pieces a frame is put together from are found in it.       *)
(***************************************************************************)

(* Another piece behind what is there. *)
LEMMA Extend ==
  ASSUME NEW w, NEW s, NEW t, NEW m, NEW n, Joined(w, s, t), s \in BytesOf(m), t \in BytesOf(n)
  PROVE  /\ w \in BytesOf(m + n) /\ Has(w, m, n, t)
         /\ \A i, k, x : Has(s, i, k, x) => Has(w, i, k, x)
BY Concat, HasRight, HasLeft, Zenon

(* The parts of a frame's header: what starts it, the request id, the rest. *)
Three(h, a, b, c) == h = a \o b \o c

(* Where the pieces of PING and of a response are. *)
LEMMA ThreePieces ==
  ASSUME NEW a \in BytesOf(3), NEW b \in BytesOf(16), NEW c \in BytesOf(45), NEW h,
         Three(h, a, b, c)
  PROVE  /\ h \in BytesOf(64) /\ Has(h, 0, 3, a) /\ Has(h, 3, 16, b)
         /\ Has(h, 19, 45, c)
<1> DEFINE h2 == a \o b  h3 == h2 \o c  n3 == 3  n16 == 16  n19 == 19
           n45 == 45  n64 == 64
<1>0. /\ n3 + n16 = n19 /\ n19 + n45 = n64
  OBVIOUS
<1>1. /\ a \in BytesOf(n3) /\ Has(a, 0, n3, a) /\ b \in BytesOf(n16)
      /\ c \in BytesOf(n45)
  BY HasAll
<1> HIDE DEF n3, n16, n19, n45, n64
<1>2. /\ h2 \in BytesOf(n19) /\ Has(h2, 0, n3, a) /\ Has(h2, n3, n16, b)
  <2>1. Joined(h2, a, b)
    BY <1>1, <1>1, Zenon DEF Joined, BytesOf
  <2> HIDE DEF h2
  <2> QED BY <1>0, <1>1, <1>1, <2>1, Extend, Zenon
<1> HIDE DEF h2
<1>3. /\ h3 \in BytesOf(n64) /\ Has(h3, 0, n3, a) /\ Has(h3, n3, n16, b)
      /\ Has(h3, n19, n45, c)
  <2>1. Joined(h3, h2, c)
    BY <1>1, <1>2, Zenon DEF Joined, BytesOf
  <2> HIDE DEF h3
  <2> QED BY <1>0, <1>1, <1>2, <2>1, Extend, Zenon
<1> HIDE DEF h3
<1>4. h = h3
  BY Zenon DEF Three, h2, h3
<1> QED BY <1>3, <1>4, Zenon DEF n3, n16, n19, n45, n64

(* The parts of the header of INIT. *)
Four(h, a, b, c, d) == h = a \o b \o c \o d

(* Where the pieces of INIT are. *)
LEMMA FourPieces ==
  ASSUME NEW a \in BytesOf(3), NEW b \in BytesOf(16), NEW c \in BytesOf(16), NEW d \in BytesOf(29),
         NEW h, Four(h, a, b, c, d)
  PROVE  /\ h \in BytesOf(64) /\ Has(h, 0, 3, a) /\ Has(h, 3, 16, b)
         /\ Has(h, 19, 16, c) /\ Has(h, 35, 29, d)
<1> DEFINE h2 == a \o b  h3 == h2 \o c  h4 == h3 \o d  n3 == 3  n16 == 16
           n19 == 19  n29 == 29  n35 == 35  n64 == 64
<1>0. /\ n3 + n16 = n19 /\ n19 + n16 = n35 /\ n35 + n29 = n64
  OBVIOUS
<1>1. /\ a \in BytesOf(n3) /\ Has(a, 0, n3, a) /\ b \in BytesOf(n16)
      /\ c \in BytesOf(n16) /\ d \in BytesOf(n29)
  BY HasAll
<1> HIDE DEF n3, n16, n19, n29, n35, n64
<1>2. /\ h2 \in BytesOf(n19) /\ Has(h2, 0, n3, a) /\ Has(h2, n3, n16, b)
  <2>1. Joined(h2, a, b)
    BY <1>1, <1>1, Zenon DEF Joined, BytesOf
  <2> HIDE DEF h2
  <2> QED BY <1>0, <1>1, <1>1, <2>1, Extend, Zenon
<1> HIDE DEF h2
<1>3. /\ h3 \in BytesOf(n35) /\ Has(h3, 0, n3, a) /\ Has(h3, n3, n16, b)
      /\ Has(h3, n19, n16, c)
  <2>1. Joined(h3, h2, c)
    BY <1>1, <1>2, Zenon DEF Joined, BytesOf
  <2> HIDE DEF h3
  <2> QED BY <1>0, <1>1, <1>2, <2>1, Extend, Zenon
<1> HIDE DEF h3
<1>4. /\ h4 \in BytesOf(n64) /\ Has(h4, 0, n3, a) /\ Has(h4, n3, n16, b)
      /\ Has(h4, n19, n16, c) /\ Has(h4, n35, n29, d)
  <2>1. Joined(h4, h3, d)
    BY <1>1, <1>3, Zenon DEF Joined, BytesOf
  <2> HIDE DEF h4
  <2> QED BY <1>0, <1>1, <1>3, <2>1, Extend, Zenon
<1> HIDE DEF h4
<1>5. h = h4
  BY Zenon DEF Four, h2, h3, h4
<1> QED BY <1>4, <1>5, Zenon DEF n3, n16, n19, n29, n35, n64

(* The rest of the header of a response to a lock command. *)
Seven(h, a, b, c, d, e, f, g) == h = a \o b \o c \o d \o e \o f \o g

(* Where the pieces of the rest of a lock response are. *)
LEMMA SevenPieces ==
  ASSUME NEW a \in BytesOf(3), NEW b \in BytesOf(16), NEW c \in BytesOf(16), NEW d \in BytesOf(2),
         NEW e \in BytesOf(2), NEW f \in BytesOf(2), NEW g \in BytesOf(4), NEW h,
         Seven(h, a, b, c, d, e, f, g)
  PROVE  /\ h \in BytesOf(45) /\ Has(h, 0, 3, a) /\ Has(h, 3, 16, b)
         /\ Has(h, 19, 16, c) /\ Has(h, 35, 2, d) /\ Has(h, 37, 2, e)
         /\ Has(h, 39, 2, f) /\ Has(h, 41, 4, g)
<1> DEFINE h2 == a \o b  h3 == h2 \o c  h4 == h3 \o d  h5 == h4 \o e  h6 == h5 \o f
           h7 == h6 \o g  n2 == 2  n3 == 3  n4 == 4  n16 == 16
           n19 == 19  n35 == 35  n37 == 37  n39 == 39  n41 == 41
           n45 == 45
<1>0. /\ n3 + n16 = n19 /\ n19 + n16 = n35 /\ n35 + n2 = n37 /\ n37 + n2 = n39
      /\ n39 + n2 = n41 /\ n41 + n4 = n45
  OBVIOUS
<1>1. /\ a \in BytesOf(n3) /\ Has(a, 0, n3, a) /\ b \in BytesOf(n16)
      /\ c \in BytesOf(n16) /\ d \in BytesOf(n2) /\ e \in BytesOf(n2)
      /\ f \in BytesOf(n2) /\ g \in BytesOf(n4)
  BY HasAll
<1> HIDE DEF n2, n3, n4, n16, n19, n35, n37, n39, n41, n45
<1>2. /\ h2 \in BytesOf(n19) /\ Has(h2, 0, n3, a) /\ Has(h2, n3, n16, b)
  <2>1. Joined(h2, a, b)
    BY <1>1, <1>1, Zenon DEF Joined, BytesOf
  <2> HIDE DEF h2
  <2> QED BY <1>0, <1>1, <1>1, <2>1, Extend, Zenon
<1> HIDE DEF h2
<1>3. /\ h3 \in BytesOf(n35) /\ Has(h3, 0, n3, a) /\ Has(h3, n3, n16, b)
      /\ Has(h3, n19, n16, c)
  <2>1. Joined(h3, h2, c)
    BY <1>1, <1>2, Zenon DEF Joined, BytesOf
  <2> HIDE DEF h3
  <2> QED BY <1>0, <1>1, <1>2, <2>1, Extend, Zenon
<1> HIDE DEF h3
<1>4. /\ h4 \in BytesOf(n37) /\ Has(h4, 0, n3, a) /\ Has(h4, n3, n16, b)
      /\ Has(h4, n19, n16, c) /\ Has(h4, n35, n2, d)
  <2>1. Joined(h4, h3, d)
    BY <1>1, <1>3, Zenon DEF Joined, BytesOf
  <2> HIDE DEF h4
  <2> QED BY <1>0, <1>1, <1>3, <2>1, Extend, Zenon
<1> HIDE DEF h4
<1>5. /\ h5 \in BytesOf(n39) /\ Has(h5, 0, n3, a) /\ Has(h5, n3, n16, b)
      /\ Has(h5, n19, n16, c) /\ Has(h5, n35, n2, d) /\ Has(h5, n37, n2, e)
  <2>1. Joined(h5, h4, e)
    BY <1>1, <1>4, Zenon DEF Joined, BytesOf
  <2> HIDE DEF h5
  <2> QED BY <1>0, <1>1, <1>4, <2>1, Extend, Zenon
<1> HIDE DEF h5
<1>6. /\ h6 \in BytesOf(n41) /\ Has(h6, 0, n3, a) /\ Has(h6, n3, n16, b)
      /\ Has(h6, n19, n16, c) /\ Has(h6, n35, n2, d) /\ Has(h6, n37, n2, e)
      /\ Has(h6, n39, n2, f)
  <2>1. Joined(h6, h5, f)
    BY <1>1, <1>5, Zenon DEF Joined, BytesOf
  <2> HIDE DEF h6
  <2> QED BY <1>0, <1>1, <1>5, <2>1, Extend, Zenon
<1> HIDE DEF h6
<1>7. /\ h7 \in BytesOf(n45) /\ Has(h7, 0, n3, a) /\ Has(h7, n3, n16, b)
      /\ Has(h7, n19, n16, c) /\ Has(h7, n35, n2, d) /\ Has(h7, n37, n2, e)
      /\ Has(h7, n39, n2, f) /\ Has(h7, n41, n4, g)
  <2>1. Joined(h7, h6, g)
    BY <1>1, <1>6, Zenon DEF Joined, BytesOf
  <2> HIDE DEF h7
  <2> QED BY <1>0, <1>1, <1>6, <2>1, Extend, Zenon
<1> HIDE DEF h7
<1>8. h = h7
  BY Zenon DEF Seven, h2, h3, h4, h5, h6, h7
<1> QED BY <1>7, <1>8, Zenon DEF n2, n3, n4, n16, n19, n35, n37, n39, n41, n45

(* The parts of the header of a lock command. *)
Nine(h, a, b, c, d, e, f, g, i, j) == h = a \o b \o c \o d \o e \o f \o g \o i \o j

(* Where the pieces of LOCK and UNLOCK are. *)
LEMMA NinePieces ==
  ASSUME NEW a \in BytesOf(3), NEW b \in BytesOf(16), NEW c \in BytesOf(2), NEW d \in BytesOf(16),
         NEW e \in BytesOf(16), NEW f \in BytesOf(4), NEW g \in BytesOf(4), NEW i \in BytesOf(2),
         NEW j \in BytesOf(1), NEW h, Nine(h, a, b, c, d, e, f, g, i, j)
  PROVE  /\ h \in BytesOf(64) /\ Has(h, 0, 3, a) /\ Has(h, 3, 16, b)
         /\ Has(h, 19, 2, c) /\ Has(h, 21, 16, d) /\ Has(h, 37, 16, e)
         /\ Has(h, 53, 4, f) /\ Has(h, 57, 4, g) /\ Has(h, 61, 2, i)
         /\ Has(h, 63, 1, j)
<1> DEFINE h2 == a \o b  h3 == h2 \o c  h4 == h3 \o d  h5 == h4 \o e  h6 == h5 \o f
           h7 == h6 \o g  h8 == h7 \o i  h9 == h8 \o j  n1 == 1  n2 == 2
           n3 == 3  n4 == 4  n16 == 16  n19 == 19  n21 == 21
           n37 == 37  n53 == 53  n57 == 57  n61 == 61  n63 == 63
           n64 == 64
<1>0. /\ n3 + n16 = n19 /\ n19 + n2 = n21 /\ n21 + n16 = n37 /\ n37 + n16 = n53
      /\ n53 + n4 = n57 /\ n57 + n4 = n61 /\ n61 + n2 = n63 /\ n63 + n1 = n64
  OBVIOUS
<1>1. /\ a \in BytesOf(n3) /\ Has(a, 0, n3, a) /\ b \in BytesOf(n16)
      /\ c \in BytesOf(n2) /\ d \in BytesOf(n16) /\ e \in BytesOf(n16)
      /\ f \in BytesOf(n4) /\ g \in BytesOf(n4) /\ i \in BytesOf(n2)
      /\ j \in BytesOf(n1)
  BY HasAll
<1> HIDE DEF n1, n2, n3, n4, n16, n19, n21, n37, n53, n57, n61, n63, n64
<1>2. /\ h2 \in BytesOf(n19) /\ Has(h2, 0, n3, a) /\ Has(h2, n3, n16, b)
  <2>1. Joined(h2, a, b)
    BY <1>1, <1>1, Zenon DEF Joined, BytesOf
  <2> HIDE DEF h2
  <2> QED BY <1>0, <1>1, <1>1, <2>1, Extend, Zenon
<1> HIDE DEF h2
<1>3. /\ h3 \in BytesOf(n21) /\ Has(h3, 0, n3, a) /\ Has(h3, n3, n16, b)
      /\ Has(h3, n19, n2, c)
  <2>1. Joined(h3, h2, c)
    BY <1>1, <1>2, Zenon DEF Joined, BytesOf
  <2> HIDE DEF h3
  <2> QED BY <1>0, <1>1, <1>2, <2>1, Extend, Zenon
<1> HIDE DEF h3
<1>4. /\ h4 \in BytesOf(n37) /\ Has(h4, 0, n3, a) /\ Has(h4, n3, n16, b)
      /\ Has(h4, n19, n2, c) /\ Has(h4, n21, n16, d)
  <2>1. Joined(h4, h3, d)
    BY <1>1, <1>3, Zenon DEF Joined, BytesOf
  <2> HIDE DEF h4
  <2> QED BY <1>0, <1>1, <1>3, <2>1, Extend, Zenon
<1> HIDE DEF h4
<1>5. /\ h5 \in BytesOf(n53) /\ Has(h5, 0, n3, a) /\ Has(h5, n3, n16, b)
      /\ Has(h5, n19, n2, c) /\ Has(h5, n21, n16, d) /\ Has(h5, n37, n16, e)
  <2>1. Joined(h5, h4, e)
    BY <1>1, <1>4, Zenon DEF Joined, BytesOf
  <2> HIDE DEF h5
  <2> QED BY <1>0, <1>1, <1>4, <2>1, Extend, Zenon
<1> HIDE DEF h5
<1>6. /\ h6 \in BytesOf(n57) /\ Has(h6, 0, n3, a) /\ Has(h6, n3, n16, b)
      /\ Has(h6, n19, n2, c) /\ Has(h6, n21, n16, d) /\ Has(h6, n37, n16, e)
      /\ Has(h6, n53, n4, f)
  <2>1. Joined(h6, h5, f)
    BY <1>1, <1>5, Zenon DEF Joined, BytesOf
  <2> HIDE DEF h6
  <2> QED BY <1>0, <1>1, <1>5, <2>1, Extend, Zenon
<1> HIDE DEF h6
<1>7. /\ h7 \in BytesOf(n61) /\ Has(h7, 0, n3, a) /\ Has(h7, n3, n16, b)
      /\ Has(h7, n19, n2, c) /\ Has(h7, n21, n16, d) /\ Has(h7, n37, n16, e)
      /\ Has(h7, n53, n4, f) /\ Has(h7, n57, n4, g)
  <2>1. Joined(h7, h6, g)
    BY <1>1, <1>6, Zenon DEF Joined, BytesOf
  <2> HIDE DEF h7
  <2> QED BY <1>0, <1>1, <1>6, <2>1, Extend, Zenon
<1> HIDE DEF h7
<1>8. /\ h8 \in BytesOf(n63) /\ Has(h8, 0, n3, a) /\ Has(h8, n3, n16, b)
      /\ Has(h8, n19, n2, c) /\ Has(h8, n21, n16, d) /\ Has(h8, n37, n16, e)
      /\ Has(h8, n53, n4, f) /\ Has(h8, n57, n4, g) /\ Has(h8, n61, n2, i)
  <2>1. Joined(h8, h7, i)
    BY <1>1, <1>7, Zenon DEF Joined, BytesOf
  <2> HIDE DEF h8
  <2> QED BY <1>0, <1>1, <1>7, <2>1, Extend, Zenon
<1> HIDE DEF h8
<1>9. /\ h9 \in BytesOf(n64) /\ Has(h9, 0, n3, a) /\ Has(h9, n3, n16, b)
      /\ Has(h9, n19, n2, c) /\ Has(h9, n21, n16, d) /\ Has(h9, n37, n16, e)
      /\ Has(h9, n53, n4, f) /\ Has(h9, n57, n4, g) /\ Has(h9, n61, n2, i)
      /\ Has(h9, n63, n1, j)
  <2>1. Joined(h9, h8, j)
    BY <1>1, <1>8, Zenon DEF Joined, BytesOf
  <2> HIDE DEF h9
  <2> QED BY <1>0, <1>1, <1>8, <2>1, Extend, Zenon
<1> HIDE DEF h9
<1>10. h = h9
  BY Zenon DEF Nine, h2, h3, h4, h5, h6, h7, h8, h9
<1> QED BY <1>9, <1>10, Zenon DEF n1, n2, n3, n4, n16, n19, n21, n37, n53, n57, n61, n63, n64

(* The commands LOCK and UNLOCK, as LockCommand holds them. *)
LockMessages ==
  [type : {LOCK, UNLOCK}, flag : SUBSET Flags8, db : Byte, request : BytesOf(16),
   key : BytesOf(16), id : BytesOf(16), timeout : Times, expired : Times, count : 0 .. U16MAX,
   rcount : Byte, data : LockDatas[Nesting] \cup {NoData}]

(* Bytes written one by one. *)
LEMMA Tuples ==
  /\ \A x \in Byte : <<x>> \in BytesOf(1) /\ <<x>>[1] = x
  /\ \A x, y \in Byte : <<x, y>> \in BytesOf(2) /\ <<x, y>>[1] = x /\ <<x, y>>[2] = y
  /\ \A x, y, z \in Byte :
       <<x, y, z>> \in BytesOf(3) /\ <<x, y, z>>[1] = x /\ <<x, y, z>>[2] = y /\ <<x, y, z>>[3] = z
BY DEF BytesOf

(* The constants of the protocol are bytes. *)
LEMMA Constants ==
  /\ MAGIC \in Byte /\ VERSION \in Byte /\ INIT \in Byte /\ LOCK \in Byte /\ UNLOCK \in Byte
  /\ PING \in Byte
BY DEF MAGIC, VERSION, INIT, LOCK, UNLOCK, PING, Byte

(* At reads the bytes of a short piece. *)
LEMMA HasAt ==
  ASSUME NEW h, NEW m, NEW x
  PROVE  /\ Has(h, m, 1, x) => At(h, m) = x[1]
         /\ Has(h, m, 2, x) => At(h, m) = x[1] /\ At(h, m + 1) = x[2]
         /\ Has(h, m, 3, x) => At(h, m) = x[1] /\ At(h, m + 1) = x[2] /\ At(h, m + 2) = x[3]
<1>1. \A n : Has(h, m, n, x) => m \in Nat /\ \A i : i \in 1 .. n => h[m + i] = x[i]
  BY HasByte DEF Has
<1>2. m \in Nat => m + 1 + 1 = m + 2 /\ m + 2 + 1 = m + 3
  OBVIOUS
<1>3. 1 \in 1 .. 1 /\ 1 \in 1 .. 2 /\ 1 \in 1 .. 3 /\ 2 \in 1 .. 2 /\ 2 \in 1 .. 3 /\ 3 \in 1 .. 3
  OBVIOUS
<1> QED BY <1>1, <1>2, <1>3, Zenon DEF At

(* Where LockCommand::encode puts each field. *)
LEMMA LockHeaderHas ==
  ASSUME NEW c \in LockMessages
  PROVE  LET h == LockHeader(c)
         IN  /\ h \in BytesOf(64)
             /\ Has(h, 0, 3, <<MAGIC, VERSION, c.type>>) /\ Has(h, 3, 16, c.request)
             /\ Has(h, 19, 2, <<Bits(c.flag), c.db>>) /\ Has(h, 21, 16, c.id)
             /\ Has(h, 37, 16, c.key) /\ Has(h, 53, 4, TimeBits(c.timeout))
             /\ Has(h, 57, 4, TimeBits(c.expired)) /\ Has(h, 61, 2, LE2(c.count))
             /\ Has(h, 63, 1, <<c.rcount>>)
<1>1. /\ c.type \in Byte /\ c.request \in BytesOf(16) /\ c.flag \in SUBSET Flags8 /\ c.db \in Byte
      /\ c.id \in BytesOf(16) /\ c.key \in BytesOf(16) /\ c.timeout \in Times
      /\ c.expired \in Times /\ c.count \in 0 .. U16MAX /\ c.rcount \in Byte
  BY Constants DEF LockMessages
<1>2. c.count \in Int /\ Bits(c.flag) \in Byte
  BY <1>1, Flags8Read
<1>3. <<MAGIC, VERSION, c.type>> \in BytesOf(3) /\ <<Bits(c.flag), c.db>> \in BytesOf(2)
  BY <1>1, <1>2, Tuples, Constants
<1>4. /\ TimeBits(c.timeout) \in BytesOf(4) /\ TimeBits(c.expired) \in BytesOf(4)
      /\ LE2(c.count) \in BytesOf(2) /\ <<c.rcount>> \in BytesOf(1)
  BY <1>1, <1>2, TimeRead, LE2Typed, Tuples
<1> DEFINE h == LockHeader(c)
<1>5. Nine(h, <<MAGIC, VERSION, c.type>>, c.request, <<Bits(c.flag), c.db>>, c.id, c.key,
           TimeBits(c.timeout), TimeBits(c.expired), LE2(c.count), <<c.rcount>>)
  BY Zenon DEF LockHeader, Nine
<1> HIDE DEF h
<1>6. /\ h \in BytesOf(64)
      /\ Has(h, 0, 3, <<MAGIC, VERSION, c.type>>) /\ Has(h, 3, 16, c.request)
      /\ Has(h, 19, 2, <<Bits(c.flag), c.db>>) /\ Has(h, 21, 16, c.id)
      /\ Has(h, 37, 16, c.key) /\ Has(h, 53, 4, TimeBits(c.timeout))
      /\ Has(h, 57, 4, TimeBits(c.expired)) /\ Has(h, 61, 2, LE2(c.count))
      /\ Has(h, 63, 1, <<c.rcount>>)
  BY <1>1, <1>3, <1>4, <1>5, NinePieces
<1> QED BY <1>6, Zenon DEF h

(* The server finds each field of a lock command where encode put it. *)
LEMMA LockHeaderRead ==
  ASSUME NEW c \in LockMessages
  PROVE  LET h == LockHeader(c)
         IN  /\ At(h, 2) = c.type /\ RequestIdOf(h) = c.request
             /\ FlagsOf(Flags8, At(h, 19)) = c.flag /\ At(h, 20) = c.db /\ Slice(h, 21, 16) = c.id
             /\ Slice(h, 37, 16) = c.key /\ TimeOf(Slice(h, 53, 4)) = c.timeout
             /\ TimeOf(Slice(h, 57, 4)) = c.expired /\ Num2(Slice(h, 61, 2)) = c.count
             /\ At(h, 63) = c.rcount
<1> DEFINE h == LockHeader(c)
<1>1. /\ c.type \in Byte /\ c.request \in BytesOf(16) /\ c.flag \in SUBSET Flags8 /\ c.db \in Byte
      /\ c.timeout \in Times /\ c.expired \in Times /\ c.count \in 0 .. U16MAX /\ c.rcount \in Byte
      /\ Bits(c.flag) \in Byte
  BY Constants, Flags8Read DEF LockMessages
<1>2. /\ Has(h, 0, 3, <<MAGIC, VERSION, c.type>>) /\ Has(h, 3, 16, c.request)
      /\ Has(h, 19, 2, <<Bits(c.flag), c.db>>) /\ Has(h, 21, 16, c.id)
      /\ Has(h, 37, 16, c.key) /\ Has(h, 53, 4, TimeBits(c.timeout))
      /\ Has(h, 57, 4, TimeBits(c.expired)) /\ Has(h, 61, 2, LE2(c.count))
      /\ Has(h, 63, 1, <<c.rcount>>)
  BY LockHeaderHas, Zenon
<1> HIDE DEF h
<1>3. At(h, 2) = c.type /\ At(h, 19) = Bits(c.flag) /\ At(h, 20) = c.db /\ At(h, 63) = c.rcount
  <2>1. At(h, 0 + 2) = <<MAGIC, VERSION, c.type>>[3]
    BY <1>2, HasAt, Zenon
  <2>2. At(h, 19) = <<Bits(c.flag), c.db>>[1] /\ At(h, 19 + 1) = <<Bits(c.flag), c.db>>[2]
    BY <1>2, HasAt, Zenon
  <2>3. At(h, 63) = <<c.rcount>>[1]
    BY <1>2, HasAt, Zenon
  <2> QED BY <1>1, <2>1, <2>2, <2>3, Constants, Tuples
<1>6. FlagsOf(Flags8, At(h, 19)) = c.flag
  BY <1>1, <1>3, Flags8Read
<1>7. /\ Slice(h, 3, 16) = c.request /\ Slice(h, 21, 16) = c.id /\ Slice(h, 37, 16) = c.key
      /\ Slice(h, 53, 4) = TimeBits(c.timeout) /\ Slice(h, 57, 4) = TimeBits(c.expired)
      /\ Slice(h, 61, 2) = LE2(c.count)
  BY <1>2, Zenon DEF Has
<1>8. /\ TimeOf(Slice(h, 53, 4)) = c.timeout /\ TimeOf(Slice(h, 57, 4)) = c.expired
      /\ Num2(Slice(h, 61, 2)) = c.count
  BY <1>1, <1>7, TimeRead, Num2OfLE2
<1> QED BY <1>3, <1>6, <1>7, <1>8, Zenon DEF h, RequestIdOf

(***************************************************************************)
(* Data: pipelines of any depth.  Each of the functions below is defined   *)
(* by itself; that there is one, and so that it does what its definition   *)
(* says, is the recursion theorem.                                         *)
(***************************************************************************)

(* One step of LockDatas. *)
LockDatasBody(p, n, datas) == IF n = 0 THEN BytesData ELSE BytesData \cup Pipelines(datas)

(* One step of EncodeTo. *)
EncodeBody(p, n, encode) ==
  [d \in LockDatas[n] |->
     IF d.variant = "bytes" THEN Framed(d, d.value)
     ELSE IF d.items = << >> \/ \E i \in DOMAIN d.items : ~encode[d.items[i]].ok
     THEN LockDataError
     ELSE Framed(d, FlattenSeq([i \in DOMAIN d.items |-> encode[d.items[i]].bytes]))]

(* One step of ReadTo. *)
ReadBody(p, n, read) ==
  [b \in Seq(Byte) |->
     IF b[5] % 64 # DataTypes.pipeline THEN DataAt(b, "bytes", Rest(b, 6), << >>)
     ELSE IF n = 0 THEN Garbage
     ELSE DataAt(b, "pipeline", << >>,
                 [k \in 1 .. ItemCount(Rest(b, 6)) |-> read[ItemBytes(Rest(b, 6), k)]]
                   \o Remainder(Rest(b, 6)))]

(* One step of Cut. *)
CutBody(b, k, last) == IF k = 0 THEN 0 ELSE last + DataLen(Rest(b, last))

(* One step of FlattenSeq. *)
FlattenBody(seqs, i, before) == IF i <= 1 THEN seqs[i] ELSE before \o seqs[i]

(* The recursion theorem for LockDatas. *)
ForDatas == INSTANCE Recursion WITH Body <- LockDatasBody

(* The recursion theorem for EncodeTo. *)
ForEncode == INSTANCE Recursion WITH Body <- EncodeBody

(* The recursion theorem for ReadTo. *)
ForRead == INSTANCE Recursion WITH Body <- ReadBody

(* The recursion theorem for Cut. *)
ForCut == INSTANCE Recursion WITH Body <- CutBody

(* The recursion theorem for FlattenSeq. *)
ForFlatten == INSTANCE Recursion WITH Body <- FlattenBody

(* LockDatas is defined. *)
LEMMA LockDatasIs == LockDatas = [n \in Nat |-> LockDatasBody(0, n, LockDatas[n - 1])]
<1>1. \A x, y : LockDatasBody(0, 0, x) = LockDatasBody(0, 0, y)
  BY DEF LockDatasBody
<1>2. \E f : f = [n \in Nat |-> LockDatasBody(0, n, f[n - 1])]
  BY <1>1, ForDatas!RecursionTheorem, Zenon
<1>3. \E f : f = [n \in Nat |-> IF n = 0 THEN BytesData ELSE BytesData \cup Pipelines(f[n - 1])]
  BY <1>2, Zenon DEF LockDatasBody
<1>4. LockDatas = [n \in Nat |-> IF n = 0 THEN BytesData
                                 ELSE BytesData \cup Pipelines(LockDatas[n - 1])]
  BY <1>3, Zenon DEF LockDatas
<1> QED BY <1>4, Zenon DEF LockDatasBody

(* Bytes at depth 0, and pipelines of what nests less deep above. *)
LEMMA DatasOf ==
  /\ LockDatas[0] = BytesData
  /\ \A n \in Nat : LockDatas[n + 1] = BytesData \cup Pipelines(LockDatas[n])
<1>1. \A n \in Nat : LockDatas[n] = LockDatasBody(0, n, LockDatas[n - 1])
  BY LockDatasIs, Zenon
<1>2. 0 \in Nat /\ \A n \in Nat : n + 1 \in Nat /\ n + 1 # 0 /\ (n + 1) - 1 = n
  OBVIOUS
<1>3. LockDatas[0] = BytesData
  BY <1>1, <1>2, Zenon DEF LockDatasBody
<1>4. ASSUME NEW n \in Nat
      PROVE  LockDatas[n + 1] = BytesData \cup Pipelines(LockDatas[n])
  <2>1. LockDatas[n + 1] = LockDatasBody(0, n + 1, LockDatas[(n + 1) - 1])
    BY <1>1, <1>2, Zenon
  <2> QED BY <1>2, <2>1, Zenon DEF LockDatasBody
<1> QED BY <1>3, <1>4

(* Bytes are data at every depth. *)
LEMMA BytesFirst == \A n \in Nat : BytesData \subseteq LockDatas[n]
<1> TAKE n \in Nat
<1>1. LockDatas[n] = LockDatasBody(0, n, LockDatas[n - 1])
  BY LockDatasIs, Zenon
<1> QED BY <1>1 DEF LockDatasBody

(* EncodeTo is defined. *)
LEMMA EncodeIs == EncodeTo = [n \in Nat |-> EncodeBody(0, n, EncodeTo[n - 1])]
<1>1. \A x, y : EncodeBody(0, 0, x) = EncodeBody(0, 0, y)
  <2> SUFFICES ASSUME NEW x, NEW y PROVE EncodeBody(0, 0, x) = EncodeBody(0, 0, y)
    OBVIOUS
  <2>1. \A d \in LockDatas[0] : d.variant = "bytes"
    BY DatasOf DEF BytesData
  <2>2. EncodeBody(0, 0, x) = [d \in LockDatas[0] |-> Framed(d, d.value)]
    BY <2>1, Zenon DEF EncodeBody
  <2>3. EncodeBody(0, 0, y) = [d \in LockDatas[0] |-> Framed(d, d.value)]
    BY <2>1, Zenon DEF EncodeBody
  <2> QED BY <2>2, <2>3, Zenon
<1>2. \E f : f = [n \in Nat |-> EncodeBody(0, n, f[n - 1])]
  BY <1>1, ForEncode!RecursionTheorem, Zenon
<1>3. \E f : f = [n \in Nat |->
        [d \in LockDatas[n] |->
           IF d.variant = "bytes" THEN Framed(d, d.value)
           ELSE IF d.items = << >> \/ \E i \in DOMAIN d.items : ~f[n - 1][d.items[i]].ok
           THEN LockDataError
           ELSE Framed(d, FlattenSeq([i \in DOMAIN d.items |-> f[n - 1][d.items[i]].bytes]))]]
  BY <1>2, Zenon DEF EncodeBody
<1>4. EncodeTo = [n \in Nat |->
        [d \in LockDatas[n] |->
           IF d.variant = "bytes" THEN Framed(d, d.value)
           ELSE IF d.items = << >> \/ \E i \in DOMAIN d.items : ~EncodeTo[n - 1][d.items[i]].ok
           THEN LockDataError
           ELSE Framed(d, FlattenSeq([i \in DOMAIN d.items |->
                                        EncodeTo[n - 1][d.items[i]].bytes]))]]
  BY <1>3, Zenon DEF EncodeTo
<1> QED BY <1>4, Zenon DEF EncodeBody

(* ReadTo is defined. *)
LEMMA ReadIs == ReadTo = [n \in Nat |-> ReadBody(0, n, ReadTo[n - 1])]
<1>1. \A x, y : ReadBody(0, 0, x) = ReadBody(0, 0, y)
  BY Zenon DEF ReadBody
<1>2. \E f : f = [n \in Nat |-> ReadBody(0, n, f[n - 1])]
  BY <1>1, ForRead!RecursionTheorem, Zenon
<1>3. ReadTo = [n \in Nat |-> ReadBody(0, n, ReadTo[n - 1])]
  BY <1>2, Zenon DEF ReadTo, ReadBody
<1> QED BY <1>3

(* Cut is defined. *)
LEMMA CutIs == \A b : Cut(b) = [k \in Nat |-> CutBody(b, k, Cut(b)[k - 1])]
<1> TAKE b
<1>1. \A x, y : CutBody(b, 0, x) = CutBody(b, 0, y)
  BY Zenon DEF CutBody
<1>2. \E f : f = [k \in Nat |-> CutBody(b, k, f[k - 1])]
  BY <1>1, ForCut!RecursionTheorem, Zenon
<1>3. \E f : f = [k \in Nat |-> IF k = 0 THEN 0 ELSE f[k - 1] + DataLen(Rest(b, f[k - 1]))]
  BY <1>2, Zenon DEF CutBody
<1>4. Cut(b) = [k \in Nat |-> IF k = 0 THEN 0
                              ELSE Cut(b)[k - 1] + DataLen(Rest(b, Cut(b)[k - 1]))]
  BY <1>3, Zenon DEF Cut
<1> QED BY <1>4, Zenon DEF CutBody

(* FlattenSeq puts one sequence behind the other. *)
LEMMA FlattenSteps ==
  ASSUME NEW s, NEW m \in Nat, m # 0, Len(s) = m
  PROVE  \E h : /\ h[1] = s[1] /\ FlattenSeq(s) = h[m]
                /\ \A i \in 1 .. m : i # 1 => h[i] = h[i - 1] \o s[i]
<1>1. \A x, y : FlattenBody(s, 0, x) = FlattenBody(s, 0, y)
  BY DEF FlattenBody
<1>2. PICK f : f = [i \in Nat |-> FlattenBody(s, i, f[i - 1])]
  BY <1>1, ForFlatten!RecursionTheorem, Zenon
<1> DEFINE G == [i \in 1 .. m |-> f[i]]
<1>3. G = [i \in 1 .. m |-> IF i = 1 THEN s[i] ELSE G[i - 1] \o s[i]]
  <2>1. ASSUME NEW i \in 1 .. m
        PROVE  f[i] = IF i = 1 THEN s[i] ELSE G[i - 1] \o s[i]
    <3>1. i \in Nat /\ f[i] = FlattenBody(s, i, f[i - 1])
      BY <1>2
    <3>2. CASE i = 1
      BY <3>1, <3>2 DEF FlattenBody
    <3>3. CASE i # 1
      <4>1. ~(i <= 1) /\ i - 1 \in 1 .. m
        BY <3>3
      <4>2. G[i - 1] = f[i - 1]
        BY <4>1, Zenon
      <4> QED BY <3>1, <3>3, <4>1, <4>2, Zenon DEF FlattenBody
    <3> QED BY <3>2, <3>3
  <2> DEFINE g == G
  <2>2. g = [i \in 1 .. m |-> f[i]] /\ \A i \in 1 .. m : f[i] = IF i = 1 THEN s[i] ELSE g[i - 1] \o s[i]
    BY <2>1, Zenon
  <2> HIDE DEF G
  <2> QED BY <2>2, Zenon
<1> HIDE DEF G
<1> DEFINE h == CHOOSE h : h = [i \in 1 .. Len(s) |-> IF i = 1 THEN s[i] ELSE h[i - 1] \o s[i]]
<1>4. h = [i \in 1 .. m |-> IF i = 1 THEN s[i] ELSE h[i - 1] \o s[i]]
  BY <1>3, Zenon
<1>5. FlattenSeq(s) = h[m]
  BY Zenon DEF FlattenSeq
<1> HIDE DEF h
<1>6. 1 \in 1 .. m
  OBVIOUS
<1>7. h[1] = s[1] /\ \A i \in 1 .. m : i # 1 => h[i] = h[i - 1] \o s[i]
  BY <1>4, <1>6, Zenon
<1> QED BY <1>5, <1>7, Zenon

(* Nothing joined to bytes leaves them as they are. *)
LEMMA NoBytesJoined ==
  \A t \in Seq(Byte) : Joined(t, << >>, t) /\ Joined(t, t, << >>)
<1> TAKE t \in Seq(Byte)
<1>1. << >> \in Seq(Byte) /\ << >> \o t = t /\ t \o << >> = t
  BY ConcatEmptySeq
<1> QED BY <1>1, Zenon DEF Joined

(* Joining is associative. *)
LEMMA JoinedMore ==
  \A u, v, w, s, t : Joined(w, s, t) /\ Joined(u, w, v) => Joined(u, s, t \o v)
<1>1. \A s, t, v \in Seq(Byte) : t \o v \in Seq(Byte) /\ (s \o t) \o v = s \o (t \o v)
  OBVIOUS
<1> SUFFICES ASSUME NEW u, NEW v, NEW w, NEW s, NEW t, Joined(w, s, t), Joined(u, w, v)
             PROVE  Joined(u, s, t \o v)
  OBVIOUS
<1>2. /\ s \in Seq(Byte) /\ t \in Seq(Byte) /\ v \in Seq(Byte) /\ u = w \o v /\ w = s \o t
  BY Zenon DEF Joined
<1>3. u = (s \o t) \o v
  BY <1>2, Zenon
<1>4. t \o v \in Seq(Byte) /\ u = s \o (t \o v)
  BY <1>1, <1>2, <1>3, Zenon
<1> QED BY <1>2, <1>4, Zenon DEF Joined

(* v is the m pieces s one behind the other, of which the first k make H[k]. *)
Pieces(v, s, m, H) ==
  /\ m \in Nat /\ H[0] = << >> /\ H[m] = v
  /\ \A k \in 1 .. m : Joined(H[k], H[k - 1], s[k])

(* The value of a pipeline is the frames of its items, one behind the other. *)
LEMMA FlattenPieces ==
  ASSUME NEW s, NEW m \in Nat, m # 0, Len(s) = m, \A k \in 1 .. m : s[k] \in Seq(Byte)
  PROVE  \E H : Pieces(FlattenSeq(s), s, m, H)
<1>1. PICK h : /\ h[1] = s[1] /\ FlattenSeq(s) = h[m]
               /\ \A i \in 1 .. m : i # 1 => h[i] = h[i - 1] \o s[i]
  BY FlattenSteps, Zenon
<1> DEFINE H == [k \in 0 .. m |-> IF k = 0 THEN << >> ELSE h[k]]
<1>2. H[0] = << >> /\ H[m] = FlattenSeq(s)
  BY <1>1
<1>3. 1 \in 1 .. m /\ s[1] \in Seq(Byte) /\ H[1] = h[1]
  OBVIOUS
<1>4. Joined(H[1], H[0], s[1])
  BY <1>1, <1>2, <1>3, NoBytesJoined, Zenon
<1>5. \A k \in 1 .. m : k # 1 => H[k] = H[k - 1] \o s[k]
  <2> SUFFICES ASSUME NEW k \in 1 .. m, k # 1 PROVE H[k] = H[k - 1] \o s[k]
    OBVIOUS
  <2>1. k \in 0 .. m /\ k - 1 \in 0 .. m /\ k # 0 /\ k - 1 # 0
    OBVIOUS
  <2>2. H[k] = h[k] /\ H[k - 1] = h[k - 1]
    BY <2>1, Zenon
  <2> QED BY <1>1, <2>2, Zenon
<1> HIDE DEF H
<1> DEFINE S == {k \in Nat : k + 1 \in 1 .. m => Joined(H[k + 1], H[k], s[k + 1])}
<1>6. 0 \in S
  BY <1>4
<1>7. ASSUME NEW k \in Nat, k \in S PROVE k + 1 \in S
  <2> DEFINE j == k + 1
  <2>1. j \in Nat
    OBVIOUS
  <2>2. ASSUME j + 1 \in 1 .. m PROVE Joined(H[j + 1], H[j], s[j + 1])
    <3>1. k + 1 \in 1 .. m /\ (j + 1) - 1 = j /\ j + 1 # 1
      BY <2>2
    <3>2. Joined(H[j], H[k], s[j])
      BY <1>7, <3>1
    <3>3. H[j] \in Seq(Byte) /\ s[j + 1] \in Seq(Byte)
      BY <2>2, <3>2, JoinedBytes, Zenon
    <3>4. H[j + 1] = H[j] \o s[j + 1]
      BY <1>5, <2>2, <3>1, Zenon
    <3> QED BY <3>3, <3>4, Zenon DEF Joined
  <2> QED BY <2>1, <2>2, Zenon
<1> HIDE DEF S
<1>8. Nat \subseteq S
  BY <1>6, <1>7, ForCut!Induction
<1>9. \A k \in 1 .. m : Joined(H[k], H[k - 1], s[k])
  <2> TAKE k \in 1 .. m
  <2>1. k - 1 \in Nat /\ (k - 1) + 1 = k
    OBVIOUS
  <2>2. k - 1 \in S
    BY <1>8, <2>1
  <2>3. (k - 1) + 1 \in 1 .. m => Joined(H[(k - 1) + 1], H[k - 1], s[(k - 1) + 1])
    BY <2>2, Zenon DEF S
  <2> QED BY <2>1, <2>3, Zenon
<1> QED BY <1>2, <1>9, Zenon DEF Pieces

(* The first pieces are the start of all. *)
LEMMA PiecesRest ==
  ASSUME NEW v, NEW s, NEW m, NEW H, Pieces(v, s, m, H)
  PROVE  \A j \in 0 .. m : \E t : Joined(v, H[j], t)
<1>0. /\ m \in Nat /\ H[0] = << >> /\ H[m] = v
      /\ \A k \in 1 .. m : Joined(H[k], H[k - 1], s[k])
  BY DEF Pieces
<1>1. \A j \in 0 .. m : H[j] \in Seq(Byte)
  <2> TAKE j \in 0 .. m
  <2>1. CASE j = 0
    <3>1. << >> \in Seq(Byte)
      OBVIOUS
    <3> QED BY <1>0, <2>1, <3>1, Zenon
  <2>2. CASE j # 0
    <3>1. j \in 1 .. m
      BY <2>2, <1>0
    <3> QED BY <1>0, <3>1, JoinedBytes, Zenon
  <2> QED BY <2>1, <2>2
<1> DEFINE P(k) == \A j \in 0 .. m : m - j = k => \E t : Joined(v, H[j], t)
           S == {k \in Nat : P(k)}
<1>2. 0 \in S
  <2> SUFFICES ASSUME NEW j \in 0 .. m, m - j = 0 PROVE \E t : Joined(v, H[j], t)
    OBVIOUS
  <2>1. j = m
    BY <1>0
  <2>2. v \in Seq(Byte) /\ H[j] = v
    BY <1>0, <1>1, <2>1
  <2> QED BY <2>2, NoBytesJoined, Zenon
<1>3. ASSUME NEW k \in Nat, k \in S PROVE k + 1 \in S
  <2> SUFFICES ASSUME NEW j \in 0 .. m, m - j = k + 1 PROVE \E t : Joined(v, H[j], t)
    OBVIOUS
  <2>1. j + 1 \in 0 .. m /\ m - (j + 1) = k /\ j + 1 \in 1 .. m /\ (j + 1) - 1 = j
    BY <1>0
  <2>2. P(k)
    BY <1>3
  <2>3. PICK t : Joined(v, H[j + 1], t)
    BY <2>1, <2>2, Zenon
  <2>4. Joined(H[j + 1], H[j], s[j + 1])
    BY <1>0, <2>1, Zenon
  <2> QED BY <2>3, <2>4, JoinedMore, Zenon
<1> HIDE DEF S
<1>4. Nat \subseteq S
  BY <1>2, <1>3, ForCut!Induction
<1>5. \A j \in 0 .. m : m - j \in S
  BY <1>0, <1>4
<1> QED BY <1>5, Zenon DEF S

(* The length at the start of e tells where e ends, whatever follows it. *)
Tells(e) ==
  e \in Seq(Byte) /\ Len(e) > 0 /\ \A w, t : Joined(w, e, t) => DataLen(w) = Len(e)

(* Each piece is found behind those before it, and something behind it. *)
LEMMA PieceIn ==
  ASSUME NEW v, NEW s, NEW m, NEW H, Pieces(v, s, m, H), NEW k \in 1 .. m
  PROVE  /\ \E t : Joined(Rest(v, Len(H[k - 1])), s[k], t)
         /\ SubSeq(v, Len(H[k - 1]) + 1, Len(H[k])) = s[k]
         /\ Len(H[k]) = Len(H[k - 1]) + Len(s[k])
         /\ Len(H[k]) \in Nat /\ Len(H[k - 1]) \in Nat /\ Len(s[k]) \in Nat
<1>1. k \in 0 .. m /\ Joined(H[k], H[k - 1], s[k])
  BY DEF Pieces
<1>2. PICK t : Joined(v, H[k], t)
  BY <1>1, PiecesRest, Zenon
<1>3. Joined(v, H[k - 1], s[k] \o t)
  BY <1>1, <1>2, JoinedMore, Zenon
<1>4. H[k - 1] \in BytesOf(Len(H[k - 1])) /\ s[k] \in BytesOf(Len(s[k]))
  BY <1>1, SizeOf, Zenon DEF Joined
<1>5. Rest(v, Len(H[k - 1])) = s[k] \o t
  BY <1>3, <1>4, FirstPart, Zenon
<1>6. Joined(s[k] \o t, s[k], t)
  BY <1>1, <1>2, Zenon DEF Joined
<1>7. /\ Len(H[k]) = Len(H[k - 1]) + Len(s[k])
      /\ Len(H[k]) \in Nat /\ Len(H[k - 1]) \in Nat /\ Len(s[k]) \in Nat
  <2>1. /\ Len(H[k]) = Len(H[k - 1]) + Len(s[k])
        /\ Len(H[k - 1]) \in Nat /\ Len(s[k]) \in Nat
    <3>1. \A a, b, c : Joined(a, b, c) =>
            Len(a) = Len(b) + Len(c) /\ Len(b) \in Nat /\ Len(c) \in Nat
      BY JoinedBytes
    <3>2. Joined(H[k], H[k - 1], s[k])
      BY <1>1
    <3>3. Len(H[k]) = Len(H[k - 1]) + Len(s[k])
      <4> DEFINE Adds(a, b, c) == Len(a) = Len(b) + Len(c)
      <4>1. \A a, b, c : Joined(a, b, c) => Adds(a, b, c)
        BY <3>1
      <4> HIDE DEF Adds
      <4>2. Adds(H[k], H[k - 1], s[k])
        BY <3>2, <4>1, Zenon
      <4> QED BY <4>2, Zenon DEF Adds
    <3>4. Len(H[k - 1]) \in Nat /\ Len(s[k]) \in Nat
      BY <3>1, <3>2, Zenon
    <3> QED BY <3>3, <3>4
  <2>2. Len(H[k]) \in Nat
    BY <1>2, JoinedBytes, Zenon
  <2> QED BY <2>1, <2>2
<1>8. Has(v, Len(H[k - 1]), Len(s[k]), s[k])
  BY <1>1, <1>2, <1>4, HasRight, HasLeft, Zenon
<1>9. SubSeq(v, Len(H[k - 1]) + 1, Len(H[k - 1]) + Len(s[k])) = s[k]
  BY <1>8, Zenon DEF Has, Slice
<1> QED BY <1>5, <1>6, <1>7, <1>9, Zenon

(* Cut goes from one item to the next. *)
LEMMA CutSteps ==
  \A b : /\ Cut(b)[0] = 0
         /\ \A k \in Nat : Cut(b)[k + 1] = Cut(b)[k] + DataLen(Rest(b, Cut(b)[k]))
<1> TAKE b
<1>1. 0 \in Nat /\ \A k \in Nat : k + 1 \in Nat /\ k + 1 # 0 /\ (k + 1) - 1 = k
  OBVIOUS
<1>2. \A k \in Nat : Cut(b)[k] = CutBody(b, k, Cut(b)[k - 1])
  BY CutIs, Zenon
<1>3. Cut(b)[0] = 0
  BY <1>1, <1>2, Zenon DEF CutBody
<1>4. ASSUME NEW k \in Nat PROVE Cut(b)[k + 1] = Cut(b)[k] + DataLen(Rest(b, Cut(b)[k]))
  <2>1. Cut(b)[k + 1] = CutBody(b, k + 1, Cut(b)[(k + 1) - 1])
    BY <1>1, <1>2, Zenon
  <2> QED BY <1>1, <2>1, Zenon DEF CutBody
<1> QED BY <1>3, <1>4

(* When the items tell where they end, the reader of a pipeline cuts where they do. *)
LEMMA CutsOfPieces ==
  ASSUME NEW v, NEW s, NEW m, NEW H, Pieces(v, s, m, H), \A k \in 1 .. m : Tells(s[k])
  PROVE  \A k \in 0 .. m : Cut(v)[k] = Len(H[k]) /\ k <= Len(H[k]) /\ Len(H[k]) \in Nat
<1> DEFINE P(k) == k \in 0 .. m => Cut(v)[k] = Len(H[k]) /\ k <= Len(H[k]) /\ Len(H[k]) \in Nat
           S == {k \in Nat : P(k)}
<1>1. m \in Nat /\ H[0] = << >>
  BY DEF Pieces
<1>2. 0 \in S
  <2>1. Len(<< >>) = 0
    OBVIOUS
  <2>2. Cut(v)[0] = Len(H[0]) /\ Len(H[0]) = 0
    BY <1>1, <2>1, CutSteps, Zenon
  <2> QED BY <2>2
<1>3. ASSUME NEW k \in Nat, k \in S PROVE k + 1 \in S
  <2> SUFFICES ASSUME k + 1 \in 0 .. m
               PROVE  /\ Cut(v)[k + 1] = Len(H[k + 1]) /\ k + 1 <= Len(H[k + 1])
                      /\ Len(H[k + 1]) \in Nat
    OBVIOUS
  <2>1. k \in 0 .. m /\ k + 1 \in 1 .. m /\ (k + 1) - 1 = k
    BY <1>1
  <2>2. Cut(v)[k] = Len(H[k]) /\ k <= Len(H[k]) /\ Len(H[k]) \in Nat
    BY <1>3, <2>1
  <2>3. /\ \E t : Joined(Rest(v, Len(H[(k + 1) - 1])), s[k + 1], t)
        /\ Len(H[k + 1]) = Len(H[(k + 1) - 1]) + Len(s[k + 1])
        /\ Len(H[k + 1]) \in Nat /\ Len(s[k + 1]) \in Nat
    <3> DEFINE j == k + 1
    <3>1. j \in 1 .. m
      BY <2>1
    <3> HIDE DEF j
    <3>2. /\ \E t : Joined(Rest(v, Len(H[j - 1])), s[j], t)
          /\ Len(H[j]) = Len(H[j - 1]) + Len(s[j])
          /\ Len(H[j]) \in Nat /\ Len(s[j]) \in Nat
      <4>1. /\ \E t : Joined(Rest(v, Len(H[j - 1])), s[j], t)
            /\ SubSeq(v, Len(H[j - 1]) + 1, Len(H[j])) = s[j]
            /\ Len(H[j]) = Len(H[j - 1]) + Len(s[j])
            /\ Len(H[j]) \in Nat /\ Len(H[j - 1]) \in Nat /\ Len(s[j]) \in Nat
        BY <3>1, PieceIn, Zenon
      <4> QED BY <4>1, Zenon
    <3> QED BY <3>2, Zenon DEF j
  <2>4. PICK t : Joined(Rest(v, Len(H[k])), s[k + 1], t)
    BY <2>1, <2>3, Zenon
  <2>5. Tells(s[k + 1])
    BY <2>1
  <2>6. DataLen(Rest(v, Len(H[k]))) = Len(s[k + 1]) /\ Len(s[k + 1]) > 0
    BY <2>4, <2>5, Zenon DEF Tells
  <2>7. Cut(v)[k + 1] = Len(H[k]) + Len(s[k + 1])
    BY <2>2, <2>6, CutSteps, Zenon
  <2>8. Len(H[k + 1]) = Len(H[k]) + Len(s[k + 1])
    BY <2>1, <2>3, Zenon
  <2>9. k + 1 <= Len(H[k + 1])
    <3> DEFINE a == Len(H[k])  b == Len(s[k + 1])  c == Len(H[k + 1])
    <3>1. k \in Nat /\ k <= a /\ a \in Nat /\ b \in Nat /\ b > 0 /\ c = a + b
      BY <2>2, <2>3, <2>6, <2>8, Zenon
    <3> HIDE DEF a, b, c
    <3>2. k + 1 <= c
      BY <3>1
    <3> QED BY <3>2, Zenon DEF c
  <2> QED BY <2>3, <2>7, <2>8, <2>9, Zenon
<1> HIDE DEF S
<1>4. Nat \subseteq S
  BY <1>2, <1>3, ForCut!Induction
<1>5. \A k \in 0 .. m : k \in S
  BY <1>4
<1> QED BY <1>5, Zenon DEF S

(* No bytes are no data. *)
LEMMA NoLength == DataLen(<< >>) = 0
BY DEF DataLen

(* It reads as many items as were written, each its own bytes, and nothing is left. *)
LEMMA ItemsOfPieces ==
  ASSUME NEW v, NEW s, NEW m, NEW H, Pieces(v, s, m, H), \A k \in 1 .. m : Tells(s[k])
  PROVE  /\ ItemCount(v) = m /\ Remainder(v) = << >>
         /\ \A k \in 1 .. m : ItemBytes(v, k) = s[k]
<1>1. m \in Nat /\ H[m] = v
  BY DEF Pieces
<1>2. \A k \in 0 .. m : Cut(v)[k] = Len(H[k]) /\ k <= Len(H[k]) /\ Len(H[k]) \in Nat
  BY CutsOfPieces
<1>3. m \in 0 .. m
  BY <1>1
<1>4. v \in Seq(Byte)
  <2>1. PICK t : Joined(v, H[m], t)
    BY <1>3, PiecesRest, Zenon
  <2> QED BY <2>1, JoinedBytes, Zenon
<1>5. IsLast(v, m)
  <2>1. v \in BytesOf(Len(v)) /\ Joined(v, v, << >>)
    BY <1>4, SizeOf, NoBytesJoined, Zenon
  <2>2. Rest(v, Len(v)) = << >>
    BY <2>1, FirstPart, Zenon
  <2>3. Cut(v)[m] = Len(v)
    BY <1>1, <1>2, <1>3, Zenon
  <2> QED BY <2>2, <2>3, NoLength, Zenon DEF IsLast
<1>6. ASSUME NEW k \in 0 .. m - 1 PROVE ~IsLast(v, k)
  <2>1. k \in 0 .. m /\ k + 1 \in 1 .. m /\ (k + 1) - 1 = k
    BY <1>1
  <2>2. PICK t : Joined(Rest(v, Len(H[(k + 1) - 1])), s[k + 1], t)
    BY <2>1, PieceIn, Zenon
  <2>3. DataLen(Rest(v, Len(H[k]))) = Len(s[k + 1]) /\ Len(s[k + 1]) > 0
    BY <2>1, <2>2, Zenon DEF Tells
  <2>4. DataLen(Rest(v, Cut(v)[k])) > 0
    BY <1>2, <2>1, <2>3, Zenon
  <2> QED BY <2>4 DEF IsLast
<1>7. m \in 0 .. Len(v)
  <2>1. m <= Len(v) /\ Len(v) \in Nat
    BY <1>1, <1>2, <1>3, Zenon
  <2> QED BY <1>1, <2>1
<1>8. ItemCount(v) = m
  <2> DEFINE Count(k) == k \in 0 .. Len(v) /\ IsLast(v, k) /\ \A j \in 0 .. (k - 1) : ~IsLast(v, j)
  <2>1. Count(m)
    BY <1>5, <1>6, <1>7, Zenon
  <2>2. ASSUME NEW k, Count(k) PROVE k = m
    <3>1. k \in Nat /\ ~(k \in 0 .. m - 1)
      BY <1>1, <1>6, <2>2
    <3>2. ~(m \in 0 .. k - 1)
      BY <1>5, <2>2, Zenon
    <3> QED BY <1>1, <3>1, <3>2
  <2>3. ItemCount(v) = CHOOSE k \in 0 .. Len(v) :
                         IsLast(v, k) /\ \A j \in 0 .. (k - 1) : ~IsLast(v, j)
    BY Zenon DEF ItemCount
  <2>4. Count(ItemCount(v))
    BY <2>1, <2>3, Zenon
  <2> HIDE DEF Count
  <2> QED BY <2>2, <2>4, Zenon
<1>9. Remainder(v) = << >>
  BY <1>1, <1>2, <1>3, <1>8, Zenon DEF Remainder
<1>10. ASSUME NEW k \in 1 .. m PROVE ItemBytes(v, k) = s[k]
  <2>1. k \in 0 .. m /\ k - 1 \in 0 .. m
    BY <1>1
  <2>2. Cut(v)[k] = Len(H[k]) /\ Cut(v)[k - 1] = Len(H[k - 1])
    BY <1>2, <2>1, Zenon
  <2>3. SubSeq(v, Len(H[k - 1]) + 1, Len(H[k])) = s[k]
    <3>1. /\ \E t : Joined(Rest(v, Len(H[k - 1])), s[k], t)
          /\ SubSeq(v, Len(H[k - 1]) + 1, Len(H[k])) = s[k]
          /\ Len(H[k]) = Len(H[k - 1]) + Len(s[k])
          /\ Len(H[k]) \in Nat /\ Len(H[k - 1]) \in Nat /\ Len(s[k]) \in Nat
      BY PieceIn, Zenon
    <3> QED BY <3>1, Zenon
  <2> QED BY <2>2, <2>3, Zenon DEF ItemBytes
<1> QED BY <1>8, <1>9, <1>10

(* The byte of stage and type: ((stage << 6) & 0xc0) | (type & 0x3f). *)
StageType(stage, type) == ((stage * 64) % 256) + (type % 64)

(* Stage and type are read back. *)
LEMMA StageTypeRead ==
  \A stage \in 0 .. 3, type \in 0 .. 8 :
    /\ StageType(stage, type) \in Byte
    /\ StageType(stage, type) \div 64 = stage /\ StageType(stage, type) % 64 = type
BY DEF StageType, Byte

(* The frame of data tells its length, and its header and value are read back. *)
LEMMA FrameRead ==
  ASSUME NEW d, d.stage \in 0 .. 3, d.type \in 0 .. 8, d.flags \in SUBSET Flags8,
         NEW value \in Seq(Byte), ~ExceedsU32(Len(value) + 2)
  PROVE  LET e == DataFrame(d, value)
         IN  /\ Tells(e)
             /\ e[5] \div 64 = d.stage /\ e[5] % 64 = d.type
             /\ FlagsOf(Flags8, e[6]) = d.flags /\ Rest(e, 6) = value
<1> DEFINE n == Len(value)
           x == StageType(d.stage, d.type)
           y == Bits(d.flags)
           e == DataFrame(d, value)
           a == LE4(n + 2)
           b == <<x, y>>
           ab == a \o b
<1>1. n \in Nat /\ value \in BytesOf(n)
  BY SizeOf
<1>2. /\ x \in Byte /\ x \div 64 = d.stage /\ x % 64 = d.type
      /\ y \in Byte /\ FlagsOf(Flags8, y) = d.flags
  <2>1. /\ x \in Byte /\ x \div 64 = d.stage /\ x % 64 = d.type
    BY StageTypeRead
  <2>2. y \in Byte /\ FlagsOf(Flags8, y) = d.flags
    BY Flags8Read
  <2> QED BY <2>1, <2>2
<1>3. a \in BytesOf(4) /\ Num4(a) = n + 2
  <2>1. n + 2 \in Int /\ n + 2 \in Nat
    BY <1>1
  <2> QED BY <2>1, LE4Typed, Num4OfLE4
<1>4. b \in BytesOf(2) /\ b[1] = x /\ b[2] = y
  BY <1>2, Tuples
<1>5. e = a \o b \o value
  BY Zenon DEF DataFrame, StageType
<1> HIDE DEF n, x, y, e, a, b
<1>6. Joined(ab, a, b)
  BY <1>3, <1>4, Zenon DEF Joined, BytesOf
<1>7. ab \in BytesOf(6) /\ Has(ab, 4, 2, b)
  <2>1. 4 + 2 = 6
    OBVIOUS
  <2>2. ab \in BytesOf(4 + 2)
    BY <1>3, <1>4, <1>6, Concat, Zenon
  <2> QED BY <1>3, <1>4, <1>6, <2>1, <2>2, HasRight, Zenon
<1>8. Joined(e, ab, value)
  BY <1>5, <1>7, Zenon DEF Joined, BytesOf
<1> HIDE DEF ab
<1>9. Rest(e, 6) = value /\ Has(e, 4, 2, b)
  BY <1>7, <1>8, FirstPart, HasLeft, Zenon
<1>10. e[5] = x /\ e[6] = y
  <2>1. 4 + 1 = 5 /\ 4 + 2 = 6 /\ 1 \in 1 .. 2 /\ 2 \in 1 .. 2
    OBVIOUS
  <2> DEFINE m == 4  n2 == 2
  <2> HIDE DEF m, n2
  <2>2. \A i : i \in 1 .. n2 => e[m + i] = b[i]
    <3>1. Has(e, m, n2, b)
      BY <1>9 DEF m, n2
    <3> QED BY <3>1, HasByte, SMTT(20) DEF Has
  <2>3. e[4 + 1] = b[1] /\ e[4 + 2] = b[2]
    BY <2>1, <2>2 DEF m, n2
  <2> QED BY <1>4, <2>1, <2>3, Zenon
<1>11. e \in Seq(Byte) /\ Len(e) = 6 + n
  <2>1. e \in BytesOf(6 + n)
    BY <1>1, <1>7, <1>8, Concat, Zenon
  <2> QED BY <2>1, Zenon DEF BytesOf
<1>12. ASSUME NEW w, NEW t, Joined(w, e, t) PROVE DataLen(w) = Len(e)
  <2>1. Has(a, 0, 4, a)
    BY <1>3, HasAll, Zenon
  <2>2. Has(w, 0, 4, a)
    BY <1>6, <1>8, <1>12, <2>1, HasLeft, Zenon
  <2>3. /\ w[0 + 1] = a[1] /\ w[0 + 2] = a[2] /\ w[0 + 3] = a[3] /\ w[0 + 4] = a[4]
    <3>1. 1 \in 1 .. 4 /\ 2 \in 1 .. 4 /\ 3 \in 1 .. 4 /\ 4 \in 1 .. 4
      OBVIOUS
    <3> DEFINE m == 0  n4 == 4
    <3> HIDE DEF m, n4
    <3>2. Has(w, m, n4, a)
      BY <2>2 DEF m, n4
    <3>3. \A i : i \in 1 .. n4 => w[m + i] = a[i]
      BY <3>2, HasByte, SMTT(20) DEF Has
    <3> QED BY <3>1, <3>3 DEF m, n4
  <2>4. w[1] = a[1] /\ w[2] = a[2] /\ w[3] = a[3] /\ w[4] = a[4]
    BY <2>3
  <2>5. Num4(w) = Num4(a)
    BY <2>4 DEF Num4, Num2
  <2>6. Len(w) = Len(e) + Len(t) /\ Len(t) \in Nat
    BY <1>12, JoinedBytes
  <2> DEFINE k == Num4(w)  l == Len(w)  j == Len(e)  i == Len(t)
  <2>7. k = n + 2 /\ l = j + i /\ i \in Nat /\ j = 6 + n /\ n \in Nat
    BY <1>1, <1>3, <1>11, <2>5, <2>6, Zenon
  <2>8. DataLen(w) = IF l < 6 \/ k < 2 \/ 4 + k > l THEN 0 ELSE 4 + k
    BY Zenon DEF DataLen
  <2> HIDE DEF k, l, j, i
  <2>9. DataLen(w) = j
    BY <2>7, <2>8
  <2> QED BY <2>9 DEF j
<1>13. Tells(e)
  <2>1. Len(e) > 0
    BY <1>1, <1>11
  <2> QED BY <1>11, <1>12, <2>1, Zenon DEF Tells
<1>14. /\ e[5] \div 64 = d.stage /\ e[5] % 64 = d.type /\ FlagsOf(Flags8, e[6]) = d.flags
  BY <1>2, <1>10, Zenon
<1> QED BY <1>9, <1>13, <1>14, Zenon DEF e

(* At depth n, the bytes of d are told from what follows them and read as d. *)
ReturnsTo(n, d) ==
  EncodeTo[n][d].ok => Tells(EncodeTo[n][d].bytes) /\ ReadTo[n][EncodeTo[n][d].bytes] = d

(* LockData::encode of plain bytes. *)
LEMMA EncodeBytes ==
  ASSUME NEW n \in Nat, NEW d \in LockDatas[n], d.variant = "bytes"
  PROVE  EncodeTo[n][d] = Framed(d, d.value)
<1>1. EncodeTo[n] = EncodeBody(0, n, EncodeTo[n - 1])
  BY EncodeIs, Zenon
<1> QED BY <1>1, Zenon DEF EncodeBody

(* Data that is no pipeline is read as bytes. *)
LEMMA ReadBytes ==
  ASSUME NEW n \in Nat, NEW b \in Seq(Byte), b[5] % 64 # DataTypes.pipeline
  PROVE  ReadTo[n][b] = DataAt(b, "bytes", Rest(b, 6), << >>)
<1>1. ReadTo[n] = ReadBody(0, n, ReadTo[n - 1])
  BY ReadIs, Zenon
<1> QED BY <1>1, Zenon DEF ReadBody

(* LockData::encode of a pipeline: all of its items can be encoded. *)
LEMMA EncodePipeline ==
  ASSUME NEW n \in Nat, NEW d \in Pipelines(LockDatas[n]), EncodeTo[n + 1][d].ok
  PROVE  /\ d.items # << >> /\ \A i \in DOMAIN d.items : EncodeTo[n][d.items[i]].ok
         /\ EncodeTo[n + 1][d] =
              Framed(d, FlattenSeq([i \in DOMAIN d.items |-> EncodeTo[n][d.items[i]].bytes]))
<1>0. n + 1 \in Nat /\ (n + 1) - 1 = n
  OBVIOUS
<1>1. d \in LockDatas[n + 1] /\ d.variant # "bytes"
  BY DatasOf DEF Pipelines
<1>2. EncodeTo[n + 1] = EncodeBody(0, n + 1, EncodeTo[n])
  BY <1>0, EncodeIs, Zenon
<1>3. ~LockDataError.ok
  BY DEF LockDataError
<1>4. EncodeTo[n + 1][d] =
        IF d.items = << >> \/ \E i \in DOMAIN d.items : ~EncodeTo[n][d.items[i]].ok
        THEN LockDataError
        ELSE Framed(d, FlattenSeq([i \in DOMAIN d.items |-> EncodeTo[n][d.items[i]].bytes]))
  BY <1>1, <1>2, Zenon DEF EncodeBody
<1> QED BY <1>3, <1>4, Zenon

(* A pipeline is read item by item. *)
LEMMA ReadPipeline ==
  ASSUME NEW n \in Nat, NEW b \in Seq(Byte), b[5] % 64 = DataTypes.pipeline
  PROVE  ReadTo[n + 1][b] =
           DataAt(b, "pipeline", << >>,
                  [k \in 1 .. ItemCount(Rest(b, 6)) |-> ReadTo[n][ItemBytes(Rest(b, 6), k)]]
                    \o Remainder(Rest(b, 6)))
<1>1. n + 1 \in Nat /\ (n + 1) - 1 = n /\ n + 1 # 0
  OBVIOUS
<1>2. ReadTo[n + 1] = ReadBody(0, n + 1, ReadTo[n])
  BY <1>1, ReadIs, Zenon
<1> QED BY <1>1, <1>2, Zenon DEF ReadBody

(* What is framed has a length of four bytes. *)
LEMMA FramedIs ==
  ASSUME NEW d, NEW value, Framed(d, value).ok
  PROVE  ~ExceedsU32(Len(value) + 2) /\ Framed(d, value).bytes = DataFrame(d, value)
BY DEF Framed, Ok, LockDataError

(* Bytes are read back. *)
LEMMA BytesReturn ==
  ASSUME NEW n \in Nat, NEW d \in BytesData
  PROVE  ReturnsTo(n, d)
<1>1. d \in LockDatas[n]
  BY BytesFirst
<1>2. /\ d.variant = "bytes" /\ d.stage \in 0 .. 3 /\ d.type \in 0 .. 8
      /\ d.type # DataTypes.pipeline /\ d.flags \in SUBSET Flags8 /\ d.value \in Seq(Byte)
  BY DEF BytesData
<1>3. d = [variant |-> "bytes", stage |-> d.stage, type |-> d.type, flags |-> d.flags,
           value |-> d.value, items |-> << >>]
  BY DEF BytesData
<1> DEFINE e == DataFrame(d, d.value)
<1>4. EncodeTo[n][d] = Framed(d, d.value)
  BY <1>1, <1>2, EncodeBytes, Zenon
<1> SUFFICES ASSUME EncodeTo[n][d].ok
             PROVE  Tells(EncodeTo[n][d].bytes) /\ ReadTo[n][EncodeTo[n][d].bytes] = d
  BY DEF ReturnsTo
<1>5. ~ExceedsU32(Len(d.value) + 2) /\ EncodeTo[n][d].bytes = e
  <2>1. Framed(d, d.value).ok
    BY <1>4, Zenon
  <2> QED BY <1>4, <2>1, FramedIs, Zenon
<1>6. /\ Tells(e) /\ e[5] \div 64 = d.stage /\ e[5] % 64 = d.type
      /\ FlagsOf(Flags8, e[6]) = d.flags /\ Rest(e, 6) = d.value
  BY <1>2, <1>5, FrameRead, Zenon
<1> HIDE DEF e
<1>7. ReadTo[n][e] = DataAt(e, "bytes", Rest(e, 6), << >>)
  BY <1>2, <1>6, ReadBytes, Zenon DEF Tells
<1>8. ReadTo[n][e] = d
  BY <1>3, <1>6, <1>7, Zenon DEF DataAt
<1> QED BY <1>5, <1>6, <1>8, Zenon

(* A pipeline is read back when data that nests less deep is. *)
LEMMA PipelineReturns ==
  ASSUME NEW n \in Nat, \A d \in LockDatas[n] : ReturnsTo(n, d), NEW d \in Pipelines(LockDatas[n])
  PROVE  ReturnsTo(n + 1, d)
<1>1. /\ d.variant = "pipeline" /\ d.stage \in 0 .. 3 /\ d.type = DataTypes.pipeline
      /\ d.flags \in SUBSET Flags8 /\ d.value = << >> /\ d.items \in Seq(LockDatas[n])
  BY DEF Pipelines
<1>2. d = [variant |-> "pipeline", stage |-> d.stage, type |-> d.type, flags |-> d.flags,
           value |-> << >>, items |-> d.items]
  BY DEF Pipelines
<1>3. DataTypes.pipeline \in 0 .. 8
  BY DEF DataTypes
<1> SUFFICES ASSUME EncodeTo[n + 1][d].ok
             PROVE  /\ Tells(EncodeTo[n + 1][d].bytes)
                    /\ ReadTo[n + 1][EncodeTo[n + 1][d].bytes] = d
  BY DEF ReturnsTo
<1> DEFINE m == Len(d.items)
           s == [i \in DOMAIN d.items |-> EncodeTo[n][d.items[i]].bytes]
           v == FlattenSeq(s)
           e == DataFrame(d, v)
<1>4. /\ d.items # << >> /\ \A i \in DOMAIN d.items : EncodeTo[n][d.items[i]].ok
      /\ EncodeTo[n + 1][d] = Framed(d, v)
  BY EncodePipeline, Zenon
<1>5. /\ m \in Nat /\ m # 0 /\ DOMAIN d.items = 1 .. m
      /\ \A i \in 1 .. m : d.items[i] \in LockDatas[n]
  BY <1>1, <1>4, LenProperties, EmptySeq, ElementOfSeq
<1>6. \A i \in 1 .. m : Tells(s[i]) /\ ReadTo[n][s[i]] = d.items[i]
  <2> TAKE i \in 1 .. m
  <2>1. s[i] = EncodeTo[n][d.items[i]].bytes
    BY <1>5
  <2>2. ReturnsTo(n, d.items[i]) /\ EncodeTo[n][d.items[i]].ok
    BY <1>4, <1>5, Zenon
  <2> QED BY <2>1, <2>2, Zenon DEF ReturnsTo
<1>7. Len(s) = m
  <2>1. s = [i \in 1 .. m |-> EncodeTo[n][d.items[i]].bytes]
    BY <1>5, Zenon
  <2> HIDE DEF m
  <2> QED BY <1>5, <2>1
<1>8. \A k \in 1 .. m : s[k] \in Seq(Byte)
  BY <1>6, Zenon DEF Tells
<1> HIDE DEF m, s
<1>9. PICK H : Pieces(v, s, m, H)
  BY <1>5, <1>7, <1>8, FlattenPieces, Zenon
<1>10. v \in Seq(Byte)
  <2>1. m \in 0 .. m /\ H[m] = v
    BY <1>5, <1>9 DEF Pieces
  <2>2. PICK t : Joined(v, H[m], t)
    BY <1>9, <2>1, PiecesRest, Zenon
  <2> QED BY <2>2, JoinedBytes, Zenon
<1>11. /\ ItemCount(v) = m /\ Remainder(v) = << >>
       /\ \A k \in 1 .. m : ItemBytes(v, k) = s[k]
  BY <1>6, <1>9, ItemsOfPieces
<1> HIDE DEF v
<1>12. ~ExceedsU32(Len(v) + 2) /\ EncodeTo[n + 1][d].bytes = e
  <2>1. Framed(d, v).ok
    BY <1>4, Zenon
  <2> QED BY <1>4, <2>1, FramedIs, Zenon
<1>13. /\ Tells(e) /\ e[5] \div 64 = d.stage /\ e[5] % 64 = d.type
       /\ FlagsOf(Flags8, e[6]) = d.flags /\ Rest(e, 6) = v
  BY <1>1, <1>3, <1>10, <1>12, FrameRead, Zenon
<1> HIDE DEF e
<1> DEFINE items == [k \in 1 .. m |-> ReadTo[n][s[k]]]
<1>14. items = d.items
  <2>1. items = [k \in 1 .. m |-> d.items[k]]
    BY <1>6, Zenon
  <2>2. d.items = [k \in 1 .. m |-> d.items[k]]
    <3>1. \A T, q : q \in Seq(T) => q = [k \in 1 .. Len(q) |-> q[k]]
      OBVIOUS
    <3> QED BY <1>1, <3>1, Zenon DEF m
  <2> QED BY <2>1, <2>2, Zenon
<1>15. [k \in 1 .. ItemCount(v) |-> ReadTo[n][ItemBytes(v, k)]] = items
  BY <1>11, Zenon
<1>16. items \o Remainder(v) = d.items
  <2>1. d.items \o << >> = d.items
    BY <1>1, ConcatEmptySeq
  <2> HIDE DEF items
  <2> QED BY <1>11, <1>14, <2>1, Zenon
<1> HIDE DEF items
<1>17. ReadTo[n + 1][e] =
         DataAt(e, "pipeline", << >>,
                [k \in 1 .. ItemCount(v) |-> ReadTo[n][ItemBytes(v, k)]] \o Remainder(v))
  <2>1. e \in Seq(Byte) /\ e[5] % 64 = DataTypes.pipeline
    BY <1>1, <1>13, Zenon DEF Tells
  <2>2. ReadTo[n + 1][e] =
          DataAt(e, "pipeline", << >>,
                 [k \in 1 .. ItemCount(Rest(e, 6)) |-> ReadTo[n][ItemBytes(Rest(e, 6), k)]]
                   \o Remainder(Rest(e, 6)))
    BY <2>1, ReadPipeline, Zenon
  <2> QED BY <1>13, <2>2, Zenon
<1>18. ReadTo[n + 1][e] = DataAt(e, "pipeline", << >>, d.items)
  BY <1>15, <1>16, <1>17, Zenon
<1>19. ReadTo[n + 1][e] = d
  BY <1>2, <1>13, <1>18, Zenon DEF DataAt
<1> QED BY <1>12, <1>13, <1>19, Zenon

(* Data nested to any depth goes through LockData::encode and comes back unchanged, and  *)
(* its length tells where it ends: the error of an empty pipeline and the length in four *)
(* bytes are all that can go wrong. By induction over the depth.                         *)
THEOREM DataReturnsTo == \A n \in Nat : \A d \in LockDatas[n] : ReturnsTo(n, d)
<1> DEFINE S == {n \in Nat : \A d \in LockDatas[n] : ReturnsTo(n, d)}
<1>1. 0 \in S
  BY DatasOf, BytesReturn
<1>2. ASSUME NEW n \in Nat, n \in S PROVE n + 1 \in S
  <2>1. n + 1 \in Nat /\ LockDatas[n + 1] = BytesData \cup Pipelines(LockDatas[n])
    BY DatasOf
  <2>2. \A d \in LockDatas[n] : ReturnsTo(n, d)
    BY <1>2
  <2>3. \A d \in BytesData : ReturnsTo(n + 1, d)
    BY <2>1, BytesReturn
  <2>4. \A d \in Pipelines(LockDatas[n]) : ReturnsTo(n + 1, d)
    BY <2>2, PipelineReturns
  <2> QED BY <2>1, <2>3, <2>4
<1> HIDE DEF S
<1>3. Nat \subseteq S
  BY <1>1, <1>2, ForCut!Induction
<1> QED BY <1>3 DEF S

(* The command INIT. *)
InitMessages == [type : {INIT}, request : BytesOf(16), client : BytesOf(16)]

(* The command PING. *)
PingMessages == [type : {PING}, request : BytesOf(16)]

(* The commands a connection sends. *)
Messages == InitMessages \cup PingMessages \cup LockMessages

(* The bytes of d are told from what follows them, and read as d. *)
Returns(d) ==
  EncodeData(d).ok =>
    /\ EncodeData(d).bytes \in Seq(Byte) /\ EncodeData(d).bytes # << >>
    /\ ReadData(EncodeData(d).bytes) = d
    /\ \A w, t : Joined(w, EncodeData(d).bytes, t) => DataLen(w) = Len(EncodeData(d).bytes)

(* ... in particular the data that callers use. *)
LEMMA DataReturns == \A d \in LockDatas[Nesting] : Returns(d)
<1> SUFFICES ASSUME NEW d \in LockDatas[Nesting], EncodeData(d).ok
             PROVE  LET e == EncodeData(d).bytes
                    IN  /\ e \in Seq(Byte) /\ e # << >> /\ ReadData(e) = d
                        /\ \A w, t : Joined(w, e, t) => DataLen(w) = Len(e)
  BY Zenon DEF Returns
<1> DEFINE e == EncodeData(d).bytes
<1>1. ReturnsTo(Nesting, d)
  BY NestingAssumption, DataReturnsTo, Zenon
<1>2. Tells(e) /\ ReadData(e) = d
  BY <1>1, Zenon DEF ReturnsTo, EncodeData, ReadData
<1> HIDE DEF e
<1>3. e \in Seq(Byte) /\ e # << >>
  BY <1>2 DEF Tells
<1> QED BY <1>2, <1>3, Zenon DEF Tells, e

(* No two commands have the same type. *)
LEMMA TypesDiffer ==
  INIT # LOCK /\ INIT # UNLOCK /\ INIT # PING /\ PING # LOCK /\ PING # UNLOCK /\ LOCK # UNLOCK
BY DEF INIT, LOCK, UNLOCK, PING

(* INIT is read back. *)
LEMMA InitRead ==
  ASSUME NEW c \in InitMessages
  PROVE  LET h == InitHeader(c)
         IN  h \in BytesOf(64) /\ At(h, 2) = INIT /\ ReadRequest(h, << >>) = c
<1> DEFINE h == InitHeader(c)  s == <<MAGIC, VERSION, INIT>>
<1>1. c.request \in BytesOf(16) /\ c.client \in BytesOf(16)
  BY DEF InitMessages
<1>2. s \in BytesOf(3) /\ s[3] = INIT /\ Zeros(29) \in BytesOf(29)
  BY Tuples, Constants, ZerosTyped
<1>3. Four(h, s, c.request, c.client, Zeros(29))
  BY Zenon DEF InitHeader, Four
<1> HIDE DEF h, s
<1>4. /\ h \in BytesOf(64) /\ Has(h, 0, 3, s) /\ Has(h, 3, 16, c.request)
      /\ Has(h, 19, 16, c.client)
  BY <1>1, <1>2, <1>3, FourPieces
<1>5. At(h, 2) = INIT
  <2>1. At(h, 0 + 2) = s[3]
    BY <1>4, HasAt, Zenon
  <2> QED BY <1>2, <2>1
<1>6. RequestIdOf(h) = c.request /\ Slice(h, 19, 16) = c.client
  BY <1>4, Zenon DEF Has, RequestIdOf
<1>7. ReadRequest(h, << >>) = InitCommand(c.request, c.client)
  BY <1>5, <1>6, TypesDiffer DEF ReadRequest
<1>8. c = InitCommand(c.request, c.client)
  BY DEF InitMessages, InitCommand
<1> QED BY <1>4, <1>5, <1>7, <1>8, Zenon DEF h

(* PING is read back. *)
LEMMA PingRead ==
  ASSUME NEW c \in PingMessages
  PROVE  LET h == PingHeader(c)
         IN  h \in BytesOf(64) /\ At(h, 2) = PING /\ ReadRequest(h, << >>) = c
<1> DEFINE h == PingHeader(c)  s == <<MAGIC, VERSION, PING>>
<1>1. c.request \in BytesOf(16)
  BY DEF PingMessages
<1>2. s \in BytesOf(3) /\ s[3] = PING /\ Zeros(45) \in BytesOf(45)
  BY Tuples, Constants, ZerosTyped
<1>3. Three(h, s, c.request, Zeros(45))
  BY Zenon DEF PingHeader, Three
<1> HIDE DEF h, s
<1>4. /\ h \in BytesOf(64) /\ Has(h, 0, 3, s) /\ Has(h, 3, 16, c.request)
  BY <1>1, <1>2, <1>3, ThreePieces
<1>5. At(h, 2) = PING
  <2>1. At(h, 0 + 2) = s[3]
    BY <1>4, HasAt, Zenon
  <2> QED BY <1>2, <2>1
<1>6. RequestIdOf(h) = c.request
  BY <1>4, Zenon DEF Has, RequestIdOf
<1>7. ReadRequest(h, << >>) = PingCommand(c.request)
  BY <1>5, <1>6, TypesDiffer DEF ReadRequest
<1>8. c = PingCommand(c.request)
  BY DEF PingMessages, PingCommand
<1> QED BY <1>4, <1>5, <1>7, <1>8, Zenon DEF h

(* LOCK and UNLOCK are read back, with their data. *)
LEMMA LockRead ==
  ASSUME NEW c \in LockMessages, NEW extra,
         IF HasExtraData(c) THEN ReadData(extra) = c.data ELSE c.data = NoData
  PROVE  /\ RequestHasData(LockHeader(c)) <=> HasExtraData(c)
         /\ ReadRequest(LockHeader(c), extra) = c
<1> DEFINE h == LockHeader(c)
<1>1. /\ At(h, 2) = c.type /\ RequestIdOf(h) = c.request
      /\ FlagsOf(Flags8, At(h, 19)) = c.flag /\ At(h, 20) = c.db /\ Slice(h, 21, 16) = c.id
      /\ Slice(h, 37, 16) = c.key /\ TimeOf(Slice(h, 53, 4)) = c.timeout
      /\ TimeOf(Slice(h, 57, 4)) = c.expired /\ Num2(Slice(h, 61, 2)) = c.count
      /\ At(h, 63) = c.rcount
  BY LockHeaderRead, Zenon
<1> HIDE DEF h
<1>2. c.type \in {LOCK, UNLOCK}
  BY DEF LockMessages
<1>3. RequestHasData(h) <=> HasExtraData(c)
  BY <1>1, <1>2, Zenon DEF RequestHasData, HasExtraData
<1>4. (IF RequestHasData(h) THEN ReadData(extra) ELSE NoData) = c.data
  BY <1>3, Zenon
<1>5. ReadRequest(h, extra) =
        [type |-> c.type, flag |-> c.flag, db |-> c.db, request |-> c.request, key |-> c.key,
         id |-> c.id, timeout |-> c.timeout, expired |-> c.expired, count |-> c.count,
         rcount |-> c.rcount, data |-> c.data]
  <2>1. At(h, 2) # INIT /\ At(h, 2) # PING
    BY <1>1, <1>2, TypesDiffer, Zenon
  <2>2. ReadRequest(h, extra) =
          [type |-> At(h, 2), flag |-> FlagsOf(Flags8, At(h, 19)), db |-> At(h, 20),
           request |-> RequestIdOf(h), key |-> Slice(h, 37, 16), id |-> Slice(h, 21, 16),
           timeout |-> TimeOf(Slice(h, 53, 4)), expired |-> TimeOf(Slice(h, 57, 4)),
           count |-> Num2(Slice(h, 61, 2)), rcount |-> At(h, 63),
           data |-> IF RequestHasData(h) THEN ReadData(extra) ELSE NoData]
    BY <2>1, Zenon DEF ReadRequest
  <2> QED BY <1>1, <1>4, <2>2, Zenon
<1>6. c = [type |-> c.type, flag |-> c.flag, db |-> c.db, request |-> c.request, key |-> c.key,
           id |-> c.id, timeout |-> c.timeout, expired |-> c.expired, count |-> c.count,
           rcount |-> c.rcount, data |-> c.data]
  BY DEF LockMessages
<1> QED BY <1>3, <1>5, <1>6, Zenon DEF h

(* A command that says whether it has data. *)
WellMade(c) == c \in Messages /\ (c \in LockMessages /\ c.data # NoData => HasExtraData(c))

(* Every command that can be encoded is read back from its header and data. *)
LEMMA ReadBack ==
  ASSUME NEW c, WellMade(c), Encode(c).ok
  PROVE  LET h == Encode(c).header  extra == Encode(c).extra
         IN  /\ h \in BytesOf(64) /\ extra \in Seq(Byte)
             /\ RequestHasData(h) <=> extra # << >>
             /\ ReadRequest(h, extra) = c
             /\ extra # << >> => \A w, t : Joined(w, extra, t) => DataLen(w) = Len(extra)
<1> DEFINE h == Encode(c).header  extra == Encode(c).extra
<1>0. << >> \in Seq(Byte)
  OBVIOUS
<1>1. CASE c \in InitMessages
  <2>1. c.type = INIT
    BY <1>1 DEF InitMessages
  <2>2. h = InitHeader(c) /\ extra = << >>
    BY <2>1, TypesDiffer DEF Encode, Encoded
  <2>3. ~RequestHasData(InitHeader(c))
    BY <1>1, InitRead, TypesDiffer DEF RequestHasData
  <2> QED BY <1>0, <1>1, <2>2, <2>3, InitRead, Zenon
<1>2. CASE c \in PingMessages
  <2>1. c.type = PING /\ c.type # INIT
    BY <1>2, TypesDiffer DEF PingMessages
  <2>2. h = PingHeader(c) /\ extra = << >>
    BY <2>1 DEF Encode, Encoded
  <2>3. ~RequestHasData(PingHeader(c))
    BY <1>2, PingRead, TypesDiffer DEF RequestHasData
  <2> QED BY <1>0, <1>2, <2>2, <2>3, PingRead, Zenon
<1>3. CASE c \in LockMessages
  <2>1. c.type # PING /\ c.type # INIT /\ c.data \in LockDatas[Nesting] \cup {NoData}
    BY <1>3, TypesDiffer DEF LockMessages
  <2>2. Encode(c) = EncodeLock(c)
    BY <2>1 DEF Encode
  <2>3. CASE ~HasExtraData(c)
    <3>1. h = LockHeader(c) /\ extra = << >>
      BY <2>2, <2>3 DEF EncodeLock, Encoded
    <3>2. c.data = NoData
      BY <1>3, <2>3 DEF WellMade
    <3> QED BY <1>0, <1>3, <2>3, <3>1, <3>2, LockRead, LockHeaderHas, Zenon
  <2>4. CASE HasExtraData(c)
    <3>1. c.data # NoData /\ EncodeData(c.data).ok
      BY <2>2, <2>4 DEF EncodeLock, EncodeError
    <3>2. h = LockHeader(c) /\ extra = EncodeData(c.data).bytes
      BY <2>2, <2>4, <3>1 DEF EncodeLock, Encoded
    <3>3. /\ extra \in Seq(Byte) /\ extra # << >> /\ ReadData(extra) = c.data
          /\ \A w, t : Joined(w, extra, t) => DataLen(w) = Len(extra)
      BY <2>1, <3>1, <3>2, DataReturns, Zenon DEF Returns
    <3> QED BY <1>3, <2>4, <3>2, <3>3, LockRead, LockHeaderHas, Zenon
  <2> QED BY <2>3, <2>4
<1> QED BY <1>1, <1>2, <1>3 DEF WellMade, Messages

(***************************************************************************)
(* Responses: decode reads the fields that the server wrote.               *)
(***************************************************************************)

(* What is behind the request id is found in the whole header. *)
LEMMA ThreeInside ==
  ASSUME NEW a \in BytesOf(3), NEW b \in BytesOf(16), NEW c \in BytesOf(45), NEW h, Three(h, a, b, c)
  PROVE  \A m, n, x : Has(c, m, n, x) => Has(h, 19 + m, n, x)
<1> DEFINE s == a \o b
<1>1. Joined(s, a, b)
  BY Zenon DEF Joined, BytesOf
<1>2. Joined(h, s, c)
  <2>1. s \in Seq(Byte)
    BY <1>1, JoinedBytes, Zenon
  <2> QED BY <2>1, Zenon DEF Three, Joined, BytesOf
<1> HIDE DEF s
<1>3. s \in BytesOf(3 + 16)
  BY <1>1, Concat, Zenon
<1>4. 3 + 16 = 19
  OBVIOUS
<1> QED BY <1>2, <1>3, <1>4, HasInside, Zenon

(* What an answer of the server may be. *)
AnswerTyped(a) ==
  /\ a.magic \in Byte /\ a.type \in Byte /\ a.request \in BytesOf(16) /\ a.result \in Byte
  /\ a.payload \in Seq(Byte) /\ ~ExceedsU32(Len(a.payload))
  /\ a.type \in {LOCK, UNLOCK} =>
       /\ a.flag \in SUBSET Flags8 /\ a.db \in Byte /\ a.id \in BytesOf(16)
       /\ a.key \in BytesOf(16) /\ a.lcount \in 0 .. U16MAX /\ a.count \in 0 .. U16MAX
       /\ a.lrcount \in Byte /\ a.rcount \in Byte
       /\ CONTAINS_DATA \in a.flag <=> a.payload # << >>
  /\ a.type = INIT => a.initType \in Byte

(* What the server writes behind the request id. *)
ResponseRest(a) ==
  CASE a.type = INIT -> <<a.result, a.initType>> \o Zeros(43)
    [] a.type \in {LOCK, UNLOCK} ->
         <<a.result, Bits(a.flag), a.db>> \o a.id \o a.key \o LE2(a.lcount) \o LE2(a.count)
           \o <<a.lrcount, a.rcount>> \o Zeros(4)
    [] OTHER -> <<a.result>> \o Zeros(44)

(* Where the fields of a lock response are in it. *)
LEMMA RestOfLock ==
  ASSUME NEW a, AnswerTyped(a), a.type \in {LOCK, UNLOCK}
  PROVE  LET r == ResponseRest(a)
         IN  /\ r \in BytesOf(45)
             /\ Has(r, 0, 3, <<a.result, Bits(a.flag), a.db>>) /\ Has(r, 3, 16, a.id)
             /\ Has(r, 19, 16, a.key) /\ Has(r, 35, 2, LE2(a.lcount))
             /\ Has(r, 37, 2, LE2(a.count)) /\ Has(r, 39, 2, <<a.lrcount, a.rcount>>)
<1> DEFINE r == ResponseRest(a)
<1>1. /\ a.result \in Byte
      /\ a.flag \in SUBSET Flags8 /\ a.db \in Byte /\ a.id \in BytesOf(16)
      /\ a.key \in BytesOf(16) /\ a.lcount \in 0 .. U16MAX /\ a.count \in 0 .. U16MAX
      /\ a.lrcount \in Byte /\ a.rcount \in Byte
  BY DEF AnswerTyped
<1>2. a.lcount \in Int /\ a.count \in Int /\ Bits(a.flag) \in Byte
  BY <1>1, Flags8Read
<1>3. /\ <<a.result, Bits(a.flag), a.db>> \in BytesOf(3) /\ <<a.lrcount, a.rcount>> \in BytesOf(2)
      /\ LE2(a.lcount) \in BytesOf(2) /\ LE2(a.count) \in BytesOf(2) /\ Zeros(4) \in BytesOf(4)
  BY <1>1, <1>2, Tuples, LE2Typed, ZerosTyped
<1>4. a.type # INIT
  BY TypesDiffer
<1>5. Seven(r, <<a.result, Bits(a.flag), a.db>>, a.id, a.key, LE2(a.lcount), LE2(a.count),
            <<a.lrcount, a.rcount>>, Zeros(4))
  BY <1>4, Zenon DEF ResponseRest, Seven
<1> HIDE DEF r
<1>6. /\ r \in BytesOf(45)
      /\ Has(r, 0, 3, <<a.result, Bits(a.flag), a.db>>) /\ Has(r, 3, 16, a.id)
      /\ Has(r, 19, 16, a.key) /\ Has(r, 35, 2, LE2(a.lcount))
      /\ Has(r, 37, 2, LE2(a.count)) /\ Has(r, 39, 2, <<a.lrcount, a.rcount>>)
  BY <1>1, <1>3, <1>5, SevenPieces
<1> QED BY <1>6, Zenon DEF r

(* It fills the header, and starts with the result. *)
LEMMA RestTyped ==
  ASSUME NEW a, AnswerTyped(a)
  PROVE  ResponseRest(a) \in BytesOf(45) /\ At(ResponseRest(a), 0) = a.result
<1> DEFINE r == ResponseRest(a)
<1>0. a.result \in Byte /\ 1 + 44 = 45 /\ 2 + 43 = 45
  BY DEF AnswerTyped
<1>1. CASE a.type = INIT
  <2>1. <<a.result, a.initType>> \in BytesOf(2) /\ <<a.result, a.initType>>[1] = a.result
    BY <1>1, Tuples DEF AnswerTyped
  <2>2. Zeros(43) \in BytesOf(43)
    BY ZerosTyped
  <2>3. a.type \notin {LOCK, UNLOCK}
    BY <1>1, TypesDiffer
  <2>4. r = <<a.result, a.initType>> \o Zeros(43)
    BY <1>1, <2>3, Zenon DEF ResponseRest
  <2> HIDE DEF r
  <2>5. Joined(r, <<a.result, a.initType>>, Zeros(43))
    BY <2>1, <2>2, <2>4, Zenon DEF Joined, BytesOf
  <2>6. r \in BytesOf(2 + 43) /\ Has(r, 0, 2, <<a.result, a.initType>>)
    BY <2>1, <2>2, <2>5, Concat, HasAll, HasLeft, Zenon
  <2>7. At(r, 0) = <<a.result, a.initType>>[1]
    BY <2>6, HasAt, Zenon
  <2> QED BY <1>0, <2>1, <2>6, <2>7, Zenon DEF r
<1>2. CASE a.type \in {LOCK, UNLOCK}
  <2>1. r \in BytesOf(45) /\ Has(r, 0, 3, <<a.result, Bits(a.flag), a.db>>)
    BY <1>2, RestOfLock, Zenon
  <2> HIDE DEF r
  <2>2. At(r, 0) = <<a.result, Bits(a.flag), a.db>>[1]
    BY <2>1, HasAt, Zenon
  <2> QED BY <2>1, <2>2 DEF r
<1>3. CASE a.type \notin {INIT, LOCK, UNLOCK}
  <2>1. <<a.result>> \in BytesOf(1) /\ <<a.result>>[1] = a.result
    BY <1>0, Tuples
  <2>2. Zeros(44) \in BytesOf(44)
    BY ZerosTyped
  <2>4. r = <<a.result>> \o Zeros(44)
    BY <1>3, Zenon DEF ResponseRest
  <2> HIDE DEF r
  <2>5. Joined(r, <<a.result>>, Zeros(44))
    BY <2>1, <2>2, <2>4, Zenon DEF Joined, BytesOf
  <2>6. r \in BytesOf(1 + 44) /\ Has(r, 0, 1, <<a.result>>)
    BY <2>1, <2>2, <2>5, Concat, HasAll, HasLeft, Zenon
  <2>7. At(r, 0) = <<a.result>>[1]
    BY <2>6, HasAt, Zenon
  <2> QED BY <1>0, <2>1, <2>6, <2>7, Zenon DEF r
<1> QED BY <1>1, <1>2, <1>3, Zenon

(* At reads the first byte of a piece. *)
LEMMA HasFirst ==
  \A h, m, n, x : Has(h, m, n, x) /\ 1 <= n => At(h, m) = At(x, 0)
<1> SUFFICES ASSUME NEW h, NEW m, NEW n, NEW x, Has(h, m, n, x), 1 <= n PROVE At(h, m) = At(x, 0)
  OBVIOUS
<1>1. n \in Nat /\ 0 + 1 = 1
  BY DEF Has
<1>2. 1 \in 1 .. n
  BY <1>1
<1>3. \A i : i \in 1 .. n => h[m + i] = x[i]
  BY HasByte DEF Has
<1>4. h[m + 1] = x[1]
  BY <1>2, <1>3
<1> QED BY <1>1, <1>4 DEF At

(* Where the fields of every response are. *)
LEMMA ResponseHas ==
  ASSUME NEW a, AnswerTyped(a)
  PROVE  LET h == ResponseHeader(a)
         IN  /\ h \in BytesOf(64) /\ At(h, 0) = a.magic /\ At(h, 1) = VERSION /\ At(h, 2) = a.type
             /\ RequestIdOf(h) = a.request /\ At(h, 19) = a.result
             /\ \A m, n, x : Has(ResponseRest(a), m, n, x) => Has(h, 19 + m, n, x)
<1> DEFINE h == ResponseHeader(a)  r == ResponseRest(a)  s == <<a.magic, VERSION, a.type>>
<1>1. a.magic \in Byte /\ a.type \in Byte /\ a.request \in BytesOf(16)
  BY DEF AnswerTyped
<1>2. s \in BytesOf(3) /\ s[1] = a.magic /\ s[2] = VERSION /\ s[3] = a.type
  BY <1>1, Tuples, Constants
<1>3. r \in BytesOf(45) /\ At(r, 0) = a.result
  BY RestTyped, Zenon
<1>4. Three(h, s, a.request, r)
  BY Zenon DEF ResponseHeader, ResponseRest, Three
<1> HIDE DEF h, r, s
<1>5. h \in BytesOf(64) /\ Has(h, 0, 3, s) /\ Has(h, 3, 16, a.request) /\ Has(h, 19, 45, r)
  BY <1>1, <1>2, <1>3, <1>4, ThreePieces
<1>6. \A m, n, x : Has(r, m, n, x) => Has(h, 19 + m, n, x)
  BY <1>1, <1>2, <1>3, <1>4, ThreeInside
<1>7. At(h, 0) = a.magic /\ At(h, 1) = VERSION /\ At(h, 2) = a.type
  <2>1. At(h, 0) = s[1] /\ At(h, 0 + 1) = s[2] /\ At(h, 0 + 2) = s[3]
    BY <1>5, HasAt, Zenon
  <2> QED BY <1>2, <2>1
<1>8. RequestIdOf(h) = a.request
  BY <1>5, Zenon DEF Has, RequestIdOf
<1>9. At(h, 19) = a.result
  BY <1>3, <1>5, HasFirst
<1> QED BY <1>5, <1>6, <1>7, <1>8, <1>9, Zenon DEF h, r

(* LockResponse::decode reads each field where the server put it. *)
LEMMA LockResponseHas ==
  ASSUME NEW a, AnswerTyped(a), a.type \in {LOCK, UNLOCK}
  PROVE  LET h == ResponseHeader(a)
         IN  /\ FlagsOf(Flags8, At(h, 20)) = a.flag /\ At(h, 21) = a.db /\ Slice(h, 22, 16) = a.id
             /\ Slice(h, 38, 16) = a.key /\ Num2(Slice(h, 54, 2)) = a.lcount
             /\ Num2(Slice(h, 56, 2)) = a.count /\ At(h, 58) = a.lrcount /\ At(h, 59) = a.rcount
<1> DEFINE h == ResponseHeader(a)  r == ResponseRest(a)
<1>1. /\ a.result \in Byte
      /\ a.flag \in SUBSET Flags8 /\ a.db \in Byte /\ a.id \in BytesOf(16)
      /\ a.key \in BytesOf(16) /\ a.lcount \in 0 .. U16MAX /\ a.count \in 0 .. U16MAX
      /\ a.lrcount \in Byte /\ a.rcount \in Byte
  BY DEF AnswerTyped
<1>2. /\ Has(r, 0, 3, <<a.result, Bits(a.flag), a.db>>) /\ Has(r, 3, 16, a.id)
      /\ Has(r, 19, 16, a.key) /\ Has(r, 35, 2, LE2(a.lcount))
      /\ Has(r, 37, 2, LE2(a.count)) /\ Has(r, 39, 2, <<a.lrcount, a.rcount>>)
  BY RestOfLock, Zenon
<1>3. \A m, n, x : Has(r, m, n, x) => Has(h, 19 + m, n, x)
  BY ResponseHas, Zenon
<1> HIDE DEF h, r
<1>4. /\ Has(h, 19 + 0, 3, <<a.result, Bits(a.flag), a.db>>) /\ Has(h, 19 + 3, 16, a.id)
      /\ Has(h, 19 + 19, 16, a.key) /\ Has(h, 19 + 35, 2, LE2(a.lcount))
      /\ Has(h, 19 + 37, 2, LE2(a.count)) /\ Has(h, 19 + 39, 2, <<a.lrcount, a.rcount>>)
  BY <1>2, <1>3, Zenon
<1>5. /\ 19 + 0 = 19 /\ 19 + 3 = 22 /\ 19 + 19 = 38 /\ 19 + 35 = 54 /\ 19 + 37 = 56
      /\ 19 + 39 = 58 /\ 19 + 1 = 20 /\ 19 + 2 = 21 /\ 58 + 1 = 59
  OBVIOUS
<1>6. /\ Has(h, 19, 3, <<a.result, Bits(a.flag), a.db>>) /\ Has(h, 22, 16, a.id)
      /\ Has(h, 38, 16, a.key) /\ Has(h, 54, 2, LE2(a.lcount))
      /\ Has(h, 56, 2, LE2(a.count)) /\ Has(h, 58, 2, <<a.lrcount, a.rcount>>)
  BY <1>4, <1>5
<1>7. At(h, 20) = Bits(a.flag) /\ At(h, 21) = a.db
  <2>1. /\ At(h, 19 + 1) = <<a.result, Bits(a.flag), a.db>>[2]
        /\ At(h, 19 + 2) = <<a.result, Bits(a.flag), a.db>>[3]
    BY <1>6, HasAt, Zenon
  <2>2. Bits(a.flag) \in Byte
    BY <1>1, Flags8Read
  <2>3. /\ At(h, 20) = <<a.result, Bits(a.flag), a.db>>[2]
        /\ At(h, 21) = <<a.result, Bits(a.flag), a.db>>[3]
    BY <1>5, <2>1
  <2> QED BY <1>1, <2>2, <2>3, Tuples
<1>8. At(h, 58) = a.lrcount /\ At(h, 59) = a.rcount
  <2>1. At(h, 58) = <<a.lrcount, a.rcount>>[1] /\ At(h, 58 + 1) = <<a.lrcount, a.rcount>>[2]
    BY <1>6, HasAt, Zenon
  <2> QED BY <1>1, <1>5, <2>1, Tuples
<1>9. FlagsOf(Flags8, At(h, 20)) = a.flag
  BY <1>1, <1>7, Flags8Read
<1>10. /\ Slice(h, 22, 16) = a.id /\ Slice(h, 38, 16) = a.key /\ Slice(h, 54, 2) = LE2(a.lcount)
       /\ Slice(h, 56, 2) = LE2(a.count)
  BY <1>6, Zenon DEF Has
<1>11. Num2(Slice(h, 54, 2)) = a.lcount /\ Num2(Slice(h, 56, 2)) = a.count
  BY <1>1, <1>10, Num2OfLE2
<1> QED BY <1>7, <1>8, <1>9, <1>10, <1>11, Zenon DEF h

(* The data of an answer, as the connection passes it to the decoder. *)
HasData(a) == a.type \in {LOCK, UNLOCK} /\ a.payload # << >>

(* ... or nothing, when there is none. *)
DataOf(a) == IF HasData(a) THEN Zeros(4) \o a.payload ELSE << >>

(* decode_response returns what the server meant, also of a spoilt answer. *)
LEMMA ResponseRead ==
  ASSUME NEW a, AnswerTyped(a)
  PROVE  LET h == ResponseHeader(a)
         IN  /\ ResponseHasExtraData(h) <=> HasData(a)
             /\ a.type # INIT => DecodeResponse(h, DataOf(a)) = Meant(a)
<1> DEFINE h == ResponseHeader(a)
<1>1. /\ At(h, 0) = a.magic /\ At(h, 1) = VERSION /\ At(h, 2) = a.type
      /\ RequestIdOf(h) = a.request /\ At(h, 19) = a.result
  BY ResponseHas, Zenon
<1>2. a.type \in {LOCK, UNLOCK} =>
        /\ FlagsOf(Flags8, At(h, 20)) = a.flag /\ At(h, 21) = a.db /\ Slice(h, 22, 16) = a.id
        /\ Slice(h, 38, 16) = a.key /\ Num2(Slice(h, 54, 2)) = a.lcount
        /\ Num2(Slice(h, 56, 2)) = a.count /\ At(h, 58) = a.lrcount /\ At(h, 59) = a.rcount
        /\ CONTAINS_DATA \in a.flag <=> a.payload # << >>
  BY LockResponseHas, Zenon DEF AnswerTyped
<1> HIDE DEF h
<1>3. ResponseHasExtraData(h) <=> HasData(a)
  BY <1>1, <1>2, Zenon DEF ResponseHasExtraData, HasData
<1>4. ASSUME a.type # INIT
      PROVE  DecodeResponse(h, DataOf(a)) = Meant(a)
  <2>1. IsValidHeader(h) <=> a.magic = MAGIC
    BY <1>1, Zenon DEF IsValidHeader
  <2>2. CASE a.magic # MAGIC
    BY <2>1, <2>2, Zenon DEF DecodeResponse, Meant
  <2>3. CASE a.magic = MAGIC /\ a.type \notin {LOCK, UNLOCK, PING}
    <3>1. DecodeResponse(h, DataOf(a)) = Undecodable
      BY <1>1, <1>4, <2>1, <2>3, Zenon DEF DecodeResponse
    <3> QED BY <2>3, <3>1, Zenon DEF Meant
  <2>4. CASE a.magic = MAGIC /\ a.type = PING
    <3>1. a.type # INIT /\ a.type \notin {LOCK, UNLOCK}
      BY <2>4, TypesDiffer
    <3>2. DecodeResponse(h, DataOf(a)) = [type |-> PING, request |-> RequestIdOf(h),
                                          result |-> At(h, 19)]
      BY <1>1, <2>1, <2>4, <3>1, Zenon DEF DecodeResponse
    <3>3. Meant(a) = [type |-> PING, request |-> a.request, result |-> a.result]
      BY <2>4, Zenon DEF Meant
    <3> QED BY <1>1, <3>2, <3>3, Zenon
  <2>5. CASE a.magic = MAGIC /\ a.type \in {LOCK, UNLOCK}
    <3>1. a.type # INIT /\ a.type # PING
      BY <2>5, TypesDiffer
    <3>2. DecodeResponse(h, DataOf(a)) = DecodeLock(h, DataOf(a))
      BY <1>1, <2>1, <2>5, <3>1, Zenon DEF DecodeResponse
    <3>3. DataOf(a) = IF a.payload = << >> THEN << >> ELSE Zeros(4) \o a.payload
      BY <2>5, Zenon DEF DataOf, HasData
    <3>4. Meant(a) =
            [type |-> a.type, request |-> a.request, result |-> a.result, flag |-> a.flag,
             db |-> a.db, id |-> a.id, key |-> a.key, lcount |-> a.lcount, count |-> a.count,
             lrcount |-> a.lrcount, rcount |-> a.rcount, data |-> DataOf(a)]
      BY <2>5, <3>1, <3>3, Zenon DEF Meant
    <3>5. DecodeLock(h, DataOf(a)) =
            [type |-> a.type, request |-> a.request, result |-> a.result, flag |-> a.flag,
             db |-> a.db, id |-> a.id, key |-> a.key, lcount |-> a.lcount, count |-> a.count,
             lrcount |-> a.lrcount, rcount |-> a.rcount, data |-> DataOf(a)]
      BY <1>1, <1>2, <2>5, Zenon DEF DecodeLock
    <3> QED BY <3>2, <3>4, <3>5, Zenon
  <2> QED BY <2>2, <2>3, <2>4, <2>5, Zenon
<1> QED BY <1>3, <1>4, Zenon DEF h

(* s is what is left of the frames k + 1 to n, and part of the next one behind them. *)
InFlight(s, k, n, frames, part) ==
  /\ k \in Nat /\ n \in Nat /\ k <= n
  /\ \E rest \in [k .. n -> Seq(Byte)] :
       /\ rest[k] = s /\ rest[n] = part
       /\ \A j \in k .. n : j < n => Joined(rest[j], frames[j + 1], rest[j + 1])

(***************************************************************************)
(* The streams: frames on their way, read from one end and written at the  *)
(* other.                                                                  *)
(***************************************************************************)

(* Nothing on its way. *)
LEMMA FlightEmpty == \A k, frames : k \in Nat => InFlight(<< >>, k, k, frames, << >>)
<1> SUFFICES ASSUME NEW k, NEW frames, k \in Nat PROVE InFlight(<< >>, k, k, frames, << >>)
  OBVIOUS
<1> DEFINE rest == [j \in k .. k |-> << >>]
<1>1. rest \in [k .. k -> Seq(Byte)] /\ rest[k] = << >> /\ k <= k
  OBVIOUS
<1>2. \A j \in k .. k : j < k => Joined(rest[j], frames[j + 1], rest[j + 1])
  OBVIOUS
<1> HIDE DEF rest
<1> QED BY <1>1, <1>2, Zenon DEF InFlight

(* What is on its way is bytes. *)
LEMMA FlightTyped ==
  \A s, k, n, frames, part : InFlight(s, k, n, frames, part) =>
    s \in Seq(Byte) /\ part \in Seq(Byte) /\ k \in Nat /\ n \in Nat /\ k <= n
BY DEF InFlight

(* Only the frames that are on their way matter. *)
LEMMA FlightSame ==
  ASSUME NEW s, NEW k, NEW n, NEW frames, NEW part, InFlight(s, k, n, frames, part),
         NEW more, \A j : j \in k + 1 .. n => more[j] = frames[j]
  PROVE  InFlight(s, k, n, more, part)
<1>1. k \in Nat /\ n \in Nat /\ k <= n
  BY DEF InFlight
<1>2. PICK rest \in [k .. n -> Seq(Byte)] :
        /\ rest[k] = s /\ rest[n] = part
        /\ \A j \in k .. n : j < n => Joined(rest[j], frames[j + 1], rest[j + 1])
  BY DEF InFlight
<1>3. \A j \in k .. n : j < n => Joined(rest[j], more[j + 1], rest[j + 1])
  <2> SUFFICES ASSUME NEW j \in k .. n, j < n
               PROVE  Joined(rest[j], more[j + 1], rest[j + 1])
    OBVIOUS
  <2>1. j + 1 \in k + 1 .. n
    BY <1>1
  <2>2. more[j + 1] = frames[j + 1]
    BY <2>1, Zenon
  <2> QED BY <1>2, <2>2
<1> QED BY <1>1, <1>2, <1>3, Zenon DEF InFlight

(* When all frames were read, the part of the next is left. *)
LEMMA FlightDone ==
  \A s, k, frames, part : InFlight(s, k, k, frames, part) => s = part
BY DEF InFlight

(* The reader takes the next frame from the stream. *)
LEMMA FlightRead ==
  ASSUME NEW s, NEW k, NEW n, NEW frames, NEW part, InFlight(s, k, n, frames, part), k # n
  PROVE  \E r : Joined(s, frames[k + 1], r) /\ InFlight(r, k + 1, n, frames, part)
<1>1. k \in Nat /\ n \in Nat /\ k < n /\ k + 1 \in Nat /\ k + 1 <= n
  BY DEF InFlight
<1>2. PICK rest \in [k .. n -> Seq(Byte)] :
        /\ rest[k] = s /\ rest[n] = part
        /\ \A j \in k .. n : j < n => Joined(rest[j], frames[j + 1], rest[j + 1])
  BY DEF InFlight
<1>3. Joined(s, frames[k + 1], rest[k + 1])
  <2>1. k \in k .. n
    BY <1>1
  <2> QED BY <1>1, <1>2, <2>1, Zenon
<1> DEFINE left == [j \in k + 1 .. n |-> rest[j]]
<1>4. /\ left \in [k + 1 .. n -> Seq(Byte)]
      /\ left[k + 1] = rest[k + 1] /\ left[n] = part
  BY <1>1, <1>2
<1>5. \A j \in k + 1 .. n : j < n => Joined(left[j], frames[j + 1], left[j + 1])
  <2> SUFFICES ASSUME NEW j \in k + 1 .. n, j < n
               PROVE  Joined(left[j], frames[j + 1], left[j + 1])
    OBVIOUS
  <2>1. j \in k .. n /\ j + 1 \in k + 1 .. n
    BY <1>1
  <2>2. left[j] = rest[j] /\ left[j + 1] = rest[j + 1]
    BY <2>1
  <2>3. Joined(rest[j], frames[j + 1], rest[j + 1])
    BY <1>2, <2>1
  <2> HIDE DEF left
  <2> QED BY <2>2, <2>3, Zenon
<1> HIDE DEF left
<1>6. InFlight(rest[k + 1], k + 1, n, frames, part)
  BY <1>1, <1>4, <1>5, Zenon DEF InFlight
<1> QED BY <1>3, <1>6, Zenon

(* What is written behind a stream is behind all of it. *)
LEMMA JoinMore ==
  ASSUME NEW w, NEW s, NEW t, NEW x \in Seq(Byte), Joined(w, s, t)
  PROVE  Joined(w \o x, s, t \o x)
<1>1. s \in Seq(Byte) /\ t \in Seq(Byte) /\ w = s \o t
  BY Zenon DEF Joined
<1>2. (s \o t) \o x = s \o (t \o x)
  BY <1>1, BytesAssociative, Zenon
<1>3. t \o x \in Seq(Byte)
  BY <1>1, ConcatProperties
<1> QED BY <1>1, <1>2, <1>3, Zenon DEF Joined

(* More bytes of the frame that is being written. *)
LEMMA FlightPush ==
  ASSUME NEW s, NEW k, NEW n, NEW frames, NEW part, InFlight(s, k, n, frames, part),
         NEW x \in Seq(Byte)
  PROVE  InFlight(s \o x, k, n, frames, part \o x)
<1>1. k \in Nat /\ n \in Nat /\ k <= n
  BY DEF InFlight
<1>2. PICK rest \in [k .. n -> Seq(Byte)] :
        /\ rest[k] = s /\ rest[n] = part
        /\ \A j \in k .. n : j < n => Joined(rest[j], frames[j + 1], rest[j + 1])
  BY DEF InFlight
<1> DEFINE more == [j \in k .. n |-> rest[j] \o x]
<1>3. \A j \in k .. n : more[j] = rest[j] \o x /\ more[j] \in Seq(Byte)
  <2> TAKE j \in k .. n
  <2>1. rest[j] \in Seq(Byte)
    BY <1>2
  <2>2. rest[j] \o x \in Seq(Byte)
    BY <2>1, ConcatProperties, Zenon
  <2> QED BY <2>2, Zenon
<1>4. more \in [k .. n -> Seq(Byte)]
  BY <1>3, Zenon
<1>5. more[k] = s \o x /\ more[n] = part \o x
  <2>1. k \in k .. n /\ n \in k .. n
    BY <1>1
  <2> QED BY <1>2, <1>3, <2>1, Zenon
<1> HIDE DEF more
<1>6. \A j \in k .. n : j < n => Joined(more[j], frames[j + 1], more[j + 1])
  <2> SUFFICES ASSUME NEW j \in k .. n, j < n
               PROVE  Joined(more[j], frames[j + 1], more[j + 1])
    OBVIOUS
  <2>1. j + 1 \in k .. n
    BY <1>1
  <2>2. Joined(rest[j], frames[j + 1], rest[j + 1])
    BY <1>2, Zenon
  <2>3. Joined(rest[j] \o x, frames[j + 1], rest[j + 1] \o x)
    BY <2>2, JoinMore, Zenon
  <2> QED BY <1>3, <2>1, <2>3, Zenon
<1> QED BY <1>1, <1>4, <1>5, <1>6, Zenon DEF InFlight

(* A frame all of which is written is on its way. *)
LEMMA FlightSeal ==
  ASSUME NEW s, NEW k, NEW n, NEW frames, NEW part, InFlight(s, k, n, frames, part),
         frames[n + 1] = part
  PROVE  InFlight(s, k, n + 1, frames, << >>)
<1>1. k \in Nat /\ n \in Nat /\ k <= n /\ n + 1 \in Nat /\ k <= n + 1 /\ k # n + 1
  BY DEF InFlight
<1>2. PICK rest \in [k .. n -> Seq(Byte)] :
        /\ rest[k] = s /\ rest[n] = part
        /\ \A j \in k .. n : j < n => Joined(rest[j], frames[j + 1], rest[j + 1])
  BY DEF InFlight
<1> DEFINE more == [j \in k .. n + 1 |-> IF j = n + 1 THEN << >> ELSE rest[j]]
<1>3. \A j \in k .. n : more[j] = rest[j] /\ j \in k .. n + 1 /\ (j = n \/ j + 1 \in k .. n)
  BY <1>1
<1>4. more[n + 1] = << >> /\ n \in k .. n /\ k \in k .. n
  BY <1>1
<1>5. more \in [k .. n + 1 -> Seq(Byte)]
  <2>1. \A j \in k .. n + 1 : j = n + 1 \/ j \in k .. n
    BY <1>1
  <2>2. << >> \in Seq(Byte)
    OBVIOUS
  <2>3. \A j \in k .. n + 1 : (IF j = n + 1 THEN << >> ELSE rest[j]) \in Seq(Byte)
    BY <1>2, <2>1, <2>2
  <2> QED BY <2>3, Zenon
<1> HIDE DEF more
<1>6. more[k] = s
  BY <1>2, <1>3, <1>4, Zenon
<1>7. Joined(more[n], frames[n + 1], more[n + 1])
  <2>1. more[n] = part /\ part \in Seq(Byte)
    BY <1>2, <1>3, <1>4
  <2>2. part = part \o << >> /\ << >> \in Seq(Byte)
    BY <2>1, ConcatEmptySeq
  <2> QED BY <1>4, <2>1, <2>2, Zenon DEF Joined
<1>8. \A j \in k .. n + 1 : j < n + 1 => Joined(more[j], frames[j + 1], more[j + 1])
  <2> SUFFICES ASSUME NEW j \in k .. n + 1, j < n + 1
               PROVE  Joined(more[j], frames[j + 1], more[j + 1])
    OBVIOUS
  <2>1. j \in k .. n /\ (j = n \/ (j < n /\ j + 1 \in k .. n))
    BY <1>1
  <2>2. CASE j = n
    BY <1>7, <2>2, Zenon
  <2>3. CASE j < n /\ j + 1 \in k .. n
    <3>1. Joined(rest[j], frames[j + 1], rest[j + 1])
      BY <1>2, <2>1, <2>3, Zenon
    <3> QED BY <1>3, <2>1, <2>3, <3>1, Zenon
  <2> QED BY <2>1, <2>2, <2>3
<1> QED BY <1>1, <1>4, <1>5, <1>6, <1>8, Zenon DEF InFlight

(***************************************************************************)
(* Times: what a primitive says of them is what its caller asked for.      *)
(***************************************************************************)

(* What Lock holds. *)
Locks ==
  [db : Byte, key : BytesOf(16), id : BytesOf(16), timeout : Times, expired : Times,
   count : 0 .. U16MAX, rcount : Byte]

(* The default flags of a database. *)
FlagPairs == (SUBSET Flags16) \X (SUBSET Flags16)

(* The numbers that primitives use. *)
LEMMA SmallNumbers ==
  /\ 0 \in Byte /\ 1 \in Byte /\ 255 \in Byte
  /\ 0 \in 0 .. U16MAX /\ 1 \in 0 .. U16MAX /\ U16MAX \in 0 .. U16MAX
BY DEF Byte, U16MAX

(* The flags that primitives use. *)
LEMMA FlagsTyped ==
  /\ {SHOW} \in SUBSET Flags8 /\ {UPDATE} \in SUBSET Flags8 /\ {LOCK_TREE} \in SUBSET Flags8
  /\ {UNLOCK_FIRST} \in SUBSET Flags8 /\ {UNLOCK_TREE} \in SUBSET Flags8 /\ {} \in SUBSET Flags8
  /\ {UNLOCK_FIRST, TO_LOCK_WAIT} \in SUBSET Flags8 /\ CONTAINS_DATA \in Flags8
  /\ {RCOUNT_IS_PRIORITY} \in SUBSET Flags16 /\ {LOCK_WAIT} \in SUBSET Flags16
  /\ {MILLISECOND} \in SUBSET Flags16 /\ {LESS_VERSION} \in SUBSET Flags16
BY DEF SHOW, UPDATE, LOCK_TREE, UNLOCK_FIRST, UNLOCK_TREE, TO_LOCK_WAIT, CONTAINS_DATA,
       RCOUNT_IS_PRIORITY, LOCK_WAIT, MILLISECOND, LESS_VERSION, Flags8, Flags16

(* Lock::new makes a lock with the default flags of its database. *)
LEMMA NewLockTyped ==
  ASSUME NEW d \in FlagPairs, NEW key \in Seq(Byte), NEW id \in BytesOf(16),
         NEW timeout \in 0 .. U16MAX, NEW expired \in 0 .. U16MAX, NEW count \in 0 .. U16MAX,
         NEW rcount \in Byte
  PROVE  LET l == NewLock(TheDatabase(d), key, id, timeout, expired, count, rcount)
         IN  /\ l \in Locks /\ l.id = id
             /\ l.timeout = WithFlags(timeout, d[1]) /\ l.expired = WithFlags(expired, d[2])
<1> DEFINE l == NewLock(TheDatabase(d), key, id, timeout, expired, count, rcount)
<1>1. l = [db |-> 0, key |-> Key16(key), id |-> id, timeout |-> WithFlags(timeout, d[1]),
           expired |-> WithFlags(expired, d[2]), count |-> count, rcount |-> rcount]
  BY Zenon DEF NewLock, TheDatabase, Database
<1>2. WithFlags(timeout, d[1]) \in Times /\ WithFlags(expired, d[2]) \in Times
  BY DEF WithFlags, Times, FlagPairs
<1>3. Key16(key) \in BytesOf(16) /\ 0 \in Byte
  BY Key16Typed, SmallNumbers
<1> HIDE DEF l
<1>4. l \in Locks
  BY <1>1, <1>2, <1>3, Zenon DEF Locks
<1>5. l.id = id /\ l.timeout = WithFlags(timeout, d[1]) /\ l.expired = WithFlags(expired, d[2])
  BY <1>1, Zenon
<1> QED BY <1>4, <1>5, Zenon DEF l

(* Merging flags into a timeout keeps the rest. *)
LEMMA MergeTyped ==
  ASSUME NEW l \in Locks, NEW F \in SUBSET Flags16
  PROVE  /\ MergeTimeout(l, F) \in Locks /\ MergeTimeout(l, F).id = l.id
         /\ MergeTimeout(l, F).timeout = WithFlags(l.timeout.value, l.timeout.flags \cup F)
         /\ MergeTimeout(l, F).expired = l.expired
<1>1. l.timeout \in Times
  BY DEF Locks
<1>2. MergeFlags(l.timeout, F) = WithFlags(l.timeout.value, l.timeout.flags \cup F)
  BY <1>1 DEF MergeFlags, WithFlags, Times
<1>3. MergeFlags(l.timeout, F) \in Times
  BY <1>1, <1>2 DEF WithFlags, Times
<1>4. MergeTimeout(l, F) = [l EXCEPT !.timeout = MergeFlags(l.timeout, F)]
  BY Zenon DEF MergeTimeout
<1> QED BY <1>2, <1>3, <1>4 DEF Locks

(* A command with data says so. *)
LEMMA DataFlagTyped ==
  ASSUME NEW F \in SUBSET Flags8, NEW data
  PROVE  /\ WithDataFlag(F, data) \in SUBSET Flags8
         /\ data # NoData => CONTAINS_DATA \in WithDataFlag(F, data)
BY FlagsTyped DEF WithDataFlag

(* The id of unlocking the head is an id. *)
LEMMA ZeroIdTyped == ZeroId16 \in BytesOf(16)
BY ZerosTyped DEF ZeroId16

(* Lock::send makes a command of a lock, with its times. *)
LEMMA SendTyped ==
  ASSUME NEW l \in Locks, NEW F \in SUBSET Flags8,
         NEW data \in LockDatas[Nesting] \cup {NoData}, NEW request \in BytesOf(16),
         NEW id \in BytesOf(16), NEW type \in {LOCK, UNLOCK}
  PROVE  LET c == SendLock(l, type, WithDataFlag(F, data), id, data, request)
         IN  /\ c \in LockMessages /\ WellMade(c) /\ c.request = request /\ c.type = type
             /\ c.timeout = l.timeout /\ c.expired = l.expired
<1> DEFINE c == SendLock(l, type, WithDataFlag(F, data), id, data, request)
<1>1. c = [type |-> type, flag |-> WithDataFlag(F, data), db |-> l.db, request |-> request,
           key |-> l.key, id |-> id, timeout |-> l.timeout, expired |-> l.expired,
           count |-> l.count, rcount |-> l.rcount, data |-> data]
  BY Zenon DEF SendLock
<1>2. /\ l.db \in Byte /\ l.key \in BytesOf(16) /\ l.timeout \in Times /\ l.expired \in Times
      /\ l.count \in 0 .. U16MAX /\ l.rcount \in Byte
  BY DEF Locks
<1>3. WithDataFlag(F, data) \in SUBSET Flags8
  BY DataFlagTyped
<1> HIDE DEF c
<1>4. c \in LockMessages
  BY <1>1, <1>2, <1>3, Zenon DEF LockMessages
<1>5. c.data # NoData => HasExtraData(c)
  BY <1>1, DataFlagTyped, Zenon DEF HasExtraData
<1>6. WellMade(c)
  BY <1>4, <1>5, Zenon DEF WellMade, Messages
<1>7. /\ c.request = request /\ c.type = type /\ c.timeout = l.timeout /\ c.expired = l.expired
  BY <1>1, Zenon
<1> QED BY <1>4, <1>6, <1>7, Zenon DEF c

(* The flags of a time that say its unit. *)
Units == {MINUTE, MILLISECOND}

(* Two sets of flags say the same unit. *)
SameUnits(F, G) == \A u \in Units : u \in F <=> u \in G

(* What a lock, or a command made of it, says of its times. *)
Says(l, timeout, F, expired, G) ==
  /\ l.timeout.value = timeout /\ SameUnits(l.timeout.flags, F)
  /\ l.expired.value = expired /\ SameUnits(l.expired.flags, G)

(* Times of one value and unit are the same time. *)
LEMMA SameTime ==
  ASSUME NEW time, NEW F, SameUnits(time.flags, F)
  PROVE  Milliseconds(time) = In(time.value, F)
<1>1. MILLISECOND \in time.flags <=> MILLISECOND \in F
  BY Zenon DEF SameUnits, Units
<1>2. MINUTE \in time.flags <=> MINUTE \in F
  BY Zenon DEF SameUnits, Units
<1> QED BY <1>1, <1>2 DEF Milliseconds, In, WithFlags

(* The flags that primitives add are no units. *)
LEMMA OtherFlags ==
  /\ RCOUNT_IS_PRIORITY \notin Units /\ LESS_VERSION \notin Units /\ LOCK_WAIT \notin Units
BY DEF RCOUNT_IS_PRIORITY, LESS_VERSION, LOCK_WAIT, Units, MINUTE, MILLISECOND

(* A new lock says its times in the unit of its database. *)
LEMMA NewLockSays ==
  ASSUME NEW d \in FlagPairs, NEW key \in Seq(Byte), NEW id \in BytesOf(16),
         NEW timeout \in 0 .. U16MAX, NEW expired \in 0 .. U16MAX, NEW count \in 0 .. U16MAX,
         NEW rcount \in Byte
  PROVE  LET l == NewLock(TheDatabase(d), key, id, timeout, expired, count, rcount)
         IN  l \in Locks /\ l.id = id /\ Says(l, timeout, d[1], expired, d[2])
<1> DEFINE l == NewLock(TheDatabase(d), key, id, timeout, expired, count, rcount)
<1>1. /\ l \in Locks /\ l.id = id
      /\ l.timeout = WithFlags(timeout, d[1]) /\ l.expired = WithFlags(expired, d[2])
  BY NewLockTyped
<1> HIDE DEF l
<1>2. /\ l.timeout.value = timeout /\ l.timeout.flags = d[1]
      /\ l.expired.value = expired /\ l.expired.flags = d[2]
  BY <1>1 DEF WithFlags
<1>3. Says(l, timeout, d[1], expired, d[2])
  BY <1>2, Zenon DEF Says, SameUnits
<1> QED BY <1>1, <1>3, Zenon DEF l

(* A merged flag does not change what a lock says. *)
LEMMA MergeSays ==
  ASSUME NEW l \in Locks, NEW f \in {RCOUNT_IS_PRIORITY, LESS_VERSION},
         NEW timeout, NEW F, NEW expired, NEW G, Says(l, timeout, F, expired, G)
  PROVE  LET m == MergeTimeout(l, {f})
         IN  m \in Locks /\ m.id = l.id /\ Says(m, timeout, F, expired, G)
<1> DEFINE m == MergeTimeout(l, {f})
<1>1. {f} \in SUBSET Flags16 /\ f \notin Units
  BY FlagsTyped, OtherFlags
<1>2. /\ m \in Locks /\ m.id = l.id
      /\ m.timeout = WithFlags(l.timeout.value, l.timeout.flags \cup {f}) /\ m.expired = l.expired
  BY <1>1, MergeTyped, Zenon
<1> HIDE DEF m
<1>3. m.timeout.value = l.timeout.value /\ m.timeout.flags = l.timeout.flags \cup {f}
  BY <1>2 DEF WithFlags
<1>4. SameUnits(m.timeout.flags, F)
  <2>1. SameUnits(l.timeout.flags, F)
    BY Zenon DEF Says
  <2> QED BY <1>1, <1>3, <2>1, Zenon DEF SameUnits
<1>5. Says(m, timeout, F, expired, G)
  BY <1>2, <1>3, <1>4, Zenon DEF Says
<1> QED BY <1>2, <1>5, Zenon DEF m

(* Nor does its count, *)
LEMMA SetCount ==
  ASSUME NEW l \in Locks, NEW count \in 0 .. U16MAX,
         NEW timeout, NEW F, NEW expired, NEW G, Says(l, timeout, F, expired, G)
  PROVE  LET m == [l EXCEPT !.count = count]
         IN  m \in Locks /\ m.id = l.id /\ Says(m, timeout, F, expired, G)
BY DEF Locks, Says

(* nor its rcount, *)
LEMMA SetRcount ==
  ASSUME NEW l \in Locks, NEW rcount \in Byte,
         NEW timeout, NEW F, NEW expired, NEW G, Says(l, timeout, F, expired, G)
  PROVE  LET m == [l EXCEPT !.rcount = rcount]
         IN  m \in Locks /\ m.id = l.id /\ Says(m, timeout, F, expired, G)
BY DEF Locks, Says

(* nor both, *)
LEMMA SetBoth ==
  ASSUME NEW l \in Locks, NEW count \in 0 .. U16MAX, NEW rcount \in Byte,
         NEW timeout, NEW F, NEW expired, NEW G, Says(l, timeout, F, expired, G)
  PROVE  LET m == [l EXCEPT !.count = count, !.rcount = rcount]
         IN  m \in Locks /\ m.id = l.id /\ Says(m, timeout, F, expired, G)
BY DEF Locks, Says

(* nor its id. *)
LEMMA SetId ==
  ASSUME NEW l \in Locks, NEW id \in BytesOf(16),
         NEW timeout, NEW F, NEW expired, NEW G, Says(l, timeout, F, expired, G)
  PROVE  LET m == [l EXCEPT !.id = id]
         IN  m \in Locks /\ Says(m, timeout, F, expired, G)
BY DEF Locks, Says

(* The period of a token is cut to a u16. *)
LEMMA TokenExpiredTyped == \A period \in Nat : TokenExpired(period) \in 0 .. U16MAX
<1> TAKE period \in Nat
<1>1. CASE IsShort(period)
  <2> DEFINE x == CeilDiv(period, 10)
  <2>1. x \in Nat /\ x <= 3000
    BY <1>1 DEF IsShort, CeilDiv
  <2> HIDE DEF x
  <2>2. Max({x, 1}) = IF x >= 1 THEN x ELSE 1
    BY <2>1 DEF Max
  <2>3. TokenExpired(period) = Max({x, 1})
    BY <1>1 DEF TokenExpired, x
  <2>4. TokenExpired(period) \in Int /\ 0 <= TokenExpired(period) /\ TokenExpired(period) <= 65535
    BY <2>1, <2>2, <2>3
  <2> QED BY <2>4, BelowU16
<1>2. CASE ~IsShort(period)
  <2> DEFINE x == CeilDiv(period, 10000)
  <2>1. x \in Nat
    BY DEF CeilDiv
  <2>2. U16MAX \in Nat
    BY DEF U16MAX
  <2> HIDE DEF x
  <2>3. Min({x, U16MAX}) = IF x <= U16MAX THEN x ELSE U16MAX
    BY <2>1, <2>2 DEF Min
  <2>4. TokenExpired(period) = Min({x, U16MAX})
    BY <1>2 DEF TokenExpired, x
  <2> QED BY <2>1, <2>2, <2>3, <2>4
<1> QED BY <1>1, <1>2

(* c is a command made of the lock l. *)
Carries(c, l, request) ==
  /\ c \in LockMessages /\ WellMade(c) /\ c.request = request
  /\ c.timeout = l.timeout /\ c.expired = l.expired

(* Whatever method sends it, the command has the times of its lock. *)
LEMMA CommandsCarry ==
  ASSUME NEW l \in Locks, NEW request \in BytesOf(16), NEW F \in SUBSET Flags8,
         NEW data \in LockDatas[Nesting] \cup {NoData}
  PROVE  /\ Carries(AcquireWith(l, F, data, request), l, request)
         /\ Carries(ReleaseWith(l, F, data, request), l, request)
         /\ Carries(AcquirePlain(l, request), l, request)
         /\ Carries(ShowLock(l, request), l, request)
         /\ Carries(UpdateLock(l, data, request), l, request)
         /\ Carries(ReleaseHead(l, data, request), l, request)
         /\ Carries(ReleaseHeadToLockWait(l, data, request), l, request)
<1>1. l.id \in BytesOf(16)
  BY DEF Locks
<1>2. \A G \in SUBSET Flags8, id \in BytesOf(16), type \in {LOCK, UNLOCK},
         d \in LockDatas[Nesting] \cup {NoData} :
        Carries(SendLock(l, type, WithDataFlag(G, d), id, d, request), l, request)
  BY SendTyped DEF Carries
<1>3. \A G \in SUBSET Flags8, d \in LockDatas[Nesting] \cup {NoData} :
        /\ Carries(AcquireWith(l, G, d, request), l, request)
        /\ Carries(ReleaseWith(l, G, d, request), l, request)
  BY <1>1, <1>2 DEF AcquireWith, ReleaseWith
<1>4. Carries(ReleaseHead(l, data, request), l, request)
  BY <1>2, ZeroIdTyped, FlagsTyped DEF ReleaseHead
<1>5. NoData \in LockDatas[Nesting] \cup {NoData}
  OBVIOUS
<1> QED BY <1>3, <1>4, <1>5, FlagsTyped
        DEF AcquirePlain, ShowLock, UpdateLock, ReleaseHeadToLockWait

(* What a caller passes to a primitive. *)
LEMMA OperationTyped ==
  ASSUME NEW o \in Operation
  PROVE  /\ o.prim \in DOMAIN Methods /\ o.op \in Methods[o.prim]
         /\ o.key \in Seq(Byte) /\ o.timeout \in 0 .. U16MAX /\ o.expired \in 0 .. U16MAX
         /\ o.n \in 0 .. U16MAX /\ o.period \in Nat /\ o.flag \in SUBSET Flags8
         /\ o.data \in LockDatas[Nesting] \cup {NoData} /\ o.wait \in 0 .. U16MAX
         /\ o.client \in Nat /\ o.version \in Nat /\ o.parent \in Seq(Byte)
         /\ o.prim = "priority" => o.n \in Byte
BY Zenon DEF Operation

(* What the lock of a primitive expires after, and the flags with it. *)
HandleExpired(o) == IF o.prim = "token" THEN TokenExpired(o.period) ELSE o.expired

(* ... a token of a short period counts it in milliseconds. *)
HandleFlags(o, d) ==
  IF o.prim = "token" /\ IsShort(o.period) THEN d[2] \cup {MILLISECOND} ELSE d[2]

(* A count below that of its caller, and not below 0. *)
LEMMA LessTyped == \A n \in 0 .. U16MAX : SaturatingLess(n) \in 0 .. U16MAX
<1>1. U16MAX \in Nat
  BY DEF U16MAX
<1>2. \A m \in Nat : \A n \in 0 .. m : SaturatingLess(n) \in 0 .. m
  BY DEF SaturatingLess
<1> QED BY <1>1, <1>2, Zenon

(* The token bucket says its period. *)
LEMMA TokenSays ==
  ASSUME NEW o \in Operation, NEW d \in FlagPairs, NEW id \in BytesOf(16)
  PROVE  LET l == TokenBucket(TheDatabase(d), o, id)
         IN  /\ l \in Locks
             /\ Says(l, o.timeout, d[1], TokenExpired(o.period),
                     IF IsShort(o.period) THEN d[2] \cup {MILLISECOND} ELSE d[2])
<1> DEFINE l == NewLock(TheDatabase(d), o.key, id, o.timeout, TokenExpired(o.period),
                        SaturatingLess(o.n), 0)
           t == TokenBucket(TheDatabase(d), o, id)
           m == [l EXCEPT !.expired = MergeFlags(l.expired, {MILLISECOND})]
<1>1. /\ l \in Locks
      /\ l.timeout = WithFlags(o.timeout, d[1])
      /\ l.expired = WithFlags(TokenExpired(o.period), d[2])
  <2>1. /\ o.key \in Seq(Byte) /\ o.timeout \in 0 .. U16MAX /\ 0 \in Byte
        /\ TokenExpired(o.period) \in 0 .. U16MAX /\ SaturatingLess(o.n) \in 0 .. U16MAX
    BY OperationTyped, TokenExpiredTyped, LessTyped, SmallNumbers
  <2> QED BY <2>1, NewLockTyped
<1>2. t = IF IsShort(o.period) THEN m ELSE l
  BY Zenon DEF TokenBucket
<1> HIDE DEF l, t
<1>3. /\ l.timeout.value = o.timeout /\ l.timeout.flags = d[1]
      /\ l.expired.value = TokenExpired(o.period) /\ l.expired.flags = d[2]
  BY <1>1 DEF WithFlags
<1>4. MergeFlags(l.expired, {MILLISECOND}) = WithFlags(TokenExpired(o.period), d[2] \cup {MILLISECOND})
  BY <1>1 DEF WithFlags, MergeFlags
<1>5. MergeFlags(l.expired, {MILLISECOND}) \in Times
  <2>1. l.expired \in Times
    BY <1>1 DEF Locks
  <2>2. l.expired.value \in 0 .. U16MAX /\ l.expired.flags \in SUBSET Flags16
    BY <2>1 DEF Times
  <2> QED BY <1>3, <1>4, <2>2, FlagsTyped, SMTT(20) DEF Times, WithFlags
<1>6. /\ m \in Locks /\ m.timeout = l.timeout
      /\ m.expired = WithFlags(TokenExpired(o.period), d[2] \cup {MILLISECOND})
  BY <1>1, <1>4, <1>5 DEF Locks
<1> HIDE DEF m
<1>7. m.expired.value = TokenExpired(o.period) /\ m.expired.flags = d[2] \cup {MILLISECOND}
  BY <1>6 DEF WithFlags
<1>8. CASE IsShort(o.period)
  <2>1. t = m
    BY <1>2, <1>8, Zenon
  <2>2. Says(m, o.timeout, d[1], TokenExpired(o.period), d[2] \cup {MILLISECOND})
    BY <1>3, <1>6, <1>7, Zenon DEF Says, SameUnits
  <2> QED BY <1>6, <1>8, <2>1, <2>2, Zenon DEF t
<1>9. CASE ~IsShort(o.period)
  <2>1. t = l
    BY <1>2, <1>9, Zenon
  <2>2. Says(l, o.timeout, d[1], TokenExpired(o.period), d[2])
    BY <1>3, Zenon DEF Says, SameUnits
  <2> QED BY <1>1, <1>9, <2>1, <2>2, Zenon DEF t
<1> QED BY <1>8, <1>9, Zenon

(* The lock of every primitive says the times its caller asked for. *)
LEMMA HandleSays ==
  ASSUME NEW o \in Operation, NEW d \in FlagPairs, NEW id \in BytesOf(16)
  PROVE  LET l == Handle(o, TheDatabase(d), id)
         IN  l \in Locks /\ Says(l, o.timeout, d[1], HandleExpired(o), HandleFlags(o, d))
<1> DEFINE p == NewLock(TheDatabase(d), o.key, id, o.timeout, o.expired, 0, 0)
           l == Handle(o, TheDatabase(d), id)
<1>1. /\ o.key \in Seq(Byte) /\ o.timeout \in 0 .. U16MAX /\ o.expired \in 0 .. U16MAX
      /\ 0 \in Byte /\ 0 \in 0 .. U16MAX /\ SaturatingLess(o.n) \in 0 .. U16MAX
      /\ 255 \in Byte /\ 1 \in Byte /\ U16MAX \in 0 .. U16MAX
      /\ o.client \in Int /\ o.version \in Int
  <2>1. o.client \in Nat /\ o.version \in Nat /\ o.n \in 0 .. U16MAX
    BY OperationTyped, Zenon
  <2>2. o.key \in Seq(Byte) /\ o.timeout \in 0 .. U16MAX /\ o.expired \in 0 .. U16MAX
    BY OperationTyped, Zenon
  <2>3. SaturatingLess(o.n) \in 0 .. U16MAX
    BY <2>1, LessTyped, Zenon
  <2>4. o.client \in Int /\ o.version \in Int
    BY <2>1
  <2> QED BY <2>2, <2>3, <2>4, SmallNumbers, Zenon
<1>2. p \in Locks /\ Says(p, o.timeout, d[1], o.expired, d[2])
  BY <1>1, NewLockSays
<1> HIDE DEF p
<1>3. MergeTimeout(p, {RCOUNT_IS_PRIORITY}) \in Locks
      /\ Says(MergeTimeout(p, {RCOUNT_IS_PRIORITY}), o.timeout, d[1], o.expired, d[2])
  BY <1>2, MergeSays
<1>4. MergeTimeout(p, {LESS_VERSION}) \in Locks
      /\ Says(MergeTimeout(p, {LESS_VERSION}), o.timeout, d[1], o.expired, d[2])
  BY <1>2, MergeSays
<1>5. GroupEventId(o.client, o.version) \in BytesOf(16)
  BY <1>1, GroupEventIdTyped
<1> DEFINE Good(x) == x \in Locks /\ Says(x, o.timeout, d[1], o.expired, d[2])
           m == MergeTimeout(p, {RCOUNT_IS_PRIORITY})
           v == MergeTimeout(p, {LESS_VERSION})
<1> HIDE DEF m, v
<1>6. Good(p) /\ Good(m) /\ Good(v)
  BY <1>2, <1>3, <1>4, Zenon DEF m, v
<1>a. Good([p EXCEPT !.rcount = 255])
  BY <1>6, SetRcount, SmallNumbers
<1>e. Good([p EXCEPT !.count = SaturatingLess(o.n)])
  BY <1>1, <1>6, SetCount, Zenon
<1>b. Good([v EXCEPT !.id = GroupEventId(o.client, o.version)])
  BY <1>5, <1>6, SetId, Zenon
<1>c. Good([m EXCEPT !.count = U16MAX, !.rcount = 1])
  BY <1>6, SetBoth, SmallNumbers
<1>d. o.prim = "priority" => Good([m EXCEPT !.rcount = o.n])
  BY <1>6, SetRcount, OperationTyped, SmallNumbers, Zenon
<1> HIDE DEF Good
<1>7. CASE o.prim # "token"
  <2>1. Good(l)
    BY <1>6, <1>7, <1>a, <1>b, <1>c, <1>d, <1>e DEF Handle, p, m, v
  <2>2. HandleExpired(o) = o.expired /\ HandleFlags(o, d) = d[2]
    BY <1>7 DEF HandleExpired, HandleFlags
  <2> QED BY <2>1, <2>2 DEF Good
<1>8. CASE o.prim = "token"
  <2>1. l = TokenBucket(TheDatabase(d), o, id)
    BY <1>8 DEF Handle
  <2>2. /\ HandleExpired(o) = TokenExpired(o.period)
        /\ HandleFlags(o, d) = IF IsShort(o.period) THEN d[2] \cup {MILLISECOND} ELSE d[2]
    BY <1>8 DEF HandleExpired, HandleFlags
  <2> QED BY <2>1, <2>2, TokenSays, Zenon
<1> QED BY <1>7, <1>8

(* What an operation asks the server to wait, and for how long to keep the lock. *)
Asked(o) ==
  IF o.op = "wait" THEN o.wait
  ELSE IF o.op \in {"is_set", "child", "parent"} THEN 0 ELSE o.timeout

(* How long the lock is to be kept. *)
KeptFor(o) == IF o.op \in {"wait", "is_set"} THEN 0 ELSE HandleExpired(o)

(* A call of an event that starts unset, which makes a lock of its own without flags. *)
IsProbe(o) == o.prim = "event" /\ ~SetByDefault(o) /\ o.op \in {"wait", "is_set"}

(* c is a command of o, made with the defaults d by a primitive made with d0. *)
Right(o, c, d0, d, request) ==
  /\ c \in LockMessages /\ WellMade(c) /\ c.request = request
  /\ \E F \in IF IsProbe(o) THEN {{}} ELSE {d0[1], d[1]},
        G \in IF o.prim = "token" THEN {HandleFlags(o, d0)} ELSE {d0[2], d[2]} :
       Says(c, Asked(o), F, KeptFor(o), G)

(* A command of a lock that says the right times is right. *)
LEMMA CarriesRight ==
  ASSUME NEW o, NEW d0, NEW d, NEW c, NEW l, NEW request, Carries(c, l, request),
         NEW F \in IF IsProbe(o) THEN {{}} ELSE {d0[1], d[1]},
         NEW G \in IF o.prim = "token" THEN {HandleFlags(o, d0)} ELSE {d0[2], d[2]},
         Says(l, Asked(o), F, KeptFor(o), G)
  PROVE  Right(o, c, d0, d, request)
<1>1. Says(c, Asked(o), F, KeptFor(o), G)
  BY Zenon DEF Says, Carries
<1> QED BY <1>1, Zenon DEF Right, Carries

(* The methods of each primitive. *)
LEMMA MethodsAre ==
  ASSUME NEW o \in Operation
  PROVE  /\ o.prim \in {"lock", "reentrant", "priority", "flow", "token"} =>
              o.op \in {"acquire", "release", "show", "update", "release_head", "to_lock_wait"}
         /\ o.prim \in {"ping", "lock", "reentrant", "priority", "flow", "token", "semaphore",
                        "read", "event", "group", "tree", "leaf"}
         /\ o.prim = "semaphore" => o.op \in {"acquire", "release"}
         /\ o.prim = "read" => o.op = "acquire"
         /\ o.prim = "event" => o.op \in {"is_set", "wait", "set", "clear"}
         /\ o.prim = "group" => o.op \in {"is_set", "wait", "set", "clear", "wakeup"}
         /\ o.prim = "tree" => o.op \in {"acquire", "release", "wait"}
         /\ o.prim = "leaf" => o.op \in {"acquire", "release", "child", "parent"}
<1>1. o.prim \in DOMAIN Methods /\ o.op \in Methods[o.prim]
  BY OperationTyped, Zenon
<1> QED BY <1>1 DEF Methods, AcquireRelease

(* The key of a lock is bytes. *)
LEMMA KeyOfLock == \A l \in Locks : l.key \in BytesOf(16) /\ l.key \in Seq(Byte)
BY DEF Locks, BytesOf

(* The commands of lock, rlock, priority lock, flow and token bucket are right. *)
LEMMA LockRight ==
  ASSUME NEW o \in Operation, o.prim \in {"lock", "reentrant", "priority", "flow", "token"},
         NEW d0 \in FlagPairs, NEW d \in FlagPairs, NEW id \in BytesOf(16), NEW fresh,
         NEW request \in BytesOf(16)
  PROVE  Right(o, CommandOf(o, TheDatabase(d), Handle(o, TheDatabase(d0), id), fresh, request),
               d0, d, request)
<1> DEFINE l == Handle(o, TheDatabase(d0), id)
           c == CommandOf(o, TheDatabase(d), l, fresh, request)
<1>1. l \in Locks /\ Says(l, o.timeout, d0[1], HandleExpired(o), HandleFlags(o, d0))
  BY HandleSays, Zenon
<1>2. o.op \in {"acquire", "release", "show", "update", "release_head", "to_lock_wait"}
  BY MethodsAre
<1>3. o.flag \in SUBSET Flags8 /\ o.data \in LockDatas[Nesting] \cup {NoData}
  BY OperationTyped, Zenon
<1>4. c = LockCommand(o, l, request)
  BY DEF CommandOf
<1> HIDE DEF l, c
<1>5. Carries(c, l, request)
  BY <1>1, <1>2, <1>3, <1>4, CommandsCarry DEF LockCommand
<1>6. Asked(o) = o.timeout /\ KeptFor(o) = HandleExpired(o) /\ ~IsProbe(o)
  BY <1>2 DEF Asked, KeptFor, IsProbe
<1>7. o.prim # "token" => HandleFlags(o, d0) = d0[2]
  BY DEF HandleFlags
<1>8. Right(o, c, d0, d, request)
  BY <1>1, <1>5, <1>6, <1>7, CarriesRight
<1> QED BY <1>8 DEF c, l

(* Those of semaphores and read locks are. *)
LEMMA PlainRight ==
  ASSUME NEW o \in Operation, o.prim \in {"semaphore", "read"},
         NEW d0 \in FlagPairs, NEW d \in FlagPairs, NEW l, NEW fresh \in BytesOf(16),
         NEW request \in BytesOf(16)
  PROVE  Right(o, CommandOf(o, TheDatabase(d), l, fresh, request), d0, d, request)
<1> DEFINE c == CommandOf(o, TheDatabase(d), l, fresh, request)
           sem(id) == NewLock(TheDatabase(d), o.key, id, o.timeout, o.expired, SaturatingLess(o.n), 0)
           read == NewLock(TheDatabase(d), o.key, fresh, o.timeout, o.expired, U16MAX, 0)
<1>1. /\ o.key \in Seq(Byte) /\ o.timeout \in 0 .. U16MAX /\ o.expired \in 0 .. U16MAX
      /\ o.n \in 0 .. U16MAX
  BY OperationTyped, Zenon
<1>2. SaturatingLess(o.n) \in 0 .. U16MAX /\ 0 \in Byte /\ U16MAX \in 0 .. U16MAX
  BY <1>1, LessTyped, SmallNumbers
<1>3. /\ sem(fresh) \in Locks /\ Says(sem(fresh), o.timeout, d[1], o.expired, d[2])
      /\ sem(ZeroId16) \in Locks /\ Says(sem(ZeroId16), o.timeout, d[1], o.expired, d[2])
      /\ read \in Locks /\ Says(read, o.timeout, d[1], o.expired, d[2])
  BY <1>1, <1>2, ZeroIdTyped, NewLockSays
<1> HIDE DEF sem, read
<1>4. /\ Asked(o) = o.timeout /\ KeptFor(o) = o.expired /\ ~IsProbe(o) /\ o.prim # "token"
  BY MethodsAre DEF Asked, KeptFor, IsProbe, HandleExpired
<1>5. \E k \in {sem(fresh), sem(ZeroId16), read} : Carries(c, k, request)
  <2>1. NoData \in LockDatas[Nesting] \cup {NoData} /\ {} \in SUBSET Flags8
    OBVIOUS
  <2>2. CASE o.prim = "semaphore"
    <3>1. c = IF o.op = "acquire" THEN AcquirePlain(sem(fresh), request)
              ELSE ReleaseHead(sem(ZeroId16), NoData, request)
      BY <2>2 DEF CommandOf, SemaphoreCommand, sem
    <3> QED BY <1>3, <2>1, <3>1, CommandsCarry
  <2>3. CASE o.prim = "read"
    <3>1. c = AcquirePlain(read, request)
      BY <2>3 DEF CommandOf, ReadCommand, read
    <3> QED BY <1>3, <2>1, <3>1, CommandsCarry
  <2> QED BY <2>2, <2>3
<1> HIDE DEF c
<1>6. Right(o, c, d0, d, request)
  BY <1>3, <1>4, <1>5, CarriesRight
<1> QED BY <1>6 DEF c

(* Those of events are. *)
LEMMA EventRight ==
  ASSUME NEW o \in Operation, o.prim = "event",
         NEW d0 \in FlagPairs, NEW d \in FlagPairs, NEW id \in BytesOf(16),
         NEW fresh \in BytesOf(16), NEW request \in BytesOf(16)
  PROVE  Right(o, CommandOf(o, TheDatabase(d), Handle(o, TheDatabase(d0), id), fresh, request),
               d0, d, request)
<1> DEFINE l == Handle(o, TheDatabase(d0), id)
           c == CommandOf(o, TheDatabase(d), l, fresh, request)
           e(count) == EventLock(TheDatabase(d), l, count)
           plain(t) == NewLock(TheDatabase(d), l.key, fresh, t, 0, 0, 0)
           waiting(t) == NewLock(TheDatabase(d), l.key, fresh, t, 0, 1, 0)
           probe(t) == EventProbe(o, TheDatabase(d), l, fresh, t)
<1>1. l \in Locks /\ Says(l, o.timeout, d0[1], o.expired, d0[2])
  <2>1. HandleExpired(o) = o.expired /\ HandleFlags(o, d0) = d0[2]
    BY DEF HandleExpired, HandleFlags
  <2> QED BY <2>1, HandleSays
<1>2. /\ o.timeout \in 0 .. U16MAX /\ o.expired \in 0 .. U16MAX /\ o.wait \in 0 .. U16MAX
      /\ o.data \in LockDatas[Nesting] \cup {NoData}
  BY OperationTyped, Zenon
<1>3. c = EventCommand(o, TheDatabase(d), l, fresh, request)
  BY DEF CommandOf
<1> HIDE DEF l
<1>4. l.key \in BytesOf(16) /\ l.key \in Seq(Byte) /\ l.timeout.value = o.timeout
      /\ l.expired.value = o.expired
  BY <1>1, KeyOfLock DEF Says
<1>5. \A count \in {0, 1} : e(count) \in Locks /\ Says(e(count), o.timeout, d[1], o.expired, d[2])
  <2>1. \A count : e(count) = NewLock(TheDatabase(d), l.key, l.key, o.timeout, o.expired, count, 0)
    BY <1>4, Zenon DEF EventLock, Derived
  <2> HIDE DEF e
  <2> TAKE count \in {0, 1}
  <2>2. count \in 0 .. U16MAX /\ 0 \in Byte
    BY SmallNumbers
  <2> DEFINE b == NewLock(TheDatabase(d), l.key, l.key, o.timeout, o.expired, count, 0)
  <2>3. b \in Locks /\ Says(b, o.timeout, d[1], o.expired, d[2])
    BY <1>2, <1>4, <2>2, NewLockSays
  <2> QED BY <2>1, <2>3
<1>6. \A t \in 0 .. U16MAX : plain(t) \in Locks /\ Says(plain(t), t, d[1], 0, d[2])
  BY <1>4, SmallNumbers, NewLockSays
<1>7. \A t \in 0 .. U16MAX : waiting(t) \in Locks /\ Says(waiting(t), t, d[1], 0, d[2])
  BY <1>4, SmallNumbers, NewLockSays
<1>8. \A t \in 0 .. U16MAX :
        probe(t) = IF SetByDefault(o) THEN plain(t)
                   ELSE [waiting(t) EXCEPT !.timeout = WithFlags(t, {LOCK_WAIT})]
  BY Zenon DEF EventProbe, Derived
<1> HIDE DEF c, e, plain, waiting, probe
<1>9. \A t \in 0 .. U16MAX :
        /\ probe(t) \in Locks
        /\ Says(probe(t), t, IF SetByDefault(o) THEN d[1] ELSE {}, 0, d[2])
  <2> TAKE t \in 0 .. U16MAX
  <2>1. CASE SetByDefault(o)
    BY <1>6, <1>8, <2>1
  <2>2. CASE ~SetByDefault(o)
    <3> DEFINE w == WithFlags(t, {LOCK_WAIT})  u == [waiting(t) EXCEPT !.timeout = w]
    <3>1. w \in Times /\ w.value = t /\ w.flags = {LOCK_WAIT}
      BY FlagsTyped DEF WithFlags, Times
    <3>2. SameUnits({LOCK_WAIT}, {})
      BY OtherFlags DEF SameUnits
    <3> HIDE DEF w
    <3>3. u \in Locks /\ u.timeout = w /\ u.expired = waiting(t).expired
      BY <1>7, <3>1 DEF Locks
    <3> HIDE DEF u
    <3>4. Says(u, t, {}, 0, d[2])
      BY <1>7, <3>1, <3>2, <3>3, Zenon DEF Says
    <3>5. probe(t) = u
      BY <1>8, <2>2, Zenon DEF u, w
    <3> QED BY <2>2, <3>3, <3>4, <3>5, Zenon
  <2> QED BY <2>1, <2>2
<1>10. 0 \in 0 .. U16MAX /\ {} \in SUBSET Flags8 /\ NoData \in LockDatas[Nesting] \cup {NoData}
  BY SmallNumbers
<1>11. o.op \in {"is_set", "wait", "set", "clear"}
  BY MethodsAre
<1>12. CASE o.op = "is_set"
  <2>1. Carries(c, probe(0), request)
    BY <1>3, <1>9, <1>10, <1>12, CommandsCarry DEF EventCommand, probe
  <2>2. Asked(o) = 0 /\ KeptFor(o) = 0 /\ (IsProbe(o) <=> ~SetByDefault(o)) /\ o.prim # "token"
    BY <1>12 DEF Asked, KeptFor, IsProbe
  <2>3. Right(o, c, d0, d, request)
    BY <1>9, <1>10, <2>1, <2>2, CarriesRight
  <2> QED BY <2>3 DEF c, l
<1>13. CASE o.op = "wait"
  <2>1. Carries(c, probe(o.wait), request)
    BY <1>2, <1>3, <1>9, <1>10, <1>13, CommandsCarry DEF EventCommand, probe
  <2>2. Asked(o) = o.wait /\ KeptFor(o) = 0 /\ (IsProbe(o) <=> ~SetByDefault(o)) /\ o.prim # "token"
    BY <1>13 DEF Asked, KeptFor, IsProbe
  <2>3. Right(o, c, d0, d, request)
    BY <1>2, <1>9, <2>1, <2>2, CarriesRight
  <2> QED BY <2>3 DEF c, l
<1>14. CASE o.op \in {"set", "clear"}
  <2>1. \E count \in {0, 1} : Carries(c, e(count), request)
    <3>1. \A count \in {0, 1}, data \in LockDatas[Nesting] \cup {NoData} :
            /\ Carries(UpdateLock(e(count), data, request), e(count), request)
            /\ Carries(ReleaseWith(e(count), {}, data, request), e(count), request)
      BY <1>5, <1>10, CommandsCarry
    <3> QED BY <1>2, <1>3, <1>10, <1>14, <3>1 DEF EventCommand, SetEvent, ClearEvent, e
  <2>2. Asked(o) = o.timeout /\ KeptFor(o) = o.expired /\ ~IsProbe(o) /\ o.prim # "token"
    BY <1>14 DEF Asked, KeptFor, IsProbe, HandleExpired
  <2>3. Right(o, c, d0, d, request)
    BY <1>5, <2>1, <2>2, CarriesRight
  <2> QED BY <2>3 DEF c, l
<1> QED BY <1>11, <1>12, <1>13, <1>14

(* Those of group events are. *)
LEMMA GroupRight ==
  ASSUME NEW o \in Operation, o.prim = "group",
         NEW d0 \in FlagPairs, NEW d \in FlagPairs, NEW id \in BytesOf(16),
         NEW fresh \in BytesOf(16), NEW request \in BytesOf(16)
  PROVE  Right(o, CommandOf(o, TheDatabase(d), Handle(o, TheDatabase(d0), id), fresh, request),
               d0, d, request)
<1> DEFINE l == Handle(o, TheDatabase(d0), id)
           c == CommandOf(o, TheDatabase(d), l, fresh, request)
           k(i, t, x) == NewLock(TheDatabase(d), l.key, i, t, x, 0, 0)
           m(i, t, x) == MergeTimeout(k(i, t, x), {LESS_VERSION})
<1>1. l \in Locks /\ Says(l, o.timeout, d0[1], o.expired, d0[2])
  <2>1. HandleExpired(o) = o.expired /\ HandleFlags(o, d0) = d0[2]
    BY DEF HandleExpired, HandleFlags
  <2> QED BY <2>1, HandleSays
<1>2. /\ o.timeout \in 0 .. U16MAX /\ o.expired \in 0 .. U16MAX /\ o.wait \in 0 .. U16MAX
      /\ o.data \in LockDatas[Nesting] \cup {NoData} /\ o.client \in Nat /\ o.version \in Nat
  BY OperationTyped, Zenon
<1>3. c = GroupCommand(o, TheDatabase(d), l, fresh, request)
  BY DEF CommandOf
<1> HIDE DEF l
<1>4. l.key \in Seq(Byte) /\ l.timeout.value = o.timeout /\ l.expired.value = o.expired
  BY <1>1, KeyOfLock DEF Says
<1>5. \A i \in BytesOf(16), t, x \in 0 .. U16MAX :
        k(i, t, x) \in Locks /\ Says(k(i, t, x), t, d[1], x, d[2])
  BY <1>4, SmallNumbers, NewLockSays
<1>6. \A i \in BytesOf(16), t, x \in 0 .. U16MAX :
        m(i, t, x) \in Locks /\ Says(m(i, t, x), t, d[1], x, d[2])
  <2> HIDE DEF k
  <2> QED BY <1>5, MergeSays
<1>7. /\ 0 \in 0 .. U16MAX /\ {} \in SUBSET Flags8 /\ NoData \in LockDatas[Nesting] \cup {NoData}
      /\ ZeroId16 \in BytesOf(16)
  BY SmallNumbers, ZeroIdTyped
<1>8. GroupEventId(0, o.version) \in BytesOf(16) /\ GroupEventId(o.client, o.version) \in BytesOf(16)
  <2>1. 0 \in Int /\ o.client \in Int /\ o.version \in Int
    BY <1>2
  <2> QED BY <2>1, GroupEventIdTyped
<1>9. o.op \in {"is_set", "wait", "set", "clear", "wakeup"} /\ ~IsProbe(o) /\ o.prim # "token"
  BY MethodsAre DEF IsProbe
<1>10. \E i \in BytesOf(16) :
         c = CASE o.op = "is_set" -> AcquirePlain(k(i, 0, 0), request)
               [] o.op = "set"    -> ReleaseHead(k(i, o.timeout, o.expired), NoData, request)
               [] o.op = "clear"  -> UpdateLock(m(i, o.timeout, o.expired), NoData, request)
               [] o.op = "wakeup" ->
                    ReleaseHeadToLockWait(m(i, o.timeout, o.expired), o.data, request)
               [] o.op = "wait"   -> AcquirePlain(m(i, o.wait, 0), request)
  <2>1. CASE o.op = "is_set"
    BY <1>3, <2>1 DEF GroupCommand, Derived
  <2>2. CASE o.op = "set"
    BY <1>3, <1>4, <1>7, <2>2 DEF GroupCommand, GroupLock, Derived
  <2>3. CASE o.op = "clear"
    BY <1>3, <1>4, <1>8, <2>3 DEF GroupCommand, GroupLock, Derived
  <2>4. CASE o.op = "wakeup"
    BY <1>3, <1>4, <1>7, <2>4 DEF GroupCommand, GroupLock, Derived
  <2>5. CASE o.op = "wait"
    BY <1>3, <1>8, <2>5 DEF GroupCommand, Derived
  <2> QED BY <1>9, <2>1, <2>2, <2>3, <2>4, <2>5
<1>11. PICK i \in BytesOf(16) :
         c = CASE o.op = "is_set" -> AcquirePlain(k(i, 0, 0), request)
               [] o.op = "set"    -> ReleaseHead(k(i, o.timeout, o.expired), NoData, request)
               [] o.op = "clear"  -> UpdateLock(m(i, o.timeout, o.expired), NoData, request)
               [] o.op = "wakeup" ->
                    ReleaseHeadToLockWait(m(i, o.timeout, o.expired), o.data, request)
               [] o.op = "wait"   -> AcquirePlain(m(i, o.wait, 0), request)
  BY <1>10
<1> HIDE DEF c, k, m
<1>12. CASE o.op = "is_set"
  <2>1. Carries(c, k(i, 0, 0), request)
    BY <1>5, <1>7, <1>11, <1>12, CommandsCarry
  <2>2. Asked(o) = 0 /\ KeptFor(o) = 0
    BY <1>12 DEF Asked, KeptFor
  <2>3. Right(o, c, d0, d, request)
    BY <1>5, <1>7, <1>9, <2>1, <2>2, CarriesRight
  <2> QED BY <2>3 DEF c, l
<1>13. CASE o.op = "wait"
  <2>1. Carries(c, m(i, o.wait, 0), request)
    BY <1>2, <1>6, <1>7, <1>11, <1>13, CommandsCarry
  <2>2. Asked(o) = o.wait /\ KeptFor(o) = 0
    BY <1>13 DEF Asked, KeptFor
  <2>3. Right(o, c, d0, d, request)
    BY <1>2, <1>6, <1>7, <1>9, <2>1, <2>2, CarriesRight
  <2> QED BY <2>3 DEF c, l
<1>14. CASE o.op \in {"set", "clear", "wakeup"}
  <2>1. \E b \in {k(i, o.timeout, o.expired), m(i, o.timeout, o.expired)} : Carries(c, b, request)
    BY <1>2, <1>5, <1>6, <1>7, <1>11, <1>14, CommandsCarry
  <2>2. Asked(o) = o.timeout /\ KeptFor(o) = o.expired
    BY <1>14 DEF Asked, KeptFor, HandleExpired
  <2>3. Right(o, c, d0, d, request)
    BY <1>2, <1>5, <1>6, <1>9, <2>1, <2>2, CarriesRight
  <2> QED BY <2>3 DEF c, l
<1> QED BY <1>9, <1>12, <1>13, <1>14

(* Those of tree locks and their leaves are. *)
LEMMA TreeRight ==
  ASSUME NEW o \in Operation, o.prim \in {"tree", "leaf"},
         NEW d0 \in FlagPairs, NEW d \in FlagPairs, NEW id \in BytesOf(16),
         NEW fresh \in BytesOf(16), NEW request \in BytesOf(16)
  PROVE  Right(o, CommandOf(o, TheDatabase(d), Handle(o, TheDatabase(d0), id), fresh, request),
               d0, d, request)
<1> DEFINE l == Handle(o, TheDatabase(d0), id)
           c == CommandOf(o, TheDatabase(d), l, fresh, request)
           w == NewLock(TheDatabase(d), l.key, fresh, o.wait, 0, 0, 0)
           k(key, other) == LinkLock(TheDatabase(d), l, key, other)
<1>1. l \in Locks /\ Says(l, o.timeout, d0[1], o.expired, d0[2])
  <2>1. HandleExpired(o) = o.expired /\ HandleFlags(o, d0) = d0[2]
    BY DEF HandleExpired, HandleFlags
  <2> QED BY <2>1, HandleSays
<1>2. /\ o.timeout \in 0 .. U16MAX /\ o.expired \in 0 .. U16MAX /\ o.wait \in 0 .. U16MAX
      /\ o.parent \in Seq(Byte)
  BY OperationTyped, Zenon
<1>3. c = IF o.prim = "tree" THEN TreeCommand(o, TheDatabase(d), l, fresh, request)
          ELSE LeafCommand(o, TheDatabase(d), l, request)
  BY DEF CommandOf
<1> HIDE DEF l
<1>4. l.key \in BytesOf(16) /\ l.key \in Seq(Byte) /\ l.expired.value = o.expired
  BY <1>1, KeyOfLock DEF Says
<1>5. /\ 0 \in 0 .. U16MAX /\ NoData \in LockDatas[Nesting] \cup {NoData}
      /\ {LOCK_TREE} \in SUBSET Flags8 /\ {UNLOCK_TREE} \in SUBSET Flags8
      /\ Key16(o.parent) \in BytesOf(16) /\ Key16(o.parent) \in Seq(Byte)
  BY <1>2, SmallNumbers, FlagsTyped, Key16Typed DEF BytesOf
<1>6. w \in Locks /\ Says(w, o.wait, d[1], 0, d[2])
  BY <1>2, <1>4, SmallNumbers, NewLockSays
<1>7. \A key, other \in BytesOf(16) :
        k(key, other) \in Locks /\ Says(k(key, other), 0, d[1], o.expired, d[2])
  <2> TAKE key, other \in BytesOf(16)
  <2> DEFINE b == NewLock(TheDatabase(d), key, other, 0, o.expired, U16MAX, 1)
  <2>1. k(key, other) = MergeTimeout(b, {RCOUNT_IS_PRIORITY})
    BY <1>4, Zenon DEF LinkLock
  <2>2. key \in Seq(Byte) /\ U16MAX \in 0 .. U16MAX /\ 1 \in Byte /\ 0 \in 0 .. U16MAX
    BY SmallNumbers DEF BytesOf
  <2>3. b \in Locks /\ Says(b, 0, d[1], o.expired, d[2])
    BY <1>2, <2>2, NewLockSays
  <2> HIDE DEF b, k
  <2>4. LET m == MergeTimeout(b, {RCOUNT_IS_PRIORITY})
        IN  m \in Locks /\ Says(m, 0, d[1], o.expired, d[2])
    BY <2>3, MergeSays
  <2> QED BY <2>1, <2>4, Zenon
<1>8. ~IsProbe(o) /\ o.prim # "token"
  BY DEF IsProbe
<1>9. CASE o.prim = "tree" /\ o.op = "wait"
  <2>1. c = AcquirePlain(w, request)
    BY <1>3, <1>9 DEF TreeCommand, Derived
  <2> HIDE DEF w, c
  <2>2. Carries(c, w, request)
    BY <1>5, <1>6, <2>1, CommandsCarry
  <2>3. Asked(o) = o.wait /\ KeptFor(o) = 0
    BY <1>9 DEF Asked, KeptFor
  <2>4. Right(o, c, d0, d, request)
    BY <1>6, <1>8, <2>2, <2>3, CarriesRight
  <2> QED BY <2>4 DEF c, l
<1>10. CASE o.op \in {"acquire", "release"}
  <2>1. \/ c = AcquireWith(l, {LOCK_TREE}, NoData, request)
        \/ c = ReleaseWith(l, {UNLOCK_TREE}, NoData, request)
        \/ c = AcquirePlain(l, request)
    BY <1>3, <1>10 DEF TreeCommand, LeafCommand
  <2> HIDE DEF c
  <2>2. Carries(c, l, request)
    BY <1>1, <1>5, <2>1, CommandsCarry
  <2>3. Asked(o) = o.timeout /\ KeptFor(o) = o.expired
    BY <1>10 DEF Asked, KeptFor, HandleExpired
  <2>4. Right(o, c, d0, d, request)
    BY <1>1, <1>8, <2>2, <2>3, CarriesRight
  <2> QED BY <2>4 DEF c, l
<1>11. CASE o.prim = "leaf" /\ o.op \in {"child", "parent"}
  <2>1. \/ c = AcquireWith(k(l.key, Key16(o.parent)), {LOCK_TREE}, NoData, request)
        \/ c = AcquirePlain(k(Key16(o.parent), l.key), request)
    BY <1>3, <1>11 DEF LeafCommand
  <2> HIDE DEF c, k
  <2>2. \E key, other \in BytesOf(16) : Carries(c, k(key, other), request)
    BY <1>4, <1>5, <1>7, <2>1, CommandsCarry
  <2>3. Asked(o) = 0 /\ KeptFor(o) = o.expired
    BY <1>11 DEF Asked, KeptFor, HandleExpired
  <2>4. Right(o, c, d0, d, request)
    BY <1>7, <1>8, <2>2, <2>3, CarriesRight
  <2> QED BY <2>4 DEF c, l
<1> QED BY <1>9, <1>10, <1>11, MethodsAre

(* Every method of every primitive sends a command that can be read and is timed as asked. *)
LEMMA CommandRight ==
  ASSUME NEW o \in Operation, o.prim # "ping",
         NEW d0 \in FlagPairs, NEW d \in FlagPairs, NEW id \in BytesOf(16),
         NEW fresh \in BytesOf(16), NEW request \in BytesOf(16)
  PROVE  Right(o, CommandOf(o, TheDatabase(d), Handle(o, TheDatabase(d0), id), fresh, request),
               d0, d, request)
BY MethodsAre, LockRight, PlainRight, EventRight, GroupRight, TreeRight

(***************************************************************************)
(* The invariant.                                                          *)
(***************************************************************************)

(* The default flags that a database starts with. *)
NoFlags == <<{}, {}>>

(* Where a call is: it stays in the order of these. *)
Phases == {"start", "made", "send", "extra", "wait", "done"}

(* The call of c was made, or was refused. *)
Called(c) == at[c] \notin {"start", "made"}

(* What is known of one call. *)
CallOk(c) ==
  /\ at[c] # "start" => opening = "open" /\ c \in DOMAIN work
  /\ at[c] # "start" /\ work[c].prim # "ping" =>
       lock[c] = Handle(work[c], TheDatabase(made[c]), NewId(10 * c + 2))
  /\ Called(c) =>
       /\ frame[c] = Encode(cmd[c])
       /\ cmd[c] \in Messages /\ WellMade(cmd[c]) /\ cmd[c].request = RequestId(c)
       /\ IF work[c].prim = "ping" THEN cmd[c].type = PING
          ELSE \E d \in {made[c], defaults} :
                 Right(work[c], cmd[c], made[c], d, RequestId(c))
  /\ at[c] \in {"send", "extra", "wait"} => frame[c].ok
  /\ c \in pending <=> at[c] \in {"send", "extra", "wait"}
  /\ at[c] = "extra" => frame[c].extra # << >>

(* The messages of the calls, and what their primitives and commands are. *)
CallInv ==
  /\ work \in Works /\ defaults \in FlagPairs
  /\ at \in [Callers -> Phases] /\ made \in [Callers -> {NoFlags, defaults}]
  /\ DOMAIN lock = Callers /\ DOMAIN cmd = Callers /\ DOMAIN frame = Callers
  /\ DOMAIN result = Callers
  /\ \A c \in Callers : CallOk(c)

(* What was sent, and how much of it is written. *)
FrameOf(q) == Encode(q).header \o Encode(q).extra

(* The frames of the requests sent. *)
Frames == [j \in 1 .. Len(sent) |-> FrameOf(sent[j])]

(* How many of them are all on the wire: not the one whose data is still to come. *)
Written == IF WriterFree THEN Len(sent) ELSE Len(sent) - 1

(* What is on the wire of that one. *)
Part == IF WriterFree THEN << >> ELSE Encode(sent[Len(sent)]).header

(* q is a request that was put on the wire. *)
IsSent(q) ==
  \/ q = InitRequest
  \/ \E c \in Callers : Called(c) /\ at[c] # "send" /\ frame[c].ok /\ q = cmd[c]

\* c has the writer, and the header of its frame is the last thing sent.
InPart(c) ==
  /\ Len(sent) > 0 /\ sent[Len(sent)] = cmd[c]
  /\ \A b \in Callers : at[b] = "extra" => b = c
  /\ \A j \in 1 .. Len(sent) : sent[j] = cmd[c] => j = Len(sent)

(* What was sent and heard are commands of the calls, and at most one is half written. *)
SentInv ==
  /\ sent \in Seq(Messages) /\ heard \in Seq(Messages)
  /\ \A j \in 1 .. Len(sent) : IsSent(sent[j])
  /\ opening = "start" => sent = << >> /\ toServer = << >>
  /\ \A c \in Callers : at[c] = "extra" => InPart(c)

(* The server heard the first of them, and the rest is on the way. *)
HeardInv ==
  /\ \A j \in 1 .. Len(heard) : heard[j] = sent[j]
  /\ InFlight(toServer, Len(heard), Written, Frames, Part)

(* What was said, and how much of it the reader has. *)
Responses == [j \in 1 .. Len(said) |-> ResponseFrame(said[j])]

(* The bytes behind the header of an answer with data. *)
ResponseData(a) == LE4(Len(a.payload)) \o a.payload

(* s is what is left of the answers when k of them are read. *)
Left(s, k) == InFlight(s, k, Len(said), Responses, << >>)

\* The answers the server may give.
Answers == {Answer(q, code, content, spoilt) :
              q \in Messages, code \in Codes, content \in Contents,
              spoilt \in {"no", "magic", "type"}}

(* Each answer is to a request that was heard. *)
SaidInv ==
  /\ said \in Seq(Answers)
  /\ \A j \in 1 .. Len(said) : AnswerTyped(said[j])
  /\ \A j \in 1 .. Len(said) : said[j].type = INIT => said[j].request = NewId(1)
  /\ \A j \in 1 .. Len(said) : \E i \in 1 .. Len(heard) : heard[i].request = said[j].request
  /\ opening # "open" => \A j \in 1 .. Len(said) : ~HasData(said[j])

(* Wherever the reader is, it is at that place of the next answer. *)
ReaderInv ==
  /\ opening # "open" => reader.next = "header"
  /\ \/ reader.next = "header" /\ \E k \in 0 .. Len(said) : Left(toClient, k)
     \/ /\ reader.next = "deliver"
        /\ \E k \in 1 .. Len(said) :
             /\ reader.header = ResponseHeader(said[k]) /\ ~HasData(said[k])
             /\ Left(toClient, k)
     \/ /\ reader.next = "length"
        /\ \E k \in 1 .. Len(said), r \in Seq(Byte) :
             /\ reader.header = ResponseHeader(said[k]) /\ HasData(said[k])
             /\ Joined(toClient, ResponseData(said[k]), r) /\ Left(r, k)
     \/ /\ reader.next = "payload"
        /\ \E k \in 1 .. Len(said), r \in Seq(Byte) :
             /\ reader.header = ResponseHeader(said[k]) /\ HasData(said[k])
             /\ reader.need = Len(said[k].payload)
             /\ Joined(toClient, said[k].payload, r) /\ Left(r, k)

(* The invariant that is proved by induction. *)
WireInv == CallInv /\ SentInv /\ HeardInv /\ SaidInv /\ ReaderInv /\ AnswersReadBack

(* The empty stream. *)
LEMMA NoBytes == << >> \in Seq(Byte) /\ << >> \in BytesOf(0) /\ Len(<< >>) = 0
BY DEF BytesOf

(* A stream that starts with a frame starts with its header, its data behind. *)
LEMMA JoinedAgain ==
  ASSUME NEW w, NEW f, NEW r, NEW h, NEW d, Joined(w, f, r), Joined(f, h, d)
  PROVE  \E u : Joined(w, h, u) /\ Joined(u, d, r)
<1>1. h \in Seq(Byte) /\ d \in Seq(Byte) /\ r \in Seq(Byte) /\ w = (h \o d) \o r
  BY DEF Joined
<1>2. (h \o d) \o r = h \o (d \o r) /\ d \o r \in Seq(Byte)
  <2>1. (h \o d) \o r = h \o (d \o r)
    BY <1>1, BytesAssociative, Zenon
  <2>2. d \o r \in Seq(Byte)
    BY <1>1, ConcatProperties
  <2> QED BY <2>1, <2>2, Zenon
<1>3. w = h \o (d \o r)
  BY <1>1, <1>2
<1>4. Joined(w, h, d \o r) /\ Joined(d \o r, d, r)
  BY <1>1, <1>2, <1>3, Zenon DEF Joined
<1> QED BY <1>4, Zenon

(* The header of a frame is written. *)
LEMMA FlightSendPart ==
  ASSUME NEW s, NEW k, NEW n, NEW frames, InFlight(s, k, n, frames, << >>),
         NEW more, \A j : j \in k + 1 .. n => more[j] = frames[j], NEW f \in Seq(Byte)
  PROVE  InFlight(s \o f, k, n, more, f)
<1>1. InFlight(s, k, n, more, << >>)
  BY FlightSame
<1>2. InFlight(s \o f, k, n, more, << >> \o f)
  BY <1>1, FlightPush
<1>3. << >> \o f = f
  BY ConcatEmptySeq
<1> QED BY <1>2, <1>3, Zenon

(* A frame is written at once. *)
LEMMA FlightSend ==
  ASSUME NEW s, NEW k, NEW n, NEW frames, InFlight(s, k, n, frames, << >>),
         NEW more, \A j : j \in k + 1 .. n => more[j] = frames[j],
         more[n + 1] \in Seq(Byte)
  PROVE  InFlight(s \o more[n + 1], k, n + 1, more, << >>)
<1>1. InFlight(s \o more[n + 1], k, n, more, more[n + 1])
  BY FlightSendPart
<1> QED BY <1>1, FlightSeal

(* The rest of a frame is written. *)
LEMMA FlightSendRest ==
  ASSUME NEW s, NEW k, NEW n, NEW frames, NEW part, InFlight(s, k, n, frames, part),
         NEW x, Joined(frames[n + 1], part, x)
  PROVE  InFlight(s \o x, k, n + 1, frames, << >>)
<1>1. x \in Seq(Byte) /\ frames[n + 1] = part \o x
  BY DEF Joined
<1>2. InFlight(s \o x, k, n, frames, part \o x)
  BY <1>1, FlightPush
<1> QED BY <1>1, <1>2, FlightSeal

(* The ids of the calls are 16 bytes and differ. *)
LEMMA Ids ==
  /\ \A n \in {1, 2} : NewId(n) \in BytesOf(16)
  /\ \A c \in Callers :
       /\ RequestId(c) \in BytesOf(16) /\ RequestId(c) # NewId(1)
       /\ NewId(10 * c + 2) \in BytesOf(16) /\ NewId(10 * c + 3) \in BytesOf(16)
  /\ \A b, c \in Callers : RequestId(b) = RequestId(c) => b = c
<1>1. \A n \in {1, 2} : NewId(n) \in BytesOf(16)
  BY NewIdTyped
<1>2. \A c \in Callers : /\ c \in Nat /\ 10 * c + 1 \in Nat /\ 10 * c + 1 # 1
                         /\ 10 * c + 2 \in Int /\ 10 * c + 3 \in Int /\ IsCount(10 * c + 1)
  BY WireAssumption DEF IsCount
<1>3. IsCount(1) /\ 1 \in Nat
  BY DEF IsCount
<1>4. \A c \in Callers :
        /\ RequestId(c) \in BytesOf(16) /\ RequestId(c) # NewId(1)
        /\ NewId(10 * c + 2) \in BytesOf(16) /\ NewId(10 * c + 3) \in BytesOf(16)
  <2> TAKE c \in Callers
  <2>1. RequestId(c) \in BytesOf(16) /\ NewId(10 * c + 2) \in BytesOf(16)
        /\ NewId(10 * c + 3) \in BytesOf(16)
    BY <1>2, NewIdTyped DEF RequestId
  <2>2. ASSUME NewId(10 * c + 1) = NewId(1) PROVE FALSE
    BY <1>2, <1>3, <2>2, NewIdInjective
  <2> QED BY <2>1, <2>2 DEF RequestId
<1>5. ASSUME NEW b \in Callers, NEW c \in Callers, RequestId(b) = RequestId(c) PROVE b = c
  <2>1. NewId(10 * b + 1) = NewId(10 * c + 1)
    BY <1>5 DEF RequestId
  <2>2. 10 * b + 1 = 10 * c + 1
    BY <1>2, <2>1, NewIdInjective
  <2> QED BY <1>2, <2>2
<1> QED BY <1>1, <1>4, <1>5

(* What the callers do is operations. *)
LEMMA Operations ==
  \A w \in Works : DOMAIN w \subseteq Callers /\ \A c \in DOMAIN w : w[c] \in Operation
BY WireAssumption, Zenon

(* INIT of open() is a command that can be encoded. *)
LEMMA InitSent ==
  /\ InitRequest \in Messages /\ WellMade(InitRequest) /\ Encode(InitRequest).ok
  /\ InitRequest.type = INIT /\ InitRequest.request = NewId(1)
  /\ Encode(InitRequest).extra = << >>
<1>1. InitRequest = [type |-> INIT, request |-> NewId(1), client |-> NewId(2)]
  BY DEF InitRequest, InitCommand
<1>2. InitRequest \in InitMessages
  BY <1>1, Ids DEF InitMessages
<1>3. InitRequest.type = INIT /\ InitRequest.request = NewId(1)
  BY <1>1
<1>4. InitRequest \notin LockMessages
  <2>1. \A q \in LockMessages : q.type \in {LOCK, UNLOCK}
    BY DEF LockMessages
  <2> QED BY <1>3, <2>1, TypesDiffer
<1>6. Encode(InitRequest).ok /\ Encode(InitRequest).extra = << >>
  BY <1>3, TypesDiffer DEF Encode, Encoded
<1>7. InitRequest \in Messages /\ WellMade(InitRequest)
  BY <1>2, <1>4, Zenon DEF Messages, WellMade
<1> QED BY <1>3, <1>6, <1>7, Zenon

(* A frame is its header and its data. *)
LEMMA FrameJoined ==
  ASSUME NEW q, WellMade(q), Encode(q).ok
  PROVE  /\ Joined(FrameOf(q), Encode(q).header, Encode(q).extra)
         /\ Encode(q).header \in BytesOf(64) /\ Encode(q).header \in Seq(Byte)
         /\ FrameOf(q) \in Seq(Byte)
         /\ Encode(q).extra = << >> => FrameOf(q) = Encode(q).header
<1>1. Encode(q).header \in BytesOf(64) /\ Encode(q).extra \in Seq(Byte)
  BY ReadBack, Zenon
<1>2. Encode(q).header \in Seq(Byte)
  BY <1>1 DEF BytesOf
<1>3. Joined(FrameOf(q), Encode(q).header, Encode(q).extra)
  BY <1>1, <1>2, Zenon DEF Joined, FrameOf
<1>4. FrameOf(q) \in Seq(Byte)
  BY <1>3, JoinedBytes, Zenon
<1>5. Encode(q).extra = << >> => FrameOf(q) = Encode(q).header
  BY <1>2, ConcatEmptySeq, Zenon DEF FrameOf
<1> QED BY <1>1, <1>2, <1>3, <1>4, <1>5

(* No call sends INIT. *)
LEMMA CallTypes ==
  ASSUME CallInv, NEW c \in Callers, Called(c)
  PROVE  cmd[c].type # INIT
<1>1. IF work[c].prim = "ping" THEN cmd[c].type = PING
      ELSE \E d \in {made[c], defaults} : Right(work[c], cmd[c], made[c], d, RequestId(c))
  BY Zenon DEF CallInv, CallOk
<1>2. \A q \in LockMessages : q.type \in {LOCK, UNLOCK}
  BY DEF LockMessages
<1>3. work[c].prim # "ping" => cmd[c] \in LockMessages
  BY <1>1, Zenon DEF Right
<1> QED BY <1>1, <1>2, <1>3, TypesDiffer

(* What was sent can be encoded and read; before the connection is open it is INIT. *)
LEMMA SentMade ==
  ASSUME CallInv, NEW q, IsSent(q)
  PROVE  /\ q \in Messages /\ WellMade(q) /\ Encode(q).ok
         /\ q.type = INIT => q.request = NewId(1)
         /\ opening # "open" => q = InitRequest
<1>1. CASE q = InitRequest
  BY <1>1, InitSent, Zenon
<1>2. CASE \E c \in Callers : Called(c) /\ frame[c].ok /\ q = cmd[c]
  <2>1. PICK c \in Callers : Called(c) /\ frame[c].ok /\ q = cmd[c]
    BY <1>2
  <2>2. frame[c] = Encode(cmd[c]) /\ cmd[c] \in Messages /\ WellMade(cmd[c])
    BY <2>1, Zenon DEF CallInv, CallOk
  <2>3. opening = "open"
    BY <2>1, Zenon DEF CallInv, CallOk, Called
  <2>4. q.type # INIT
    BY <2>1, CallTypes
  <2> QED BY <2>1, <2>2, <2>3, <2>4, Zenon
<1> QED BY <1>1, <1>2, Zenon DEF IsSent

(* An answer is its header and its data. *)
LEMMA ResponseJoined ==
  ASSUME NEW a, AnswerTyped(a)
  PROVE  /\ ResponseHeader(a) \in BytesOf(64) /\ ResponseFrame(a) \in Seq(Byte)
         /\ ~HasData(a) => ResponseFrame(a) = ResponseHeader(a)
         /\ HasData(a) => /\ Joined(ResponseFrame(a), ResponseHeader(a), ResponseData(a))
                          /\ Joined(ResponseData(a), LE4(Len(a.payload)), a.payload)
<1>1. ResponseHeader(a) \in BytesOf(64) /\ ResponseHeader(a) \in Seq(Byte)
  BY ResponseHas, Zenon DEF BytesOf
<1>2. a.payload \in Seq(Byte) /\ Len(a.payload) \in Int
  BY LenProperties DEF AnswerTyped
<1>3. LE4(Len(a.payload)) \in Seq(Byte)
  BY <1>2, LE4Typed, Zenon DEF BytesOf
<1>4. Joined(ResponseData(a), LE4(Len(a.payload)), a.payload)
  BY <1>2, <1>3, Zenon DEF Joined, ResponseData
<1>5. ResponseData(a) \in Seq(Byte)
  BY <1>4, JoinedBytes, Zenon
<1>6. HasData(a) => ResponseFrame(a) = ResponseHeader(a) \o ResponseData(a)
  BY Zenon DEF HasData, ResponseFrame, ResponseData
<1>7. ~HasData(a) => ResponseFrame(a) = ResponseHeader(a)
  <2>1. ~HasData(a) => ResponseFrame(a) = ResponseHeader(a) \o << >>
    BY Zenon DEF HasData, ResponseFrame
  <2> QED BY <1>1, <2>1, ConcatEmptySeq, Zenon
<1>8. HasData(a) => Joined(ResponseFrame(a), ResponseHeader(a), ResponseData(a))
  BY <1>1, <1>5, <1>6, Zenon DEF Joined
<1>9. ResponseFrame(a) \in Seq(Byte)
  BY <1>1, <1>7, <1>8, JoinedBytes, Zenon
<1> QED BY <1>1, <1>4, <1>7, <1>8, <1>9, Zenon

(***************************************************************************)
(* What the server attaches: entries one behind the other.                 *)
(***************************************************************************)

(* An item is its length and its bytes. *)
LEMMA ItemTyped ==
  ASSUME NEW b \in Seq(Byte)
  PROVE  /\ Joined(Item(b), LE4(Len(b)), b) /\ LE4(Len(b)) \in BytesOf(4)
         /\ Item(b) \in Seq(Byte) /\ Len(Item(b)) = 4 + Len(b) /\ Len(b) \in Nat
<1>1. Len(b) \in Nat /\ b \in BytesOf(Len(b))
  BY SizeOf
<1>2. LE4(Len(b)) \in BytesOf(4)
  BY <1>1, LE4Typed
<1>3. Joined(Item(b), LE4(Len(b)), b)
  BY <1>2, Zenon DEF Item, Joined, BytesOf
<1>4. Item(b) \in BytesOf(4 + Len(b))
  BY <1>1, <1>2, <1>3, Concat, Zenon
<1> QED BY <1>1, <1>2, <1>3, <1>4 DEF BytesOf

(* The items of the entries of x. *)
Items(x) == [i \in 1 .. Len(x.entries) |-> ItemOf(x, i)]

(* They are bytes. *)
LEMMA ItemsTyped ==
  ASSUME NEW x \in Contents
  PROVE  /\ Len(x.entries) \in Nat /\ DOMAIN x.entries = 1 .. Len(x.entries)
         /\ \A i \in 1 .. Len(x.entries) : ItemOf(x, i) \in Seq(Byte)
         /\ x.kind # "map" => \A i \in 1 .. Len(x.entries) : x.entries[i] \in Seq(Byte)
         /\ x.kind = "map" => \A i \in 1 .. Len(x.entries) :
              /\ x.entries[i][1] \in Seq(Byte) /\ x.entries[i][1] # << >>
              /\ x.entries[i][2] \in Seq(Byte)
              /\ ItemOf(x, i) = Item(x.entries[i][1]) \o Item(x.entries[i][2])
<1>1. x.entries \in EntriesOf(x.kind)
  BY ContentsAssumption, Zenon
<1>2. CASE x.kind = "map"
  <2>1. x.entries \in Seq((Seq(Byte) \ {<< >>}) \X Seq(Byte))
    BY <1>1, <1>2, Zenon DEF EntriesOf
  <2>2. Len(x.entries) \in Nat /\ DOMAIN x.entries = 1 .. Len(x.entries)
    BY <2>1, LenProperties
  <2>3. ASSUME NEW i \in 1 .. Len(x.entries)
        PROVE  /\ x.entries[i][1] \in Seq(Byte) /\ x.entries[i][1] # << >>
               /\ x.entries[i][2] \in Seq(Byte)
    <3>1. x.entries[i] \in (Seq(Byte) \ {<< >>}) \X Seq(Byte)
      BY <2>1, ElementOfSeq
    <3> QED BY <3>1
  <2>4. ASSUME NEW i \in 1 .. Len(x.entries)
        PROVE  /\ ItemOf(x, i) = Item(x.entries[i][1]) \o Item(x.entries[i][2])
               /\ ItemOf(x, i) \in Seq(Byte)
    <3>1. ItemOf(x, i) = Item(x.entries[i][1]) \o Item(x.entries[i][2])
      BY <1>2, Zenon DEF ItemOf
    <3>2. Item(x.entries[i][1]) \in Seq(Byte) /\ Item(x.entries[i][2]) \in Seq(Byte)
      BY <2>3, ItemTyped, Zenon
    <3> QED BY <3>1, <3>2, ConcatProperties
  <2> QED BY <1>2, <2>2, <2>3, <2>4, Zenon
<1>3. CASE x.kind # "map"
  <2>1. x.entries \in Seq(Seq(Byte))
    BY <1>1, <1>3, Zenon DEF EntriesOf
  <2>2. Len(x.entries) \in Nat /\ DOMAIN x.entries = 1 .. Len(x.entries)
    BY <2>1, LenProperties
  <2>3. \A i \in 1 .. Len(x.entries) : x.entries[i] \in Seq(Byte)
    BY <2>1, ElementOfSeq
  <2>4. \A i \in 1 .. Len(x.entries) : ItemOf(x, i) \in Seq(Byte)
    BY <1>3, <2>3, ItemTyped, Zenon DEF ItemOf
  <2> QED BY <1>3, <2>2, <2>3, <2>4, Zenon
<1> QED BY <1>2, <1>3

(* Nothing one behind the other is nothing. *)
LEMMA FlattenNone == ASSUME NEW s, Len(s) = 0 PROVE FlattenSeq(s) = s
BY Zenon DEF FlattenSeq

(* The first m pieces, one behind the other. *)
LEMMA FlattenFirst ==
  ASSUME NEW m \in Nat, NEW s, s = [i \in 1 .. m |-> s[i]], \A i \in 1 .. m : s[i] \in Seq(Byte)
  PROVE  \E H : Pieces(FlattenSeq(s), s, m, H)
<1>1. CASE m = 0
  <2>1. s = << >> /\ Len(s) = 0
    BY <1>1
  <2> DEFINE H == [k \in {0} |-> << >>]
  <2>2. H[0] = << >> /\ 1 .. 0 = {}
    OBVIOUS
  <2>3. FlattenSeq(s) = << >>
    BY <2>1, FlattenNone
  <2> HIDE DEF H
  <2> QED BY <1>1, <2>2, <2>3 DEF Pieces
<1>2. CASE m # 0
  <2>1. Len(s) = m
    BY LenProperties
  <2> QED BY <1>2, <2>1, FlattenPieces
<1> QED BY <1>1, <1>2

(* Pieces that are the same make the same. *)
LEMMA PiecesSame ==
  ASSUME NEW u, NEW v, NEW r, NEW s, NEW n, NEW m, NEW G, NEW H,
         Pieces(u, r, n, G), Pieces(v, s, m, H), n <= m, \A k \in 1 .. n : r[k] = s[k]
  PROVE  u = H[n]
<1>1. /\ n \in Nat /\ G[0] = << >> /\ G[n] = u
      /\ \A k \in 1 .. n : Joined(G[k], G[k - 1], r[k])
  BY Zenon DEF Pieces
<1>2. /\ m \in Nat /\ H[0] = << >>
      /\ \A k \in 1 .. m : Joined(H[k], H[k - 1], s[k])
  BY Zenon DEF Pieces
<1> DEFINE S == {k \in Nat : k <= n => G[k] = H[k]}
<1>3. 0 \in S
  BY <1>1, <1>2
<1>4. ASSUME NEW k \in Nat, k \in S PROVE k + 1 \in S
  <2> SUFFICES ASSUME k + 1 <= n PROVE G[k + 1] = H[k + 1]
    OBVIOUS
  <2>1. k + 1 \in 1 .. n /\ k + 1 \in 1 .. m /\ (k + 1) - 1 = k /\ k <= n
    BY <1>1, <1>2
  <2>2. Joined(G[k + 1], G[k], r[k + 1]) /\ Joined(H[k + 1], H[k], s[k + 1])
    <3>1. /\ Joined(G[k + 1], G[(k + 1) - 1], r[k + 1])
          /\ Joined(H[k + 1], H[(k + 1) - 1], s[k + 1])
      BY <1>1, <1>2, <2>1, Zenon
    <3> QED BY <2>1, <3>1
  <2>3. G[k] = H[k] /\ r[k + 1] = s[k + 1]
    BY <1>4, <2>1
  <2> QED BY <2>2, <2>3, Zenon DEF Joined
<1> HIDE DEF S
<1>5. Nat \subseteq S
  BY <1>3, <1>4, ForCut!Induction
<1> QED BY <1>1, <1>5 DEF S

(* H[k] is the first k items of x, and all of them are its value. *)
Laid(x, H) ==
  /\ Pieces(ValueOf(x), Items(x), Len(x.entries), H)
  /\ \A k \in 0 .. Len(x.entries) : Size(x, k) = Len(H[k])

(* The value is its items, one behind the other. *)
LEMMA ValueLaid ==
  ASSUME NEW x \in Contents
  PROVE  ValueOf(x) \in Seq(Byte) /\ \E H : Laid(x, H)
<1> DEFINE m == Len(x.entries)  s == Items(x)
<1>1. /\ m \in Nat /\ DOMAIN x.entries = 1 .. m /\ \A i \in 1 .. m : ItemOf(x, i) \in Seq(Byte)
  BY ItemsTyped
<1>2. s = [i \in 1 .. m |-> ItemOf(x, i)] /\ ValueOf(x) = FlattenSeq(s)
  <2>1. [i \in DOMAIN x.entries |-> ItemOf(x, i)] = [i \in 1 .. m |-> ItemOf(x, i)]
    BY <1>1, Zenon
  <2> QED BY <2>1, Zenon DEF ValueOf, Items
<1> HIDE DEF m, s
<1>3. s = [i \in 1 .. m |-> s[i]] /\ \A i \in 1 .. m : s[i] = ItemOf(x, i) /\ s[i] \in Seq(Byte)
  BY <1>1, <1>2
<1>4. PICK H : Pieces(ValueOf(x), s, m, H)
  BY <1>1, <1>2, <1>3, FlattenFirst
<1>5. ASSUME NEW k \in 0 .. m PROVE Size(x, k) = Len(H[k])
  <2> DEFINE r == [i \in 1 .. k |-> ItemOf(x, i)]
  <2>1. k \in Nat /\ k <= m /\ \A i \in 1 .. k : i \in 1 .. m
    BY <1>1
  <2>2. r = [i \in 1 .. k |-> r[i]] /\ \A i \in 1 .. k : r[i] = s[i] /\ r[i] \in Seq(Byte)
    BY <1>3, <2>1
  <2>3. Size(x, k) = Len(FlattenSeq(r))
    BY Zenon DEF Size
  <2> HIDE DEF r
  <2>4. PICK G : Pieces(FlattenSeq(r), r, k, G)
    BY <2>1, <2>2, FlattenFirst
  <2>5. FlattenSeq(r) = H[k]
    BY <1>4, <2>1, <2>2, <2>4, PiecesSame
  <2> QED BY <2>3, <2>5
<1>6. Laid(x, H)
  BY <1>4, <1>5 DEF Laid, m, s
<1>7. ValueOf(x) \in Seq(Byte)
  <2>1. 0 \in 0 .. m
    BY <1>1
  <2>2. PICK t : Joined(ValueOf(x), H[0], t)
    BY <1>4, <2>1, PiecesRest, Zenon
  <2> QED BY <2>2, JoinedBytes, Zenon
<1> QED BY <1>6, <1>7

(* A set of numbers with a bound has a greatest one. *)
LEMMA MaxIs ==
  ASSUME NEW n \in Nat, NEW T \in SUBSET (0 .. n), T # {}
  PROVE  Max(T) \in T /\ \A y \in T : y <= Max(T)
<1> DEFINE Greatest(U, y) == y \in U /\ \A z \in U : y >= z
           S == {k \in Nat : \A U \in SUBSET (0 .. k) : U # {} => \E y : Greatest(U, y)}
<1>1. 0 \in S
  <2> SUFFICES ASSUME NEW U \in SUBSET (0 .. 0), U # {} PROVE Greatest(U, 0)
    OBVIOUS
  <2>1. \A z \in U : z = 0
    OBVIOUS
  <2>2. 0 \in U
    BY <2>1
  <2> QED BY <2>1, <2>2
<1>2. ASSUME NEW k \in Nat, k \in S PROVE k + 1 \in S
  <2> SUFFICES ASSUME NEW U \in SUBSET (0 .. k + 1), U # {} PROVE \E y : Greatest(U, y)
    OBVIOUS
  <2>1. CASE k + 1 \in U
    <3>1. Greatest(U, k + 1)
      BY <2>1
    <3> QED BY <3>1, Zenon
  <2>2. CASE k + 1 \notin U
    <3>1. U \in SUBSET (0 .. k)
      BY <2>2
    <3> HIDE DEF Greatest
    <3> QED BY <1>2, <3>1
  <2> QED BY <2>1, <2>2
<1> HIDE DEF S
<1>3. Nat \subseteq S
  BY <1>1, <1>2, ForCut!Induction
<1> USE DEF S
<1> HIDE DEF Greatest
<1>4. PICK y : Greatest(T, y)
  BY <1>3
<1> USE DEF Greatest
<1>5. \E z \in T : \A w \in T : z >= w
  BY <1>4, Zenon
<1>6. Max(T) \in T /\ \A w \in T : Max(T) >= w
  BY <1>5, Zenon DEF Max
<1> DEFINE M == Max(T)
<1>7. M \in T /\ \A w \in T : M >= w
  BY <1>6
<1> HIDE DEF M
<1>8. \A w \in T : w <= M
  BY <1>7
<1> QED BY <1>7, <1>8 DEF M

(* The k-th piece is behind those before it. *)
Placed(v, s, H, k) ==
  /\ SubSeq(v, Len(H[k - 1]) + 1, Len(H[k])) = s[k]
  /\ Len(H[k]) = Len(H[k - 1]) + Len(s[k])
  /\ Len(H[k]) \in Nat /\ Len(H[k - 1]) \in Nat /\ Len(s[k]) \in Nat

(* So it is with every piece. *)
LEMMA PiecesPlaced ==
  \A v, s, m, H, k : Pieces(v, s, m, H) /\ k \in 1 .. m => Placed(v, s, H, k)
<1> SUFFICES ASSUME NEW v, NEW s, NEW m, NEW H, NEW k \in 1 .. m, Pieces(v, s, m, H)
             PROVE  Placed(v, s, H, k)
  OBVIOUS
<1>1. /\ \E t : Joined(Rest(v, Len(H[k - 1])), s[k], t)
      /\ SubSeq(v, Len(H[k - 1]) + 1, Len(H[k])) = s[k]
      /\ Len(H[k]) = Len(H[k - 1]) + Len(s[k])
      /\ Len(H[k]) \in Nat /\ Len(H[k - 1]) \in Nat /\ Len(s[k]) \in Nat
  BY PieceIn, Zenon
<1> QED BY <1>1, Zenon DEF Placed

(* Where the items are, and how long they are together. *)
LEMMA Sized ==
  ASSUME NEW x \in Contents
  PROVE  /\ \A k \in 0 .. Len(x.entries) :
              Size(x, k) \in Nat /\ Size(x, k) <= Len(ValueOf(x))
         /\ Size(x, 0) = 0 /\ Size(x, Len(x.entries)) = Len(ValueOf(x))
         /\ \A k \in 1 .. Len(x.entries) :
              /\ Size(x, k) = Size(x, k - 1) + Len(ItemOf(x, k)) /\ Len(ItemOf(x, k)) \in Nat
              /\ Has(ValueOf(x), Size(x, k - 1), Len(ItemOf(x, k)), ItemOf(x, k))
<1> DEFINE m == Len(x.entries)  v == ValueOf(x)  s == Items(x)
<1>1. m \in Nat /\ \A k \in 1 .. m : s[k] = ItemOf(x, k)
  BY ItemsTyped DEF Items
<1>2. PICK H : Laid(x, H)
  BY ValueLaid, Zenon
<1>3. Pieces(v, s, m, H) /\ \A k \in 0 .. m : Size(x, k) = Len(H[k])
  BY <1>2, Zenon DEF Laid
<1> HIDE DEF m, v, s
<1>4. H[0] = << >> /\ H[m] = v /\ 0 \in 0 .. m /\ m \in 0 .. m
  BY <1>1, <1>3 DEF Pieces
<1>5. Size(x, 0) = 0 /\ Size(x, m) = Len(v)
  BY <1>3, <1>4, NoBytes, Zenon
<1>6. ASSUME NEW k \in 0 .. m PROVE Size(x, k) \in Nat /\ Size(x, k) <= Len(v)
  <2>1. PICK t : Joined(v, H[k], t)
    BY <1>3, PiecesRest, Zenon
  <2>2. Len(v) = Len(H[k]) + Len(t) /\ Len(H[k]) \in Nat /\ Len(t) \in Nat
    BY <2>1, JoinedBytes
  <2> QED BY <1>3, <2>2
<1>7. ASSUME NEW k \in 1 .. m
      PROVE  /\ Size(x, k) = Size(x, k - 1) + Len(ItemOf(x, k)) /\ Len(ItemOf(x, k)) \in Nat
             /\ Has(v, Size(x, k - 1), Len(ItemOf(x, k)), ItemOf(x, k))
  <2>1. k \in 0 .. m /\ k - 1 \in 0 .. m
    BY <1>1
  <2>2. /\ SubSeq(v, Len(H[k - 1]) + 1, Len(H[k])) = s[k]
        /\ Len(H[k]) = Len(H[k - 1]) + Len(s[k])
        /\ Len(H[k]) \in Nat /\ Len(H[k - 1]) \in Nat /\ Len(s[k]) \in Nat
    <3>1. Placed(v, s, H, k)
      BY <1>3, PiecesPlaced
    <3> QED BY <3>1, Zenon DEF Placed
  <2>3. Size(x, k) = Len(H[k]) /\ Size(x, k - 1) = Len(H[k - 1]) /\ s[k] = ItemOf(x, k)
    BY <1>1, <1>3, <2>1, Zenon
  <2>4. v \in Seq(Byte) /\ Len(H[k - 1]) + Len(s[k]) <= Len(v)
    <3>1. v \in Seq(Byte)
      BY ValueLaid DEF v
    <3>2. Size(x, k) <= Len(v)
      BY <1>6, <2>1
    <3> QED BY <2>2, <2>3, <3>1, <3>2
  <2>5. Has(v, Len(H[k - 1]), Len(s[k]), s[k])
    BY <2>2, <2>4, Zenon DEF Has, Slice
  <2> QED BY <2>2, <2>3, <2>5, Zenon
<1> QED BY <1>5, <1>6, <1>7 DEF m, v

(* What is kept is the first bytes of the value. *)
LEMMA KeptTyped ==
  ASSUME NEW x \in Contents
  PROVE  Kept(x) \in Nat /\ Kept(x) <= Len(ValueOf(x)) /\ Len(ValueOf(x)) \in Nat
<1>1. x.cut \in 0 .. Len(ValueOf(x)) /\ ValueOf(x) \in Seq(Byte)
  BY ValueLaid, ContentsAssumption, Zenon
<1>2. Len(ValueOf(x)) \in Nat
  BY <1>1, LenProperties
<1> QED BY <1>1, <1>2 DEF Kept

(* The whole entries are those that are all in what is kept. *)
LEMMA WholeIs ==
  ASSUME NEW x \in Contents
  PROVE  /\ WholeEntries(x) \in 0 .. Len(x.entries) /\ Size(x, WholeEntries(x)) <= Kept(x)
         /\ WholeEntries(x) # Len(x.entries) => Kept(x) < Size(x, WholeEntries(x) + 1)
         /\ WholeEntries(x) = Len(x.entries) => Size(x, WholeEntries(x)) = Kept(x)
<1> DEFINE m == Len(x.entries)
           T == {k \in 0 .. m : Size(x, k) <= Kept(x)}
<1>1. /\ \A k \in 0 .. m : Size(x, k) \in Nat /\ Size(x, k) <= Len(ValueOf(x))
      /\ Size(x, 0) = 0 /\ Size(x, m) = Len(ValueOf(x)) /\ m \in Nat
  BY Sized, ItemsTyped
<1>2. Kept(x) \in Nat /\ Kept(x) <= Len(ValueOf(x)) /\ Len(ValueOf(x)) \in Nat
  BY KeptTyped
<1>3. 0 \in T
  BY <1>1, <1>2
<1>4. Max(T) \in T /\ \A y \in T : y <= Max(T)
  BY <1>1, <1>3, MaxIs
<1>5. WholeEntries(x) = Max(T)
  BY Zenon DEF WholeEntries
<1> DEFINE W == WholeEntries(x)
<1>6. W \in 0 .. m /\ Size(x, W) <= Kept(x) /\ \A y \in T : y <= W
  BY <1>4, <1>5
<1> HIDE DEF W
<1>7. W # m => Kept(x) < Size(x, W + 1)
  <2> SUFFICES ASSUME W # m PROVE Kept(x) < Size(x, W + 1)
    OBVIOUS
  <2>1. W + 1 \in 0 .. m /\ ~(W + 1 <= W)
    BY <1>1, <1>6
  <2>2. W + 1 \notin T
    BY <1>6, <2>1
  <2>3. ~(Size(x, W + 1) <= Kept(x)) /\ Size(x, W + 1) \in Nat
    BY <1>1, <2>1, <2>2
  <2> QED BY <1>2, <2>3
<1>8. W = m => Size(x, W) = Kept(x)
  BY <1>1, <1>2, <1>6
<1> QED BY <1>6, <1>7, <1>8 DEF W, m

(* The parts of the data of an answer: type and flags, a property, the value. *)
TypeAndFlags(x) == <<DataTypes.set, Bits(ContentFlags(x))>>

(* The property, which as_bytes passes over. *)
PropertyPart(x) == IF x.property > 0 THEN LE2(x.property) \o Zeros(x.property) ELSE << >>

(* How many bytes that is. *)
PropertyLen(x) == IF x.property > 0 THEN 2 + x.property ELSE 0

(* What is left of the value. *)
KeptValue(x) == SubSeq(ValueOf(x), 1, Kept(x))

(* The parts are bytes. *)
LEMMA PayloadParts ==
  ASSUME NEW x \in Contents
  PROVE  /\ ContentFlags(x) \in SUBSET Flags8 /\ TypeAndFlags(x) \in BytesOf(2)
         /\ TypeAndFlags(x)[1] = DataTypes.set /\ TypeAndFlags(x)[2] = Bits(ContentFlags(x))
         /\ PropertyLen(x) \in Nat /\ PropertyPart(x) \in BytesOf(PropertyLen(x))
         /\ KeptValue(x) \in BytesOf(Kept(x)) /\ KeptValue(x) = Slice(ValueOf(x), 0, Kept(x))
         /\ Payload(x) = IF x.kind = "none" THEN << >>
                         ELSE (TypeAndFlags(x) \o PropertyPart(x)) \o KeptValue(x)
<1>1. ContentFlags(x) \in SUBSET Flags8
  BY DEF ContentFlags, ARRAY, KV, NUMBER, PROPERTY, Flags8
<1>2. /\ TypeAndFlags(x) \in BytesOf(2)
      /\ TypeAndFlags(x)[1] = DataTypes.set /\ TypeAndFlags(x)[2] = Bits(ContentFlags(x))
  <2>1. DataTypes.set \in Byte
    BY DEF DataTypes, Byte
  <2>2. Bits(ContentFlags(x)) \in Byte
    BY <1>1, Flags8Read, Zenon
  <2> QED BY <2>1, <2>2, Tuples, Zenon DEF TypeAndFlags
<1>3. x.property \in Nat
  BY ContentsAssumption
<1>4. PropertyLen(x) \in Nat /\ PropertyPart(x) \in BytesOf(PropertyLen(x))
  <2>1. CASE x.property > 0
    <3> DEFINE w == LE2(x.property) \o Zeros(x.property)
    <3>1. LE2(x.property) \in BytesOf(2) /\ Zeros(x.property) \in BytesOf(x.property)
      BY <1>3, LE2Typed, ZerosTyped
    <3>2. Joined(w, LE2(x.property), Zeros(x.property))
      BY <3>1, Zenon DEF Joined, BytesOf
    <3>3. w \in BytesOf(2 + x.property)
      BY <3>1, <3>2, Concat, Zenon
    <3>4. PropertyPart(x) = w /\ PropertyLen(x) = 2 + x.property
      BY <2>1, Zenon DEF PropertyPart, PropertyLen
    <3> HIDE DEF w
    <3> QED BY <1>3, <3>3, <3>4
  <2>2. CASE ~(x.property > 0)
    BY <2>2, NoBytes DEF PropertyPart, PropertyLen
  <2> QED BY <2>1, <2>2
<1>5. KeptValue(x) \in BytesOf(Kept(x)) /\ KeptValue(x) = Slice(ValueOf(x), 0, Kept(x))
  <2>1. /\ Kept(x) \in Nat /\ Kept(x) <= Len(ValueOf(x)) /\ ValueOf(x) \in Seq(Byte)
        /\ 0 + Kept(x) = Kept(x) /\ 0 + 1 = 1 /\ 0 \in Nat
    BY KeptTyped, ValueLaid
  <2>2. /\ Slice(ValueOf(x), 0, Kept(x)) \in Seq(Byte) /\ Len(Slice(ValueOf(x), 0, Kept(x))) = Kept(x)
    <3>1. 0 + Kept(x) <= Len(ValueOf(x))
      BY <2>1
    <3> QED BY <2>1, <3>1, Slices, Zenon
  <2>3. KeptValue(x) = Slice(ValueOf(x), 0, Kept(x))
    BY <2>1, Zenon DEF KeptValue, Slice
  <2> QED BY <2>2, <2>3, Zenon DEF BytesOf
<1>6. Payload(x) = IF x.kind = "none" THEN << >>
                   ELSE (TypeAndFlags(x) \o PropertyPart(x)) \o KeptValue(x)
  BY Zenon DEF Payload, TypeAndFlags, PropertyPart, KeptValue, Kept
<1> QED BY <1>1, <1>2, <1>4, <1>5, <1>6, Zenon

(* The data of an answer has a length of four bytes. *)
LEMMA PayloadTyped ==
  ASSUME NEW x \in Contents
  PROVE  /\ Payload(x) \in Seq(Byte) /\ ~ExceedsU32(Len(Payload(x)))
         /\ Payload(x) = << >> <=> x.kind = "none"
         /\ x.kind # "none" => Payload(x) \in BytesOf((2 + PropertyLen(x)) + Kept(x))
<1>1. ~ExceedsU32(Len(Payload(x)))
  BY ContentsAssumption, Zenon
<1>2. CASE x.kind = "none"
  BY <1>1, <1>2, NoBytes, Zenon DEF Payload
<1>3. CASE x.kind # "none"
  <2> DEFINE s == TypeAndFlags(x)  t == PropertyPart(x)  u == KeptValue(x)
             m == PropertyLen(x)  n == Kept(x)
  <2>1. /\ s \in BytesOf(2) /\ t \in BytesOf(m) /\ u \in BytesOf(n) /\ Payload(x) = (s \o t) \o u
        /\ m \in Nat /\ n \in Nat
    BY <1>3, PayloadParts, KeptTyped, Zenon
  <2> HIDE DEF s, t, u, m, n
  <2>2. Joined(s \o t, s, t)
    BY <2>1, Zenon DEF Joined, BytesOf
  <2>3. s \o t \in BytesOf(2 + m)
    BY <2>1, <2>2, Concat, Zenon
  <2>4. Joined(Payload(x), s \o t, u)
    BY <2>1, <2>3, Zenon DEF Joined, BytesOf
  <2>5. Payload(x) \in BytesOf((2 + m) + n)
    BY <2>1, <2>3, <2>4, Concat, Zenon
  <2>6. Payload(x) \in Seq(Byte) /\ Len(Payload(x)) # 0
    BY <2>1, <2>5 DEF BytesOf
  <2> QED BY <1>1, <1>3, <2>5, <2>6, NoBytes, Zenon DEF m, n
<1> QED BY <1>2, <1>3

(* The types of commands. *)
LEMMA MessageTypes ==
  \A q \in Messages :
    /\ q.type \in {INIT, PING, LOCK, UNLOCK} /\ q.request \in BytesOf(16)
    /\ q.type \in {LOCK, UNLOCK} => q \in LockMessages
<1>1. \A q \in InitMessages : q.type = INIT /\ q.request \in BytesOf(16)
  BY DEF InitMessages
<1>2. \A q \in PingMessages : q.type = PING /\ q.request \in BytesOf(16)
  BY DEF PingMessages
<1>3. \A q \in LockMessages : q.type \in {LOCK, UNLOCK} /\ q.request \in BytesOf(16)
  BY DEF LockMessages
<1> QED BY <1>1, <1>2, <1>3, TypesDiffer DEF Messages

(* What the server answers. *)
LEMMA AnswerFields ==
  ASSUME NEW q, NEW code, NEW content, NEW spoilt
  PROVE  LET a == Answer(q, code, content, spoilt)
         IN  /\ a.magic = IF spoilt = "magic" THEN 0 ELSE MAGIC
             /\ a.type = IF spoilt = "type" THEN 9 ELSE q.type
             /\ a.request = q.request /\ a.result = code /\ a.payload = Payload(content)
             /\ q.type \in {LOCK, UNLOCK} =>
                  /\ a.flag = IF content.kind = "none" THEN {} ELSE {CONTAINS_DATA}
                  /\ a.db = q.db /\ a.id = q.id /\ a.key = q.key /\ a.lcount = 513
                  /\ a.count = q.count /\ a.lrcount = 3 /\ a.rcount = q.rcount
             /\ q.type \notin {LOCK, UNLOCK} => a.initType = 4
<1>1. CASE q.type \in {LOCK, UNLOCK}
  BY <1>1 DEF Answer
<1>2. CASE q.type \notin {LOCK, UNLOCK}
  BY <1>2 DEF Answer
<1> QED BY <1>1, <1>2

(* It is an answer as the decoder expects one. *)
LEMMA AnswersTyped ==
  ASSUME NEW q \in Messages, NEW code \in Codes, NEW content \in Contents,
         NEW spoilt \in {"no", "magic", "type"}
  PROVE  LET a == Answer(q, code, content, spoilt)
         IN  /\ AnswerTyped(a) /\ a.request = q.request
             /\ a.type = INIT => q.type = INIT
             /\ HasData(a) => q.type \in {LOCK, UNLOCK}
<1> DEFINE a == Answer(q, code, content, spoilt)
<1>1. /\ a.magic = IF spoilt = "magic" THEN 0 ELSE MAGIC
      /\ a.type = IF spoilt = "type" THEN 9 ELSE q.type
      /\ a.request = q.request /\ a.result = code /\ a.payload = Payload(content)
      /\ q.type \in {LOCK, UNLOCK} =>
           /\ a.flag = IF content.kind = "none" THEN {} ELSE {CONTAINS_DATA}
           /\ a.db = q.db /\ a.id = q.id /\ a.key = q.key /\ a.lcount = 513
           /\ a.count = q.count /\ a.lrcount = 3 /\ a.rcount = q.rcount
      /\ q.type \notin {LOCK, UNLOCK} => a.initType = 4
  BY AnswerFields
<1> HIDE DEF a
<1>2. /\ q.type \in {INIT, PING, LOCK, UNLOCK} /\ q.request \in BytesOf(16)
      /\ q.type \in {LOCK, UNLOCK} => q \in LockMessages
  BY MessageTypes
<1>3. 9 \notin {INIT, PING, LOCK, UNLOCK} /\ 9 \in Byte /\ 0 \in Byte /\ 4 \in Byte /\ 3 \in Byte
      /\ 513 \in 0 .. U16MAX
  BY DEF INIT, PING, LOCK, UNLOCK, Byte, U16MAX
<1>4. a.type \in {LOCK, UNLOCK} => q.type \in {LOCK, UNLOCK}
  BY <1>1, <1>2, <1>3, TypesDiffer
<1>5. a.type = INIT => q.type = INIT
  BY <1>1, <1>3
<1>6. a.magic \in Byte /\ a.type \in Byte /\ a.result \in Byte
  BY <1>1, <1>2, <1>3, Constants, WireAssumption
<1>p. a.payload = Payload(content)
  BY <1>1
<1>7. /\ a.payload \in Seq(Byte) /\ ~ExceedsU32(Len(a.payload))
      /\ a.payload = << >> <=> content.kind = "none"
  BY <1>p, PayloadTyped, Zenon
<1>8. q.type \in {LOCK, UNLOCK} =>
       /\ a.flag \in SUBSET Flags8 /\ a.db \in Byte /\ a.id \in BytesOf(16)
       /\ a.key \in BytesOf(16) /\ a.lcount \in 0 .. U16MAX /\ a.count \in 0 .. U16MAX
       /\ a.lrcount \in Byte /\ a.rcount \in Byte
       /\ CONTAINS_DATA \in a.flag <=> a.payload # << >>
  <2> SUFFICES ASSUME q.type \in {LOCK, UNLOCK}
               PROVE  /\ a.flag \in SUBSET Flags8 /\ a.db \in Byte /\ a.id \in BytesOf(16)
                      /\ a.key \in BytesOf(16) /\ a.lcount \in 0 .. U16MAX
                      /\ a.count \in 0 .. U16MAX /\ a.lrcount \in Byte /\ a.rcount \in Byte
                      /\ CONTAINS_DATA \in a.flag <=> a.payload # << >>
    OBVIOUS
  <2>1. /\ q.db \in Byte /\ q.id \in BytesOf(16) /\ q.key \in BytesOf(16)
        /\ q.count \in 0 .. U16MAX /\ q.rcount \in Byte
    BY <1>2 DEF LockMessages
  <2>2. a.flag \in SUBSET Flags8 /\ (CONTAINS_DATA \in a.flag <=> content.kind # "none")
    BY <1>1, FlagsTyped
  <2> QED BY <1>1, <1>3, <1>7, <2>1, <2>2, Zenon
<1>9. a.type = INIT => a.initType \in Byte
  BY <1>1, <1>3, <1>5, TypesDiffer
<1>10. AnswerTyped(a)
  BY <1>1, <1>2, <1>4, <1>6, <1>7, <1>8, <1>9, Zenon DEF AnswerTyped
<1> QED BY <1>1, <1>4, <1>5, <1>10, Zenon DEF a, HasData

(* The default flags are pairs of flags. *)
LEMMA FlagPairsTyped ==
  /\ NoFlags \in FlagPairs /\ Defaults \subseteq FlagPairs
BY WireAssumption DEF NoFlags, FlagPairs

(***************************************************************************)
(* The calls, step by step.                                                *)
(***************************************************************************)

(* A call stays as it is when another one moves. *)
LEMMA CallOkSame ==
  ASSUME NEW c \in Callers, CallOk(c), at'[c] = at[c], opening' = opening \/ opening # "open",
         work' = work, made'[c] = made[c], lock'[c] = lock[c], cmd'[c] = cmd[c],
         frame'[c] = frame[c], c \in pending' <=> c \in pending,
         defaults' = defaults \/ made[c] = defaults
  PROVE  CallOk(c)'
<1>1. Called(c)' <=> Called(c)
  BY DEF Called
<1>2. at'[c] # "start" => opening' = "open" /\ c \in DOMAIN work'
  BY DEF CallOk
<1>3. at'[c] # "start" /\ work'[c].prim # "ping" =>
       lock'[c] = Handle(work'[c], TheDatabase(made'[c]), NewId(10 * c + 2))
  BY Zenon DEF CallOk
<1>4. Called(c)' =>
       /\ frame'[c] = Encode(cmd'[c])
       /\ cmd'[c] \in Messages /\ WellMade(cmd'[c]) /\ cmd'[c].request = RequestId(c)
  BY <1>1, Zenon DEF CallOk
<1>5. Called(c)' => IF work'[c].prim = "ping" THEN cmd'[c].type = PING
                    ELSE \E d \in {made'[c], defaults'} :
                           Right(work'[c], cmd'[c], made'[c], d, RequestId(c))
  <2>1. CASE work[c].prim = "ping"
    BY <1>1, <2>1, Zenon DEF CallOk
  <2>2. CASE work[c].prim # "ping" /\ Called(c)
    <3>1. PICK d \in {made[c], defaults} : Right(work[c], cmd[c], made[c], d, RequestId(c))
      BY <2>2, Zenon DEF CallOk
    <3>2. d \in {made'[c], defaults'}
      BY <3>1
    <3> QED BY <2>2, <3>1, <3>2, Zenon
  <2> QED BY <1>1, <2>1, <2>2
<1>6. /\ at'[c] \in {"send", "extra", "wait"} => frame'[c].ok
      /\ c \in pending' <=> at'[c] \in {"send", "extra", "wait"}
      /\ at'[c] = "extra" => frame'[c].extra # << >>
  BY Zenon DEF CallOk
<1> QED BY <1>2, <1>3, <1>4, <1>5, <1>6, Zenon DEF CallOk

(* All calls stay as they are when the server, the reader or open() move. *)
LEMMA CallInvSame ==
  ASSUME CallInv, opening' = opening \/ opening # "open",
         UNCHANGED <<callVars, defaults, at, pending>>
  PROVE  CallInv'
<1>1. \A c \in Callers : CallOk(c)'
  BY CallOkSame, Zenon DEF CallInv, callVars
<1> QED BY <1>1, Zenon DEF CallInv, callVars

(* The user changes the defaults of the database. *)
LEMMA CallInvDefaults ==
  ASSUME CallInv, SetDefaults
  PROVE  CallInv'
<1>1. \A c \in Callers : made[c] = defaults
  BY DEF CallInv, SetDefaults, NoFlags
<1>2. \A c \in Callers : CallOk(c)'
  BY <1>1, CallOkSame, Zenon DEF CallInv, SetDefaults, callVars
<1>3. defaults' \in FlagPairs
  BY FlagPairsTyped DEF SetDefaults
<1>4. made' \in [Callers -> {NoFlags, defaults'}]
  BY <1>1 DEF CallInv, SetDefaults, callVars, NoFlags
<1> QED BY <1>2, <1>3, <1>4, Zenon DEF CallInv, SetDefaults, callVars

(* A primitive is made. *)
LEMMA CallInvCreate ==
  ASSUME CallInv, NEW c \in DOMAIN work, Create(c)
  PROVE  CallInv'
<1>0. c \in Callers
  BY Operations DEF CallInv
<1>1. /\ at \in [Callers -> Phases] /\ made \in [Callers -> {NoFlags, defaults}]
      /\ DOMAIN lock = Callers
  BY DEF CallInv
<1>2. /\ at' = [at EXCEPT ![c] = "made"] /\ made' = [made EXCEPT ![c] = defaults]
      /\ DOMAIN lock' = Callers /\ \A b \in Callers : b # c => lock'[b] = lock[b]
      /\ work' = work /\ cmd' = cmd /\ frame' = frame /\ result' = result /\ opening' = opening
      /\ defaults' = defaults /\ pending' = pending /\ at[c] = "start" /\ opening = "open"
  BY <1>1 DEF Create
<1>3. at'[c] = "made" /\ made'[c] = defaults
  BY <1>0, <1>1, <1>2
<1>4. work[c].prim # "ping" =>
        lock'[c] = Handle(work[c], TheDatabase(defaults), NewId(10 * c + 2))
  BY <1>0, <1>1 DEF Create
<1>5. CallOk(c)'
  <2>1. ~Called(c)' /\ at'[c] \notin {"start", "send", "extra", "wait"}
    BY <1>3 DEF Called
  <2>2. c \notin pending'
    BY <1>0, <1>2 DEF CallInv, CallOk
  <2>3. c \in DOMAIN work'
    BY <1>2
  <2> QED BY <1>2, <1>3, <1>4, <2>1, <2>2, <2>3, Zenon DEF CallOk
<1>6. ASSUME NEW b \in Callers, b # c PROVE CallOk(b)'
  <2>1. at'[b] = at[b] /\ made'[b] = made[b] /\ lock'[b] = lock[b]
    BY <1>1, <1>2, <1>6
  <2>2. CallOk(b)
    BY DEF CallInv
  <2> QED BY <1>2, <2>1, <2>2, CallOkSame, Zenon
<1>7. at' \in [Callers -> Phases] /\ made' \in [Callers -> {NoFlags, defaults'}]
  BY <1>1, <1>2 DEF Phases
<1>8. \A b \in Callers : CallOk(b)'
  BY <1>5, <1>6, Zenon
<1> QED BY <1>2, <1>7, <1>8 DEF CallInv

(* The command that a call makes is right. *)
LEMMA CommandMade ==
  ASSUME CallInv, NEW c \in DOMAIN work, at[c] = "made"
  PROVE  LET q == CommandOf(work[c], TheDatabase(defaults), lock[c], NewId(10 * c + 3), RequestId(c))
         IN  /\ q \in Messages /\ WellMade(q) /\ q.request = RequestId(c)
             /\ IF work[c].prim = "ping" THEN q.type = PING
                ELSE Right(work[c], q, made[c], defaults, RequestId(c))
<1> DEFINE q == CommandOf(work[c], TheDatabase(defaults), lock[c], NewId(10 * c + 3), RequestId(c))
<1>1. c \in Callers /\ work[c] \in Operation
  BY Operations DEF CallInv
<1>2. /\ RequestId(c) \in BytesOf(16) /\ NewId(10 * c + 2) \in BytesOf(16)
      /\ NewId(10 * c + 3) \in BytesOf(16)
  BY <1>1, Ids
<1>3. CASE work[c].prim = "ping"
  <2>1. q = PingCommand(RequestId(c))
    BY <1>3 DEF CommandOf
  <2>2. q \in PingMessages /\ q.type = PING /\ q.request = RequestId(c)
    BY <1>2, <2>1 DEF PingCommand, PingMessages
  <2>3. q \notin LockMessages
    <3>1. \A m \in LockMessages : m.type \in {LOCK, UNLOCK}
      BY DEF LockMessages
    <3> QED BY <2>2, <3>1, TypesDiffer
  <2> QED BY <1>3, <2>2, <2>3, Zenon DEF WellMade, Messages
<1>4. CASE work[c].prim # "ping"
  <2>1. lock[c] = Handle(work[c], TheDatabase(made[c]), NewId(10 * c + 2))
    BY <1>1, <1>4 DEF CallInv, CallOk
  <2>2. made[c] \in FlagPairs /\ defaults \in FlagPairs
    BY <1>1, FlagPairsTyped DEF CallInv
  <2>3. Right(work[c],
              CommandOf(work[c], TheDatabase(defaults),
                        Handle(work[c], TheDatabase(made[c]), NewId(10 * c + 2)),
                        NewId(10 * c + 3), RequestId(c)),
              made[c], defaults, RequestId(c))
    BY <1>1, <1>2, <1>4, <2>2, CommandRight
  <2>4. Right(work[c], q, made[c], defaults, RequestId(c))
    BY <2>1, <2>3, Zenon
  <2> QED BY <1>4, <2>4, Zenon DEF Right, Messages
<1> QED BY <1>3, <1>4

(* A call is registered, or refused when its data cannot be encoded. *)
LEMMA CallInvCall ==
  ASSUME CallInv, NEW c \in DOMAIN work, Call(c)
  PROVE  /\ CallInv' /\ Called(c)' /\ at'[c] \in {"send", "done"}
         /\ \A b \in Callers : b # c => at'[b] = at[b] /\ frame'[b] = frame[b] /\ cmd'[b] = cmd[b]
                                        /\ result'[b] = result[b]
         /\ ~frame'[c].ok => result'[c] = [error |-> "LockData"]
         /\ at'[c] = "done" => ~frame'[c].ok
<1> DEFINE q == CommandOf(work[c], TheDatabase(defaults), lock[c], NewId(10 * c + 3), RequestId(c))
           e == Encode(q)
<1>0. c \in Callers
  BY Operations DEF CallInv
<1>1. /\ at \in [Callers -> Phases] /\ made \in [Callers -> {NoFlags, defaults}]
      /\ DOMAIN cmd = Callers /\ DOMAIN frame = Callers /\ DOMAIN result = Callers
  BY DEF CallInv
<1>2. /\ q \in Messages /\ WellMade(q) /\ q.request = RequestId(c)
      /\ IF work[c].prim = "ping" THEN q.type = PING
         ELSE Right(work[c], q, made[c], defaults, RequestId(c))
  BY CommandMade, Zenon DEF Call
<1>3. /\ cmd' = [cmd EXCEPT ![c] = q] /\ frame' = [frame EXCEPT ![c] = e]
      /\ at[c] = "made"
      /\ work' = work /\ made' = made /\ lock' = lock /\ opening' = opening
      /\ defaults' = defaults
      /\ IF e.ok THEN /\ at' = [at EXCEPT ![c] = "send"] /\ pending' = pending \cup {c}
                      /\ result' = result
         ELSE /\ at' = [at EXCEPT ![c] = "done"] /\ pending' = pending
              /\ result' = [result EXCEPT ![c] = [error |-> "LockData"]]
  BY Zenon DEF Call
<1> HIDE DEF q, e
<1>4. cmd'[c] = q /\ frame'[c] = e
  BY <1>0, <1>1, <1>3
<1>5. at'[c] = IF e.ok THEN "send" ELSE "done"
  BY <1>0, <1>1, <1>3
<1>6. c \in pending' <=> e.ok
  <2>1. c \notin pending
    BY <1>0, <1>3 DEF CallInv, CallOk
  <2> QED BY <1>3, <2>1
<1>7. CallOk(c)'
  <2>1. opening' = "open" /\ c \in DOMAIN work'
    BY <1>0, <1>3 DEF CallInv, CallOk
  <2>2. work'[c].prim # "ping" =>
          lock'[c] = Handle(work'[c], TheDatabase(made'[c]), NewId(10 * c + 2))
    BY <1>0, <1>3 DEF CallInv, CallOk
  <2>3. /\ frame'[c] = Encode(cmd'[c])
        /\ cmd'[c] \in Messages /\ WellMade(cmd'[c]) /\ cmd'[c].request = RequestId(c)
    BY <1>2, <1>4, Zenon DEF e
  <2>4. IF work'[c].prim = "ping" THEN cmd'[c].type = PING
        ELSE \E d \in {made'[c], defaults'} : Right(work'[c], cmd'[c], made'[c], d, RequestId(c))
    BY <1>2, <1>3, <1>4, Zenon
  <2>5. /\ at'[c] \in {"send", "extra", "wait"} => frame'[c].ok
        /\ c \in pending' <=> at'[c] \in {"send", "extra", "wait"}
        /\ at'[c] # "extra"
    BY <1>4, <1>5, <1>6
  <2> QED BY <2>1, <2>2, <2>3, <2>4, <2>5, Zenon DEF CallOk
<1>8. \A b \in Callers : b # c => at'[b] = at[b] /\ frame'[b] = frame[b] /\ cmd'[b] = cmd[b]
                                  /\ result'[b] = result[b] /\ (b \in pending' <=> b \in pending)
  BY <1>1, <1>3
<1>9. ASSUME NEW b \in Callers, b # c PROVE CallOk(b)'
  <2>1. CallOk(b)
    BY DEF CallInv
  <2> QED BY <1>3, <1>8, <1>9, <2>1, CallOkSame
<1>10. /\ at' \in [Callers -> Phases] /\ DOMAIN cmd' = Callers /\ DOMAIN frame' = Callers
       /\ DOMAIN result' = Callers
  BY <1>1, <1>3 DEF Phases
<1>11. CallInv'
  <2>1. \A b \in Callers : CallOk(b)'
    BY <1>7, <1>9, Zenon
  <2> QED BY <1>1, <1>3, <1>10, <2>1 DEF CallInv
<1>12. Called(c)'
  BY <1>5 DEF Called
<1>13. ~frame'[c].ok => result'[c] = [error |-> "LockData"]
  BY <1>0, <1>1, <1>3, <1>4
<1> QED BY <1>4, <1>5, <1>8, <1>11, <1>12, <1>13

(* A frame is written. *)
LEMMA CallInvWrite ==
  ASSUME CallInv, NEW c \in DOMAIN work, WriteHeader(c) \/ WriteExtra(c)
  PROVE  CallInv'
<1>0. c \in Callers
  BY Operations DEF CallInv
<1>1. at \in [Callers -> Phases]
  BY DEF CallInv
<1>2. /\ UNCHANGED <<callVars, opening, defaults, pending>>
      /\ at[c] \in {"send", "extra"} /\ DOMAIN at' = Callers
      /\ at'[c] \in {"wait", "extra"}
      /\ at'[c] = "extra" => frame[c].extra # << >>
      /\ \A b \in Callers : b # c => at'[b] = at[b]
  BY <1>0, <1>1 DEF WriteHeader, WriteExtra
<1>3. /\ work' = work /\ made' = made /\ lock' = lock /\ cmd' = cmd /\ frame' = frame
      /\ result' = result /\ opening' = opening /\ defaults' = defaults /\ pending' = pending
  BY <1>2 DEF callVars
<1>4. CallOk(c) /\ Called(c) /\ Called(c)'
  <2>1. CallOk(c)
    BY <1>0 DEF CallInv
  <2> QED BY <1>2, <2>1 DEF Called
<1>5. CallOk(c)'
  <2>1. /\ opening' = "open" /\ c \in DOMAIN work' /\ frame'[c].ok /\ c \in pending'
    BY <1>2, <1>3, <1>4 DEF CallOk
  <2>2. work'[c].prim # "ping" =>
          lock'[c] = Handle(work'[c], TheDatabase(made'[c]), NewId(10 * c + 2))
    BY <1>2, <1>3, <1>4 DEF CallOk
  <2>3. /\ frame'[c] = Encode(cmd'[c])
        /\ cmd'[c] \in Messages /\ WellMade(cmd'[c]) /\ cmd'[c].request = RequestId(c)
        /\ IF work'[c].prim = "ping" THEN cmd'[c].type = PING
           ELSE \E d \in {made'[c], defaults'} : Right(work'[c], cmd'[c], made'[c], d, RequestId(c))
    BY <1>3, <1>4, Zenon DEF CallOk
  <2>4. at'[c] \in {"send", "extra", "wait"} /\ (at'[c] = "extra" => frame'[c].extra # << >>)
    BY <1>2, <1>3
  <2> QED BY <2>1, <2>2, <2>3, <2>4, Zenon DEF CallOk
<1>6. ASSUME NEW b \in Callers, b # c PROVE CallOk(b)'
  <2>1. CallOk(b)
    BY DEF CallInv
  <2> QED BY <1>2, <1>3, <1>6, <2>1, CallOkSame, Zenon
<1>7. \A b \in Callers : CallOk(b)'
  BY <1>5, <1>6, Zenon
<1>8. at' \in [Callers -> Phases]
  <2>1. at'[c] \in Phases
    BY <1>2 DEF Phases
  <2>2. at' = [at EXCEPT ![c] = at'[c]]
    BY <1>0, <1>1 DEF WriteHeader, WriteExtra
  <2> QED BY <1>1, <2>1, <2>2
<1> QED BY <1>3, <1>7, <1>8 DEF CallInv

(* An answer is delivered: the call that it names ends, and no other. *)
LEMMA CallInvDeliver ==
  ASSUME CallInv, NEW data, Deliver(data)
  PROVE  /\ CallInv'
         /\ \A c \in Callers : at'[c] = at[c] \/ (at'[c] = "done" /\ c \in pending
                                                  /\ RequestId(c) = RequestIdOf(reader.header))
<1> DEFINE id == RequestIdOf(reader.header)
<1>1. /\ at \in [Callers -> Phases] /\ DOMAIN result = Callers
  BY DEF CallInv
<1>2. /\ pending' = {c \in pending : RequestId(c) # id}
      /\ at' = [c \in Callers |-> IF c \in pending /\ RequestId(c) = id THEN "done" ELSE at[c]]
      /\ DOMAIN result' = Callers
      /\ work' = work /\ made' = made /\ lock' = lock /\ cmd' = cmd /\ frame' = frame
      /\ opening' = opening /\ defaults' = defaults
  BY DEF Deliver
<1> HIDE DEF id
<1>3. at' \in [Callers -> Phases]
  BY <1>1, <1>2 DEF Phases
<1>4. ASSUME NEW c \in Callers, c \in pending, RequestId(c) = id PROVE CallOk(c)'
  <2>1. CallOk(c) /\ at'[c] = "done" /\ c \notin pending'
    BY <1>2, <1>4 DEF CallInv
  <2>2. Called(c) /\ at[c] # "start" /\ Called(c)'
    BY <1>4, <2>1 DEF CallOk, Called
  <2>3. /\ opening' = "open" /\ c \in DOMAIN work'
        /\ work'[c].prim # "ping" =>
             lock'[c] = Handle(work'[c], TheDatabase(made'[c]), NewId(10 * c + 2))
        /\ frame'[c] = Encode(cmd'[c])
        /\ cmd'[c] \in Messages /\ WellMade(cmd'[c]) /\ cmd'[c].request = RequestId(c)
        /\ IF work'[c].prim = "ping" THEN cmd'[c].type = PING
           ELSE \E d \in {made'[c], defaults'} : Right(work'[c], cmd'[c], made'[c], d, RequestId(c))
    BY <1>2, <2>1, <2>2, Zenon DEF CallOk
  <2>4. at'[c] \notin {"send", "extra", "wait"}
    BY <2>1
  <2> QED BY <2>1, <2>3, <2>4, Zenon DEF CallOk
<1>5. ASSUME NEW c \in Callers, ~(c \in pending /\ RequestId(c) = id) PROVE CallOk(c)'
  <2>1. CallOk(c) /\ at'[c] = at[c] /\ (c \in pending' <=> c \in pending)
    BY <1>2, <1>5 DEF CallInv
  <2> QED BY <1>2, <2>1, CallOkSame, Zenon
<1>6. \A c \in Callers : CallOk(c)'
  BY <1>4, <1>5, Zenon
<1>7. CallInv'
  BY <1>2, <1>3, <1>6 DEF CallInv
<1>8. \A c \in Callers : at'[c] = at[c] \/ (at'[c] = "done" /\ c \in pending /\ RequestId(c) = id)
  BY <1>2
<1> QED BY <1>7, <1>8, Zenon DEF id

(* Who has been sent. *)
LEMMA SentOfCall ==
  ASSUME CallInv, SentInv, NEW c \in Callers, NEW j, j \in 1 .. Len(sent),
         sent[j].request = RequestId(c)
  PROVE  /\ sent[j] = cmd[c] /\ frame[c].ok /\ at[c] \in {"extra", "wait", "done"}
         /\ at[c] = "extra" => j = Len(sent)
<1>1. IsSent(sent[j])
  BY DEF SentInv
<1>2. sent[j] # InitRequest
  BY InitSent, Ids
<1>3. PICK b \in Callers : Called(b) /\ at[b] # "send" /\ frame[b].ok /\ sent[j] = cmd[b]
  BY <1>1, <1>2, Zenon DEF IsSent
<1>4. cmd[b].request = RequestId(b)
  BY <1>3, Zenon DEF CallInv, CallOk
<1>5. b = c
  BY <1>3, <1>4, Ids
<1>6. at[c] \in {"extra", "wait", "done"}
  BY <1>3, <1>5 DEF CallInv, Called, Phases
<1>7. at[c] = "extra" => j = Len(sent)
  BY <1>3, <1>5 DEF SentInv, InPart
<1> QED BY <1>3, <1>5, <1>6, <1>7

(* The request with the id of a call is the command of that call. *)
LEMMA HeardOfCall ==
  ASSUME CallInv, SentInv, HeardInv, NEW c \in Callers, NEW i, i \in 1 .. Len(heard),
         heard[i].request = RequestId(c)
  PROVE  heard[i] = cmd[c] /\ frame[c].ok /\ at[c] \in {"wait", "done"}
<1>1. /\ Len(heard) \in Nat /\ Len(sent) \in Nat /\ Written \in Nat /\ Len(heard) <= Written
      /\ heard[i] = sent[i]
  BY FlightTyped, LenProperties DEF HeardInv, SentInv
<1>2. i \in 1 .. Len(sent)
  BY <1>1 DEF Written
<1>3. /\ sent[i] = cmd[c] /\ frame[c].ok /\ at[c] \in {"extra", "wait", "done"}
      /\ at[c] = "extra" => i = Len(sent)
  BY <1>1, <1>2, SentOfCall
<1>4. at[c] # "extra"
  <2> SUFFICES ASSUME at[c] = "extra" PROVE FALSE
    OBVIOUS
  <2>1. ~WriterFree
    BY DEF WriterFree
  <2> QED BY <1>1, <1>3, <2>1 DEF Written
<1> QED BY <1>1, <1>3, <1>4

(* The answer with the id of a call is to a call that was sent. *)
LEMMA SaidOfCall ==
  ASSUME CallInv, SentInv, HeardInv, SaidInv, NEW c \in Callers, NEW k, k \in 1 .. Len(said),
         said[k].request = RequestId(c)
  PROVE  frame[c].ok /\ at[c] \in {"wait", "done"} /\ said[k].type # INIT
<1>1. PICK i \in 1 .. Len(heard) : heard[i].request = said[k].request
  BY DEF SaidInv
<1>2. said[k].type # INIT
  BY Ids DEF SaidInv
<1>3. frame[c].ok /\ at[c] \in {"wait", "done"}
  BY <1>1, HeardOfCall
<1> QED BY <1>2, <1>3

(* A step that writes nothing and reads nothing of the requests. *)
LEMMA IsSentSame ==
  ASSUME NEW q, IsSent(q),
         \A c \in Callers : Called(c) /\ at[c] # "send" /\ frame[c].ok =>
           Called(c)' /\ at'[c] # "send" /\ frame'[c].ok /\ cmd'[c] = cmd[c]
  PROVE  IsSent(q)'
<1>1. CASE q = InitRequest
  BY <1>1, Zenon DEF IsSent
<1>2. CASE \E c \in Callers : Called(c) /\ at[c] # "send" /\ frame[c].ok /\ q = cmd[c]
  BY <1>2, Zenon DEF IsSent
<1> QED BY <1>1, <1>2, Zenon DEF IsSent

(***************************************************************************)
(* The requests, step by step.                                             *)
(***************************************************************************)

(* What does not touch the stream to the server keeps it in step. *)
LEMMA RequestsSame ==
  ASSUME SentInv, HeardInv, sent' = sent, heard' = heard, toServer' = toServer,
         opening' = opening \/ opening' # "start",
         \A c \in Callers : at'[c] = "extra" <=> at[c] = "extra",
         \A c \in Callers : Called(c) /\ at[c] # "send" =>
           /\ Called(c)' /\ at'[c] # "send" /\ frame'[c] = frame[c] /\ cmd'[c] = cmd[c]
  PROVE  SentInv' /\ HeardInv'
<1>1. \A q : IsSent(q) => IsSent(q)'
  BY IsSentSame
<1>2. \A c \in Callers : at[c] = "extra" => Called(c) /\ at[c] # "send"
  BY DEF Called
<1>3. ASSUME NEW c \in Callers, at'[c] = "extra" PROVE InPart(c)'
  <2>1. InPart(c) /\ cmd'[c] = cmd[c]
    BY <1>2, <1>3 DEF SentInv
  <2> QED BY <2>1, Zenon DEF InPart
<1>4. SentInv'
  <2>1. ASSUME NEW j, j \in 1 .. Len(sent') PROVE IsSent(sent[j])'
    <3>1. IsSent(sent[j])
      BY <2>1 DEF SentInv
    <3> DEFINE q == sent[j]
    <3>2. IsSent(q) /\ q = sent'[j]
      BY <3>1
    <3> QED BY <3>2, IsSentSame, Zenon DEF IsSent
  <2>2. opening' = "start" => sent' = << >> /\ toServer' = << >>
    BY DEF SentInv
  <2> QED BY <1>3, <2>1, <2>2 DEF SentInv
<1>5. WriterFree' <=> WriterFree
  BY DEF WriterFree
<1>6. Written' = Written /\ Part' = Part /\ Frames' = Frames
  BY <1>5 DEF Written, Part, Frames
<1>7. HeardInv'
  BY <1>6 DEF HeardInv
<1> QED BY <1>4, <1>7

(* Append keeps what is there. *)
LEMMA AppendIs ==
  ASSUME NEW S, NEW s \in Seq(S), NEW e \in S
  PROVE  /\ Append(s, e) \in Seq(S) /\ Len(Append(s, e)) = Len(s) + 1 /\ Len(s) \in Nat
         /\ Append(s, e)[Len(s) + 1] = e
         /\ \A j : j \in 1 .. Len(s) => Append(s, e)[j] = s[j]
BY AppendProperties, LenProperties

(* open() sends INIT. *)
LEMMA RequestsOpen ==
  ASSUME CallInv, SentInv, HeardInv, OpenSend
  PROVE  SentInv' /\ HeardInv'
<1> DEFINE h == Encode(InitRequest).header
<1>1. /\ sent = << >> /\ toServer = << >> /\ opening = "start" /\ opening' = "sent"
      /\ sent' = <<InitRequest>> /\ toServer' = h /\ heard' = heard /\ at' = at /\ cmd' = cmd
  BY DEF OpenSend, SentInv, callVars
<1>2. \A c \in Callers : at[c] = "start"
  BY <1>1 DEF CallInv, CallOk
<1>3. WriterFree /\ WriterFree'
  BY <1>1, <1>2 DEF WriterFree
<1>4. Len(sent') = 1 /\ sent'[1] = InitRequest /\ Len(sent) = 0
  BY <1>1
<1>5. Len(heard) = 0
  <2>1. Len(heard) \in Nat /\ Len(heard) <= Written /\ Written = 0
    BY <1>3, <1>4, FlightTyped DEF HeardInv, Written
  <2> QED BY <2>1
<1>6. sent' \in Seq(Messages) /\ heard' \in Seq(Messages)
  BY <1>1, InitSent DEF SentInv
<1>7. SentInv'
  <2>1. \A j \in 1 .. Len(sent') : IsSent(sent[j])'
    BY <1>4 DEF IsSent
  <2> QED BY <1>1, <1>2, <1>6, <2>1 DEF SentInv
<1>8. FrameOf(InitRequest) = h /\ FrameOf(InitRequest) \in Seq(Byte)
  BY FrameJoined, InitSent, Zenon
<1>9. Frames'[1] = FrameOf(InitRequest)
  BY <1>4 DEF Frames
<1> HIDE DEF h
<1>10. InFlight(h, 0, 1, Frames', << >>)
  <2>1. InFlight(<< >>, 0, 0, Frames', << >>)
    BY FlightEmpty, 0 \in Nat, Zenon
  <2> DEFINE F == Frames'
  <2> HIDE DEF F
  <2>2. InFlight(<< >>, 0, 0, F, << >>) /\ F[1] = h /\ h \in Seq(Byte)
    BY <1>8, <1>9, <2>1 DEF F
  <2>3. InFlight(<< >> \o h, 0, 1, F, << >>)
    BY <2>2, FlightSend, 0 + 1 = 1
  <2>4. << >> \o h = h
    BY <1>8, ConcatEmptySeq, Zenon
  <2> QED BY <2>3, <2>4, Zenon DEF F
<1>11. HeardInv'
  <2>1. Written' = 1 /\ Part' = << >> /\ Len(heard') = 0
    BY <1>1, <1>3, <1>4, <1>5 DEF Written, Part
  <2>2. InFlight(toServer', Len(heard'), Written', Frames', Part')
    BY <1>1, <1>10, <2>1, Zenon
  <2> QED BY <2>1, <2>2 DEF HeardInv
<1> QED BY <1>7, <1>11

(* A header is written, alone or before its data. *)
LEMMA RequestsWriteHeader ==
  ASSUME CallInv, SentInv, HeardInv, NEW c \in DOMAIN work, WriteHeader(c)
  PROVE  SentInv' /\ HeardInv'
<1> DEFINE n == Len(sent)  h == Encode(cmd[c]).header
<1>0. c \in Callers
  BY Operations DEF CallInv
<1>1. /\ at[c] = "send" /\ WriterFree /\ toServer' = toServer \o frame[c].header
      /\ sent' = Append(sent, cmd[c]) /\ heard' = heard /\ cmd' = cmd /\ frame' = frame
      /\ opening' = opening
  BY DEF WriteHeader, callVars
<1>2. at'[c] = (IF frame[c].extra = << >> THEN "wait" ELSE "extra")
      /\ \A b \in Callers : b # c => at'[b] = at[b]
  BY <1>0 DEF WriteHeader, CallInv
<1>3. /\ frame[c] = Encode(cmd[c]) /\ frame[c].ok /\ cmd[c] \in Messages /\ WellMade(cmd[c])
      /\ cmd[c].request = RequestId(c) /\ opening = "open"
  BY <1>0, <1>1 DEF CallInv, CallOk, Called
<1>4. /\ sent' \in Seq(Messages) /\ Len(sent') = n + 1 /\ n \in Nat /\ sent'[n + 1] = cmd[c]
      /\ \A j : j \in 1 .. n => sent'[j] = sent[j]
  BY <1>1, <1>3, AppendIs DEF SentInv
<1>5. \A b \in Callers : at[b] # "extra"
  BY <1>1 DEF WriterFree
<1>6. \A j : j \in 1 .. n => sent[j] # cmd[c]
  BY <1>0, <1>1, <1>3, SentOfCall
<1>7. ASSUME NEW j, j \in 1 .. n + 1 PROVE IsSent(sent[j])'
  <2>1. CASE j = n + 1
    <3>1. /\ sent'[j] = cmd'[c] /\ at'[c] # "send" /\ Called(c)' /\ frame'[c].ok
      BY <1>1, <1>2, <1>3, <1>4, <2>1 DEF Called
    <3> QED BY <1>0, <3>1, Zenon DEF IsSent
  <2>2. CASE j \in 1 .. n
    <3> DEFINE q == sent[j]
    <3>1. IsSent(q) /\ sent'[j] = q
      BY <1>4, <2>2 DEF SentInv
    <3> HIDE DEF q
    <3>2. CASE q = InitRequest
      BY <3>1, <3>2, Zenon DEF IsSent
    <3>3. CASE \E b \in Callers : Called(b) /\ at[b] # "send" /\ frame[b].ok /\ q = cmd[b]
      <4>1. PICK b \in Callers : Called(b) /\ at[b] # "send" /\ frame[b].ok /\ q = cmd[b]
        BY <3>3
      <4>2. b # c
        BY <1>1, <4>1
      <4>3. Called(b)' /\ at'[b] # "send" /\ frame'[b].ok /\ sent'[j] = cmd'[b]
        BY <1>1, <1>2, <3>1, <4>1, <4>2 DEF Called
      <4> QED BY <4>3, Zenon DEF IsSent
    <3> QED BY <3>1, <3>2, <3>3, Zenon DEF IsSent
  <2> QED BY <1>4, <1>7, <2>1, <2>2
<1>8. ASSUME NEW b \in Callers, at'[b] = "extra" PROVE InPart(b)'
  <2>1. b = c
    BY <1>2, <1>5, <1>8
  <2>2. Len(sent') > 0 /\ sent'[Len(sent')] = cmd'[c]
    BY <1>1, <1>4
  <2>3. \A k \in Callers : at'[k] = "extra" => k = c
    BY <1>2, <1>5
  <2>4. \A j : j \in 1 .. Len(sent') /\ sent'[j] = cmd'[c] => j = Len(sent')
    BY <1>1, <1>4, <1>6
  <2> QED BY <2>1, <2>2, <2>3, <2>4 DEF InPart
<1>9. SentInv'
  BY <1>1, <1>3, <1>4, <1>7, <1>8 DEF SentInv
<1>10. /\ h \in BytesOf(64) /\ h \in Seq(Byte) /\ frame[c].header = h
       /\ Encode(cmd[c]).extra = << >> => FrameOf(cmd[c]) = h
  BY <1>3, FrameJoined, Zenon
<1>11. InFlight(toServer, Len(heard), n, Frames, << >>) /\ Len(heard) \in Nat /\ Len(heard) <= n
  BY <1>1, FlightTyped DEF HeardInv, Written, Part
<1>12. \A j : j \in Len(heard) + 1 .. n => Frames'[j] = Frames[j]
  BY <1>4, <1>11 DEF Frames
<1>13. Frames'[n + 1] = FrameOf(cmd[c])
  BY <1>4 DEF Frames
<1>14. InFlight(toServer', Len(heard'), Written', Frames', Part')
  <2> DEFINE F == Frames'  G == Frames  k == Len(heard)
  <2>0. /\ InFlight(toServer, k, n, G, << >>) /\ \A j : j \in k + 1 .. n => F[j] = G[j]
    BY <1>11, <1>12
  <2>1. CASE frame[c].extra = << >>
    <3>1. WriterFree'
      BY <1>2, <1>5, <2>1 DEF WriterFree
    <3>2. Written' = n + 1 /\ Part' = << >>
      BY <1>4, <3>1 DEF Written, Part
    <3>3. F[n + 1] = h
      BY <1>3, <1>10, <1>13, <2>1
    <3> HIDE DEF F, G, k, n, h
    <3>4. InFlight(toServer \o F[n + 1], k, n + 1, F, << >>)
      BY <1>10, <2>0, <3>3, FlightSend
    <3>5. toServer' = toServer \o F[n + 1] /\ Len(heard') = k
      BY <1>1, <1>10, <3>3 DEF k
    <3> QED BY <3>2, <3>4, <3>5, Zenon DEF F
  <2>2. CASE frame[c].extra # << >>
    <3>1. ~WriterFree'
      BY <1>0, <1>2, <2>2 DEF WriterFree
    <3>2. Written' = n /\ Part' = h
      BY <1>4, <3>1 DEF Written, Part
    <3> HIDE DEF F, G, k, n, h
    <3>3. InFlight(toServer \o h, k, n, F, h)
      BY <1>10, <2>0, FlightSendPart
    <3>4. toServer' = toServer \o h /\ Len(heard') = k
      BY <1>1, <1>10 DEF k
    <3> QED BY <3>2, <3>3, <3>4, Zenon DEF F
  <2> QED BY <2>1, <2>2
<1>15. \A j \in 1 .. Len(heard') : heard'[j] = sent'[j]
  BY <1>1, <1>4, <1>11 DEF HeardInv
<1> QED BY <1>9, <1>14, <1>15 DEF HeardInv

(* The data follows its header: the writer was not free in between. *)
LEMMA RequestsWriteExtra ==
  ASSUME CallInv, SentInv, HeardInv, NEW c \in DOMAIN work, WriteExtra(c)
  PROVE  SentInv' /\ HeardInv'
<1> DEFINE n == Len(sent)  q == cmd[c]  k == Len(heard)
<1>0. c \in Callers
  BY Operations DEF CallInv
<1>1. /\ at[c] = "extra" /\ toServer' = toServer \o frame[c].extra /\ sent' = sent
      /\ heard' = heard /\ cmd' = cmd /\ frame' = frame /\ opening' = opening
  BY DEF WriteExtra, callVars
<1>2. at'[c] = "wait" /\ \A b \in Callers : b # c => at'[b] = at[b]
  BY <1>0 DEF WriteExtra, CallInv
<1>3. frame[c] = Encode(q) /\ frame[c].ok /\ WellMade(q) /\ opening = "open"
  BY <1>0, <1>1 DEF CallInv, CallOk, Called
<1>4. InPart(c)
  BY <1>0, <1>1 DEF SentInv
<1>5. \A b \in Callers : at'[b] # "extra"
  BY <1>2, <1>4 DEF InPart
<1>6. WriterFree' /\ ~WriterFree
  BY <1>0, <1>1, <1>5 DEF WriterFree
<1>7. ASSUME NEW j, j \in 1 .. Len(sent') PROVE IsSent(sent[j])'
  <2> DEFINE p == sent[j]
  <2>1. IsSent(p) /\ sent'[j] = p
    BY <1>1, <1>7 DEF SentInv
  <2>2. \A b \in Callers : Called(b) /\ at[b] # "send" /\ frame[b].ok =>
          Called(b)' /\ at'[b] # "send" /\ frame'[b].ok /\ cmd'[b] = cmd[b]
    BY <1>1, <1>2 DEF Called
  <2> QED BY <2>1, <2>2, IsSentSame, Zenon DEF IsSent
<1>8. SentInv'
  BY <1>1, <1>3, <1>5, <1>7 DEF SentInv
<1>9. n \in Nat /\ n > 0 /\ n - 1 + 1 = n /\ n - 1 \in Nat /\ sent[n] = q
  BY <1>4, LenProperties DEF InPart, SentInv
<1>10. Written = n - 1 /\ Part = Encode(q).header /\ Written' = n /\ Part' = << >>
  BY <1>1, <1>6, <1>9 DEF Written, Part
<1>11. InFlight(toServer, k, n - 1, Frames, Encode(q).header)
  BY <1>10 DEF HeardInv
<1>12. Frames[n] = FrameOf(q) /\ Frames' = Frames
  BY <1>1, <1>9 DEF Frames
<1>13. Joined(FrameOf(q), Encode(q).header, Encode(q).extra)
  BY <1>3, FrameJoined, Zenon
<1>14. InFlight(toServer', Len(heard'), Written', Frames', Part')
  <2> DEFINE F == Frames  m == n - 1
  <2>1. /\ InFlight(toServer, k, m, F, Encode(q).header)
        /\ Joined(F[m + 1], Encode(q).header, Encode(q).extra)
    BY <1>9, <1>11, <1>12, <1>13
  <2> HIDE DEF F, m, q
  <2>2. InFlight(toServer \o Encode(q).extra, k, m + 1, F, << >>)
    BY <2>1, FlightSendRest
  <2>3. toServer' = toServer \o Encode(q).extra /\ Frames' = F /\ Written' = m + 1
    BY <1>1, <1>3, <1>9, <1>10, <1>12 DEF m, F
  <2> QED BY <1>1, <1>10, <2>2, <2>3, Zenon
<1>15. \A j \in 1 .. Len(heard') : heard'[j] = sent'[j]
  BY <1>1 DEF HeardInv
<1> QED BY <1>8, <1>14, <1>15 DEF HeardInv

(* The bytes of a frame at the start of a stream. *)
LEMMA StreamStart ==
  ASSUME NEW w, NEW h \in BytesOf(64), NEW u, Joined(w, h, u)
  PROVE  /\ Len(w) >= HEADER_LEN /\ SubSeq(w, 1, HEADER_LEN) = h /\ Rest(w, HEADER_LEN) = u
         /\ RequestHasData(w) <=> RequestHasData(h)
         /\ u \in Seq(Byte) /\ w \in Seq(Byte)
<1>1. HEADER_LEN = 64
  BY DEF HEADER_LEN
<1>2. SubSeq(w, 1, 64) = h /\ Rest(w, 64) = u
  BY FirstPart
<1>3. /\ w \in Seq(Byte) /\ Len(w) = Len(h) + Len(u) /\ Len(u) \in Nat
      /\ \A i \in 1 .. Len(h) : w[i] = h[i]
  BY JoinedBytes
<1>4. Len(h) = 64 /\ u \in Seq(Byte)
  BY DEF BytesOf, Joined
<1>5. At(w, 2) = At(h, 2) /\ At(w, 19) = At(h, 19)
  BY <1>3, <1>4 DEF At
<1>6. Len(w) >= 64
  BY <1>3, <1>4
<1>7. RequestHasData(w) <=> RequestHasData(h)
  BY <1>5 DEF RequestHasData
<1> QED BY <1>1, <1>2, <1>3, <1>4, <1>6, <1>7

(* Where the data behind a header is, and what is behind it. *)
LEMMA StreamRest ==
  ASSUME NEW w, NEW h \in BytesOf(HEADER_LEN), NEW u, Joined(w, h, u), NEW d, NEW r, Joined(u, d, r)
  PROVE  LET n == HEADER_LEN + Len(d)
         IN  SubSeq(w, HEADER_LEN + 1, n) = d /\ Rest(w, n) = r /\ n > 0
<1> DEFINE n == HEADER_LEN + Len(d)  f == h \o d
<1>h. h \in BytesOf(64)
  BY DEF HEADER_LEN
<1>1. h \in Seq(Byte) /\ d \in Seq(Byte) /\ r \in Seq(Byte) /\ u = d \o r /\ w = h \o u
  BY DEF Joined, BytesOf
<1>2. Len(d) \in Nat /\ d \in BytesOf(Len(d)) /\ r \in BytesOf(Len(r)) /\ Len(r) \in Nat
  BY <1>1, SizeOf
<1>3. f \in Seq(Byte) /\ Joined(f, h, d)
  BY <1>1, ConcatProperties DEF Joined
<1>4. Joined(w, f, r)
  <2>1. h \o (d \o r) = (h \o d) \o r
    <3>1. h \in Seq(Byte) /\ d \in Seq(Byte) /\ r \in Seq(Byte)
      BY <1>1
    <3> QED BY <3>1, BytesAssociative, Zenon
  <2> QED BY <1>1, <1>3, <2>1, Zenon DEF Joined
<1>5. f \in BytesOf(n) /\ n \in Nat /\ n > 0
  <2>1. f \in BytesOf(64 + Len(d))
    BY <1>h, <1>2, <1>3, Concat
  <2> QED BY <1>2, <2>1 DEF HEADER_LEN
<1> HIDE DEF f
<1>6. Rest(w, n) = r
  BY <1>4, <1>5, FirstPart
<1>7. Has(f, HEADER_LEN, Len(d), d)
  <2>1. Has(f, 64, Len(d), d)
    BY <1>h, <1>2, <1>3, HasRight
  <2> QED BY <2>1 DEF HEADER_LEN
<1>8. Has(w, HEADER_LEN, Len(d), d)
  BY <1>4, <1>7, HasLeft
<1>9. SubSeq(w, HEADER_LEN + 1, n) = d
  BY <1>8, Zenon DEF Has, Slice
<1> QED BY <1>5, <1>6, <1>9, Zenon

(* The next request is read off the stream whole, and as it was sent. *)
LEMMA RequestRead ==
  ASSUME NEW q, WellMade(q), Encode(q).ok, NEW r, Joined(toServer, FrameOf(q), r)
  PROVE  /\ FrameLen > 0 /\ Rest(toServer, FrameLen) = r
         /\ ReadRequest(SubSeq(toServer, 1, HEADER_LEN),
                        SubSeq(toServer, HEADER_LEN + 1, FrameLen)) = q
<1> DEFINE w == toServer  h == Encode(q).header  d == Encode(q).extra
<1>w. Joined(w, FrameOf(q), r)
  OBVIOUS
<1>1. h \in BytesOf(64) /\ Joined(FrameOf(q), h, d)
  BY FrameJoined, Zenon
<1>2. /\ d \in Seq(Byte) /\ (RequestHasData(h) <=> d # << >>) /\ ReadRequest(h, d) = q
      /\ d # << >> => \A x, t : Joined(x, d, t) => DataLen(x) = Len(d)
  BY ReadBack
<1> HIDE DEF w, h, d
<1>3. PICK u : Joined(w, h, u) /\ Joined(u, d, r)
  BY <1>w, <1>1, JoinedAgain
<1>4. /\ Len(w) >= HEADER_LEN /\ SubSeq(w, 1, HEADER_LEN) = h /\ Rest(w, HEADER_LEN) = u
      /\ RequestHasData(w) <=> RequestHasData(h)
  BY <1>1, <1>3, StreamStart
<1>5. /\ SubSeq(w, HEADER_LEN + 1, HEADER_LEN + Len(d)) = d /\ Rest(w, HEADER_LEN + Len(d)) = r
      /\ HEADER_LEN + Len(d) > 0
  <2> DEFINE n == HEADER_LEN + Len(d)
  <2>1. h \in BytesOf(HEADER_LEN) /\ Joined(w, h, u) /\ Joined(u, d, r)
    BY <1>1, <1>3 DEF HEADER_LEN
  <2>2. SubSeq(w, HEADER_LEN + 1, n) = d /\ Rest(w, n) = r /\ n > 0
    BY <2>1, StreamRest, Zenon
  <2> QED BY <2>2, Zenon
<1>6. ~(Len(w) < HEADER_LEN)
  <2>1. Len(w) \in Nat /\ HEADER_LEN \in Nat
    BY <1>3, JoinedBytes, LenProperties DEF HEADER_LEN
  <2> QED BY <1>4, <2>1
<1>7. FrameLen = HEADER_LEN + Len(d)
  <2>1. CASE d = << >>
    <3>1. Len(d) = 0 /\ HEADER_LEN + 0 = HEADER_LEN
      BY <2>1, NoBytes DEF HEADER_LEN
    <3>2. FrameLen = HEADER_LEN
      BY <1>2, <1>4, <1>6, <2>1, Zenon DEF FrameLen, w
    <3> QED BY <3>1, <3>2
  <2>2. CASE d # << >>
    <3>1. DataLen(u) = Len(d)
      BY <1>2, <1>3, <2>2
    <3>2. Len(d) # 0
      BY <1>2, <2>2, EmptySeq
    <3> QED BY <1>2, <1>4, <1>6, <2>2, <3>1, <3>2, Zenon DEF FrameLen, w
  <2> QED BY <2>1, <2>2
<1> QED BY <1>2, <1>4, <1>5, <1>7 DEF w

(* Nothing is read when all that was written has been read. *)
LEMMA ReadsNext ==
  ASSUME CallInv, SentInv, HeardInv, FrameLen > 0
  PROVE  Len(heard) # Written
<1> SUFFICES ASSUME Len(heard) = Written PROVE FALSE
  OBVIOUS
<1>1. toServer = Part
  BY FlightDone DEF HeardInv
<1>2. 0 < HEADER_LEN /\ HEADER_LEN \in Nat
  BY DEF HEADER_LEN
<1>3. CASE WriterFree
  <2>1. Len(toServer) = 0
    BY <1>1, <1>3, NoBytes DEF Part
  <2>2. FrameLen = 0
    BY <1>2, <2>1 DEF FrameLen
  <2> QED BY <2>2
<1>4. CASE ~WriterFree
  <2>1. PICK c \in Callers : at[c] = "extra"
    BY <1>4 DEF WriterFree
  <2>2. sent[Len(sent)] = cmd[c]
    BY <2>1 DEF SentInv, InPart
  <2>3. frame[c] = Encode(cmd[c]) /\ WellMade(cmd[c]) /\ frame[c].ok /\ frame[c].extra # << >>
    BY <2>1 DEF CallInv, CallOk, Called
  <2> DEFINE h == Encode(cmd[c]).header
  <2>4. h \in BytesOf(64) /\ h \in Seq(Byte) /\ RequestHasData(h)
    BY <2>3, ReadBack, FrameJoined, Zenon
  <2>5. toServer = h
    BY <1>1, <1>4, <2>2, Zenon DEF Part
  <2> HIDE DEF h
  <2>6. Joined(toServer, h, << >>)
    BY <2>4, <2>5, NoBytesJoined, Zenon
  <2>7. /\ Len(toServer) >= HEADER_LEN /\ Rest(toServer, HEADER_LEN) = << >>
        /\ RequestHasData(toServer) <=> RequestHasData(h)
    BY <2>4, <2>6, StreamStart
  <2>8. Len(toServer) \in Nat /\ ~(Len(toServer) < HEADER_LEN)
    BY <1>2, <2>4, <2>5, <2>7, LenProperties
  <2>9. FrameLen = 0
    BY <2>4, <2>7, <2>8, NoLength, Zenon DEF FrameLen
  <2> QED BY <2>9
<1> QED BY <1>3, <1>4

(* The server reads the next request, and all of it. *)
LEMMA RequestsRead ==
  ASSUME CallInv, SentInv, HeardInv, ServerReads
  PROVE  SentInv' /\ HeardInv' /\ Len(heard') = Len(heard) + 1 /\ Len(heard) \in Nat
         /\ \A i \in 1 .. Len(heard) : heard'[i] = heard[i]
<1> DEFINE k == Len(heard)  q == sent[k + 1]  n == FrameLen
<1>1. /\ n > 0
      /\ heard' = Append(heard, ReadRequest(SubSeq(toServer, 1, HEADER_LEN),
                                            SubSeq(toServer, HEADER_LEN + 1, n)))
      /\ toServer' = Rest(toServer, n) /\ sent' = sent /\ at' = at /\ cmd' = cmd /\ frame' = frame
      /\ opening' = opening
  BY Zenon DEF ServerReads, callVars
<1>2. InFlight(toServer, k, Written, Frames, Part) /\ k # Written
  BY <1>1, ReadsNext DEF HeardInv
<1>3. PICK r : Joined(toServer, Frames[k + 1], r) /\ InFlight(r, k + 1, Written, Frames, Part)
  BY <1>2, FlightRead
<1>4. /\ k \in Nat /\ k + 1 \in Nat /\ Written \in Nat /\ k + 1 <= Written /\ Written <= Len(sent)
      /\ Len(sent) \in Nat /\ k + 1 \in 1 .. Len(sent)
  BY <1>2, FlightTyped, LenProperties DEF Written, SentInv
<1>5. Frames[k + 1] = FrameOf(q)
  BY <1>4 DEF Frames
<1>6. IsSent(q)
  BY <1>4 DEF SentInv
<1>7. q \in Messages /\ WellMade(q) /\ Encode(q).ok
  BY <1>6, SentMade
<1>8. /\ Rest(toServer, n) = r
      /\ ReadRequest(SubSeq(toServer, 1, HEADER_LEN), SubSeq(toServer, HEADER_LEN + 1, n)) = q
  <2>1. Joined(toServer, FrameOf(q), r)
    BY <1>3, <1>5
  <2> QED BY <1>7, <2>1, RequestRead
<1> HIDE DEF n, q
<1>9. heard' = Append(heard, q) /\ toServer' = r
  BY <1>1, <1>8, Zenon
<1>10. /\ heard' \in Seq(Messages) /\ Len(heard') = k + 1 /\ heard'[k + 1] = q
       /\ \A j : j \in 1 .. k => heard'[j] = heard[j]
  BY <1>7, <1>9, AppendIs DEF SentInv
<1>11. WriterFree' <=> WriterFree
  BY <1>1 DEF WriterFree
<1>12. Written' = Written /\ Part' = Part /\ Frames' = Frames
  BY <1>1, <1>11 DEF Written, Part, Frames
<1>13. HeardInv'
  <2>1. \A j \in 1 .. Len(heard') : heard'[j] = sent'[j]
    BY <1>1, <1>4, <1>10 DEF HeardInv, q
  <2>2. InFlight(toServer', Len(heard'), Written', Frames', Part')
    BY <1>3, <1>9, <1>10, <1>12, Zenon
  <2> QED BY <2>1, <2>2 DEF HeardInv
<1>14. SentInv'
  <2>1. ASSUME NEW j, j \in 1 .. Len(sent') PROVE IsSent(sent[j])'
    <3> DEFINE p == sent[j]
    <3>1. IsSent(p) /\ sent'[j] = p
      BY <1>1, <2>1 DEF SentInv
    <3>2. \A b \in Callers : Called(b) /\ at[b] # "send" /\ frame[b].ok =>
            Called(b)' /\ at'[b] # "send" /\ frame'[b].ok /\ cmd'[b] = cmd[b]
      BY <1>1 DEF Called
    <3> QED BY <3>1, <3>2, IsSentSame, Zenon DEF IsSent
  <2>2. ASSUME NEW c \in Callers, at'[c] = "extra" PROVE InPart(c)'
    BY <1>1, <2>2 DEF SentInv, InPart
  <2>3. opening' # "start"
    <3>1. ASSUME opening = "start" PROVE FALSE
      <4>1. sent = << >>
        BY <3>1 DEF SentInv
      <4> QED BY <1>4, <4>1, NoBytes
    <3> QED BY <1>1, <3>1
  <2> QED BY <1>1, <1>10, <2>1, <2>2, <2>3 DEF SentInv
<1> QED BY <1>4, <1>10, <1>13, <1>14

(***************************************************************************)
(* The answers, step by step.                                              *)
(***************************************************************************)

(* The answers stay when more is heard. *)
LEMMA SaidSame ==
  ASSUME SaidInv, said' = said, opening' # "open" => opening # "open",
         Len(heard) \in Nat, Len(heard') \in Nat, Len(heard) <= Len(heard'),
         \A i \in 1 .. Len(heard) : heard'[i] = heard[i]
  PROVE  SaidInv'
<1>1. \A j \in 1 .. Len(said') : \E i \in 1 .. Len(heard') : heard'[i].request = said'[j].request
  <2> SUFFICES ASSUME NEW j, j \in 1 .. Len(said)
               PROVE  \E i \in 1 .. Len(heard') : heard'[i].request = said[j].request
    OBVIOUS
  <2>1. PICK i \in 1 .. Len(heard) : heard[i].request = said[j].request
    BY DEF SaidInv
  <2>2. i \in 1 .. Len(heard') /\ heard'[i].request = said[j].request
    BY <2>1
  <2> QED BY <2>2
<1> QED BY <1>1 DEF SaidInv

(* The server answers a request it heard. *)
LEMMA SaidInvAnswers ==
  ASSUME CallInv, SentInv, HeardInv, SaidInv, ServerAnswers
  PROVE  SaidInv' /\ \E a : /\ AnswerTyped(a) /\ said' = Append(said, a) /\ a \in Answers
                            /\ toClient' = toClient \o ResponseFrame(a)
                            /\ opening # "open" => ~HasData(a)
<1>1. PICK i \in DOMAIN heard, code \in Codes, content \in Contents,
           spoilt \in {"no", "magic", "type"} :
        /\ \A j \in DOMAIN said : said[j].request # heard[i].request
        /\ content.kind = "none" \/ heard[i].type \in {LOCK, UNLOCK}
        /\ spoilt = "no" \/ (content.kind = "none" /\ code = SUCCED)
        /\ said' = Append(said, Answer(heard[i], code, content, spoilt))
        /\ toClient' = toClient \o ResponseFrame(Answer(heard[i], code, content, spoilt))
  BY ZenonT(40) DEF ServerAnswers
<1> DEFINE q == heard[i]  a == Answer(q, code, content, spoilt)  n == Len(said)
<1>2. /\ heard' = heard /\ opening' = opening /\ said' = Append(said, a)
      /\ toClient' = toClient \o ResponseFrame(a)
  BY <1>1, Zenon DEF ServerAnswers
<1>3. /\ heard \in Seq(Messages) /\ Len(heard) \in Nat /\ DOMAIN heard = 1 .. Len(heard)
      /\ q \in Messages
  <2>1. heard \in Seq(Messages)
    BY DEF SentInv
  <2> QED BY <2>1, LenProperties, ElementOfSeq
<1>4. IsSent(q) /\ i \in 1 .. Len(heard)
  <2>1. /\ Len(heard) <= Written /\ Written \in Nat /\ Written <= Len(sent) /\ Len(sent) \in Nat
    BY FlightTyped, LenProperties DEF HeardInv, Written, SentInv
  <2>2. i \in 1 .. Len(sent) /\ q = sent[i]
    BY <1>3, <2>1 DEF HeardInv
  <2> QED BY <1>3, <2>2 DEF SentInv
<1>5. /\ AnswerTyped(a) /\ a.request = q.request
      /\ a.type = INIT => q.type = INIT
      /\ HasData(a) => q.type \in {LOCK, UNLOCK}
  BY <1>3, AnswersTyped
<1>6. a \in Answers
  BY <1>3 DEF Answers
<1>7. a.type = INIT => a.request = NewId(1)
  BY <1>4, <1>5, SentMade
<1>8. opening # "open" => ~HasData(a)
  BY <1>4, <1>5, SentMade, InitSent, TypesDiffer
<1> HIDE DEF a, q
<1>9. /\ said' \in Seq(Answers) /\ Len(said') = n + 1 /\ n \in Nat /\ said'[n + 1] = a
      /\ \A j : j \in 1 .. n => said'[j] = said[j]
  BY <1>2, <1>6, AppendIs DEF SaidInv
<1>10. SaidInv'
  <2>1. \A j \in 1 .. Len(said') : AnswerTyped(said'[j])
    <3> SUFFICES ASSUME NEW j, j \in 1 .. n + 1 PROVE AnswerTyped(said'[j])
      BY <1>9
    <3>1. CASE j = n + 1
      BY <1>5, <1>9, <3>1
    <3>2. CASE j \in 1 .. n
      BY <1>9, <3>2 DEF SaidInv
    <3> QED BY <1>9, <3>1, <3>2
  <2>2. \A j \in 1 .. Len(said') :
          /\ said'[j].type = INIT => said'[j].request = NewId(1)
          /\ opening' # "open" => ~HasData(said'[j])
    <3> SUFFICES ASSUME NEW j, j \in 1 .. n + 1
                 PROVE  /\ said'[j].type = INIT => said'[j].request = NewId(1)
                        /\ opening' # "open" => ~HasData(said'[j])
      BY <1>9
    <3>1. CASE j = n + 1
      BY <1>2, <1>7, <1>8, <1>9, <3>1
    <3>2. CASE j \in 1 .. n
      BY <1>2, <1>9, <3>2 DEF SaidInv
    <3> QED BY <1>9, <3>1, <3>2
  <2>3. \A j \in 1 .. Len(said') :
          \E k \in 1 .. Len(heard') : heard'[k].request = said'[j].request
    <3> SUFFICES ASSUME NEW j, j \in 1 .. n + 1
                 PROVE  \E k \in 1 .. Len(heard') : heard'[k].request = said'[j].request
      BY <1>9
    <3>1. CASE j = n + 1
      <4>1. heard'[i].request = said'[j].request /\ i \in 1 .. Len(heard')
        BY <1>2, <1>4, <1>5, <1>9, <3>1 DEF q
      <4> QED BY <4>1
    <3>2. CASE j \in 1 .. n
      BY <1>2, <1>9, <3>2 DEF SaidInv
    <3> QED BY <1>9, <3>1, <3>2
  <2> QED BY <1>9, <2>1, <2>2, <2>3 DEF SaidInv
<1> QED BY <1>2, <1>5, <1>6, <1>8, <1>10, Zenon

(* The reader stays where it is. *)
LEMMA ReaderInvSame ==
  ASSUME ReaderInv, said' = said, toClient' = toClient, reader' = reader,
         opening' # "open" => opening # "open"
  PROVE  ReaderInv'
<1>1. Responses' = Responses
  BY DEF Responses
<1>2. \A s, k : Left(s, k)' <=> Left(s, k)
  BY <1>1, Zenon DEF Left
<1> QED BY <1>2, Zenon DEF ReaderInv

(* Another answer goes behind those on their way. *)
LEMMA LeftMore ==
  ASSUME NEW a, AnswerTyped(a), said \in Seq(Answers), a \in Answers, said' = Append(said, a)
  PROVE  \A s, k : Left(s, k) => Left(s \o ResponseFrame(a), k)'
<1> DEFINE n == Len(said)  F == Responses  G == Responses'  f == ResponseFrame(a)
<1>1. /\ Len(said') = n + 1 /\ n \in Nat /\ said'[n + 1] = a
      /\ \A j : j \in 1 .. n => said'[j] = said[j]
  BY AppendIs
<1>2. \A j : j \in 1 .. n => G[j] = F[j]
  BY <1>1 DEF Responses
<1>3. G[n + 1] = f
  BY <1>1 DEF Responses
<1>4. f \in Seq(Byte)
  BY ResponseJoined
<1> SUFFICES ASSUME NEW s, NEW k, Left(s, k) PROVE Left(s \o f, k)'
  OBVIOUS
<1>5. InFlight(s, k, n, F, << >>)
  BY DEF Left
<1>6. \A j : j \in k + 1 .. n => G[j] = F[j]
  BY <1>1, <1>2, <1>5, FlightTyped
<1> HIDE DEF F, G, f, n
<1>7. InFlight(s \o f, k, n + 1, G, << >>)
  <2>1. InFlight(s \o G[n + 1], k, n + 1, G, << >>)
    BY <1>3, <1>4, <1>5, <1>6, FlightSend
  <2> QED BY <1>3, <2>1
<1> QED BY <1>1, <1>7, Zenon DEF Left, G, n, f

(* When a header is there, it is that of the next answer. *)
LEMMA NextResponse ==
  ASSUME SaidInv, ReaderInv, reader.next = "header", Len(toClient) >= HEADER_LEN
  PROVE  \E k \in 1 .. Len(said), r \in Seq(Byte) :
           Joined(toClient, ResponseFrame(said[k]), r) /\ Left(r, k)
<1> DEFINE n == Len(said)
<1>1. PICK k \in 0 .. n : Left(toClient, k)
  BY DEF ReaderInv
<1>2. InFlight(toClient, k, n, Responses, << >>)
  BY <1>1 DEF Left
<1>3. k # n
  <2> SUFFICES ASSUME k = n PROVE FALSE
    OBVIOUS
  <2>1. toClient = << >>
    BY <1>2, FlightDone
  <2> QED BY <2>1, NoBytes DEF HEADER_LEN
<1>4. PICK r : Joined(toClient, Responses[k + 1], r) /\ InFlight(r, k + 1, n, Responses, << >>)
  BY <1>2, <1>3, FlightRead
<1>5. n \in Nat /\ k \in Nat /\ k <= n
  BY <1>2, FlightTyped
<1>6. k + 1 \in 1 .. n
  BY <1>3, <1>5
<1>7. Responses[k + 1] = ResponseFrame(said[k + 1])
  BY <1>6 DEF Responses
<1>8. Left(r, k + 1) /\ r \in Seq(Byte)
  BY <1>4, Zenon DEF Left, Joined
<1> QED BY <1>4, <1>6, <1>7, <1>8

(* open() reads its answer. *)
LEMMA ReaderInvOpen ==
  ASSUME SaidInv, ReaderInv, OpenReceive
  PROVE  ReaderInv' /\ (opening' # "open" => opening # "open")
<1>1. /\ opening = "sent" /\ Len(toClient) >= HEADER_LEN /\ opening' \in {"open", "failed"}
      /\ toClient' = Rest(toClient, HEADER_LEN) /\ reader' = reader /\ said' = said
  BY DEF OpenReceive
<1>2. reader.next = "header"
  BY <1>1 DEF ReaderInv
<1>3. PICK k \in 1 .. Len(said), r \in Seq(Byte) :
        Joined(toClient, ResponseFrame(said[k]), r) /\ Left(r, k)
  BY <1>1, <1>2, NextResponse
<1>4. AnswerTyped(said[k]) /\ ~HasData(said[k])
  BY <1>1 DEF SaidInv
<1>5. ResponseHeader(said[k]) \in BytesOf(64) /\ ResponseFrame(said[k]) = ResponseHeader(said[k])
  BY <1>4, ResponseJoined
<1>6. toClient' = r
  <2>1. Rest(toClient, 64) = r
    BY <1>3, <1>5, FirstPart
  <2> QED BY <1>1, <2>1 DEF HEADER_LEN
<1>7. Responses' = Responses
  BY <1>1 DEF Responses
<1>8. Left(r, k)'
  BY <1>1, <1>3, <1>7, Zenon DEF Left
<1>9. k \in 0 .. Len(said')
  <2>1. Len(said) \in Nat
    BY LenProperties DEF SaidInv
  <2> QED BY <1>1, <2>1
<1>10. \E j \in 0 .. Len(said') : Left(toClient, j)'
  BY <1>6, <1>8, <1>9 DEF Left
<1> QED BY <1>1, <1>2, <1>10 DEF ReaderInv

(* The reader reads a header. *)
LEMMA ReaderInvHeader ==
  ASSUME SaidInv, ReaderInv, ReadHeader
  PROVE  ReaderInv'
<1> DEFINE h == SubSeq(toClient, 1, HEADER_LEN)
<1>1. /\ opening = "open" /\ reader.next = "header" /\ Len(toClient) >= HEADER_LEN
      /\ toClient' = Rest(toClient, HEADER_LEN) /\ said' = said /\ opening' = opening
      /\ reader' = [next |-> IF ResponseHasExtraData(h) THEN "length" ELSE "deliver",
                    header |-> h, need |-> 0]
  BY DEF ReadHeader, Reads
<1>2. PICK k \in 1 .. Len(said), r \in Seq(Byte) :
        Joined(toClient, ResponseFrame(said[k]), r) /\ Left(r, k)
  BY <1>1, NextResponse
<1> DEFINE a == said[k]
<1>3. AnswerTyped(a)
  BY DEF SaidInv
<1>4. /\ ResponseHeader(a) \in BytesOf(64)
      /\ ~HasData(a) => ResponseFrame(a) = ResponseHeader(a)
      /\ HasData(a) => Joined(ResponseFrame(a), ResponseHeader(a), ResponseData(a))
      /\ ResponseHasExtraData(ResponseHeader(a)) <=> HasData(a)
  BY <1>3, ResponseJoined, ResponseRead
<1>5. Responses' = Responses
  BY <1>1 DEF Responses
<1>6. Left(r, k)'
  BY <1>1, <1>2, <1>5, Zenon DEF Left
<1>7. CASE HasData(a)
  <2>1. PICK u : Joined(toClient, ResponseHeader(a), u) /\ Joined(u, ResponseData(a), r)
    BY <1>2, <1>4, <1>7, JoinedAgain
  <2>2. h = ResponseHeader(a) /\ Rest(toClient, HEADER_LEN) = u
    BY <1>4, <2>1, StreamStart
  <2> HIDE DEF h
  <2>3. /\ reader'.next = "length" /\ reader'.header = ResponseHeader(said'[k]) /\ HasData(said'[k])
        /\ Joined(toClient', ResponseData(said'[k]), r)
    BY <1>1, <1>4, <1>7, <2>1, <2>2
  <2>4. \E j \in 1 .. Len(said'), s \in Seq(Byte) :
          /\ reader'.header = ResponseHeader(said'[j]) /\ HasData(said'[j])
          /\ Joined(toClient', ResponseData(said'[j]), s) /\ Left(s, j)'
    BY <1>1, <1>6, <2>3
  <2> QED BY <1>1, <2>3, <2>4 DEF ReaderInv
<1>8. CASE ~HasData(a)
  <2>1. Joined(toClient, ResponseHeader(a), r)
    BY <1>2, <1>4, <1>8
  <2>2. h = ResponseHeader(a) /\ Rest(toClient, HEADER_LEN) = r
    BY <1>4, <2>1, StreamStart
  <2> HIDE DEF h
  <2>3. /\ reader'.next = "deliver" /\ reader'.header = ResponseHeader(said'[k])
        /\ ~HasData(said'[k]) /\ toClient' = r
    BY <1>1, <1>4, <1>8, <2>2
  <2>4. \E j \in 1 .. Len(said') :
          /\ reader'.header = ResponseHeader(said'[j]) /\ ~HasData(said'[j])
          /\ Left(toClient, j)'
    BY <1>1, <1>6, <2>3 DEF Left
  <2> QED BY <1>1, <2>3, <2>4 DEF ReaderInv
<1> QED BY <1>7, <1>8

(* It reads the length of the data. *)
LEMMA ReaderInvLength ==
  ASSUME SaidInv, ReaderInv, ReadLength
  PROVE  ReaderInv'
<1>1. /\ opening = "open" /\ reader.next = "length" /\ said' = said /\ opening' = opening
      /\ reader' = [reader EXCEPT !.next = "payload", !.need = Num4(toClient)]
      /\ toClient' = Rest(toClient, 4)
  BY DEF ReadLength, Reads
<1>2. PICK k \in 1 .. Len(said), r \in Seq(Byte) :
        /\ reader.header = ResponseHeader(said[k]) /\ HasData(said[k])
        /\ Joined(toClient, ResponseData(said[k]), r) /\ Left(r, k)
  BY <1>1 DEF ReaderInv
<1> DEFINE a == said[k]  m == Len(a.payload)
<1>3. AnswerTyped(a)
  BY DEF SaidInv
<1>4. Joined(ResponseData(a), LE4(m), a.payload)
  BY <1>2, <1>3, ResponseJoined
<1>5. PICK u : Joined(toClient, LE4(m), u) /\ Joined(u, a.payload, r)
  BY <1>2, <1>4, JoinedAgain
<1>6. m \in Nat /\ ~ExceedsU32(m)
  BY <1>3, LenProperties DEF AnswerTyped
<1>7. LE4(m) \in BytesOf(4) /\ Num4(LE4(m)) = m
  BY <1>6, LE4Typed, Num4OfLE4
<1> HIDE DEF m
<1>8. Rest(toClient, 4) = u
  BY <1>5, <1>7, FirstPart
<1>9. Num4(toClient) = m
  <2>1. Len(LE4(m)) = 4
    BY <1>7 DEF BytesOf
  <2>2. \A i \in 1 .. Len(LE4(m)) : toClient[i] = LE4(m)[i]
    BY <1>5, JoinedBytes
  <2> DEFINE x == LE4(m)
  <2> HIDE DEF x
  <2>3. Num4(x) = m /\ Len(x) = 4 /\ \A i \in 1 .. Len(x) : toClient[i] = x[i]
    BY <1>7, <2>1, <2>2 DEF x
  <2>4. toClient[1] = x[1] /\ toClient[2] = x[2] /\ toClient[3] = x[3] /\ toClient[4] = x[4]
    BY <2>3
  <2>5. Num4(toClient) = Num4(x)
    BY <2>4 DEF Num4, Num2, Rest
  <2> QED BY <2>3, <2>5
<1>10. Responses' = Responses
  BY <1>1 DEF Responses
<1>11. Left(r, k)'
  BY <1>1, <1>2, <1>10, Zenon DEF Left
<1>12. reader'.next = "payload"
  BY <1>1
<1>13. reader'.header = reader.header /\ reader'.need = m
  BY <1>1, <1>9
<1>14. \E j \in 1 .. Len(said'), s \in Seq(Byte) :
         /\ reader'.header = ResponseHeader(said'[j]) /\ HasData(said'[j])
         /\ reader'.need = Len(said'[j].payload)
         /\ Joined(toClient', said'[j].payload, s) /\ Left(s, j)'
  BY <1>1, <1>2, <1>5, <1>8, <1>11, <1>13 DEF m
<1> QED BY <1>1, <1>12, <1>14 DEF ReaderInv

(* What is delivered is what was meant, to the call that waits for it. *)
LEMMA Delivered ==
  ASSUME CallInv, SentInv, HeardInv, SaidInv, AnswersReadBack, NEW k, k \in 1 .. Len(said),
         reader.header = ResponseHeader(said[k]), Deliver(DataOf(said[k]))
  PROVE  CallInv' /\ SentInv' /\ HeardInv' /\ SaidInv' /\ AnswersReadBack' /\ reader' = NoHeader
         /\ said' = said /\ opening' = opening
<1> DEFINE a == said[k]  h == reader.header  data == DataOf(a)
<1>1. /\ AnswerTyped(a) /\ h = ResponseHeader(a)
  BY DEF SaidInv
<1>2. RequestIdOf(h) = a.request
  BY <1>1, ResponseHas
<1>3. a.type # INIT => DecodeResponse(h, data) = Meant(a)
  BY <1>1, ResponseRead
<1>4. /\ reader' = NoHeader /\ said' = said /\ opening' = opening /\ frame' = frame /\ cmd' = cmd
      /\ sent' = sent /\ heard' = heard /\ toServer' = toServer
      /\ at' = [c \in Callers |-> IF c \in pending /\ RequestId(c) = RequestIdOf(h)
                                  THEN "done" ELSE at[c]]
      /\ result' = [c \in Callers |-> IF c \in pending /\ RequestId(c) = RequestIdOf(h)
                                      THEN DecodeResponse(h, data) ELSE result[c]]
  BY Zenon DEF Deliver
<1>5. /\ CallInv'
      /\ \A c \in Callers : at'[c] = at[c] \/ (at'[c] = "done" /\ c \in pending
                                               /\ RequestId(c) = RequestIdOf(h))
  BY CallInvDeliver
<1> HIDE DEF a, h, data
<1>6. \A c \in Callers : RequestId(c) = a.request =>
        frame[c].ok /\ at[c] \in {"wait", "done"} /\ a.type # INIT
  BY SaidOfCall DEF a
<1>7. \A c \in Callers :
        at'[c] = at[c] \/ (at'[c] = "done" /\ at[c] \in {"wait", "done"})
  BY <1>2, <1>5, <1>6
<1>8. SentInv' /\ HeardInv'
  <2>1. \A c \in Callers : at'[c] = "extra" <=> at[c] = "extra"
    BY <1>7
  <2>2. \A c \in Callers : Called(c) /\ at[c] # "send" =>
          Called(c)' /\ at'[c] # "send" /\ frame'[c] = frame[c] /\ cmd'[c] = cmd[c]
    BY <1>4, <1>7 DEF Called
  <2> QED BY <1>4, <2>1, <2>2, RequestsSame
<1>9. SaidInv'
  <2>1. Len(heard) \in Nat
    BY LenProperties DEF SentInv
  <2> QED BY <1>4, <2>1, SaidSame
<1>10. AnswersReadBack'
  <2> SUFFICES ASSUME NEW c \in Callers, at'[c] = "done"
               PROVE  \/ ~frame'[c].ok /\ result'[c] = [error |-> "LockData"]
                      \/ \E i \in DOMAIN said' :
                           said'[i].request = RequestId(c) /\ result'[c] = Meant(said'[i])
    BY DEF AnswersReadBack
  <2>1. CASE c \in pending /\ RequestId(c) = RequestIdOf(h)
    <3>1. result'[c] = DecodeResponse(h, data)
      BY <1>4, <2>1
    <3>2. result'[c] = Meant(a)
      BY <1>2, <1>3, <1>6, <2>1, <3>1
    <3>3. k \in DOMAIN said
      <4>1. DOMAIN said = 1 .. Len(said)
        BY LenProperties DEF SaidInv
      <4> QED BY <4>1
    <3>4. k \in DOMAIN said' /\ said'[k].request = RequestId(c) /\ result'[c] = Meant(said'[k])
      BY <1>2, <1>4, <2>1, <3>2, <3>3 DEF a
    <3> QED BY <3>4
  <2>2. CASE ~(c \in pending /\ RequestId(c) = RequestIdOf(h))
    <3>1. at'[c] = at[c] /\ result'[c] = result[c]
      BY <1>4, <2>2
    <3> QED BY <1>4, <3>1, Zenon DEF AnswersReadBack
  <2> QED BY <2>1, <2>2
<1> QED BY <1>4, <1>5, <1>8, <1>9, <1>10

(* After an answer comes the next header. *)
LEMMA HeaderAgain ==
  ASSUME NEW k, k \in 1 .. Len(said), Len(said) \in Nat, Left(toClient', k), said' = said,
         reader' = NoHeader
  PROVE  ReaderInv'
<1>1. Responses' = Responses
  BY DEF Responses
<1>2. Left(toClient, k)'
  BY <1>1, Zenon DEF Left
<1>3. reader'.next = "header" /\ k \in 0 .. Len(said')
  BY DEF NoHeader
<1> QED BY <1>2, <1>3 DEF ReaderInv

(* An answer without data is delivered. *)
LEMMA WireHeader ==
  ASSUME CallInv, SentInv, HeardInv, SaidInv, ReaderInv, AnswersReadBack, DeliverHeader
  PROVE  /\ CallInv' /\ SentInv' /\ HeardInv' /\ SaidInv' /\ ReaderInv' /\ AnswersReadBack'
<1>1. reader.next = "deliver" /\ Deliver(<< >>) /\ toClient' = toClient
  BY DEF DeliverHeader
<1>2. PICK k \in 1 .. Len(said) :
        /\ reader.header = ResponseHeader(said[k]) /\ ~HasData(said[k])
        /\ Left(toClient, k)
  BY <1>1 DEF ReaderInv
<1>3. DataOf(said[k]) = << >>
  BY <1>2, Zenon DEF DataOf
<1>4. Deliver(DataOf(said[k]))
  BY <1>1, <1>3, Zenon
<1>5. /\ CallInv' /\ SentInv' /\ HeardInv' /\ SaidInv' /\ AnswersReadBack' /\ reader' = NoHeader
      /\ said' = said
  BY <1>2, <1>4, Delivered
<1>6. Len(said) \in Nat
  BY LenProperties DEF SaidInv
<1>7. ReaderInv'
  BY <1>1, <1>2, <1>5, <1>6, HeaderAgain
<1> QED BY <1>5, <1>7

(* An answer with data is delivered. *)
LEMMA WirePayload ==
  ASSUME CallInv, SentInv, HeardInv, SaidInv, ReaderInv, AnswersReadBack, DeliverPayload
  PROVE  /\ CallInv' /\ SentInv' /\ HeardInv' /\ SaidInv' /\ ReaderInv' /\ AnswersReadBack'
<1>1. /\ reader.next = "payload" /\ Deliver(Zeros(4) \o SubSeq(toClient, 1, reader.need))
      /\ toClient' = Rest(toClient, reader.need)
  BY DEF DeliverPayload, Reads
<1>2. PICK k \in 1 .. Len(said), r \in Seq(Byte) :
        /\ reader.header = ResponseHeader(said[k]) /\ HasData(said[k])
        /\ reader.need = Len(said[k].payload)
        /\ Joined(toClient, said[k].payload, r) /\ Left(r, k)
  BY <1>1 DEF ReaderInv
<1> DEFINE p == said[k].payload
<1>3. p \in BytesOf(Len(p))
  BY <1>2, SizeOf DEF Joined
<1>4. SubSeq(toClient, 1, Len(p)) = p /\ Rest(toClient, Len(p)) = r
  BY <1>2, <1>3, FirstPart
<1>5. DataOf(said[k]) = Zeros(4) \o p
  BY <1>2, Zenon DEF DataOf
<1>6. Deliver(DataOf(said[k])) /\ toClient' = r
  BY <1>1, <1>2, <1>4, <1>5, Zenon
<1>7. /\ CallInv' /\ SentInv' /\ HeardInv' /\ SaidInv' /\ AnswersReadBack' /\ reader' = NoHeader
      /\ said' = said
  BY <1>2, <1>6, Delivered
<1>8. Len(said) \in Nat
  BY LenProperties DEF SaidInv
<1>9. ReaderInv'
  BY <1>2, <1>6, <1>7, <1>8, HeaderAgain
<1> QED BY <1>7, <1>9

(* The server writes an answer while the reader reads. *)
LEMMA ReaderInvAnswers ==
  ASSUME SaidInv, ReaderInv, NEW a, AnswerTyped(a), a \in Answers, said' = Append(said, a),
         toClient' = toClient \o ResponseFrame(a), reader' = reader, opening' = opening
  PROVE  ReaderInv'
<1> DEFINE n == Len(said)  f == ResponseFrame(a)
<1>1. /\ Len(said') = n + 1 /\ n \in Nat
      /\ \A j : j \in 1 .. n => said'[j] = said[j]
  BY AppendIs DEF SaidInv
<1>2. \A s, k : Left(s, k) => Left(s \o f, k)'
  BY LeftMore DEF SaidInv
<1>3. f \in Seq(Byte)
  BY ResponseJoined
<1> HIDE DEF f
<1>4. \A k : (k \in 1 .. n => k \in 1 .. n + 1) /\ (k \in 0 .. n => k \in 0 .. n + 1)
  BY <1>1
<1>5. CASE reader.next = "header" /\ \E k \in 0 .. Len(said) : Left(toClient, k)
  <2>1. PICK k \in 0 .. n : Left(toClient, k)
    BY <1>5
  <2>2. PICK s : s = toClient
    OBVIOUS
  <2>3. Left(s \o f, k)' /\ k \in 0 .. Len(said')
    BY <1>1, <1>2, <1>4, <2>1, <2>2
  <2>4. toClient' = s \o f
    BY <2>2 DEF f
  <2>5. Left(toClient, k)'
    BY <2>3, <2>4, Zenon DEF Left
  <2> QED BY <1>5, <2>3, <2>5 DEF ReaderInv
<1>6. CASE /\ reader.next = "deliver"
           /\ \E k \in 1 .. Len(said) :
                /\ reader.header = ResponseHeader(said[k]) /\ ~HasData(said[k])
                /\ Left(toClient, k)
  <2>1. PICK k \in 1 .. n : /\ reader.header = ResponseHeader(said[k]) /\ ~HasData(said[k])
                            /\ Left(toClient, k)
    BY <1>6
  <2>2. PICK s : s = toClient
    OBVIOUS
  <2>3. Left(s \o f, k)' /\ k \in 1 .. Len(said') /\ said'[k] = said[k]
    BY <1>1, <1>2, <1>4, <2>1, <2>2
  <2>4. toClient' = s \o f
    BY <2>2 DEF f
  <2>5. Left(toClient, k)'
    BY <2>3, <2>4, Zenon DEF Left
  <2>6. reader'.header = ResponseHeader(said'[k]) /\ ~HasData(said'[k])
    BY <2>1, <2>3
  <2> QED BY <1>6, <2>3, <2>5, <2>6 DEF ReaderInv
<1>7. CASE /\ reader.next = "length"
           /\ \E k \in 1 .. Len(said), r \in Seq(Byte) :
                /\ reader.header = ResponseHeader(said[k]) /\ HasData(said[k])
                /\ Joined(toClient, ResponseData(said[k]), r) /\ Left(r, k)
  <2>1. PICK k \in 1 .. n, r \in Seq(Byte) :
          /\ reader.header = ResponseHeader(said[k]) /\ HasData(said[k])
          /\ Joined(toClient, ResponseData(said[k]), r) /\ Left(r, k)
    BY <1>7
  <2>2. Left(r \o f, k)' /\ k \in 1 .. Len(said') /\ said'[k] = said[k]
    BY <1>1, <1>2, <1>4, <2>1
  <2>3. Joined(toClient \o f, ResponseData(said[k]), r \o f)
    BY <1>3, <2>1, JoinMore
  <2>4. r \o f \in Seq(Byte)
    BY <2>3 DEF Joined
  <2>5. \E j \in 1 .. Len(said'), s \in Seq(Byte) :
          /\ reader'.header = ResponseHeader(said'[j]) /\ HasData(said'[j])
          /\ Joined(toClient', ResponseData(said'[j]), s) /\ Left(s, j)'
    BY <2>1, <2>2, <2>3, <2>4 DEF f
  <2> QED BY <1>7, <2>5 DEF ReaderInv
<1>8. CASE /\ reader.next = "payload"
           /\ \E k \in 1 .. Len(said), r \in Seq(Byte) :
                /\ reader.header = ResponseHeader(said[k]) /\ HasData(said[k])
                /\ reader.need = Len(said[k].payload)
                /\ Joined(toClient, said[k].payload, r) /\ Left(r, k)
  <2>1. PICK k \in 1 .. n, r \in Seq(Byte) :
          /\ reader.header = ResponseHeader(said[k]) /\ HasData(said[k])
          /\ reader.need = Len(said[k].payload)
          /\ Joined(toClient, said[k].payload, r) /\ Left(r, k)
    BY <1>8
  <2>2. Left(r \o f, k)' /\ k \in 1 .. Len(said') /\ said'[k] = said[k]
    BY <1>1, <1>2, <1>4, <2>1
  <2>3. Joined(toClient \o f, said[k].payload, r \o f)
    BY <1>3, <2>1, JoinMore
  <2>4. r \o f \in Seq(Byte)
    BY <2>3 DEF Joined
  <2>5. \E j \in 1 .. Len(said'), s \in Seq(Byte) :
          /\ reader'.header = ResponseHeader(said'[j]) /\ HasData(said'[j])
          /\ reader'.need = Len(said'[j].payload)
          /\ Joined(toClient', said'[j].payload, s) /\ Left(s, j)'
    BY <2>1, <2>2, <2>3, <2>4 DEF f
  <2> QED BY <1>8, <2>5 DEF ReaderInv
<1> QED BY <1>5, <1>6, <1>7, <1>8 DEF ReaderInv

(* What a call returned stays what the server answered. *)
LEMMA AnswersSame ==
  ASSUME AnswersReadBack, said \in Seq(Answers),
         said' = said \/ \E a \in Answers : said' = Append(said, a),
         \A c \in Callers : at'[c] = "done" =>
           \/ at[c] = "done" /\ frame'[c] = frame[c] /\ result'[c] = result[c]
           \/ ~frame'[c].ok /\ result'[c] = [error |-> "LockData"]
  PROVE  AnswersReadBack'
<1>1. \A i \in DOMAIN said : i \in DOMAIN said' /\ said'[i] = said[i]
  <2>1. CASE said' = said
    BY <2>1
  <2>2. CASE \E a \in Answers : said' = Append(said, a)
    <3>1. PICK a \in Answers : said' = Append(said, a)
      BY <2>2
    <3>2. said' \in Seq(Answers)
      BY <3>1, AppendIs
    <3>3. /\ Len(said') = Len(said) + 1 /\ Len(said) \in Nat
          /\ \A j : j \in 1 .. Len(said) => said'[j] = said[j]
      BY <3>1, AppendIs
    <3>4. DOMAIN said = 1 .. Len(said) /\ DOMAIN said' = 1 .. Len(said')
      BY <3>2, LenProperties
    <3> QED BY <3>3, <3>4
  <2> QED BY <2>1, <2>2
<1> SUFFICES ASSUME NEW c \in Callers, at'[c] = "done"
             PROVE  \/ ~frame'[c].ok /\ result'[c] = [error |-> "LockData"]
                    \/ \E i \in DOMAIN said' :
                         said'[i].request = RequestId(c) /\ result'[c] = Meant(said'[i])
  BY DEF AnswersReadBack
<1>2. CASE ~frame'[c].ok /\ result'[c] = [error |-> "LockData"]
  BY <1>2
<1>3. CASE at[c] = "done" /\ frame'[c] = frame[c] /\ result'[c] = result[c]
  <2>1. CASE ~frame[c].ok /\ result[c] = [error |-> "LockData"]
    BY <1>3, <2>1
  <2>2. CASE \E i \in DOMAIN said : said[i].request = RequestId(c) /\ result[c] = Meant(said[i])
    BY <1>1, <1>3, <2>2, Zenon
  <2> QED BY <1>3, <2>1, <2>2 DEF AnswersReadBack
<1> QED BY <1>2, <1>3

(***************************************************************************)
(* The theorems.                                                           *)
(***************************************************************************)

(* The invariant holds at the start. *)
LEMMA WireInit == ASSUME Init PROVE WireInv
<1>1. CallInv
  <2>1. /\ work \in Works /\ defaults \in FlagPairs /\ at \in [Callers -> Phases]
        /\ made \in [Callers -> {NoFlags, defaults}]
        /\ DOMAIN lock = Callers /\ DOMAIN cmd = Callers /\ DOMAIN frame = Callers
        /\ DOMAIN result = Callers
    BY DEF Init, NoFlags, FlagPairs, Phases
  <2>2. \A c \in Callers : at[c] = "start" /\ c \notin pending
    BY DEF Init
  <2>3. \A c \in Callers : CallOk(c)
    BY <2>2 DEF CallOk, Called
  <2> QED BY <2>1, <2>3 DEF CallInv
<1>2. WriterFree /\ Len(sent) = 0 /\ Len(heard) = 0 /\ Len(said) = 0
  BY DEF Init, WriterFree
<1>3. SentInv
  BY <1>2 DEF Init, SentInv
<1>4. HeardInv
  <2>1. Written = 0 /\ Part = << >>
    BY <1>2 DEF Written, Part
  <2>2. InFlight(<< >>, 0, 0, Frames, << >>)
    BY FlightEmpty, 0 \in Nat, Zenon
  <2> QED BY <1>2, <2>1, <2>2 DEF HeardInv, Init
<1>5. SaidInv
  BY <1>2 DEF Init, SaidInv
<1>6. ReaderInv
  <2>1. Left(<< >>, 0)
    BY <1>2, FlightEmpty, 0 \in Nat, Zenon DEF Left
  <2>2. reader.next = "header" /\ toClient = << >> /\ 0 \in 0 .. Len(said)
    BY <1>2 DEF Init, NoHeader
  <2> QED BY <2>1, <2>2, Zenon DEF ReaderInv
<1>7. AnswersReadBack
  BY DEF Init, AnswersReadBack
<1> QED BY <1>1, <1>3, <1>4, <1>5, <1>6, <1>7 DEF WireInv

(* What was heard and said is finite. *)
LEMMA Sizes == ASSUME WireInv PROVE /\ Len(heard) \in Nat /\ Len(said) \in Nat
                                   /\ said \in Seq(Answers)
BY LenProperties DEF WireInv, SentInv, SaidInv

(* Every step keeps the invariant. *)
LEMMA WireNext == ASSUME WireInv, [Next]_vars PROVE WireInv'
<1> USE DEF WireInv
<1>0. Len(heard) \in Nat /\ Len(heard) <= Len(heard) /\ said \in Seq(Answers)
  BY Sizes
<1>1. CASE OpenSend
  <2>1. /\ UNCHANGED <<callVars, defaults, at, pending, toClient, heard, said, reader>>
        /\ opening # "open" /\ opening' # "open"
    BY <1>1 DEF OpenSend
  <2>2. CallInv'
    BY <2>1, CallInvSame
  <2>3. SentInv' /\ HeardInv'
    BY <1>1, RequestsOpen
  <2>4. SaidInv' /\ ReaderInv'
    BY <1>0, <2>1, SaidSame, ReaderInvSame
  <2>5. AnswersReadBack'
    BY <1>0, <2>1, AnswersSame DEF callVars
  <2> QED BY <2>2, <2>3, <2>4, <2>5
<1>2. CASE OpenReceive
  <2>1. /\ UNCHANGED <<callVars, defaults, at, pending, toServer, sent, heard, said, reader>>
        /\ opening # "open" /\ opening' # "start"
    BY <1>2 DEF OpenReceive
  <2>2. CallInv'
    BY <2>1, CallInvSame
  <2>3. SentInv' /\ HeardInv'
    BY <2>1, RequestsSame DEF Called, callVars
  <2>4. ReaderInv'
    BY <1>2, ReaderInvOpen
  <2>5. SaidInv'
    BY <1>0, <2>1, SaidSame
  <2>6. AnswersReadBack'
    BY <1>0, <2>1, AnswersSame DEF callVars
  <2> QED BY <2>2, <2>3, <2>4, <2>5, <2>6
<1>3. CASE SetDefaults
  <2>1. UNCHANGED <<callVars, opening, at, pending, toServer, toClient, sent, heard, said, reader>>
    BY <1>3 DEF SetDefaults
  <2>2. CallInv'
    BY <1>3, CallInvDefaults
  <2>3. SentInv' /\ HeardInv'
    BY <2>1, RequestsSame DEF Called, callVars
  <2>4. SaidInv' /\ ReaderInv'
    BY <1>0, <2>1, SaidSame, ReaderInvSame
  <2>5. AnswersReadBack'
    BY <1>0, <2>1, AnswersSame DEF callVars
  <2> QED BY <2>2, <2>3, <2>4, <2>5
<1>4. ASSUME NEW c \in DOMAIN work, Create(c) PROVE WireInv'
  <2>0. c \in Callers /\ at \in [Callers -> Phases]
    BY Operations DEF CallInv
  <2>1. /\ UNCHANGED <<cmd, frame, result, opening, toServer, toClient, sent, heard, said, reader>>
        /\ at[c] = "start" /\ at'[c] = "made" /\ \A b \in Callers : b # c => at'[b] = at[b]
    BY <1>4, <2>0 DEF Create
  <2>2. CallInv'
    BY <1>4, CallInvCreate
  <2>3. SentInv' /\ HeardInv'
    <3>1. \A b \in Callers : at'[b] = "extra" <=> at[b] = "extra"
      BY <2>1
    <3>2. \A b \in Callers : Called(b) /\ at[b] # "send" =>
            Called(b)' /\ at'[b] # "send" /\ frame'[b] = frame[b] /\ cmd'[b] = cmd[b]
      BY <2>1 DEF Called
    <3> QED BY <2>1, <3>1, <3>2, RequestsSame
  <2>4. SaidInv' /\ ReaderInv'
    BY <1>0, <2>1, SaidSame, ReaderInvSame
  <2>5. AnswersReadBack'
    <3>1. \A b \in Callers : at'[b] = "done" =>
            at[b] = "done" /\ frame'[b] = frame[b] /\ result'[b] = result[b]
      BY <2>1
    <3> QED BY <1>0, <2>1, <3>1, AnswersSame
  <2> QED BY <2>2, <2>3, <2>4, <2>5
<1>5. ASSUME NEW c \in DOMAIN work, Call(c) PROVE WireInv'
  <2>0. c \in Callers
    BY Operations DEF CallInv
  <2>1. /\ UNCHANGED <<opening, toServer, toClient, sent, heard, said, reader>> /\ at[c] = "made"
    BY <1>5 DEF Call
  <2>2. /\ CallInv' /\ Called(c)' /\ at'[c] \in {"send", "done"}
        /\ \A b \in Callers : b # c => at'[b] = at[b] /\ frame'[b] = frame[b] /\ cmd'[b] = cmd[b]
                                       /\ result'[b] = result[b]
        /\ ~frame'[c].ok => result'[c] = [error |-> "LockData"]
        /\ at'[c] = "done" => ~frame'[c].ok
    BY <1>5, CallInvCall
  <2>3. SentInv' /\ HeardInv'
    <3>1. \A b \in Callers : at'[b] = "extra" <=> at[b] = "extra"
      BY <2>1, <2>2
    <3>2. \A b \in Callers : Called(b) /\ at[b] # "send" =>
            Called(b)' /\ at'[b] # "send" /\ frame'[b] = frame[b] /\ cmd'[b] = cmd[b]
      BY <2>1, <2>2 DEF Called
    <3> QED BY <2>1, <3>1, <3>2, RequestsSame
  <2>4. SaidInv' /\ ReaderInv'
    BY <1>0, <2>1, SaidSame, ReaderInvSame
  <2>5. AnswersReadBack'
    <3>1. \A b \in Callers : at'[b] = "done" =>
            \/ at[b] = "done" /\ frame'[b] = frame[b] /\ result'[b] = result[b]
            \/ ~frame'[b].ok /\ result'[b] = [error |-> "LockData"]
      BY <2>2
    <3> QED BY <1>0, <2>1, <3>1, AnswersSame
  <2> QED BY <2>2, <2>3, <2>4, <2>5
<1>6. ASSUME NEW c \in DOMAIN work, WriteHeader(c) \/ WriteExtra(c) PROVE WireInv'
  <2>0. c \in Callers /\ at \in [Callers -> Phases]
    BY Operations DEF CallInv
  <2>1. /\ UNCHANGED <<callVars, opening, toClient, heard, said, reader>>
        /\ \A b \in Callers : at'[b] = "done" => at[b] = "done"
    BY <1>6, <2>0 DEF WriteHeader, WriteExtra
  <2>2. CallInv'
    BY <1>6, CallInvWrite
  <2>3. SentInv' /\ HeardInv'
    BY <1>6, RequestsWriteHeader, RequestsWriteExtra
  <2>4. SaidInv' /\ ReaderInv'
    BY <1>0, <2>1, SaidSame, ReaderInvSame
  <2>5. AnswersReadBack'
    BY <1>0, <2>1, AnswersSame DEF callVars
  <2> QED BY <2>2, <2>3, <2>4, <2>5
<1>7. CASE ReadHeader \/ ReadLength
  <2>1. UNCHANGED <<callVars, opening, defaults, at, pending, toServer, sent, heard, said>>
    BY <1>7 DEF ReadHeader, ReadLength
  <2>2. CallInv'
    BY <2>1, CallInvSame
  <2>3. SentInv' /\ HeardInv'
    BY <2>1, RequestsSame DEF Called, callVars
  <2>4. SaidInv'
    BY <1>0, <2>1, SaidSame
  <2>5. ReaderInv'
    BY <1>7, ReaderInvHeader, ReaderInvLength
  <2>6. AnswersReadBack'
    BY <1>0, <2>1, AnswersSame DEF callVars
  <2> QED BY <2>2, <2>3, <2>4, <2>5, <2>6
<1>8. CASE DeliverPayload \/ DeliverHeader
  BY <1>8, WirePayload, WireHeader
<1>9. CASE ServerReads
  <2>1. UNCHANGED <<callVars, opening, defaults, at, pending, toClient, sent, said, reader>>
    BY <1>9 DEF ServerReads
  <2>2. CallInv'
    BY <2>1, CallInvSame
  <2>3. /\ SentInv' /\ HeardInv' /\ Len(heard') = Len(heard) + 1
        /\ \A i \in 1 .. Len(heard) : heard'[i] = heard[i]
    BY <1>9, RequestsRead
  <2>4. SaidInv' /\ ReaderInv'
    BY <1>0, <2>1, <2>3, SaidSame, ReaderInvSame
  <2>5. AnswersReadBack'
    BY <1>0, <2>1, AnswersSame DEF callVars
  <2> QED BY <2>2, <2>3, <2>4, <2>5
<1>10. CASE ServerAnswers
  <2>1. UNCHANGED <<callVars, opening, defaults, at, pending, toServer, sent, heard, reader>>
    BY <1>10, Zenon DEF ServerAnswers
  <2>2. CallInv'
    BY <2>1, CallInvSame
  <2>3. SentInv' /\ HeardInv'
    BY <2>1, RequestsSame DEF Called, callVars
  <2>4. SaidInv'
    BY <1>10, SaidInvAnswers
  <2>5. PICK a : /\ AnswerTyped(a) /\ said' = Append(said, a) /\ a \in Answers
                 /\ toClient' = toClient \o ResponseFrame(a)
    BY <1>10, SaidInvAnswers
  <2>6. ReaderInv'
    BY <2>1, <2>5, ReaderInvAnswers
  <2>7. AnswersReadBack'
    <3>1. \A b \in Callers : at'[b] = "done" =>
            at[b] = "done" /\ frame'[b] = frame[b] /\ result'[b] = result[b]
      BY <2>1 DEF callVars
    <3> QED BY <1>0, <2>5, <3>1, AnswersSame
  <2> QED BY <2>2, <2>3, <2>4, <2>6, <2>7
<1>11. CASE UNCHANGED vars
  <2>1. /\ UNCHANGED <<callVars, opening, defaults, at, pending, toServer, toClient, sent, heard,
                       said, reader>>
    BY <1>11 DEF vars
  <2>2. CallInv'
    BY <2>1, CallInvSame
  <2>3. SentInv' /\ HeardInv'
    BY <2>1, RequestsSame DEF Called, callVars
  <2>4. SaidInv' /\ ReaderInv'
    BY <1>0, <2>1, SaidSame, ReaderInvSame
  <2>5. AnswersReadBack'
    BY <1>0, <2>1, AnswersSame DEF callVars
  <2> QED BY <2>2, <2>3, <2>4, <2>5
<1> QED BY <1>1, <1>2, <1>3, <1>4, <1>5, <1>6, <1>7, <1>8, <1>9, <1>10, <1>11
        DEF Next, OpenStep, CallerStep, ReaderStep, ServerStep

(* The invariant holds in every state, for all callers, operations, data and defaults. *)
THEOREM WireInvHolds == Spec => []WireInv
<1>1. Init => WireInv
  BY WireInit
<1>2. WireInv /\ [Next]_vars => WireInv'
  BY WireNext
<1> QED BY <1>1, <1>2, PTL DEF Spec

(* What the server reads is the command that its caller made, timed as asked. *)
LEMMA CommandHeard ==
  ASSUME WireInv, NEW c \in Callers, NEW i \in DOMAIN heard, heard[i].request = RequestId(c)
  PROVE  /\ heard[i] = cmd[c] /\ frame[c] = Encode(cmd[c]) /\ frame[c].ok
         /\ cmd[c] \in Messages /\ c \in DOMAIN work /\ work[c] \in Operation
         /\ IF work[c].prim = "ping" THEN cmd[c].type = PING
            ELSE \E d \in {made[c], defaults} : Right(work[c], cmd[c], made[c], d, RequestId(c))
<1>1. CallInv /\ SentInv /\ HeardInv
  BY DEF WireInv
<1>2. i \in 1 .. Len(heard)
  BY <1>1, LenProperties DEF SentInv
<1>3. heard[i] = cmd[c] /\ frame[c].ok /\ at[c] \in {"wait", "done"}
  BY <1>1, <1>2, HeardOfCall
<1>4. CallOk(c) /\ Called(c) /\ at[c] # "start"
  BY <1>1, <1>3 DEF CallInv, Called
<1>5. /\ frame[c] = Encode(cmd[c]) /\ cmd[c] \in Messages /\ c \in DOMAIN work
      /\ IF work[c].prim = "ping" THEN cmd[c].type = PING
         ELSE \E d \in {made[c], defaults} : Right(work[c], cmd[c], made[c], d, RequestId(c))
  BY <1>4, Zenon DEF CallOk
<1>6. work[c] \in Operation
  BY <1>1, <1>5, Operations DEF CallInv
<1> QED BY <1>3, <1>5, <1>6

(* Both ends agree on where frames end. *)
LEMMA StepTogether == ASSUME WireInv PROVE ServerInStep
<1>1. CallInv /\ SentInv /\ HeardInv
  BY DEF WireInv
<1> DEFINE k == Len(heard)  n == Len(sent)
<1>2. /\ heard \in Seq(Messages) /\ sent \in Seq(Messages) /\ k \in Nat /\ n \in Nat
      /\ InFlight(toServer, k, Written, Frames, Part) /\ k <= Written /\ Written \in Nat
      /\ \A j : j \in 1 .. k => heard[j] = sent[j]
  BY <1>1, FlightTyped, LenProperties DEF SentInv, HeardInv
<1>3. k <= n
  BY <1>2 DEF Written
<1>4. IsPrefix(heard, sent)
  <2> DEFINE a == SubSeq(heard, 1, k)  b == SubSeq(sent, 1, k)
  <2>1. /\ a \in Seq(Messages) /\ Len(a) = k /\ \A j : j \in 1 .. k => a[j] = heard[j]
    BY <1>2, SubSeqProperties
  <2>2. /\ b \in Seq(Messages) /\ Len(b) = k /\ \A j : j \in 1 .. k => b[j] = sent[j]
    BY <1>2, <1>3, SubSeqProperties
  <2> HIDE DEF a, b, k, n
  <2>3. \A j : j \in 1 .. k => a[j] = b[j]
    BY <1>2, <2>1, <2>2, Zenon
  <2>4. a = b
    BY <2>1, <2>2, <2>3, SeqEqual
  <2> QED BY <1>3, <2>4 DEF IsPrefix, a, b, k, n
<1>5. ASSUME \A c \in Callers : at[c] # "extra", toServer # << >> PROVE FrameLen > 0
  <2>1. Written = n /\ Part = << >>
    BY <1>5 DEF WriterFree, Written, Part
  <2>2. InFlight(toServer, k, n, Frames, << >>)
    BY <1>2, <2>1, Zenon
  <2>3. k # n
    BY <1>5, <2>2, FlightDone
  <2>4. PICK r : Joined(toServer, Frames[k + 1], r)
    BY <2>2, <2>3, FlightRead
  <2>5. k + 1 \in 1 .. n
    BY <1>2, <1>3, <2>3
  <2> DEFINE q == sent[k + 1]
  <2>6. Frames[k + 1] = FrameOf(q)
    BY <2>5 DEF Frames
  <2>7. IsSent(q)
    BY <1>1, <2>5 DEF SentInv
  <2>8. WellMade(q) /\ Encode(q).ok
    BY <1>1, <2>7, SentMade
  <2> QED BY <2>4, <2>6, <2>8, RequestRead
<1> QED BY <1>4, <1>5 DEF ServerInStep

(* No unit but the minute is longer than a second. *)
LEMMA TimeFits ==
  \A v \in 0 .. U16MAX : \A F : MINUTE \notin F =>
    In(v, F) <= v * 1000 /\ In(v, F) \in Nat
<1> SUFFICES ASSUME NEW v \in 0 .. U16MAX, NEW F, MINUTE \notin F
             PROVE  In(v, F) <= v * 1000 /\ In(v, F) \in Nat
  OBVIOUS
<1>1. v \in Nat
  OBVIOUS
<1>2. In(v, F) = v * (IF MILLISECOND \in F THEN 1 ELSE 1000)
  BY DEF In, Milliseconds, WithFlags
<1>3. CASE MILLISECOND \in F
  BY <1>1, <1>2, <1>3
<1>4. CASE MILLISECOND \notin F
  BY <1>1, <1>2, <1>4
<1> QED BY <1>3, <1>4

(* The client waits for at least the time that the server may. *)
LEMMA LongEnough == ASSUME WireInv PROVE WaitsLongEnough
<1> SUFFICES ASSUME NEW c \in Callers, NEW i \in DOMAIN heard, heard[i].request = RequestId(c),
                    heard[i].type = LOCK, MINUTE \notin heard[i].timeout.flags
             PROVE  (frame[c].timeout + Grace) * 1000 >= Milliseconds(heard[i].timeout)
  BY DEF WaitsLongEnough
<1> DEFINE q == heard[i]  v == q.timeout.value
<1>1. q = cmd[c] /\ frame[c] = Encode(q) /\ frame[c].ok /\ q \in Messages
  BY CommandHeard
<1>2. q \in LockMessages
  BY <1>1, MessageTypes
<1>3. q.timeout \in Times
  BY <1>2 DEF LockMessages
<1>4. v \in 0 .. U16MAX /\ v \in Nat
  BY <1>3 DEF Times
<1>5. Encode(q) = EncodeLock(q)
  BY TypesDiffer DEF Encode
<1>6. Encode(q).timeout = v
  BY <1>1, <1>5 DEF EncodeLock, Encoded, EncodeError
<1> HIDE DEF q, v
<1>7. Milliseconds(q.timeout) = In(v, q.timeout.flags)
  BY SameTime, SameUnits(q.timeout.flags, q.timeout.flags) DEF SameUnits, v
<1>8. In(v, q.timeout.flags) <= v * 1000 /\ In(v, q.timeout.flags) \in Nat
  BY <1>4, TimeFits DEF q
<1>9. Grace \in Nat
  BY WireAssumption
<1>10. (v + Grace) * 1000 >= v * 1000
  BY <1>4, <1>9
<1>11. (v + Grace) * 1000 \in Int /\ v * 1000 \in Int
  BY <1>4, <1>9
<1>12. (v + Grace) * 1000 >= Milliseconds(q.timeout)
  BY <1>7, <1>8, <1>10, <1>11
<1>13. frame[c].timeout = v
  BY <1>1, <1>6, Zenon
<1> QED BY <1>12, <1>13, Zenon DEF q

(* The period of a token is rounded up to its unit, whatever the default flags. *)
LEMMA TokenKept ==
  ASSUME NEW period \in Nat, NEW flags \in SUBSET Flags16, NEW expired,
         expired.value = TokenExpired(period),
         SameUnits(expired.flags, IF IsShort(period) THEN flags \cup {MILLISECOND} ELSE flags)
  PROVE  TokenStays(period, flags, expired)
<1> DEFINE n == expired.value  unit == In(1, expired.flags)
<1> DEFINE given == IF IsShort(period) THEN flags \cup {MILLISECOND} ELSE flags
<1>0. unit = In(1, given)
  <2>1. MILLISECOND \in expired.flags <=> MILLISECOND \in given
    BY Zenon DEF SameUnits, Units
  <2>2. MINUTE \in expired.flags <=> MINUTE \in given
    BY Zenon DEF SameUnits, Units
  <2> HIDE DEF given
  <2> QED BY <2>1, <2>2 DEF In, Milliseconds, WithFlags
<1>1. CASE IsShort(period)
  <2> DEFINE x == CeilDiv(period, 10)
  <2>1. x \in Nat /\ 10 * x >= period /\ 10 * x < period + 10 /\ period < 30000
    BY <1>1 DEF IsShort, CeilDiv
  <2> HIDE DEF x
  <2>2. Max({x, 1}) = IF x >= 1 THEN x ELSE 1
    BY <2>1 DEF Max
  <2>3. n = Max({x, 1})
    BY <1>1 DEF TokenExpired, x
  <2>4. unit = 1
    <3>1. MILLISECOND \in given
      BY <1>1
    <3> HIDE DEF given
    <3> QED BY <1>0, <3>1 DEF In, Milliseconds, WithFlags
  <2> HIDE DEF n, unit
  <2>5. n * 10 >= period /\ n > 0 /\ (n * 10 < period + 10 \/ period = 0)
    BY <2>1, <2>2, <2>3
  <2> QED BY <2>1, <2>4, <2>5 DEF TokenStays, n, unit
<1>2. CASE ~IsShort(period)
  <2> DEFINE x == CeilDiv(period, 10000)
  <2>1. x \in Nat /\ 10000 * x >= period /\ 10000 * x < period + 10000 /\ ~(period < 30000)
    BY <1>2 DEF IsShort, CeilDiv
  <2> HIDE DEF x
  <2>2. Min({x, U16MAX}) = IF x <= U16MAX THEN x ELSE U16MAX
    BY <2>1 DEF Min, U16MAX
  <2>3. n = Min({x, U16MAX})
    BY <1>2 DEF TokenExpired, x
  <2>4. unit = In(1, flags)
    BY <1>0, <1>2
  <2> HIDE DEF n, unit
  <2>5. n * 10000 < period + 10000 /\ (n * 10000 >= period \/ n = U16MAX)
    BY <2>1, <2>2, <2>3 DEF U16MAX
  <2> QED BY <2>1, <2>4, <2>5 DEF TokenStays, n, unit
<1> QED BY <1>1, <1>2

(* The server counts times in the unit they were given in. *)
LEMMA UnitsTogether == ASSUME WireInv PROVE UnitsKept
<1> SUFFICES ASSUME NEW c \in Callers, NEW i \in DOMAIN heard, heard[i].request = RequestId(c),
                    heard[i].type \in {LOCK, UNLOCK}
             PROVE  TimesKept(c, heard[i])
  BY Zenon DEF UnitsKept
<1> DEFINE o == work[c]  q == heard[i]  x == Milliseconds(q.expired)
<1>1. /\ q = cmd[c] /\ o \in Operation /\ c \in DOMAIN work
      /\ IF o.prim = "ping" THEN cmd[c].type = PING
         ELSE \E d \in {made[c], defaults} : Right(o, cmd[c], made[c], d, RequestId(c))
  BY CommandHeard
<1>2. o.prim # "ping"
  BY <1>1, TypesDiffer
<1>3. PICK d \in {made[c], defaults} : Right(o, q, made[c], d, RequestId(c))
  BY <1>1, <1>2, Zenon
<1>4. PICK F \in IF IsProbe(o) THEN {{}} ELSE {made[c][1], d[1]},
           G \in IF o.prim = "token" THEN {HandleFlags(o, made[c])} ELSE {made[c][2], d[2]} :
        Says(q, Asked(o), F, KeptFor(o), G)
  BY <1>3, Zenon DEF Right
<1>5. Milliseconds(q.timeout) = In(Asked(o), F) /\ x = In(KeptFor(o), G)
  BY <1>4, SameTime, Zenon DEF Says
<1>6. Asked(o) \in Nat /\ made[c] \in FlagPairs /\ o.period \in Nat
  <2>1. o.wait \in Nat /\ o.timeout \in Nat /\ o.period \in Nat
    BY <1>1, OperationTyped
  <2>2. made[c] \in FlagPairs
    BY FlagPairsTyped DEF WireInv, CallInv
  <2> QED BY <2>1, <2>2 DEF Asked
<1> HIDE DEF o, q, x
<1>7. Milliseconds(q.timeout) \in
        IF o.prim = "event" /\ o.n # 1 /\ o.op \in {"wait", "is_set"} THEN {Asked(o) * 1000}
        ELSE {In(Asked(o), made[c][1]), In(Asked(o), defaults[1])}
  <2>1. CASE IsProbe(o)
    <3>1. F = {}
      BY <1>4, <2>1
    <3>2. In(Asked(o), {}) = Asked(o) * 1000
      BY DEF In, Milliseconds, WithFlags
    <3> QED BY <1>5, <2>1, <3>1, <3>2 DEF IsProbe, SetByDefault
  <2>2. CASE ~IsProbe(o)
    <3>1. F \in {made[c][1], defaults[1]}
      BY <1>3, <1>4, <2>2
    <3>2. In(Asked(o), F) \in {In(Asked(o), made[c][1]), In(Asked(o), defaults[1])}
      BY <3>1, Zenon
    <3> QED BY <1>5, <2>2, <3>2, Zenon DEF IsProbe, SetByDefault
  <2> QED BY <2>1, <2>2
<1>8. o.prim # "token" =>
        x \in {In(KeptFor(o), made[c][2]), In(KeptFor(o), defaults[2])}
  BY <1>3, <1>4, <1>5, Zenon
<1>9. o.prim # "token" =>
        KeptFor(o) = IF o.op \in {"wait", "is_set"} THEN 0 ELSE o.expired
  BY Zenon DEF KeptFor, HandleExpired
<1>10. o.prim = "token" => TokenStays(o.period, made[c][2], q.expired)
  <2> SUFFICES ASSUME o.prim = "token"
               PROVE  TokenStays(o.period, made[c][2], q.expired)
    OBVIOUS
  <2>1. o.op \notin {"wait", "is_set"}
    <3>1. o.op \in {"acquire", "release", "show", "update", "release_head", "to_lock_wait"}
      BY <1>1, MethodsAre DEF o
    <3> QED BY <3>1
  <2>2. KeptFor(o) = TokenExpired(o.period)
    BY <2>1 DEF KeptFor, HandleExpired
  <2>3. G = IF IsShort(o.period) THEN made[c][2] \cup {MILLISECOND} ELSE made[c][2]
    BY <1>4 DEF HandleFlags
  <2>4. q.expired.value = TokenExpired(o.period) /\ SameUnits(q.expired.flags, G)
    BY <1>4, <2>2 DEF Says
  <2>5. made[c][2] \in SUBSET Flags16
    BY <1>6 DEF FlagPairs
  <2> HIDE DEF q
  <2> QED BY <1>6, <2>3, <2>4, <2>5, TokenKept
<1> DEFINE asked == IF o.op = "wait" THEN o.wait
                    ELSE IF o.op \in {"is_set", "child", "parent"} THEN 0 ELSE o.timeout
           kept == IF o.op \in {"wait", "is_set"} THEN 0 ELSE o.expired
<1>11. asked = Asked(o)
  BY Zenon DEF Asked
<1> HIDE DEF asked, kept
<1>12. /\ Milliseconds(q.timeout) \in
            IF o.prim = "event" /\ o.n # 1 /\ o.op \in {"wait", "is_set"} THEN {asked * 1000}
            ELSE {In(asked, made[c][1]), In(asked, defaults[1])}
       /\ o.prim # "token" => x \in {In(kept, made[c][2]), In(kept, defaults[2])}
  <2>1. o.prim # "token" => kept = KeptFor(o)
    BY <1>9, Zenon DEF kept
  <2>2. o.prim # "token" => x \in {In(kept, made[c][2]), In(kept, defaults[2])}
    BY <1>8, <2>1, Zenon
  <2>3. Milliseconds(q.timeout) \in
          IF o.prim = "event" /\ o.n # 1 /\ o.op \in {"wait", "is_set"} THEN {asked * 1000}
          ELSE {In(asked, made[c][1]), In(asked, defaults[1])}
    BY <1>7, <1>11, ZenonT(40)
  <2> QED BY <2>2, <2>3, Zenon
<1> QED BY <1>10, <1>12 DEF TimesKept, o, q, x, asked, kept

(***************************************************************************)
(* What LockResultData reads is what the server put there.  as_list and    *)
(* as_map walk forward over the bytes, by the lengths they find; that      *)
(* their results are defined is the other recursion theorem.               *)
(***************************************************************************)

(* The list from index i on, by the lists further on. *)
ListAt(raw, i, from) ==
  IF ~AnotherLength(raw, i) THEN OkList(<< >>)
  ELSE LET n == Num4(Slice(raw, i, 4))
           rest == from[i + 4 + n]
       IN  IF n = 0 THEN rest
           ELSE IF i + 4 + n > Len(raw) \/ ~rest.ok THEN ListError
           ELSE OkList(<<Slice(raw, i + 4, n)>> \o rest.list)

(* The map from index i on, by the maps further on. *)
MapAt(raw, i, from) ==
  IF ~AnotherLength(raw, i) THEN OkMap(<< >>)
  ELSE LET k == Num4(Slice(raw, i, 4))
           j == i + 4 + k
       IN  IF k = 0 THEN from[i + 4]
           ELSE IF j > Len(raw) \/ ~IsUtf8(Slice(raw, i + 4, k)) \/ j + 4 > Len(raw)
           THEN MapError
           ELSE LET n == Num4(Slice(raw, j, 4))
                    rest == from[j + 4 + n]
                IN  IF n = 0 THEN rest
                    ELSE IF j + 4 + n > Len(raw) \/ ~rest.ok THEN MapError
                    ELSE OkMap(Under(rest.map, Slice(raw, i + 4, k), Slice(raw, j + 4, n)))

(* The recursion theorems for the walks of as_list. *)
ForList == INSTANCE Recursion WITH Body <- ListAt

(* The recursion theorems for the walks of as_map. *)
ForMap == INSTANCE Recursion WITH Body <- MapAt

(* A length of four bytes is a number, wherever it is. *)
LEMMA LengthAt ==
  ASSUME NEW raw \in Seq(Byte), NEW i \in Nat, AnotherLength(raw, i)
  PROVE  Num4(Slice(raw, i, 4)) \in Nat
<1>1. i + 4 <= Len(raw)
  BY DEF AnotherLength
<1> DEFINE b == Slice(raw, i, 4)
<1>2. b \in Seq(Byte) /\ Len(b) = 4
  <2>1. 4 \in Nat
    OBVIOUS
  <2> QED BY <1>1, <2>1, Slices
<1> HIDE DEF b
<1>3. b \in BytesOf(4) /\ 1 \in 1 .. 4 /\ 2 \in 1 .. 4 /\ 3 \in 1 .. 4 /\ 4 \in 1 .. 4
  BY <1>2 DEF BytesOf
<1>4. b[1] \in Byte /\ b[2] \in Byte /\ b[3] \in Byte /\ b[4] \in Byte
  BY <1>3, ByteAt, Zenon
<1> DEFINE x == b[1]  y == b[2]  z == b[3]  u == b[4]
<1>5. Num4(b) = (x + 256 * y) + 65536 * (z + 256 * u)
  BY DEF Num4, Num2
<1> HIDE DEF x, y, z, u
<1>6. x \in Byte /\ y \in Byte /\ z \in Byte /\ u \in Byte
  BY <1>4 DEF x, y, z, u
<1>7. Num4(b) \in Nat
  BY <1>5, <1>6 DEF Byte
<1> QED BY <1>7, Zenon DEF b

(* as_list looks at lists further on only. *)
LEMMA ListForward ==
  ASSUME NEW raw \in Seq(Byte), NEW i \in Nat, NEW f, NEW g, \A j \in Nat : j > i => f[j] = g[j]
  PROVE  ListAt(raw, i, f) = ListAt(raw, i, g)
<1>1. CASE ~AnotherLength(raw, i)
  BY <1>1, Zenon DEF ListAt
<1>2. CASE AnotherLength(raw, i)
  <2> DEFINE n == Num4(Slice(raw, i, 4))
  <2>1. n \in Nat
    BY <1>2, LengthAt
  <2>2. i + 4 + n \in Nat /\ i + 4 + n > i
    BY <2>1
  <2>3. f[i + 4 + n] = g[i + 4 + n]
    BY <2>2, Zenon
  <2> QED BY <1>2, <2>3, Zenon DEF ListAt
<1> QED BY <1>1, <1>2

(* as_map looks at maps further on only. *)
LEMMA MapForward ==
  ASSUME NEW raw \in Seq(Byte), NEW i \in Nat, NEW f, NEW g, \A j \in Nat : j > i => f[j] = g[j]
  PROVE  MapAt(raw, i, f) = MapAt(raw, i, g)
<1>1. CASE ~AnotherLength(raw, i)
  BY <1>1, Zenon DEF MapAt
<1>2. CASE AnotherLength(raw, i)
  <2> DEFINE k == Num4(Slice(raw, i, 4))  j == i + 4 + k  n == Num4(Slice(raw, j, 4))
  <2>1. k \in Nat
    BY <1>2, LengthAt
  <2>2. i + 4 \in Nat /\ i + 4 > i /\ j \in Nat /\ j > i
    BY <2>1
  <2>3. f[i + 4] = g[i + 4]
    BY <2>2, Zenon
  <2>4. CASE ~AnotherLength(raw, j)
    <3>1. j + 4 > Len(raw)
      <4>1. Len(raw) \in Nat
        BY LenProperties
      <4> HIDE DEF j
      <4> QED BY <2>2, <2>4, <4>1 DEF AnotherLength
    <3> QED BY <1>2, <2>3, <3>1, Zenon DEF MapAt
  <2>5. CASE AnotherLength(raw, j)
    <3>1. n \in Nat
      <4> HIDE DEF j
      <4> QED BY <2>2, <2>5, LengthAt
    <3>2. j + 4 + n \in Nat /\ j + 4 + n > i
      <4> HIDE DEF j, n
      <4> QED BY <2>2, <3>1
    <3>3. f[j + 4 + n] = g[j + 4 + n]
      BY <3>2, Zenon
    <3> QED BY <1>2, <2>3, <3>3, Zenon DEF MapAt
  <2> QED BY <2>4, <2>5
<1> QED BY <1>1, <1>2

(* Beyond the end there is nothing to look at. *)
LEMMA NothingBeyond ==
  ASSUME NEW raw \in Seq(Byte), NEW i \in Nat, i > Len(raw) PROVE ~AnotherLength(raw, i)
<1>1. Len(raw) \in Nat
  BY LenProperties
<1> QED BY <1>1 DEF AnotherLength

(* as_list is what its walk says. *)
LEMMA AsListIs ==
  ASSUME NEW raw \in Seq(Byte)
  PROVE  \E from : /\ \A i \in Nat : from[i] = ListAt(raw, i, from)
                   /\ AsList(raw) = IF ~IsValue(raw, ARRAY) THEN OkList(<< >>)
                                    ELSE IF ValueOffset(raw) = Malformed THEN ListError
                                    ELSE from[ValueOffset(raw)]
<1>1. \A i \in Nat : \A f, g :
        (\A j \in Nat : j > i => f[j] = g[j]) => ListAt(raw, i, f) = ListAt(raw, i, g)
  BY ListForward
<1>2. \A i \in Nat : \A f, g : i > Len(raw) => ListAt(raw, i, f) = ListAt(raw, i, g)
  BY NothingBeyond, Zenon DEF ListAt
<1>3. Len(raw) \in Nat
  BY LenProperties
<1>4. \E f : f = [i \in Nat |-> ListAt(raw, i, f)]
  BY <1>1, <1>2, <1>3, ForList!ForwardTheorem
<1> DEFINE from == CHOOSE f : f = [i \in Nat |-> ListAt(raw, i, f)]
<1>5. from = [i \in Nat |-> ListAt(raw, i, from)]
  BY <1>4, Zenon
<1>6. AsList(raw) = IF ~IsValue(raw, ARRAY) THEN OkList(<< >>)
                    ELSE IF ValueOffset(raw) = Malformed THEN ListError
                    ELSE from[ValueOffset(raw)]
  BY Zenon DEF AsList, ListAt
<1> HIDE DEF from
<1>7. \A i \in Nat : from[i] = ListAt(raw, i, from)
  BY <1>5, Zenon
<1> QED BY <1>6, <1>7, Zenon

(* as_map is what its walk says. *)
LEMMA AsMapIs ==
  ASSUME NEW raw \in Seq(Byte)
  PROVE  \E from : /\ \A i \in Nat : from[i] = MapAt(raw, i, from)
                   /\ AsMap(raw) = IF ~IsValue(raw, KV) THEN OkMap(<< >>)
                                   ELSE IF ValueOffset(raw) = Malformed THEN MapError
                                   ELSE from[ValueOffset(raw)]
<1>1. \A i \in Nat : \A f, g :
        (\A j \in Nat : j > i => f[j] = g[j]) => MapAt(raw, i, f) = MapAt(raw, i, g)
  BY MapForward
<1>2. \A i \in Nat : \A f, g : i > Len(raw) => MapAt(raw, i, f) = MapAt(raw, i, g)
  <2>1. \A i \in Nat : i > Len(raw) => ~AnotherLength(raw, i)
    BY NothingBeyond
  <2>2. \A i, f : ~AnotherLength(raw, i) => MapAt(raw, i, f) = OkMap(<< >>)
    BY DEF MapAt
  <2> QED BY <2>1, <2>2, Zenon
<1>3. Len(raw) \in Nat
  BY LenProperties
<1>4. \E f : f = [i \in Nat |-> MapAt(raw, i, f)]
  BY <1>1, <1>2, <1>3, ForMap!ForwardTheorem
<1> DEFINE from == CHOOSE f : f = [i \in Nat |-> MapAt(raw, i, f)]
<1>5. from = [i \in Nat |-> MapAt(raw, i, from)]
  BY <1>4, Zenon
<1>6. AsMap(raw) = IF ~IsValue(raw, KV) THEN OkMap(<< >>)
                   ELSE IF ValueOffset(raw) = Malformed THEN MapError
                   ELSE from[ValueOffset(raw)]
  BY Zenon DEF AsMap, MapAt
<1> HIDE DEF from
<1>7. \A i \in Nat : from[i] = MapAt(raw, i, from)
  BY <1>5, Zenon
<1> QED BY <1>6, <1>7, Zenon

(* The raw data of a response: four zero bytes, and what the server attached. *)
RawOf(x) == Zeros(4) \o Payload(x)

(* Where the value starts in it. *)
ValueStart(x) == 6 + PropertyLen(x)

(* The header is read for what it says, and the value is found behind it. *)
LEMMA RawRead ==
  ASSUME NEW x \in Contents, x.kind # "none"
  PROVE  LET raw == RawOf(x)
         IN  /\ raw \in Seq(Byte) /\ ValueStart(x) \in Nat /\ ValueStart(x) >= 6
             /\ Len(raw) = ValueStart(x) + Kept(x)
             /\ Has(raw, ValueStart(x), Kept(x), KeptValue(x))
             /\ At(raw, 4) = DataTypes.set /\ At(raw, 5) = Bits(ContentFlags(x))
             /\ x.property > 0 => Has(raw, 6, 2, LE2(x.property))
<1> DEFINE raw == RawOf(x)  z == Zeros(4)  p == Payload(x)
           s == TypeAndFlags(x)  t == PropertyPart(x)  u == KeptValue(x)
           m == PropertyLen(x)  n == Kept(x)
<1>1. /\ s \in BytesOf(2) /\ t \in BytesOf(m) /\ u \in BytesOf(n) /\ p = (s \o t) \o u
      /\ m \in Nat /\ n \in Nat
      /\ s[1] = DataTypes.set /\ s[2] = Bits(ContentFlags(x))
  BY PayloadParts, KeptTyped, Zenon
<1>2. z \in BytesOf(4)
  BY ZerosTyped
<1>t. x.property > 0 => m = 2 + x.property /\ Has(t, 0, 2, LE2(x.property))
  <2> SUFFICES ASSUME x.property > 0 PROVE m = 2 + x.property /\ Has(t, 0, 2, LE2(x.property))
    OBVIOUS
  <2>1. x.property \in Nat
    BY ContentsAssumption
  <2>2. LE2(x.property) \in BytesOf(2) /\ Zeros(x.property) \in BytesOf(x.property)
    BY <2>1, LE2Typed, ZerosTyped
  <2>3. Joined(t, LE2(x.property), Zeros(x.property))
    BY <2>2, Zenon DEF Joined, BytesOf, PropertyPart
  <2>4. Has(t, 0, 2, LE2(x.property))
    BY <2>2, <2>3, HasAll, HasLeft, Zenon
  <2> QED BY <2>4 DEF PropertyLen
<1>r. raw = z \o p
  BY DEF RawOf
<1> HIDE DEF raw, z, p, s, t, u, m, n
<1>3. Joined(s \o t, s, t)
  BY <1>1, Zenon DEF Joined, BytesOf
<1>4. s \o t \in BytesOf(2 + m)
  BY <1>1, <1>3, Concat, Zenon
<1>5. Joined(p, s \o t, u)
  BY <1>1, <1>4, Zenon DEF Joined, BytesOf
<1>6. p \in BytesOf((2 + m) + n)
  BY <1>1, <1>4, <1>5, Concat, Zenon
<1>7. Joined(raw, z, p)
  BY <1>2, <1>6, <1>r, Zenon DEF Joined, BytesOf
<1>8. raw \in BytesOf(4 + ((2 + m) + n))
  BY <1>2, <1>6, <1>7, Concat, Zenon
<1>9. Has(raw, 4 + 0, 2, s)
  BY <1>1, <1>2, <1>3, <1>5, <1>7, HasAll, HasLeft, HasInside, Zenon
<1>10. Has(raw, 4 + (2 + m), n, u)
  BY <1>1, <1>2, <1>4, <1>5, <1>7, HasRight, HasInside, Zenon
<1>11. 4 + 0 = 4 /\ 4 + (2 + m) = 6 + m /\ 4 + ((2 + m) + n) = (6 + m) + n /\ 4 + (2 + 0) = 6
  BY <1>1
<1>12. At(raw, 4) = DataTypes.set /\ At(raw, 5) = Bits(ContentFlags(x))
  <2>1. Has(raw, 4, 2, s)
    BY <1>9, <1>11
  <2>2. At(raw, 4) = s[1] /\ At(raw, 4 + 1) = s[2]
    BY <2>1, HasAt, Zenon
  <2> QED BY <1>1, <2>2
<1>13. x.property > 0 => Has(raw, 6, 2, LE2(x.property))
  <2>1. x.property > 0 => Has(raw, 4 + (2 + 0), 2, LE2(x.property))
    BY <1>1, <1>2, <1>3, <1>5, <1>7, <1>t, HasLeft, HasInside, Zenon
  <2> QED BY <1>11, <2>1
<1>14. raw \in Seq(Byte) /\ Len(raw) = (6 + m) + n /\ 6 + m \in Nat /\ 6 + m >= 6
  BY <1>1, <1>8, <1>11 DEF BytesOf
<1>15. Has(raw, 6 + m, n, u)
  BY <1>10, <1>11
<1> QED BY <1>12, <1>13, <1>14, <1>15, Zenon DEF raw, m, n, u, ValueStart

(* The flags of the data are those of its kind, and that of a property. *)
LEMMA FlagsOfContent ==
  ASSUME NEW x \in Contents
  PROVE  /\ PROPERTY \in ContentFlags(x) <=> x.property > 0
         /\ ARRAY \in ContentFlags(x) <=> x.kind = "list"
         /\ KV \in ContentFlags(x) <=> x.kind = "map"
BY DEF ContentFlags, ARRAY, KV, NUMBER, PROPERTY

(* value_offset finds the value, behind the property if there is one; the flags say    *)
(* what kind of data it is.                                                             *)
LEMMA HeaderRead ==
  ASSUME NEW x \in Contents, x.kind # "none"
  PROVE  LET raw == RawOf(x)
         IN  /\ Stage(raw) = Stages.current /\ CommandType(raw) = DataTypes.set
             /\ ValueOffset(raw) = ValueStart(x) /\ ValueStart(x) # Malformed
             /\ IsValue(raw, ARRAY) <=> x.kind = "list"
             /\ IsValue(raw, KV) <=> x.kind = "map"
<1> DEFINE raw == RawOf(x)  off == ValueStart(x)  n == Kept(x)
<1>1. /\ raw \in Seq(Byte) /\ off \in Nat /\ off >= 6 /\ Len(raw) = off + n
      /\ At(raw, 4) = DataTypes.set /\ At(raw, 5) = Bits(ContentFlags(x))
      /\ x.property > 0 => Has(raw, 6, 2, LE2(x.property))
  BY RawRead
<1>2. n \in Nat /\ Len(raw) >= 6
  BY <1>1, KeptTyped
<1>3. ContentFlags(x) \in SUBSET Flags8
  BY PayloadParts
<1>o. off = 6 + PropertyLen(x)
  BY DEF ValueStart
<1> HIDE DEF raw, off, n
<1>4. \A f : HasFlag(raw, f) <=> f \in ContentFlags(x)
  <2>1. FlagsOf(Flags8, At(raw, 5)) = ContentFlags(x)
    BY <1>1, <1>3, Flags8Read, Zenon
  <2> QED BY <2>1, Zenon DEF HasFlag
<1>5. /\ HasFlag(raw, PROPERTY) <=> x.property > 0
      /\ HasFlag(raw, ARRAY) <=> x.kind = "list"
      /\ HasFlag(raw, KV) <=> x.kind = "map"
  BY <1>4, FlagsOfContent
<1>6. DataTypes.set = 0 /\ DataTypes.unset = 1 /\ Stages.current = 0
  BY DEF DataTypes, Stages
<1>7. Stage(raw) = Stages.current /\ CommandType(raw) = DataTypes.set
  BY <1>1, <1>2, <1>6 DEF Stage, CommandType
<1>8. /\ IsValue(raw, ARRAY) <=> x.kind = "list"
      /\ IsValue(raw, KV) <=> x.kind = "map"
  BY <1>1, <1>2, <1>5, <1>6 DEF IsValue
<1>9. ValueOffset(raw) = off
  <2>1. CASE x.property > 0
    <3>1. Has(raw, 6, 2, LE2(x.property)) /\ x.property \in 0 .. U16MAX
      BY <1>1, <2>1, ContentsAssumption
    <3>2. Num2(Slice(raw, 6, 2)) = x.property
      BY <3>1, Num2OfLE2, Zenon DEF Has
    <3>3. off = 8 + x.property /\ off >= 8 /\ Len(raw) >= 8
      <4>1. off = 6 + (2 + x.property)
        BY <2>1, <1>o DEF PropertyLen
      <4>2. x.property \in Nat
        BY <3>1
      <4> QED BY <1>1, <1>2, <4>1, <4>2
    <3>4. ~(Len(raw) < 6) /\ ~(Len(raw) < 8)
      BY <1>1, <1>2, <3>3
    <3>5. ValueOffset(raw) = 8 + Num2(Slice(raw, 6, 2))
      BY <1>5, <2>1, <3>4, Zenon DEF ValueOffset
    <3> QED BY <3>2, <3>3, <3>5
  <2>2. CASE ~(x.property > 0)
    <3>1. off = 6
      BY <2>2, <1>o DEF PropertyLen
    <3>2. ~(Len(raw) < 6)
      BY <1>1, <1>2
    <3> QED BY <1>5, <2>2, <3>1, <3>2 DEF ValueOffset
  <2> QED BY <2>1, <2>2
<1>10. off # Malformed
  BY <1>1 DEF Malformed
<1> QED BY <1>7, <1>8, <1>9, <1>10, Zenon DEF raw, off

(* as_bytes is the value, as far as it was kept. *)
LEMMA BytesAreKept ==
  ASSUME NEW x \in Contents, x.kind # "none" PROVE AsBytes(RawOf(x)) = KeptValue(x)
<1> DEFINE raw == RawOf(x)  off == ValueStart(x)  n == Kept(x)
<1>1. /\ raw \in Seq(Byte) /\ off \in Nat /\ Len(raw) = off + n
      /\ Has(raw, off, n, KeptValue(x))
  BY RawRead
<1>2. ValueOffset(raw) = off /\ off # Malformed
  BY HeaderRead
<1>3. n \in Nat /\ KeptValue(x) \in BytesOf(n)
  BY KeptTyped, PayloadParts
<1> HIDE DEF raw, off, n
<1>4. Rest(raw, off) = KeptValue(x)
  BY <1>1, Zenon DEF Has, Slice, Rest
<1>5. Len(raw) <= off => KeptValue(x) = << >>
  <2>1. Len(raw) <= off => n = 0
    BY <1>1, <1>3
  <2>2. \A b : b \in BytesOf(0) => b = << >>
    BY DEF BytesOf
  <2> QED BY <1>3, <2>1, <2>2
<1>6. AsBytes(raw) = IF Len(raw) <= off THEN << >> ELSE Rest(raw, off)
  BY <1>2, Zenon DEF AsBytes
<1> QED BY <1>4, <1>5, <1>6, Zenon DEF raw

(* as_string takes it if it is UTF-8. *)
LEMMA StringRead ==
  ASSUME NEW x \in Contents, x.kind # "none"
  PROVE  AsString(RawOf(x)) = IF IsUtf8(KeptValue(x)) THEN Ok(KeptValue(x)) ELSE LockDataError
<1>1. AsBytes(RawOf(x)) = KeptValue(x) /\ ValueOffset(RawOf(x)) # Malformed
  BY BytesAreKept, HeaderRead
<1> QED BY <1>1, Zenon DEF AsString

(* as_i64 fills a number that was cut with zeros. *)
LEMMA NumberRead ==
  ASSUME NEW x \in Contents, x.kind = "number"
  PROVE  AsI64(RawOf(x)) = KeptValue(x) \o Zeros(8 - Len(KeptValue(x)))
<1> DEFINE b == KeptValue(x)  n == Len(b)  z == Zeros(8 - n)  w == b \o z  eight == 8
<1>1. b \in Seq(Byte) /\ n \in Nat /\ n <= eight
  <2>1. Kept(x) \in Nat /\ Kept(x) <= Len(ValueOf(x)) /\ Len(ValueOf(x)) \in Nat /\ b \in BytesOf(Kept(x))
    BY KeptTyped, PayloadParts
  <2>2. Len(ValueOf(x)) <= 8
    BY ContentsAssumption
  <2> QED BY <2>1, <2>2 DEF BytesOf
<1>2. AsI64(RawOf(x)) = [i \in 1 .. 8 |-> IF i <= n THEN b[i] ELSE 0]
  <2>1. AsBytes(RawOf(x)) = b
    BY BytesAreKept
  <2> QED BY <2>1, Zenon DEF AsI64
<1>3. z \in BytesOf(eight - n) /\ \A i \in 1 .. eight - n : z[i] = 0
  BY <1>1, ZerosTyped DEF Zeros
<1> HIDE DEF b, n, z, w
<1>w. w = b \o z
  BY DEF w
<1>n. n = Len(b)
  BY DEF n
<1>4. Joined(w, b, z)
  BY <1>1, <1>3, <1>w, Zenon DEF Joined, BytesOf
<1>5. /\ w \in Seq(Byte) /\ Len(w) = n + Len(z) /\ \A i \in 1 .. n : w[i] = b[i]
      /\ \A i \in 1 .. Len(z) : w[n + i] = z[i]
  BY <1>4, <1>n, JoinedBytes
<1>6. Len(w) = 8 /\ Len(z) = 8 - n
  BY <1>1, <1>3, <1>5 DEF BytesOf
<1>7. \A i \in 1 .. 8 : w[i] = IF i <= n THEN b[i] ELSE 0
  <2> SUFFICES ASSUME NEW i \in 1 .. 8 PROVE w[i] = IF i <= n THEN b[i] ELSE 0
    OBVIOUS
  <2>1. CASE i <= n
    BY <1>1, <1>5, <2>1
  <2>2. CASE ~(i <= n)
    <3> DEFINE j == i - n
    <3>1. j \in 1 .. Len(z) /\ j \in 1 .. 8 - n /\ n + j = i
      BY <1>1, <1>6, <2>2
    <3>2. w[n + j] = z[j] /\ z[j] = 0
      BY <1>3, <1>5, <3>1
    <3> QED BY <2>2, <3>1, <3>2
  <2> QED BY <2>1, <2>2
<1>8. w = [i \in 1 .. 8 |-> w[i]]
  BY <1>5, <1>6, LenProperties
<1>9. w = [i \in 1 .. 8 |-> IF i <= n THEN b[i] ELSE 0]
  BY <1>7, <1>8
<1> QED BY <1>2, <1>9 DEF w, b, z, n

(* A piece of a piece is a piece. *)
LEMMA HasWithin ==
  \A h, k, l, w, m, n, y : Has(h, k, l, w) /\ Has(w, m, n, y) => Has(h, k + m, n, y)
<1> SUFFICES ASSUME NEW h, NEW k, NEW l, NEW w, NEW m, NEW n, NEW y,
                    Has(h, k, l, w), Has(w, m, n, y)
             PROVE  Has(h, k + m, n, y)
  OBVIOUS
<1>1. /\ h \in Seq(Byte) /\ k \in Nat /\ l \in Nat /\ k + l <= Len(h) /\ w = Slice(h, k, l)
      /\ w \in Seq(Byte) /\ m \in Nat /\ n \in Nat /\ m + n <= Len(w) /\ y = Slice(w, m, n)
  BY DEF Has
<1>2. Len(w) = l /\ \A i \in 1 .. l : w[i] = h[k + i]
  BY <1>1, Slices
<1>3. y \in Seq(Byte) /\ Len(y) = n /\ \A i \in 1 .. n : y[i] = w[m + i]
  BY <1>1, Slices, SMTT(20)
<1>4. Len(h) \in Nat
  BY <1>1, LenProperties
<1>5. k + m \in Nat /\ (k + m) + n <= Len(h)
  BY <1>1, <1>2, <1>4
<1>6. ASSUME NEW i \in 1 .. n PROVE h[(k + m) + i] = y[i]
  <2>1. m + i \in 1 .. l /\ k + (m + i) = (k + m) + i
    BY <1>1, <1>2
  <2>2. y[i] = w[m + i] /\ w[m + i] = h[k + (m + i)]
    BY <1>2, <1>3, <2>1, Zenon
  <2> QED BY <2>1, <2>2
<1> DEFINE j == k + m
<1>7. Slice(h, j, n) = y
  <2>1. j \in Nat /\ j + n <= Len(h) /\ \A i \in 1 .. n : h[j + i] = y[i]
    BY <1>5, <1>6
  <2> HIDE DEF j
  <2>2. h \in Seq(Byte) /\ n \in Nat /\ y \in Seq(Byte) /\ Len(y) = n
    BY <1>1, <1>3
  <2> QED BY <2>1, <2>2, SliceIs
<1> QED BY <1>1, <1>5, <1>7, Zenon DEF Has

(* A piece of the value is found in the raw data, if it was not cut. *)
LEMMA InRaw ==
  ASSUME NEW x \in Contents, x.kind # "none", NEW m, NEW n, NEW y, Has(ValueOf(x), m, n, y),
         m + n <= Kept(x)
  PROVE  Has(RawOf(x), ValueStart(x) + m, n, y)
<1> DEFINE v == ValueOf(x)  w == KeptValue(x)  k == Kept(x)
<1>1. /\ v \in Seq(Byte) /\ m \in Nat /\ n \in Nat /\ m + n <= Len(v) /\ y = Slice(v, m, n)
  BY DEF Has
<1>2. k \in Nat /\ k <= Len(v) /\ w \in BytesOf(k) /\ w = Slice(v, 0, k) /\ m + n <= k
  BY KeptTyped, PayloadParts
<1> HIDE DEF v, w, k
<1>3. w \in Seq(Byte) /\ Len(w) = k /\ m + n <= Len(w)
  BY <1>2 DEF BytesOf
<1>4. \A i \in 1 .. k : w[i] = v[i]
  <2>1. 0 \in Nat /\ 0 + k <= Len(v) /\ \A i \in 1 .. k : 0 + i = i
    BY <1>2
  <2>2. \A i \in 1 .. k : Slice(v, 0, k)[i] = v[0 + i]
    BY <1>1, <1>2, <2>1, Slices
  <2> QED BY <1>2, <2>1, <2>2
<1>5. y \in Seq(Byte) /\ Len(y) = n /\ \A i \in 1 .. n : y[i] = v[m + i]
  BY <1>1, Slices
<1>6. \A i \in 1 .. n : w[m + i] = y[i]
  <2> SUFFICES ASSUME NEW i \in 1 .. n PROVE w[m + i] = y[i]
    OBVIOUS
  <2>1. m + i \in 1 .. k
    BY <1>1, <1>2
  <2> QED BY <1>4, <1>5, <2>1
<1>7. Slice(w, m, n) = y
  BY <1>1, <1>3, <1>5, <1>6, SliceIs
<1>8. Has(w, m, n, y)
  BY <1>1, <1>3, <1>7, Zenon DEF Has
<1>9. Has(RawOf(x), ValueStart(x), k, w)
  BY RawRead DEF k, w
<1> QED BY <1>8, <1>9, HasWithin, Zenon

(* A length is read where it was put. *)
LEMMA LengthRead ==
  ASSUME NEW raw, NEW i, NEW n \in Nat, ~ExceedsU32(n), Has(raw, i, 4, LE4(n))
  PROVE  AnotherLength(raw, i) /\ Num4(Slice(raw, i, 4)) = n
<1>1. i + 4 <= Len(raw) /\ LE4(n) = Slice(raw, i, 4)
  BY Zenon DEF Has
<1>2. Num4(LE4(n)) = n
  BY Num4OfLE4, Zenon
<1> QED BY <1>1, <1>2, Zenon DEF AnotherLength

(* What is shorter fits into four bytes too. *)
LEMMA ShorterFits ==
  \A m, n \in Nat : m <= n /\ ~ExceedsU32(n) => ~ExceedsU32(m)
BY DEF ExceedsU32

(* An item is read: its length if that was kept, and its bytes if all of it was. *)
LEMMA ItemRead ==
  ASSUME NEW x \in Contents, x.kind # "none", NEW q \in Nat, NEW b \in Seq(Byte),
         Has(ValueOf(x), q, 4 + Len(b), Item(b))
  PROVE  LET raw == RawOf(x)  i == ValueStart(x) + q
         IN  /\ q + 4 <= Kept(x) => AnotherLength(raw, i) /\ Num4(Slice(raw, i, 4)) = Len(b)
             /\ (q + 4) + Len(b) <= Kept(x) => Slice(raw, i + 4, Len(b)) = b
<1> DEFINE raw == RawOf(x)  off == ValueStart(x)  n == Len(b)  v == ValueOf(x)  four == 4
           e == LE4(n)  it == Item(b)
<1>1. Joined(it, e, b) /\ e \in BytesOf(four) /\ n \in Nat /\ b \in BytesOf(n)
  BY ItemTyped, SizeOf
<1>2. Has(v, q, four + n, it) /\ v \in Seq(Byte) /\ off \in Nat
  BY ValueLaid, RawRead
<1>3. ~ExceedsU32(n)
  <2>1. q + (four + n) <= Len(v) /\ Len(v) \in Nat
    BY <1>2, LenProperties DEF Has
  <2>2. n <= Len(v)
    BY <1>1, <2>1
  <2>3. ~ExceedsU32(Len(v))
    BY ContentsAssumption
  <2> QED BY <1>1, <2>1, <2>2, <2>3, ShorterFits
<1> HIDE DEF e, it, n, v, off, raw
<1>4. Has(it, 0, four, e) /\ Has(it, four, n, b)
  BY <1>1, HasAll, HasLeft, HasRight, Zenon
<1>5. q + 0 = q /\ off + (q + four) = (off + q) + four
  BY <1>2 DEF four
<1>6. Has(v, q, four, e) /\ Has(v, q + four, n, b)
  <2>1. Has(v, q + 0, four, e) /\ Has(v, q + four, n, b)
    BY <1>2, <1>4, HasWithin, Zenon
  <2> QED BY <1>5, <2>1
<1>7. ASSUME q + four <= Kept(x)
      PROVE  AnotherLength(raw, off + q) /\ Num4(Slice(raw, off + q, 4)) = n
  <2>1. Has(raw, off + q, four, e)
    BY <1>6, <1>7, InRaw, Zenon DEF raw, off, v
  <2>2. Has(raw, off + q, 4, LE4(n))
    BY <2>1 DEF four, e
  <2> QED BY <1>1, <1>3, <2>2, LengthRead
<1>8. ASSUME (q + four) + n <= Kept(x)
      PROVE  Slice(raw, (off + q) + four, n) = b
  <2>1. Has(raw, off + (q + four), n, b)
    BY <1>6, <1>8, InRaw, Zenon DEF raw, off, v
  <2>2. Has(raw, (off + q) + four, n, b)
    BY <1>5, <2>1
  <2> QED BY <2>2, Zenon DEF Has
<1> QED BY <1>7, <1>8 DEF raw, off, n, four

(* From a number down to 0. *)
LEMMA Downward ==
  ASSUME NEW n \in Nat, NEW T, n \in T, \A k \in 1 .. n : k \in T => k - 1 \in T
  PROVE  0 \in T
<1> DEFINE S == {j \in Nat : j <= n => n - j \in T}
<1>1. 0 \in S
  OBVIOUS
<1>2. ASSUME NEW j \in Nat, j \in S PROVE j + 1 \in S
  <2> SUFFICES ASSUME j + 1 <= n PROVE n - (j + 1) \in T
    OBVIOUS
  <2> DEFINE k == n - j
  <2>1. k \in 1 .. n /\ k - 1 = n - (j + 1) /\ k \in T
    BY <1>2
  <2>2. k - 1 \in T
    BY <2>1
  <2> QED BY <2>1, <2>2
<1> HIDE DEF S
<1>3. Nat \subseteq S
  BY <1>1, <1>2, ForCut!Induction
<1>4. n \in S
  BY <1>3
<1> QED BY <1>4 DEF S

(* An entry of a list is read. *)
LEMMA ListEntry ==
  ASSUME NEW x \in Contents, x.kind = "list", NEW k \in 1 .. Len(x.entries)
  PROVE  LET raw == RawOf(x)  b == x.entries[k]  q == Size(x, k - 1)  i == ValueStart(x) + q
         IN  /\ b \in Seq(Byte) /\ Len(b) \in Nat /\ q \in Nat /\ Size(x, k) = (q + 4) + Len(b)
             /\ q + 4 <= Kept(x) => AnotherLength(raw, i) /\ Num4(Slice(raw, i, 4)) = Len(b)
             /\ (q + 4) + Len(b) <= Kept(x) => Slice(raw, i + 4, Len(b)) = b
<1> DEFINE b == x.entries[k]  q == Size(x, k - 1)  n == Len(b)
<1>1. b \in Seq(Byte) /\ Len(x.entries) \in Nat
  BY ItemsTyped
<1>2. ItemOf(x, k) = Item(b) /\ Len(Item(b)) = 4 + n /\ n \in Nat
  <2>1. ItemOf(x, k) = Item(b)
    BY Zenon DEF ItemOf
  <2> QED BY <1>1, <2>1, ItemTyped
<1>3. /\ Size(x, k) = q + Len(ItemOf(x, k))
      /\ Has(ValueOf(x), q, Len(ItemOf(x, k)), ItemOf(x, k))
  BY Sized
<1>4. q \in Nat
  BY <1>1, Sized
<1> HIDE DEF b, q, n
<1>5. Has(ValueOf(x), q, 4 + n, Item(b)) /\ Size(x, k) = (q + 4) + n
  BY <1>2, <1>3, <1>4
<1>6. x.kind # "none"
  OBVIOUS
<1>7. /\ q + 4 <= Kept(x) =>
           /\ AnotherLength(RawOf(x), ValueStart(x) + q)
           /\ Num4(Slice(RawOf(x), ValueStart(x) + q, 4)) = Len(b)
      /\ (q + 4) + Len(b) <= Kept(x) => Slice(RawOf(x), (ValueStart(x) + q) + 4, Len(b)) = b
  BY <1>1, <1>4, <1>5, <1>6, ItemRead, Zenon DEF n
<1> QED BY <1>1, <1>2, <1>4, <1>5, <1>7, Zenon DEF b, q, n

(* Entries before the last whole one are whole. *)
LEMMA WholeFit ==
  ASSUME NEW x \in Contents, NEW k \in 1 .. WholeEntries(x)
  PROVE  k \in 1 .. Len(x.entries) /\ Size(x, k) <= Kept(x)
<1> DEFINE m == Len(x.entries)  W == WholeEntries(x)
<1>1. m \in Nat /\ W \in 0 .. m /\ Size(x, W) <= Kept(x) /\ Kept(x) \in Nat /\ k \in 1 .. W
  BY WholeIs, ItemsTyped, KeptTyped
<1>2. /\ \A j \in 0 .. m : Size(x, j) \in Nat
      /\ \A j \in 1 .. m : Size(x, j) = Size(x, j - 1) + Len(ItemOf(x, j)) /\ Len(ItemOf(x, j)) \in Nat
  BY Sized
<1> HIDE DEF m, W
<1>3. \A j \in 1 .. m : Size(x, j - 1) <= Size(x, j)
  <2> SUFFICES ASSUME NEW j \in 1 .. m PROVE Size(x, j - 1) <= Size(x, j)
    OBVIOUS
  <2>1. j \in 0 .. m /\ j - 1 \in 0 .. m
    BY <1>1
  <2> QED BY <1>2, <2>1
<1> DEFINE S == {j \in Nat : j <= W => Size(x, W - j) <= Kept(x)}
<1>4. 0 \in S
  <2>1. W - 0 = W
    BY <1>1
  <2> QED BY <1>1, <2>1
<1>5. ASSUME NEW j \in Nat, j \in S PROVE j + 1 \in S
  <2> SUFFICES ASSUME j + 1 <= W PROVE Size(x, W - (j + 1)) <= Kept(x)
    OBVIOUS
  <2> DEFINE i == W - j
  <2>1. i \in 1 .. m /\ i \in 0 .. m /\ i - 1 \in 0 .. m /\ i - 1 = W - (j + 1)
    BY <1>1
  <2>2. Size(x, i) <= Kept(x)
    BY <1>1, <1>5
  <2> HIDE DEF i
  <2>3. Size(x, i - 1) <= Kept(x)
    BY <1>1, <1>2, <1>3, <2>1, <2>2
  <2> QED BY <2>1, <2>3
<1> HIDE DEF S
<1>6. Nat \subseteq S
  BY <1>4, <1>5, ForCut!Induction
<1>7. W - k \in Nat /\ W - k <= W /\ W - (W - k) = k
  BY <1>1
<1>8. W - k \in S
  BY <1>6, <1>7
<1>9. Size(x, k) <= Kept(x)
  BY <1>7, <1>8 DEF S
<1> QED BY <1>1, <1>9 DEF m, W

(* from is the walk of as_list over raw. *)
ListWalk(raw, from) == \A i \in Nat : from[i] = ListAt(raw, i, from)

(* Where the walk is behind the first k entries. *)
Behind(x, k) == ValueStart(x) + Size(x, k)

(* A whole entry is put before the list of those behind it, unless it is empty. *)
LEMMA ListWhole ==
  ASSUME NEW x \in Contents, x.kind = "list", NEW from, ListWalk(RawOf(x), from),
         NEW k \in 1 .. WholeEntries(x)
  PROVE  LET b == x.entries[k]  rest == from[Behind(x, k)]
         IN  from[Behind(x, k - 1)] = IF b = << >> THEN rest
                                      ELSE IF ~rest.ok THEN ListError
                                      ELSE OkList(<<b>> \o rest.list)
<1> DEFINE b == x.entries[k]  q == Size(x, k - 1)  n == Len(b)  raw == RawOf(x)
           off == ValueStart(x)  i == off + q  W == WholeEntries(x)
<1>1. W \in 0 .. Len(x.entries) /\ Size(x, W) <= Kept(x) /\ Len(x.entries) \in Nat
  BY WholeIs, ItemsTyped
<1>2. k \in 1 .. Len(x.entries) /\ k \in 1 .. W
  BY <1>1
<1>3. /\ b \in Seq(Byte) /\ n \in Nat /\ q \in Nat /\ Size(x, k) = (q + 4) + n
      /\ q + 4 <= Kept(x) => AnotherLength(raw, i) /\ Num4(Slice(raw, i, 4)) = n
      /\ (q + 4) + n <= Kept(x) => Slice(raw, i + 4, n) = b
  BY <1>2, ListEntry
<1>4. off \in Nat /\ Len(raw) = off + Kept(x) /\ Kept(x) \in Nat
  BY RawRead, KeptTyped
<1>5. Size(x, k) <= Kept(x)
  BY <1>2, WholeFit
<1> HIDE DEF b, q, n, raw, off, W
<1>6. /\ AnotherLength(raw, i) /\ Num4(Slice(raw, i, 4)) = n /\ Slice(raw, i + 4, n) = b
      /\ i \in Nat /\ i + 4 + n = off + Size(x, k) /\ ~(i + 4 + n > Len(raw))
  BY <1>3, <1>4, <1>5
<1>7. n = 0 <=> b = << >>
  <2>1. \A s \in Seq(Byte) : Len(s) = 0 <=> s = << >>
    OBVIOUS
  <2> QED BY <1>3, <2>1 DEF n
<1>8. Behind(x, k) = off + Size(x, k) /\ Behind(x, k - 1) = i
  BY DEF Behind, off, q
<1>9. from[i] = ListAt(raw, i, from)
  BY <1>6 DEF ListWalk, raw
<1> DEFINE rest == from[off + Size(x, k)]
<1>10. ListAt(raw, i, from) = IF n = 0 THEN rest
                              ELSE IF ~rest.ok THEN ListError
                              ELSE OkList(<<b>> \o rest.list)
  <2> HIDE DEF i
  <2> QED BY <1>6, Zenon DEF ListAt
<1>11. from[i] = IF b = << >> THEN rest
                 ELSE IF ~rest.ok THEN ListError
                 ELSE OkList(<<b>> \o rest.list)
  BY <1>7, <1>9, <1>10, Zenon
<1> QED BY <1>8, <1>11, Zenon DEF b

(* Behind the whole entries the walk stops, or meets one that was cut. *)
LEMMA ListEnd ==
  ASSUME NEW x \in Contents, x.kind = "list", NEW from, ListWalk(RawOf(x), from)
  PROVE  from[Behind(x, WholeEntries(x))] = IF IsTorn(x) THEN ListError ELSE OkList(<< >>)
<1> DEFINE W == WholeEntries(x)  q == Size(x, W)  raw == RawOf(x)  off == ValueStart(x)
           i == off + q
<1>1. /\ W \in 0 .. Len(x.entries) /\ q <= Kept(x) /\ Len(x.entries) \in Nat
      /\ W # Len(x.entries) => Kept(x) < Size(x, W + 1)
      /\ W = Len(x.entries) => q = Kept(x)
  BY WholeIs, ItemsTyped
<1>2. off \in Nat /\ Len(raw) = off + Kept(x) /\ Kept(x) \in Nat /\ q \in Nat
  BY <1>1, RawRead, KeptTyped, Sized
<1>3. IsTorn(x) <=> Kept(x) - q >= 4
  BY DEF IsTorn
<1>4. Behind(x, W) = i
  BY DEF Behind
<1> HIDE DEF q, raw, off
<1>5. i \in Nat
  BY <1>2
<1>6. from[i] = ListAt(raw, i, from)
  BY <1>5 DEF ListWalk, raw
<1>7. CASE ~IsTorn(x)
  <2>1. ~AnotherLength(raw, i)
    BY <1>2, <1>3, <1>7 DEF AnotherLength
  <2> HIDE DEF i
  <2>2. ListAt(raw, i, from) = OkList(<< >>)
    BY <2>1, Zenon DEF ListAt
  <2> QED BY <1>4, <1>6, <1>7, <2>2
<1>8. CASE IsTorn(x)
  <2>1. W # Len(x.entries)
    BY <1>1, <1>2, <1>3, <1>8
  <2> DEFINE k == W + 1  b == x.entries[k]  n == Len(b)
  <2>2. k \in 1 .. Len(x.entries) /\ k - 1 = W
    BY <1>1, <2>1
  <2>a. Size(x, k - 1) = q
    BY <2>2 DEF q
  <2> HIDE DEF k
  <2>3. /\ n \in Nat /\ Size(x, k) = (Size(x, k - 1) + 4) + n
        /\ Size(x, k - 1) + 4 <= Kept(x) =>
             /\ AnotherLength(raw, off + Size(x, k - 1))
             /\ Num4(Slice(raw, off + Size(x, k - 1), 4)) = n
    BY <2>2, ListEntry DEF raw, off
  <2> HIDE DEF b, n
  <2>b. Kept(x) < Size(x, k)
    BY <1>1, <2>1 DEF k
  <2>4. AnotherLength(raw, i) /\ Num4(Slice(raw, i, 4)) = n
    BY <1>2, <1>3, <1>8, <2>3, <2>a
  <2>5. i + 4 + n > Len(raw) /\ n # 0
    BY <1>2, <1>3, <1>8, <2>3, <2>a, <2>b
  <2> HIDE DEF i
  <2>6. ListAt(raw, i, from) = ListError
    BY <2>4, <2>5, Zenon DEF ListAt
  <2> QED BY <1>4, <1>6, <1>8, <2>6
<1> QED BY <1>7, <1>8

(* Lists of bytes. *)
ByteLists == Seq(Seq(Byte))

(* Joining them is associative. *)
LEMMA ListsAssociative == \A s, t, u \in ByteLists : (s \o t) \o u = s \o (t \o u)
BY DEF ByteLists

(* Lists of lists joined: G[k] is the first k of them. *)
Grown(f, s, n, G) ==
  /\ G[0] = << >> /\ G[n] = f
  /\ \A k \in 0 .. n : G[k] \in ByteLists
  /\ \A k \in 1 .. n : G[k] = G[k - 1] \o s[k]

(* FlattenSeq joins them from the first to the last. *)
LEMMA FlattenLists ==
  ASSUME NEW n \in Nat, NEW s, s = [i \in 1 .. n |-> s[i]], \A i \in 1 .. n : s[i] \in ByteLists
  PROVE  \E G : Grown(FlattenSeq(s), s, n, G)
<1>e. << >> \in ByteLists /\ \A t \in ByteLists : << >> \o t = t
  BY DEF ByteLists
<1>1. CASE n = 0
  <2>1. s = << >> /\ Len(s) = 0
    BY <1>1
  <2> DEFINE G == [k \in {0} |-> << >>]
  <2>2. G[0] = << >> /\ 1 .. 0 = {} /\ \A k \in 0 .. 0 : k = 0
    OBVIOUS
  <2>3. FlattenSeq(s) = << >>
    BY <2>1, FlattenNone
  <2> HIDE DEF G
  <2>4. \A k \in 0 .. 0 : G[k] \in ByteLists
    BY <1>e, <2>2
  <2> QED BY <1>1, <2>2, <2>3, <2>4 DEF Grown
<1>2. CASE n # 0
  <2>1. Len(s) = n
    BY LenProperties
  <2>2. PICK h : /\ h[1] = s[1] /\ FlattenSeq(s) = h[n]
                 /\ \A i \in 1 .. n : i # 1 => h[i] = h[i - 1] \o s[i]
    BY <1>2, <2>1, FlattenSteps, Zenon
  <2> DEFINE G == [k \in 0 .. n |-> IF k = 0 THEN << >> ELSE h[k]]
  <2>3. G[0] = << >> /\ G[n] = FlattenSeq(s)
    BY <1>2, <2>2
  <2>4. 1 \in 1 .. n /\ G[1] = h[1]
    BY <1>2
  <2>5. \A k \in 1 .. n : G[k] = G[k - 1] \o s[k]
    <3> SUFFICES ASSUME NEW k \in 1 .. n PROVE G[k] = G[k - 1] \o s[k]
      OBVIOUS
    <3>1. CASE k = 1
      <4>1. k - 1 = 0 /\ G[k] = s[k] /\ s[k] \in ByteLists
        BY <2>2, <2>4, <3>1
      <4>2. << >> \o s[k] = s[k]
        BY <1>e, <4>1
      <4> QED BY <2>3, <4>1, <4>2, Zenon
    <3>2. CASE k # 1
      <4>1. k \in 0 .. n /\ k - 1 \in 0 .. n /\ k # 0 /\ k - 1 # 0
        BY <3>2
      <4>2. G[k] = h[k] /\ G[k - 1] = h[k - 1]
        BY <4>1, Zenon
      <4> QED BY <2>2, <3>2, <4>2, Zenon
    <3> QED BY <3>1, <3>2
  <2> HIDE DEF G
  <2> DEFINE S == {k \in Nat : k <= n => G[k] \in ByteLists}
  <2>6. 0 \in S
    BY <1>e, <2>3
  <2>7. ASSUME NEW k \in Nat, k \in S PROVE k + 1 \in S
    <3> SUFFICES ASSUME k + 1 <= n PROVE G[k + 1] \in ByteLists
      OBVIOUS
    <3>1. k + 1 \in 1 .. n /\ (k + 1) - 1 = k /\ G[k] \in ByteLists
      BY <2>7
    <3>2. G[k + 1] = G[k] \o s[k + 1] /\ s[k + 1] \in ByteLists
      <4>1. G[k + 1] = G[(k + 1) - 1] \o s[k + 1]
        BY <2>5, <3>1, Zenon
      <4> QED BY <3>1, <4>1
    <3>3. G[k] \o s[k + 1] \in ByteLists
      BY <3>1, <3>2, ConcatProperties DEF ByteLists
    <3> QED BY <3>2, <3>3
  <2> HIDE DEF S
  <2>8. Nat \subseteq S
    BY <2>6, <2>7, ForCut!Induction
  <2>9. \A k \in 0 .. n : G[k] \in ByteLists
    BY <2>8 DEF S
  <2> QED BY <2>3, <2>5, <2>9, Zenon DEF Grown
<1> QED BY <1>1, <1>2

(* The results of as_list. *)
LEMMA Lists ==
  /\ \A t : OkList(t).ok /\ OkList(t).list = t
  /\ ~ListError.ok
BY DEF OkList, ListError

(* as_list gives the values of a list that are not empty, or an error. *)
LEMMA ListRead ==
  ASSUME NEW x \in Contents, x.kind = "list" PROVE AsList(RawOf(x)) = ListMeant(x)
<1> DEFINE raw == RawOf(x)  W == WholeEntries(x)
           some(i) == IF x.entries[i] = << >> THEN << >> ELSE <<x.entries[i]>>
           s == [i \in 1 .. W |-> some(i)]
           outcome(t) == IF IsTorn(x) THEN ListError ELSE OkList(t)
<1>1. raw \in Seq(Byte) /\ x.kind # "none"
  BY RawRead
<1>2. IsValue(raw, ARRAY) /\ ValueOffset(raw) = ValueStart(x) /\ ValueStart(x) # Malformed
  BY <1>1, HeaderRead
<1>m. ListMeant(x) = outcome(FlattenSeq(s))
  BY Zenon DEF ListMeant
<1> HIDE DEF raw
<1>3. PICK from : /\ \A i \in Nat : from[i] = ListAt(raw, i, from)
                  /\ AsList(raw) = IF ~IsValue(raw, ARRAY) THEN OkList(<< >>)
                                   ELSE IF ValueOffset(raw) = Malformed THEN ListError
                                   ELSE from[ValueOffset(raw)]
  BY <1>1, AsListIs, Zenon
<1>4. ListWalk(RawOf(x), from) /\ AsList(raw) = from[ValueStart(x)]
  BY <1>2, <1>3, Zenon DEF ListWalk, raw
<1>5. W \in 0 .. Len(x.entries) /\ Len(x.entries) \in Nat
  BY WholeIs, ItemsTyped
<1>6. \A i \in 1 .. W : x.entries[i] \in Seq(Byte)
  BY <1>5, ItemsTyped
<1>7. \A i \in 1 .. W : s[i] = some(i) /\ some(i) \in ByteLists
  BY <1>6 DEF ByteLists
<1>8. s = [i \in 1 .. W |-> s[i]]
  OBVIOUS
<1> DEFINE whole == W
<1>9. whole \in Nat /\ s = [i \in 1 .. whole |-> s[i]] /\ \A i \in 1 .. whole : s[i] \in ByteLists
  BY <1>5, <1>7, <1>8
<1>f. \A t : outcome(t) = IF IsTorn(x) THEN ListError ELSE OkList(t)
  OBVIOUS
<1>g. \A i \in 1 .. whole : s[i] = IF x.entries[i] = << >> THEN << >> ELSE <<x.entries[i]>>
  BY <1>7, Zenon
<1>w. whole = WholeEntries(x)
  OBVIOUS
<1> HIDE DEF W, whole, s, outcome
<1>10. PICK G : Grown(FlattenSeq(s), s, whole, G)
  BY <1>9, FlattenLists
<1> DEFINE ReadsAs(k) == \E t \in ByteLists : G[whole] = G[k] \o t /\ from[Behind(x, k)] = outcome(t)
           T == {k \in 0 .. whole : ReadsAs(k)}
<1>11. whole \in T
  <2>1. G[whole] = G[whole] \o << >> /\ << >> \in ByteLists
    <3>1. G[whole] \in ByteLists
      BY <1>9, <1>10 DEF Grown
    <3> QED BY <3>1, ConcatEmptySeq DEF ByteLists
  <2>2. from[Behind(x, whole)] = outcome(<< >>)
    BY <1>4, <1>f, <1>w, ListEnd
  <2>3. whole \in 0 .. whole
    BY <1>9
  <2> QED BY <2>1, <2>2, <2>3, Zenon
<1>12. ASSUME NEW k \in 1 .. whole, k \in T PROVE k - 1 \in T
  <2> DEFINE b == x.entries[k]
  <2>1. k - 1 \in 0 .. whole /\ k \in 1 .. WholeEntries(x)
    BY <1>9, <1>w
  <2>2. PICK t \in ByteLists : G[whole] = G[k] \o t /\ from[Behind(x, k)] = outcome(t)
    BY <1>12, Zenon
  <2>3. from[Behind(x, k - 1)] = IF b = << >> THEN from[Behind(x, k)]
                                 ELSE IF ~from[Behind(x, k)].ok THEN ListError
                                 ELSE OkList(<<b>> \o from[Behind(x, k)].list)
    BY <1>4, <2>1, ListWhole
  <2>4. G[k] = G[k - 1] \o s[k] /\ G[k - 1] \in ByteLists /\ s[k] \in ByteLists
    BY <1>9, <1>10, <2>1 DEF Grown
  <2>5. s[k] = IF b = << >> THEN << >> ELSE <<b>>
    BY <1>g
  <2> HIDE DEF b
  <2> DEFINE u == s[k] \o t
  <2>6. u \in ByteLists /\ G[whole] = G[k - 1] \o u
    <3>1. u \in ByteLists
      BY <2>2, <2>4, ConcatProperties DEF ByteLists
    <3>2. (G[k - 1] \o s[k]) \o t = G[k - 1] \o (s[k] \o t)
      BY <2>2, <2>4, ListsAssociative, Zenon
    <3> QED BY <2>2, <2>4, <3>1, <3>2, Zenon
  <2>7. from[Behind(x, k - 1)] = outcome(u)
    <3>1. CASE b = << >>
      <4>1. u = t
        <5>1. s[k] = << >>
          BY <2>5, <3>1
        <5>2. << >> \o t = t
          BY <2>2, ConcatEmptySeq DEF ByteLists
        <5> QED BY <5>1, <5>2, Zenon
      <4> QED BY <2>2, <2>3, <3>1, <4>1, Zenon
    <3>2. CASE b # << >>
      <4>1. u = <<b>> \o t
        BY <2>5, <3>2, Zenon
      <4>2. CASE IsTorn(x)
        BY <1>f, <2>2, <2>3, <3>2, <4>2, Lists, Zenon
      <4>3. CASE ~IsTorn(x)
        BY <1>f, <2>2, <2>3, <3>2, <4>1, <4>3, Lists, Zenon
      <4> QED BY <4>2, <4>3
    <3> QED BY <3>1, <3>2
  <2>8. ReadsAs(k - 1)
    BY <2>6, <2>7, Zenon
  <2> QED BY <2>1, <2>8, Zenon
<1> HIDE DEF T
<1>13. 0 \in T
  BY <1>9, <1>11, <1>12, Downward
<1>14. PICK t \in ByteLists : G[whole] = G[0] \o t /\ from[Behind(x, 0)] = outcome(t)
  BY <1>13, Zenon DEF T
<1>15. t = FlattenSeq(s)
  <2>1. << >> \o t = t
    BY <1>14, ConcatEmptySeq DEF ByteLists
  <2> QED BY <1>10, <1>14, <2>1, Zenon DEF Grown
<1>16. Behind(x, 0) = ValueStart(x)
  <2>1. ValueStart(x) \in Nat /\ Size(x, 0) = 0
    BY <1>1, RawRead, Sized
  <2> QED BY <2>1 DEF Behind
<1> QED BY <1>4, <1>14, <1>15, <1>16, <1>m, Zenon DEF raw

(* An entry of a map is read: its key, and its value. *)
LEMMA MapEntry ==
  ASSUME NEW x \in Contents, x.kind = "map", NEW k \in 1 .. Len(x.entries)
  PROVE  LET raw == RawOf(x)  y == x.entries[k][1]  v == x.entries[k][2]  q == Size(x, k - 1)
             i == ValueStart(x) + q  r == (q + 4) + Len(y)  j == ValueStart(x) + r
         IN  /\ y \in Seq(Byte) /\ Len(y) \in Nat /\ Len(y) # 0
             /\ v \in Seq(Byte) /\ Len(v) \in Nat
             /\ q \in Nat /\ Size(x, k) = (r + 4) + Len(v)
             /\ q + 4 <= Kept(x) => AnotherLength(raw, i) /\ Num4(Slice(raw, i, 4)) = Len(y)
             /\ r <= Kept(x) => Slice(raw, i + 4, Len(y)) = y
             /\ r + 4 <= Kept(x) => AnotherLength(raw, j) /\ Num4(Slice(raw, j, 4)) = Len(v)
             /\ (r + 4) + Len(v) <= Kept(x) => Slice(raw, j + 4, Len(v)) = v
<1> DEFINE y == x.entries[k][1]  v == x.entries[k][2]  q == Size(x, k - 1)
           K == Len(y)  N == Len(v)  r == (q + 4) + K  all == ItemOf(x, k)  four == 4
<1>1. /\ y \in Seq(Byte) /\ y # << >> /\ v \in Seq(Byte) /\ all = Item(y) \o Item(v)
      /\ Len(x.entries) \in Nat
  BY ItemsTyped
<1>2. /\ Item(y) \in Seq(Byte) /\ Len(Item(y)) = four + K /\ K \in Nat
      /\ Item(v) \in Seq(Byte) /\ Len(Item(v)) = four + N /\ N \in Nat
  BY <1>1, ItemTyped
<1>3. K # 0
  <2>1. \A s \in Seq(Byte) : Len(s) = 0 => s = << >>
    OBVIOUS
  <2> QED BY <1>1, <2>1
<1>4. /\ Size(x, k) = q + Len(all) /\ Has(ValueOf(x), q, Len(all), all)
  BY Sized
<1>5. q \in Nat
  BY <1>1, Sized
<1>6. x.kind # "none"
  OBVIOUS
<1> HIDE DEF y, v, q, K, N, all, four
<1>7. Joined(all, Item(y), Item(v)) /\ Item(y) \in BytesOf(four + K) /\ Item(v) \in BytesOf(four + N)
  BY <1>1, <1>2, Zenon DEF Joined, BytesOf
<1>8. Has(all, 0, four + K, Item(y)) /\ Has(all, four + K, four + N, Item(v))
  BY <1>7, HasAll, HasLeft, HasRight, Zenon
<1>9. Has(ValueOf(x), q + 0, four + K, Item(y)) /\ Has(ValueOf(x), q + (four + K), four + N, Item(v))
  BY <1>4, <1>8, HasWithin, Zenon
<1>10. q + 0 = q /\ q + (four + K) = r /\ r \in Nat
  BY <1>2, <1>5 DEF four
<1>11. Size(x, k) = (r + 4) + N
  <2>1. Len(all) = (four + K) + (four + N)
    BY <1>7, JoinedBytes, <1>2
  <2> QED BY <1>2, <1>4, <1>5, <2>1 DEF four
<1>12. Has(ValueOf(x), q, 4 + K, Item(y)) /\ Has(ValueOf(x), r, 4 + N, Item(v))
  <2>1. Has(ValueOf(x), q, four + K, Item(y)) /\ Has(ValueOf(x), r, four + N, Item(v))
    BY <1>9, <1>10
  <2> QED BY <2>1 DEF four
<1> HIDE DEF r
<1>13. /\ q + 4 <= Kept(x) => /\ AnotherLength(RawOf(x), ValueStart(x) + q)
                              /\ Num4(Slice(RawOf(x), ValueStart(x) + q, 4)) = Len(y)
       /\ (q + 4) + Len(y) <= Kept(x) => Slice(RawOf(x), (ValueStart(x) + q) + 4, Len(y)) = y
  BY <1>1, <1>5, <1>6, <1>12, ItemRead, Zenon DEF K
<1>14. /\ r + 4 <= Kept(x) => /\ AnotherLength(RawOf(x), ValueStart(x) + r)
                              /\ Num4(Slice(RawOf(x), ValueStart(x) + r, 4)) = Len(v)
       /\ (r + 4) + Len(v) <= Kept(x) => Slice(RawOf(x), (ValueStart(x) + r) + 4, Len(v)) = v
  BY <1>1, <1>6, <1>10, <1>12, ItemRead, Zenon DEF N
<1> QED BY <1>1, <1>2, <1>3, <1>5, <1>11, <1>13, <1>14, Zenon DEF y, v, q, K, N, r

(* from is the walk of as_map over raw. *)
MapWalk(raw, from) == \A i \in Nat : from[i] = MapAt(raw, i, from)

(* A whole entry is put under the map of those behind it, unless it is empty. *)
LEMMA MapWhole ==
  ASSUME NEW x \in Contents, x.kind = "map", NEW from, MapWalk(RawOf(x), from),
         NEW k \in 1 .. WholeEntries(x)
  PROVE  LET y == x.entries[k][1]  v == x.entries[k][2]  rest == from[Behind(x, k)]
         IN  from[Behind(x, k - 1)] = IF ~IsUtf8(y) THEN MapError
                                      ELSE IF v = << >> THEN rest
                                      ELSE IF ~rest.ok THEN MapError
                                      ELSE OkMap(Under(rest.map, y, v))
<1> DEFINE y == x.entries[k][1]  v == x.entries[k][2]  q == Size(x, k - 1)
           K == Len(y)  N == Len(v)  r == (q + 4) + K  raw == RawOf(x)
           off == ValueStart(x)  i == off + q  j == off + r  W == WholeEntries(x)
<1>1. W \in 0 .. Len(x.entries) /\ Len(x.entries) \in Nat
  BY WholeIs, ItemsTyped
<1>2. k \in 1 .. Len(x.entries) /\ Size(x, k) <= Kept(x)
  BY WholeFit
<1>3. /\ y \in Seq(Byte) /\ K \in Nat /\ K # 0 /\ v \in Seq(Byte) /\ N \in Nat
      /\ q \in Nat /\ Size(x, k) = (r + 4) + N
      /\ q + 4 <= Kept(x) => AnotherLength(raw, i) /\ Num4(Slice(raw, i, 4)) = K
      /\ r <= Kept(x) => Slice(raw, i + 4, K) = y
      /\ r + 4 <= Kept(x) => AnotherLength(raw, j) /\ Num4(Slice(raw, j, 4)) = N
      /\ (r + 4) + N <= Kept(x) => Slice(raw, j + 4, N) = v
  BY <1>2, MapEntry
<1>4. off \in Nat /\ Len(raw) = off + Kept(x) /\ Kept(x) \in Nat
  BY RawRead, KeptTyped
<1> HIDE DEF y, v, q, K, N, raw, off, W
<1>5. /\ AnotherLength(raw, i) /\ Num4(Slice(raw, i, 4)) = K /\ Slice(raw, i + 4, K) = y
      /\ Num4(Slice(raw, j, 4)) = N /\ Slice(raw, j + 4, N) = v
      /\ i \in Nat /\ i + 4 + K = j /\ ~(j > Len(raw)) /\ ~(j + 4 > Len(raw))
      /\ j + 4 + N = off + Size(x, k) /\ ~(j + 4 + N > Len(raw))
  <2>1. /\ K \in Nat /\ N \in Nat /\ q \in Nat /\ off \in Nat /\ Kept(x) \in Nat
        /\ Size(x, k) = (r + 4) + N /\ Size(x, k) <= Kept(x) /\ Len(raw) = off + Kept(x)
    BY <1>2, <1>3, <1>4, Zenon
  <2>2. /\ q + 4 <= Kept(x) /\ r <= Kept(x) /\ r + 4 <= Kept(x) /\ (r + 4) + N <= Kept(x)
        /\ i \in Nat /\ i + 4 + K = j /\ ~(j > Len(raw)) /\ ~(j + 4 > Len(raw))
        /\ j + 4 + N = off + Size(x, k) /\ ~(j + 4 + N > Len(raw))
    BY <2>1
  <2> HIDE DEF i, j, r
  <2> QED BY <1>3, <2>2, Zenon
<1>6. N = 0 <=> v = << >>
  <2>1. \A s \in Seq(Byte) : Len(s) = 0 <=> s = << >>
    OBVIOUS
  <2> QED BY <1>3, <2>1 DEF N
<1>7. Behind(x, k) = off + Size(x, k) /\ Behind(x, k - 1) = i
  BY DEF Behind, off, q
<1>8. from[i] = MapAt(raw, i, from)
  BY <1>5 DEF MapWalk, raw
<1> DEFINE rest == from[off + Size(x, k)]
<1>9. MapAt(raw, i, from) = IF ~IsUtf8(y) THEN MapError
                            ELSE IF N = 0 THEN rest
                            ELSE IF ~rest.ok THEN MapError
                            ELSE OkMap(Under(rest.map, y, v))
  <2> HIDE DEF i, j, r
  <2> QED BY <1>3, <1>5, Zenon DEF MapAt
<1>10. from[i] = IF ~IsUtf8(y) THEN MapError
                 ELSE IF v = << >> THEN rest
                 ELSE IF ~rest.ok THEN MapError
                 ELSE OkMap(Under(rest.map, y, v))
  BY <1>6, <1>8, <1>9, Zenon
<1> QED BY <1>7, <1>10, Zenon DEF y, v

(* Behind the whole entries the walk stops, or meets one that was cut. *)
LEMMA MapEnd ==
  ASSUME NEW x \in Contents, x.kind = "map", NEW from, MapWalk(RawOf(x), from)
  PROVE  from[Behind(x, WholeEntries(x))] = IF IsTorn(x) THEN MapError ELSE OkMap(<< >>)
<1> DEFINE W == WholeEntries(x)  p == Size(x, W)  raw == RawOf(x)  off == ValueStart(x)
           i == off + p
<1>1. /\ W \in 0 .. Len(x.entries) /\ p <= Kept(x) /\ Len(x.entries) \in Nat
      /\ W # Len(x.entries) => Kept(x) < Size(x, W + 1)
      /\ W = Len(x.entries) => p = Kept(x)
  BY WholeIs, ItemsTyped
<1>2. off \in Nat /\ Len(raw) = off + Kept(x) /\ Kept(x) \in Nat /\ p \in Nat
  BY <1>1, RawRead, KeptTyped, Sized
<1>3. IsTorn(x) <=> Kept(x) - p >= 4
  BY DEF IsTorn
<1>4. Behind(x, W) = i
  BY DEF Behind
<1> HIDE DEF p, raw, off
<1>5. i \in Nat
  BY <1>2
<1>6. from[i] = MapAt(raw, i, from)
  BY <1>5 DEF MapWalk, raw
<1>7. CASE ~IsTorn(x)
  <2>1. ~AnotherLength(raw, i)
    BY <1>2, <1>3, <1>7 DEF AnotherLength
  <2> HIDE DEF i
  <2>2. MapAt(raw, i, from) = OkMap(<< >>)
    BY <2>1, Zenon DEF MapAt
  <2> QED BY <1>4, <1>6, <1>7, <2>2
<1>8. CASE IsTorn(x)
  <2>1. W # Len(x.entries)
    BY <1>1, <1>2, <1>3, <1>8
  <2> DEFINE k == W + 1  y == x.entries[k][1]  v == x.entries[k][2]  K == Len(y)  N == Len(v)
             q == Size(x, k - 1)  r == (q + 4) + K  j == off + r
  <2>2. k \in 1 .. Len(x.entries) /\ k - 1 = W
    BY <1>1, <2>1
  <2>3. q = p
    BY <2>2 DEF p
  <2>4. Kept(x) < Size(x, k)
    BY <1>1, <2>1
  <2> HIDE DEF k
  <2>5. /\ K \in Nat /\ K # 0 /\ N \in Nat /\ Size(x, k) = (r + 4) + N
        /\ q + 4 <= Kept(x) => AnotherLength(raw, off + q) /\ Num4(Slice(raw, off + q, 4)) = K
        /\ r + 4 <= Kept(x) => Num4(Slice(raw, j, 4)) = N
    BY <2>2, MapEntry DEF raw, off
  <2> HIDE DEF y, v, K, N, q
  <2>6. AnotherLength(raw, i) /\ Num4(Slice(raw, i, 4)) = K /\ i + 4 + K = j
    BY <1>2, <1>3, <1>8, <2>3, <2>5
  <2>7. CASE j + 4 > Len(raw)
    <3> HIDE DEF i, j, r
    <3> QED BY <1>4, <1>6, <1>8, <2>5, <2>6, <2>7, Zenon DEF MapAt
  <2>8. CASE ~(j + 4 > Len(raw))
    <3>1. r + 4 <= Kept(x)
      BY <1>2, <2>3, <2>5, <2>8
    <3>2. Num4(Slice(raw, j, 4)) = N
      BY <2>5, <3>1
    <3>3. N # 0 /\ j + 4 + N > Len(raw)
      BY <1>2, <2>3, <2>4, <2>5, <3>1
    <3> HIDE DEF i, j, r
    <3> QED BY <1>4, <1>6, <1>8, <2>5, <2>6, <3>2, <3>3, Zenon DEF MapAt
  <2> QED BY <2>7, <2>8
<1> QED BY <1>7, <1>8

(* The whole entries behind the first k that have a value. *)
Valued(x, k) == {i \in k + 1 .. WholeEntries(x) : x.entries[i][2] # << >>}

(* Those of them with key y. *)
WithKey(x, k, y) == {i \in Valued(x, k) : x.entries[i][1] = y}

(* The map of them. *)
MapFrom(x, k) ==
  [y \in {x.entries[i][1] : i \in Valued(x, k)} |-> x.entries[Max(WithKey(x, k, y))][2]]

(* The entries behind the first k make no map. *)
NoMap(x, k) ==
  IsTorn(x) \/ \E i \in k + 1 .. WholeEntries(x) : ~IsUtf8(x.entries[i][1])

(* What as_map makes of them. *)
MapOutcome(x, k) == IF NoMap(x, k) THEN MapError ELSE OkMap(MapFrom(x, k))

(* It makes of all of them what is meant. *)
LEMMA MapOfAll == ASSUME NEW x \in Contents PROVE MapOutcome(x, 0) = MapMeant(x)
<1> DEFINE W == WholeEntries(x)
<1>1. 0 + 1 = 1
  OBVIOUS
<1>2. Valued(x, 0) = {i \in 1 .. W : x.entries[i][2] # << >>}
  BY <1>1, Zenon DEF Valued
<1>3. NoMap(x, 0) <=> IsTorn(x) \/ \E i \in 1 .. W : ~IsUtf8(x.entries[i][1])
  BY <1>1, Zenon DEF NoMap
<1> DEFINE some == {i \in 1 .. W : x.entries[i][2] # << >>}
           map == [y \in {x.entries[i][1] : i \in some} |->
                     x.entries[Max({i \in some : x.entries[i][1] = y})][2]]
<1>4. MapFrom(x, 0) = map
  BY <1>2, Zenon DEF MapFrom, WithKey
<1>5. MapMeant(x) = IF IsTorn(x) \/ \E i \in 1 .. W : ~IsUtf8(x.entries[i][1]) THEN MapError
                    ELSE OkMap(map)
  BY Zenon DEF MapMeant
<1> QED BY <1>3, <1>4, <1>5, Zenon DEF MapOutcome

(* Behind the last one there is the empty map. *)
LEMMA MapOfNone ==
  ASSUME NEW x \in Contents
  PROVE  MapOutcome(x, WholeEntries(x)) = IF IsTorn(x) THEN MapError ELSE OkMap(<< >>)
<1> DEFINE W == WholeEntries(x)
<1>1. W \in Nat
  BY WholeIs, ItemsTyped
<1>2. W + 1 .. W = {}
  BY <1>1
<1>3. Valued(x, W) = {}
  BY <1>2, Zenon DEF Valued
<1>4. MapFrom(x, W) = << >>
  <2>1. {x.entries[i][1] : i \in Valued(x, W)} = {}
    BY <1>3
  <2> DEFINE f == MapFrom(x, W)
  <2>2. f = [y \in {x.entries[i][1] : i \in Valued(x, W)} |-> f[y]]
    BY Zenon DEF MapFrom
  <2> HIDE DEF f
  <2>3. f = [y \in {} |-> f[y]]
    BY <2>1, <2>2, Zenon
  <2> QED BY <2>3 DEF f
<1>5. NoMap(x, W) <=> IsTorn(x)
  BY <1>2, Zenon DEF NoMap
<1> QED BY <1>4, <1>5, Zenon DEF MapOutcome

(* An entry without a value adds nothing. *)
LEMMA MapSame ==
  ASSUME NEW x \in Contents, NEW k \in 1 .. WholeEntries(x), x.entries[k][2] = << >>
  PROVE  MapFrom(x, k - 1) = MapFrom(x, k)
<1> DEFINE W == WholeEntries(x)
<1>1. W \in Nat
  BY WholeIs, ItemsTyped
<1> HIDE DEF W
<1>2. /\ (k - 1) + 1 = k
      /\ \A i \in k .. W : i = k \/ i \in k + 1 .. W
      /\ \A i \in k + 1 .. W : i \in k .. W
  BY <1>1 DEF W
<1>3. Valued(x, k - 1) = Valued(x, k)
  BY <1>2 DEF Valued, W
<1> QED BY <1>3, Zenon DEF MapFrom, WithKey

(* One with a value adds it under what the entries behind it have for its key. *)
LEMMA MapMore ==
  ASSUME NEW x \in Contents, NEW k \in 1 .. WholeEntries(x), x.entries[k][2] # << >>
  PROVE  MapFrom(x, k - 1) = Under(MapFrom(x, k), x.entries[k][1], x.entries[k][2])
<1> DEFINE W == WholeEntries(x)
           key(i) == x.entries[i][1]
           value(i) == x.entries[i][2]
           A == Valued(x, k)  B == Valued(x, k - 1)
           map == MapFrom(x, k)  more == MapFrom(x, k - 1)
<1>1. W \in Nat /\ k \in 1 .. W
  BY WholeIs, ItemsTyped
<1>2. /\ (k - 1) + 1 = k
      /\ \A i \in k .. W : i = k \/ i \in k + 1 .. W
      /\ \A i \in k + 1 .. W : i \in k .. W
  BY <1>1
<1>3. B = A \cup {k} /\ A \subseteq k + 1 .. W
  BY <1>1, <1>2 DEF Valued
<1>4. \A y \in {key(i) : i \in A} :
        Max(WithKey(x, k, y)) = Max(WithKey(x, k - 1, y))
  <2> SUFFICES ASSUME NEW y \in {key(i) : i \in A}
               PROVE  Max(WithKey(x, k, y)) = Max(WithKey(x, k - 1, y))
    OBVIOUS
  <2> DEFINE S == WithKey(x, k, y)  T == WithKey(x, k - 1, y)
  <2>1. S \subseteq k + 1 .. W /\ S # {} /\ S \subseteq T /\ T \subseteq S \cup {k}
    BY <1>3 DEF WithKey
  <2> HIDE DEF S, T
  <2>2. S \in SUBSET (0 .. W) /\ T \in SUBSET (0 .. W) /\ T # {}
    <3>1. k \in 0 .. W /\ \A i \in k + 1 .. W : i \in 0 .. W
      BY <1>1
    <3> QED BY <2>1, <3>1, Zenon
  <2>3. Max(S) \in S /\ \A z \in S : z <= Max(S)
    BY <1>1, <2>1, <2>2, MaxIs
  <2>4. Max(T) \in T /\ \A z \in T : z <= Max(T)
    BY <1>1, <2>2, MaxIs
  <2> DEFINE M == Max(S)  N == Max(T)
  <2>5. M \in S /\ N \in T /\ (\A z \in S : z <= M) /\ (\A z \in T : z <= N)
    BY <2>3, <2>4
  <2> HIDE DEF M, N
  <2>6. M = N
    BY <1>1, <2>1, <2>5
  <2> QED BY <2>6 DEF M, N, S, T
<1>5. ASSUME key(k) \notin {key(i) : i \in A} PROVE Max(WithKey(x, k - 1, key(k))) = k
  <2> DEFINE T == WithKey(x, k - 1, key(k))
  <2>1. T = {k}
    BY <1>3, <1>5 DEF WithKey
  <2> HIDE DEF T
  <2>2. T \in SUBSET (0 .. W) /\ T # {}
    BY <1>1, <2>1
  <2>3. Max(T) \in T
    BY <1>1, <2>2, MaxIs
  <2> QED BY <2>1, <2>3 DEF T
<1>6. /\ map = [y \in {key(i) : i \in A} |-> value(Max(WithKey(x, k, y)))]
      /\ more = [y \in {key(i) : i \in B} |-> value(Max(WithKey(x, k - 1, y)))]
  BY Zenon DEF MapFrom
<1> HIDE DEF A, B, map, more, key, value, W
<1>7. {key(i) : i \in B} = {key(i) : i \in A} \cup {key(k)} /\ DOMAIN map = {key(i) : i \in A}
  BY <1>3, <1>6
<1> DEFINE D == {key(i) : i \in A}
           E == D \cup {key(k)}
<1>8. /\ more = [y \in E |-> value(Max(WithKey(x, k - 1, y)))]
      /\ Under(map, key(k), value(k)) = [y \in E |-> IF y \in D THEN map[y] ELSE value(k)]
      /\ \A y \in D : map[y] = value(Max(WithKey(x, k, y)))
  BY <1>6, <1>7, Zenon DEF Under
<1>9. ASSUME NEW y \in E
      PROVE  value(Max(WithKey(x, k - 1, y))) = IF y \in D THEN map[y] ELSE value(k)
  <2>1. CASE y \in D
    BY <1>4, <1>8, <2>1, Zenon
  <2>2. CASE y \notin D
    <3>1. y = key(k)
      BY <2>2
    <3> QED BY <1>5, <2>2, <3>1, Zenon
  <2> QED BY <2>1, <2>2
<1> HIDE DEF D, E
<1>10. more = Under(map, key(k), value(k))
  BY <1>8, <1>9, Zenon
<1> QED BY <1>10 DEF more, map, key, value

(* The results of as_map. *)
LEMMA Maps ==
  /\ \A m : OkMap(m).ok /\ OkMap(m).map = m
  /\ ~MapError.ok
BY DEF OkMap, MapError

(* as_map gives of each key the last value that is not empty, or an error. *)
LEMMA MapRead ==
  ASSUME NEW x \in Contents, x.kind = "map" PROVE AsMap(RawOf(x)) = MapMeant(x)
<1> DEFINE raw == RawOf(x)  W == WholeEntries(x)
<1>1. raw \in Seq(Byte) /\ x.kind # "none"
  BY RawRead
<1>2. IsValue(raw, KV) /\ ValueOffset(raw) = ValueStart(x) /\ ValueStart(x) # Malformed
  BY <1>1, HeaderRead
<1> HIDE DEF raw
<1>3. PICK from : /\ \A i \in Nat : from[i] = MapAt(raw, i, from)
                  /\ AsMap(raw) = IF ~IsValue(raw, KV) THEN OkMap(<< >>)
                                  ELSE IF ValueOffset(raw) = Malformed THEN MapError
                                  ELSE from[ValueOffset(raw)]
  BY <1>1, AsMapIs, Zenon
<1>4. MapWalk(RawOf(x), from) /\ AsMap(raw) = from[ValueStart(x)]
  BY <1>2, <1>3, Zenon DEF MapWalk, raw
<1>5. W \in Nat
  BY WholeIs, ItemsTyped
<1>w. W = WholeEntries(x)
  OBVIOUS
<1> HIDE DEF W
<1> DEFINE T == {k \in 0 .. W : from[Behind(x, k)] = MapOutcome(x, k)}
<1>6. W \in T
  <2>1. from[Behind(x, W)] = MapOutcome(x, W)
    BY <1>4, <1>w, MapEnd, MapOfNone
  <2> QED BY <1>5, <2>1
<1>7. ASSUME NEW k \in 1 .. W, k \in T PROVE k - 1 \in T
  <2> DEFINE y == x.entries[k][1]  v == x.entries[k][2]  rest == from[Behind(x, k)]
  <2>1. k - 1 \in 0 .. W /\ k \in 1 .. WholeEntries(x)
    BY <1>5, <1>w
  <2>2. from[Behind(x, k - 1)] = IF ~IsUtf8(y) THEN MapError
                                 ELSE IF v = << >> THEN rest
                                 ELSE IF ~rest.ok THEN MapError
                                 ELSE OkMap(Under(rest.map, y, v))
    BY <1>4, <2>1, MapWhole
  <2>3. rest = MapOutcome(x, k)
    BY <1>7
  <2>4. NoMap(x, k - 1) <=> NoMap(x, k) \/ ~IsUtf8(y)
    <3>1. /\ (k - 1) + 1 = k /\ k \in k .. W
          /\ \A i \in k .. W : i = k \/ i \in k + 1 .. W
          /\ \A i \in k + 1 .. W : i \in k .. W
      BY <1>5
    <3>2. (\E i \in k .. W : ~IsUtf8(x.entries[i][1])) <=>
            (\E i \in k + 1 .. W : ~IsUtf8(x.entries[i][1])) \/ ~IsUtf8(y)
      BY <3>1, Zenon
    <3> QED BY <1>w, <3>1, <3>2, Zenon DEF NoMap
  <2>5. v = << >> => MapFrom(x, k - 1) = MapFrom(x, k)
    BY <2>1, MapSame
  <2>6. v # << >> => MapFrom(x, k - 1) = Under(MapFrom(x, k), y, v)
    BY <2>1, MapMore
  <2> HIDE DEF y, v, rest
  <2>7. from[Behind(x, k - 1)] = MapOutcome(x, k - 1)
    <3>1. CASE NoMap(x, k)
      BY <2>2, <2>3, <2>4, <3>1, Maps, Zenon DEF MapOutcome
    <3>2. CASE ~NoMap(x, k)
      <4>1. rest.ok /\ rest.map = MapFrom(x, k) /\ rest = OkMap(MapFrom(x, k))
        BY <2>3, <3>2, Maps, Zenon DEF MapOutcome
      <4> QED BY <2>2, <2>4, <2>5, <2>6, <3>2, <4>1, Zenon DEF MapOutcome
    <3> QED BY <3>1, <3>2
  <2> QED BY <2>1, <2>7
<1> HIDE DEF T
<1>8. 0 \in T
  BY <1>5, <1>6, <1>7, Downward
<1>9. from[Behind(x, 0)] = MapMeant(x)
  BY <1>8, MapOfAll DEF T
<1>10. Behind(x, 0) = ValueStart(x)
  <2>1. ValueStart(x) \in Nat /\ Size(x, 0) = 0
    BY <1>1, RawRead, Sized
  <2> QED BY <2>1 DEF Behind
<1> QED BY <1>4, <1>9, <1>10, Zenon DEF raw

(* Each request is answered once, and data comes with answers that can be decoded. *)
OnceInv ==
  /\ \A j, k \in DOMAIN said : said[j].request = said[k].request => j = k
  /\ \A j \in DOMAIN said :
       /\ said[j].content \in Contents /\ said[j].payload = Payload(said[j].content)
       /\ said[j].payload # << >> => said[j].magic = MAGIC /\ said[j].type \in {LOCK, UNLOCK}

(* The server says what it put into an answer. *)
LEMMA ContentIs ==
  ASSUME NEW q, NEW code, NEW content, NEW spoilt
  PROVE  Answer(q, code, content, spoilt).content = content
<1>1. CASE q.type \in {LOCK, UNLOCK}
  BY <1>1 DEF Answer
<1>2. CASE q.type \notin {LOCK, UNLOCK}
  BY <1>2 DEF Answer
<1> QED BY <1>1, <1>2

(* It answers a request that it has not answered, with data only to a lock command. *)
LEMMA OnceAnswers ==
  ASSUME WireInv, OnceInv, ServerAnswers PROVE OnceInv'
<1>1. PICK i \in DOMAIN heard, code \in Codes, content \in Contents,
           spoilt \in {"no", "magic", "type"} :
        /\ \A j \in DOMAIN said : said[j].request # heard[i].request
        /\ content.kind = "none" \/ heard[i].type \in {LOCK, UNLOCK}
        /\ spoilt = "no" \/ (content.kind = "none" /\ code = SUCCED)
        /\ said' = Append(said, Answer(heard[i], code, content, spoilt))
  BY DEF ServerAnswers
<1> DEFINE q == heard[i]  a == Answer(q, code, content, spoilt)  n == Len(said)
<1>2. /\ a.magic = IF spoilt = "magic" THEN 0 ELSE MAGIC
      /\ a.type = IF spoilt = "type" THEN 9 ELSE q.type
      /\ a.request = q.request /\ a.payload = Payload(content)
  BY AnswerFields
<1>3. a.content = content
  BY ContentIs
<1>4. said \in Seq(Answers) /\ heard \in Seq(Messages) /\ said' = Append(said, a)
  BY <1>1 DEF WireInv, SaidInv, SentInv
<1>5. a \in Answers
  <2>1. q \in Messages
    BY <1>4, ElementOfSeq
  <2> QED BY <2>1 DEF Answers
<1>6. a.payload # << >> => a.magic = MAGIC /\ a.type \in {LOCK, UNLOCK}
  <2>1. Payload(content) # << >> => content.kind # "none"
    BY Zenon DEF Payload
  <2> QED BY <1>1, <1>2, <2>1
<1>7. \A j \in DOMAIN said : said[j].request # a.request
  BY <1>1, <1>2
<1> HIDE DEF a, q
<1>8. /\ said' \in Seq(Answers) /\ Len(said') = n + 1 /\ n \in Nat /\ said'[n + 1] = a
      /\ \A j : j \in 1 .. n => said'[j] = said[j]
  BY <1>4, <1>5, AppendIs
<1>9. DOMAIN said = 1 .. n /\ DOMAIN said' = 1 .. n + 1
  BY <1>4, <1>8, LenProperties
<1> HIDE DEF n
<1>10. \A j \in 1 .. n + 1 : j \in 1 .. n \/ j = n + 1
  BY <1>8
<1>11. \A j, k \in DOMAIN said' : said'[j].request = said'[k].request => j = k
  <2> SUFFICES ASSUME NEW j \in 1 .. n + 1, NEW k \in 1 .. n + 1,
                      said'[j].request = said'[k].request
               PROVE  j = k
    BY <1>9
  <2>1. CASE j \in 1 .. n /\ k \in 1 .. n
    BY <1>8, <1>9, <2>1, Zenon DEF OnceInv
  <2>2. CASE j = n + 1 /\ k \in 1 .. n
    BY <1>7, <1>8, <1>9, <2>2, Zenon
  <2>3. CASE j \in 1 .. n /\ k = n + 1
    BY <1>7, <1>8, <1>9, <2>3, Zenon
  <2> QED BY <1>10, <2>1, <2>2, <2>3
<1>12. ASSUME NEW j \in DOMAIN said'
       PROVE  /\ said'[j].content \in Contents /\ said'[j].payload = Payload(said'[j].content)
              /\ said'[j].payload # << >> =>
                   said'[j].magic = MAGIC /\ said'[j].type \in {LOCK, UNLOCK}
  <2>1. CASE j \in 1 .. n
    BY <1>8, <1>9, <2>1, Zenon DEF OnceInv
  <2>2. CASE j = n + 1
    BY <1>2, <1>3, <1>6, <1>8, <2>2, Zenon
  <2> QED BY <1>9, <1>10, <2>1, <2>2
<1> QED BY <1>11, <1>12, Zenon DEF OnceInv

(* No other step says anything. *)
LEMMA OnceNext == ASSUME WireInv, OnceInv, [Next]_vars PROVE OnceInv'
<1>1. CASE ServerAnswers
  BY <1>1, OnceAnswers
<1>2. CASE said' = said
  BY <1>2, Zenon DEF OnceInv
<1>3. ServerAnswers \/ said' = said
  BY DEF Next, OpenStep, CallerStep, ReaderStep, ServerStep, OpenSend, OpenReceive, SetDefaults,
         Create, Call, WriteHeader, WriteExtra, ReadHeader, ReadLength, DeliverPayload,
         DeliverHeader, Deliver, ServerReads, vars
<1> QED BY <1>1, <1>2, <1>3

(* What is read is what was attached. *)
LEMMA ContentRead ==
  ASSUME NEW x \in Contents, x.kind # "none"
  PROVE  LET raw == RawOf(x)  value == KeptValue(x)
         IN  /\ AsList(raw) = IF x.kind = "list" THEN ListMeant(x) ELSE OkList(<< >>)
             /\ AsMap(raw) = IF x.kind = "map" THEN MapMeant(x) ELSE OkMap(<< >>)
             /\ x.kind = "number" => AsI64(raw) = value \o Zeros(8 - Len(value))
             /\ x.kind = "bytes" => AsString(raw) = IF IsUtf8(value) THEN Ok(value) ELSE LockDataError
             /\ Stage(raw) = Stages.current /\ CommandType(raw) = DataTypes.set
<1> DEFINE raw == RawOf(x)
<1>1. /\ Stage(raw) = Stages.current /\ CommandType(raw) = DataTypes.set
      /\ IsValue(raw, ARRAY) <=> x.kind = "list"
      /\ IsValue(raw, KV) <=> x.kind = "map"
  BY HeaderRead
<1>2. AsList(raw) = IF x.kind = "list" THEN ListMeant(x) ELSE OkList(<< >>)
  <2>1. CASE x.kind = "list"
    BY <2>1, ListRead
  <2>2. CASE x.kind # "list"
    BY <1>1, <2>2, Zenon DEF AsList
  <2> QED BY <2>1, <2>2
<1>3. AsMap(raw) = IF x.kind = "map" THEN MapMeant(x) ELSE OkMap(<< >>)
  <2>1. CASE x.kind = "map"
    BY <2>1, MapRead
  <2>2. CASE x.kind # "map"
    BY <1>1, <2>2, Zenon DEF AsMap
  <2> QED BY <2>1, <2>2
<1> QED BY <1>1, <1>2, <1>3, NumberRead, StringRead, Zenon

(* So it is read from what the call returned. *)
LEMMA DataRight == ASSUME WireInv, OnceInv PROVE DataReadBack
<1> SUFFICES ASSUME NEW c \in Callers, NEW i \in DOMAIN said, at[c] = "done",
                    said[i].request = RequestId(c), said[i].payload # << >>
             PROVE  LET raw == result[c].data
                        content == said[i].content
                        value == SubSeq(ValueOf(content), 1, Kept(content))
                    IN  /\ AsList(raw) = IF content.kind = "list" THEN ListMeant(content) ELSE OkList(<< >>)
                        /\ AsMap(raw) = IF content.kind = "map" THEN MapMeant(content) ELSE OkMap(<< >>)
                        /\ content.kind = "number" => AsI64(raw) = value \o Zeros(8 - Len(value))
                        /\ content.kind = "bytes" =>
                             AsString(raw) = IF IsUtf8(value) THEN Ok(value) ELSE LockDataError
                        /\ Stage(raw) = Stages.current /\ CommandType(raw) = DataTypes.set
  BY DEF DataReadBack
<1> DEFINE a == said[i]  x == a.content
<1>1. CallInv /\ SentInv /\ HeardInv /\ SaidInv /\ AnswersReadBack
  BY DEF WireInv
<1>2. DOMAIN said = 1 .. Len(said)
  BY <1>1, LenProperties DEF SaidInv
<1>3. frame[c].ok
  BY <1>1, <1>2, SaidOfCall
<1>4. PICK j \in DOMAIN said : said[j].request = RequestId(c) /\ result[c] = Meant(said[j])
  BY <1>1, <1>3 DEF AnswersReadBack
<1>5. j = i
  BY <1>4, Zenon DEF OnceInv
<1>6. x \in Contents /\ a.payload = Payload(x) /\ a.magic = MAGIC /\ a.type \in {LOCK, UNLOCK}
  BY Zenon DEF OnceInv
<1>7. x.kind # "none"
  BY <1>6, Zenon DEF Payload
<1> DEFINE b == a
<1>b. /\ result[c] = Meant(b) /\ b.magic = MAGIC /\ b.type \in {LOCK, UNLOCK} /\ b.payload # << >>
      /\ b.payload = Payload(x)
  BY <1>4, <1>5, <1>6
<1> HIDE DEF b
<1>8. result[c].data = RawOf(x)
  <2>1. b.type # PING
    BY <1>b, TypesDiffer
  <2>2. Meant(b) = [type |-> b.type, request |-> b.request, result |-> b.result, flag |-> b.flag,
                    db |-> b.db, id |-> b.id, key |-> b.key, lcount |-> b.lcount,
                    count |-> b.count, lrcount |-> b.lrcount, rcount |-> b.rcount,
                    data |-> Zeros(4) \o b.payload]
    BY <1>b, <2>1, Zenon DEF Meant
  <2>3. Meant(b).data = Zeros(4) \o b.payload
    BY <2>2
  <2> QED BY <1>b, <2>3, Zenon DEF RawOf
<1>9. KeptValue(x) = SubSeq(ValueOf(x), 1, Kept(x))
  BY DEF KeptValue
<1> HIDE DEF a, x
<1>10. LET raw == RawOf(x)  value == KeptValue(x)
       IN  /\ AsList(raw) = IF x.kind = "list" THEN ListMeant(x) ELSE OkList(<< >>)
           /\ AsMap(raw) = IF x.kind = "map" THEN MapMeant(x) ELSE OkMap(<< >>)
           /\ x.kind = "number" => AsI64(raw) = value \o Zeros(8 - Len(value))
           /\ x.kind = "bytes" => AsString(raw) = IF IsUtf8(value) THEN Ok(value) ELSE LockDataError
           /\ Stage(raw) = Stages.current /\ CommandType(raw) = DataTypes.set
  BY <1>6, <1>7, ContentRead
<1> QED BY <1>8, <1>9, <1>10, Zenon DEF a, x

(* The server reads the commands that were written, in their order, each with its own    *)
(* data at any depth, and is never left with a part of one (writer guard of execute).    *)
THEOREM ServerInStepHolds == Spec => []ServerInStep
BY WireInvHolds, StepTogether, PTL

(* A call returns what the server answered to it, field by field, and no other answer    *)
(* (reader loop and decode_response); or the error of data that cannot be encoded.       *)
THEOREM AnswersReadBackHolds == Spec => []AnswersReadBack
<1>1. WireInv => AnswersReadBack
  BY DEF WireInv
<1> QED BY <1>1, WireInvHolds, PTL

(* The client waits for an answer for at least the time that the server may wait for the *)
(* lock, unless the time is in minutes (EncodedCommand.timeout and the grace).           *)
THEOREM WaitsLongEnoughHolds == Spec => []WaitsLongEnough
BY WireInvHolds, LongEnough, PTL

(* The server counts the times of every operation in the unit its caller meant, and a    *)
(* token stays for its period, rounded up (token bucket, default flags of a database).   *)
THEOREM UnitsKeptHolds == Spec => []UnitsKept
BY WireInvHolds, UnitsTogether, PTL

(* Data is read for what the server attached: lists and maps entry by entry, also when   *)
(* they were cut, behind a property or not (as_list, as_map, as_i64, as_string).         *)
THEOREM DataReadBackHolds == Spec => []DataReadBack
<1>1. Init => OnceInv
  BY DEF Init, OnceInv
<1>2. WireInv /\ WireInv' /\ OnceInv /\ [Next]_vars => OnceInv'
  BY OnceNext
<1>3. WireInv /\ OnceInv => DataReadBack
  BY DataRight
<1> QED BY <1>1, <1>2, <1>3, WireInvHolds, PTL DEF Spec
==============================================================================
