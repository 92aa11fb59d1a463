----------------------------- MODULE VectorLanes ----------------------------
(***************************************************************************)
(* What the vector kernels compute in a lane, or in the lanes of one       *)
(* quantum, from the bytes there: base64 (simdbase64) and hex (simdhex),   *)
(* each in its vector_tinygo.c.  Tables, shifts and masks are those of the *)
(* code, for SSSE3 and for NEON; bytes are taken modulo 256, and a table   *)
(* answers 0 behind its end.                                               *)
(***************************************************************************)
EXTENDS Integers, Sequences, Bitwise

VARIABLE
    byte    \* a byte of a vector

Byte == 0 .. 255

LanesInit == byte \in Byte

\* lookup: tbl, or pshufb, for which every index is below 16.
Lookup(table, i) == IF i < Len(table) THEN table[i + 1] ELSE 0

\* ushl: to the left, or to the right for a negative shift.
Ushl(x, s) == IF s >= 0 THEN (x * 2^s) % 256 ELSE x \div 2^(-s)

\* sli: x shifted into d, which keeps its low bits.
Sli(d, x, s) == (d % 2^s) + ((x * 2^s) % 256)

\* The lanes of a comparison, as a number added or masked.
If(b, x) == IF b THEN x ELSE 0

-----------------------------------------------------------------------------
(* base64: is the byte a digit, and which?  In decode_small, and in the    *)
(* bulk loops on x86.                                                      *)

Hi == <<0, 0, 1, 2, 4, 8, 16, 32>>

Lo(url) ==
    IF url THEN <<42, 62, 62, 62, 62, 62, 62, 62, 62, 62, 60, 20, 20, 21, 20, 28>>
    ELSE <<42, 62, 62, 62, 62, 62, 62, 62, 62, 62, 60, 21, 20, 20, 20, 21>>

Delta(url) == <<0, 0, IF url THEN 17 ELSE 19, 4, 191, 191, 185, 185>>

Valid(url, x) == Lookup(Lo(url), x % 16) & Lookup(Hi, x \div 16)

\* The digit's value; the last one of the alphabet is corrected.
Value(url, x) ==
    (x + Lookup(Delta(url), x \div 16)
       + If(x = (IF url THEN 95 ELSE 47), IF url THEN 33 ELSE 253)) % 256

(* In the bulk loops on aarch64: the class of validation selects the delta. *)

HiNeon(url) ==
    IF url THEN <<0, 0, 0, 0, 0, 4, 8, 8, 16, 32, 32, 18, 64, 128, 128, 64>>
    ELSE <<0, 0, 0, 0, 0, 6, 8, 8, 16, 32, 32, 16, 64, 128, 128, 64>>

LoNeon(url) ==
    IF url
    THEN <<169, 248, 248, 248, 248, 248, 248, 248, 248, 249, 241, 160, 161, 165, 160, 162>>
    ELSE <<169, 248, 248, 248, 248, 248, 248, 248, 248, 249, 241, 162, 161, 161, 160, 164>>

DeltaNeon(url) ==
    IF url THEN <<185, 185, 191, 191, 4, 17, 224>>
    ELSE <<185, 185, 191, 191, 4, 16, 19>>

ValidNeon(url, x) == Lookup(LoNeon(url), x % 16) & Lookup(HiNeon(url), x \div 8)

\* clz.
Clz(v) == CHOOSE n \in 0 .. 8 : v < 2^(8 - n) /\ (n < 8 => v >= 2^(7 - n))

ValueNeon(url, x) == (x + Lookup(DeltaNeon(url), Clz(ValidNeon(url, x)))) % 256

-----------------------------------------------------------------------------
(* base64: four digits to three bytes.                                     *)

\* decode_pack on x86: the word, its pairs of digits, its 24 bits.
Pack(q) ==
    LET w == q[1] + 256 * q[2] + 65536 * q[3] + 16777216 * q[4]
        mask == 63 + 63 * 65536
        pairs == ((w & mask) * 64) | ((w \div 256) & mask)
        out == ((pairs & 4095) * 4096) | (pairs \div 65536)
    IN  <<out \div 65536, (out \div 256) % 256, out % 256>>

\* decode_pack on aarch64.
PackNeon(q) ==
    [k \in 1 .. 3 |-> Ushl(q[k], <<2, 4, 6>>[k]) | Ushl(q[k + 1], <<-4, -2, 0>>[k])]

\* decode_store48 on aarch64.
Store48Neon(q) == <<Sli(q[2] \div 16, q[1], 2), Sli(q[3] \div 4, q[2], 4), Sli(q[4], q[3], 6)>>

-----------------------------------------------------------------------------
(* base64: three bytes to four digits, and a digit to its letter.          *)

\* encode_small on x86: the fields of the word, each moved to its byte.
Split(t) ==
    LET x == 65536 * t[1] + 256 * t[2] + t[3]
    IN  <<(x \div 2^18) & 63, ((x \div 2^4) & 16128) \div 2^8,
          (x \div 2^6) & 63, x & 63>>

\* encode_small on aarch64: lane 4 takes only the third byte.
SplitNeon(t) ==
    LET b == <<0, t[2], t[3], 0>>
    IN  [k \in 1 .. 4 |->
            (Ushl(t[<<1, 1, 2, 3>>[k]], <<-2, 4, 2, 0>>[k])
                | Ushl(b[k], <<0, -4, -6, 0>>[k])) & 63]

\* encode_large on aarch64.
SplitLarge(t) ==
    <<t[1] \div 4,
      (Ushl(t[1], 4) | (t[2] \div 16)) & 63,
      (Ushl(t[2], 2) | (t[3] \div 64)) & 63,
      t[3] & 63>>

Offsets(url) ==
    <<65, 71, 252, 252, 252, 252, 252, 252, 252, 252, 252, 252>>
        \o (IF url THEN <<239, 32>> ELSE <<237, 240>>)

\* Mutant of OffsetIndex: the last capital letter counts as a small one.
OffsetIndexEarly(v) == If(v > 51, v - 51) + If(v >= 25, 1)

\* index: 0 for capitals, 1 for small letters, then one per other digit.
OffsetIndex(v) == If(v > 51, v - 51) + If(v > 25, 1)

Letter64(url, v) == (v + Lookup(Offsets(url), OffsetIndex(v))) % 256

-----------------------------------------------------------------------------
(* hex.                                                                    *)

HexLetter(v) == v + 48 + If(v > 9, 39)

\* The digit test of tinygodriver_hex_decode, which wraps around, and the value.
HexAlpha(x) == ((x | 32) + 256 - 97) % 256 <= 5
HexValid(x) == (x + 256 - 48) % 256 <= 9 \/ HexAlpha(x)
HexValue(x) == (x % 16) + If(HexAlpha(x), 9)

-----------------------------------------------------------------------------
(* The reference: RFC 4648 and the alphabets of base64.go.                 *)

\* The letter of digit v: A to Z, a to z, 0 to 9 and the two that differ.
Alphabet(url, v) ==
    IF v < 26 THEN 65 + v
    ELSE IF v < 52 THEN 97 + v - 26
    ELSE IF v < 62 THEN 48 + v - 52
    ELSE IF v = 62 THEN IF url THEN 45 ELSE 43
    ELSE IF url THEN 95 ELSE 47

\* Three bytes and four digits are the same 24 bits.
SameBits(t, q) ==
    65536 * t[1] + 256 * t[2] + t[3] = 262144 * q[1] + 4096 * q[2] + 64 * q[3] + q[4]

\* The letters of hex digits, either case.
HexDigits == (48 .. 57) \cup (65 .. 70) \cup (97 .. 102)

-----------------------------------------------------------------------------
(* Properties.                                                             *)

\* A lane takes exactly the 64 letters of its alphabet for digits and gives
\* each its value, with either classifier.
DecodeLane(url) ==
    LET digit == {v \in 0 .. 63 : Alphabet(url, v) = byte}
    IN  /\ digit = {} <=> Valid(url, byte) = 0
        /\ digit = {} <=> ValidNeon(url, byte) = 0
        /\ \A v \in digit : Value(url, byte) = v /\ ValueNeon(url, byte) = v

\* Quanta that hold the byte, with the least and the greatest around it.
PackLanes ==
    byte < 64 => \A q \in [1 .. 4 -> {0, byte, 63}] :
        \A t \in {Pack(q), PackNeon(q), Store48Neon(q)} :
            t \in [1 .. 3 -> Byte] /\ SameBits(t, q)

SplitLanes ==
    \A t \in [1 .. 3 -> {0, byte, 255}] :
        \A q \in {Split(t), SplitNeon(t), SplitLarge(t)} :
            q \in [1 .. 4 -> 0 .. 63] /\ SameBits(t, q)

EncodeLane(url) == byte < 64 => Letter64(url, byte) = Alphabet(url, byte)

HexLane ==
    /\ byte < 16 => HexLetter(byte) \in HexDigits /\ HexValue(HexLetter(byte)) = byte
    /\ HexValid(byte) <=> byte \in HexDigits
    /\ byte \in HexDigits =>
          HexValue(byte) = IF byte < 58 THEN byte - 48
                           ELSE IF byte < 71 THEN byte - 55
                           ELSE byte - 87

\* For every byte, the vector arithmetic (classifier tables with shared bits,
\* deltas that wrap around, shifts that merge two digits, words of four bytes)
\* computes what RFC 4648 and encoding/hex say.
LanesExact ==
    byte \in Byte =>
        /\ \A url \in BOOLEAN : DecodeLane(url) /\ EncodeLane(url)
        /\ PackLanes
        /\ SplitLanes
        /\ HexLane

=============================================================================
