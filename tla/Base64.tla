------------------------------- MODULE Base64 -------------------------------
(***************************************************************************)
(* Decode of package simdbase64 (base64.go) and the vector kernel under it *)
(* (vector_tinygo.c).  The kernel decodes what whole vectors hold: lines   *)
(* of 76 digits, blocks of 64, vectors of 16 and their first 12, 8 or 4.   *)
(* Decode gives encoding/base64 what the kernel rejects: the rest of the   *)
(* line, after which the kernel is tried again, or the rest of the input.  *)
(*                                                                         *)
(* An input is any text; a character is its class, and what the vectors    *)
(* compute from digits is in VectorLanes.  Positions and sizes are those   *)
(* of the code.                                                            *)
(*                                                                         *)
(* External: encoding/base64.                                              *)
(***************************************************************************)
EXTENDS Integers, FiniteSets

CONSTANTS
    Texts,         \* inputs: a length, and whether the encoding has padding
    ClassOf(_, _)  \* the class of an input's character at a position

\* A "=" is padding in an encoding that has padding, and a bad character in others.
Classes(padded) == {"digit", "CR", "LF", "bad"} \cup IF padded THEN {"pad"} ELSE {}

ASSUME TextsAssumption ==
    \A t \in Texts :
        /\ t.len \in Nat /\ t.padded \in BOOLEAN
        /\ \A i \in 0 .. t.len - 1 : ClassOf(t, i) \in Classes(t.padded)

\* No error.
Ok == -1

VARIABLES
    text,    \* src, and whether the encoding has padding
    size,    \* len(dst)
    pc,      \* the loop that runs
    pos,     \* si, and src of the kernel
    count,   \* n, the bytes decoded
    reach,   \* how far into dst anything was stored
    failed   \* the offset of a CorruptInputError, or Ok

b64Vars == <<text, size, pc, pos, count, reach, failed>>

\* The class of the character at i.
Class(i) == ClassOf(text, i)

Newline(i) == Class(i) \in {"CR", "LF"}

\* The first position in from .. to - 1 that satisfies P, else to.
First(from, to, P(_)) ==
    IF \E i \in from .. to - 1 : P(i)
    THEN CHOOSE i \in from .. to - 1 : P(i) /\ \A j \in from .. i - 1 : ~P(j)
    ELSE to

\* The first position from i that is no newline.
Skip(i) == First(i, text.len, LAMBDA j : ~Newline(j))

AllDigits(i, k) == \A j \in i .. i + k - 1 : Class(j) = "digit"

Room == size - count
Left == text.len - pos

-----------------------------------------------------------------------------
(* External: encoding/base64, on src[from:to].                             *)

\* Its answer to padding at e behind j digits of a quantum: the second pad it
\* expects after two digits, and nothing but newlines behind the padding.
StdPadding(src, whole, j, e, to) ==
    LET next(i) == First(i, to, LAMBDA k : ClassOf(src, k) \notin {"CR", "LF"})
        second == next(e + 1)
        rest == next(IF j = 2 THEN second + 1 ELSE e + 1)
    IN  IF j < 2 THEN [n |-> whole, err |-> e]
        ELSE IF j = 2 /\ second = to THEN [n |-> whole, err |-> to]
        ELSE IF j = 2 /\ ClassOf(src, second) # "pad" THEN [n |-> whole, err |-> second - 1]
        ELSE [n |-> whole + j - 1, err |-> IF rest < to THEN rest ELSE Ok]

StdDecode(src, from, to) ==
    LET e == First(from, to, LAMBDA i : ClassOf(src, i) \in {"bad", "pad"})
        k == Cardinality({i \in from .. e - 1 : ClassOf(src, i) = "digit"})
        j == k % 4
        whole == 3 * (k \div 4)
    IN  IF e < to /\ ClassOf(src, e) = "bad" THEN [n |-> whole, err |-> e]
        ELSE IF e < to THEN StdPadding(src, whole, j, e, to)
        ELSE IF j = 0 THEN [n |-> whole, err |-> Ok]
        ELSE IF src.padded \/ j = 1 THEN [n |-> whole, err |-> to - j]
        ELSE [n |-> whole + j - 1, err |-> Ok]

-----------------------------------------------------------------------------
\* DecodedLen.
DecodedLen(src) == IF src.padded THEN 3 * (src.len \div 4) ELSE (6 * src.len) \div 8

\* The sizes of dst: DecodedLen, and what the input decodes to.
B64Init ==
    /\ text \in Texts
    /\ size \in {DecodedLen(text), StdDecode(text, 0, text.len).n}
    /\ pc = "start" /\ pos = 0 /\ count = 0 /\ reach = 0 /\ failed = Ok

\* Step i characters and o bytes on, having stored s bytes.
Advance(i, o, s) ==
    /\ pos' = pos + i
    /\ count' = count + o
    /\ reach' = IF count + s > reach THEN count + s ELSE reach
    /\ UNCHANGED <<text, size, failed>>

Goto(l) == pc' = l

-----------------------------------------------------------------------------
(* The kernel.                                                             *)

\* The lines of 76 digits, then blocks; tinygodriver_base64_decode.
MimeFits ==
    /\ Left >= 80
    /\ Room >= 57
    /\ Newline(pos + 76)
    /\ AllDigits(pos, 76)

\* The characters of a line and its newline.
MimeStep == IF Class(pos + 76) = "CR" /\ Class(pos + 77) = "LF" THEN 78 ELSE 77

MimeLine == pc = "mime" /\ MimeFits /\ Advance(MimeStep, 57, 57) /\ Goto("mime")

MimeEnds == pc = "mime" /\ ~MimeFits /\ Advance(0, 0, 0) /\ Goto("plain")

PlainFits == Left >= 64 /\ Room >= 52

PlainNewlines ==
    /\ pc = "plain" /\ PlainFits /\ Newline(pos)
    /\ Advance(Skip(pos) - pos, 0, 0) /\ Goto("plain")

\* The x86 stores overlap, and the last one ends four bytes behind the block.
PlainBlock ==
    /\ pc = "plain" /\ PlainFits /\ AllDigits(pos, 64)
    /\ Advance(64, 48, 52) /\ Goto("plain")

PlainEnds ==
    /\ pc = "plain"
    /\ ~PlainFits \/ ~(Newline(pos) \/ AllDigits(pos, 64))
    /\ Advance(0, 0, 0) /\ Goto("small")

\* decode_small, one vector behind the newlines at q.
SmallFits(q) == text.len - q >= 16 /\ Room >= 16

SmallVector ==
    LET q == Skip(pos)
    IN  /\ pc = "small" /\ SmallFits(q) /\ AllDigits(q, 16)
        /\ Advance(q + 16 - pos, 12, 16) /\ Goto("small")

\* The digits a vector that is not all digits starts with, in whole quanta.
SmallPartial ==
    LET q == Skip(pos)
    IN  \E d \in {4, 8, 12} :
            /\ pc = "small" /\ SmallFits(q) /\ AllDigits(q, d) /\ ~AllDigits(q, d + 4)
            /\ Advance(q + d - pos, 3 * (d \div 4), 3 * (d \div 4)) /\ Goto("small")

SmallEnds ==
    LET q == Skip(pos)
    IN  /\ pc = "small" /\ ~(SmallFits(q) /\ AllDigits(q, 4))
        /\ Advance(q - pos, 0, 0) /\ Goto("fringe")

-----------------------------------------------------------------------------
(* Decode.                                                                 *)

\* An input too short for vectors.
Short == pc = "start" /\ Left < 64 /\ Advance(0, 0, 0) /\ Goto("suffix")

\* The loop of Decode, and the choice at the start of the kernel.
Call ==
    /\ \/ pc = "start" /\ Left >= 64
       \/ pc = "again"
    /\ IF Left < 16 \/ Room < 16 THEN Advance(0, 0, 0) /\ Goto("suffix")
       ELSE IF Left < 256 THEN Advance(0, 0, 0) /\ Goto("small")
       ELSE Advance(Skip(pos) - pos, 0, 0) /\ Goto("mime")

\* The end of the first line: its newline in the rejected vector, unless
\* padding stands before it.
LineEnd == First(pos, pos + 16, LAMBDA i : Newline(i) \/ Class(i) = "pad")

\* The characters of the line before i.
Digits(i) == Cardinality({j \in pos .. i - 1 : ~Newline(j)})

\* Where the quanta that cross the end of the line are complete: the first
\* character behind newlines with whole quanta before it, or padding.
QuantaEnd ==
    First(LineEnd, text.len, LAMBDA i :
        ~Newline(i) /\ (Digits(i) % 4 = 0 \/ Class(i) = "pad"))

\* Mutant of NeedsSuffix: padding is decoded with its line.
NeedsSuffixAtNoLine == Left < 16 \/ Room < 16 \/ LineEnd = pos + 16

\* Padding, or a vector that has no newline, needs all of the input that is left.
NeedsSuffix ==
    \/ Left < 16
    \/ Room < 16
    \/ LineEnd = pos + 16
    \/ ~Newline(LineEnd)
    \/ QuantaEnd < text.len /\ Digits(QuantaEnd) % 4 # 0

\* encoding/base64 decodes src[pos:to] behind what there is.
Scalar(to, next) ==
    LET r == StdDecode(text, pos, to)
    IN  /\ pos' = to
        /\ count' = count + r.n
        /\ reach' = IF count + r.n > reach THEN count + r.n ELSE reach
        /\ failed' = r.err
        /\ Goto(IF r.err = Ok THEN next ELSE "done")
        /\ UNCHANGED <<text, size>>

Fringe == pc = "fringe" /\ ~NeedsSuffix /\ Scalar(QuantaEnd, "again")

FringeIsSuffix == pc = "fringe" /\ NeedsSuffix /\ Advance(0, 0, 0) /\ Goto("suffix")

\* decodeSuffix.
DecodeSuffix == pc = "suffix" /\ Scalar(text.len, "done")

-----------------------------------------------------------------------------
B64Next ==
    \/ Short \/ Call
    \/ MimeLine \/ MimeEnds
    \/ PlainNewlines \/ PlainBlock \/ PlainEnds
    \/ SmallVector \/ SmallPartial \/ SmallEnds
    \/ Fringe \/ FringeIsSuffix \/ DecodeSuffix

B64Spec == B64Init /\ [][B64Next]_b64Vars

-----------------------------------------------------------------------------
(* Properties.                                                             *)

\* "Invalid input returns the successfully decoded prefix and the same
\* CorruptInputError as encoding/base64": whatever way through the loops an
\* input takes, Decode returns the count and the error of one call of the
\* standard library, and no store reaches behind dst.
DecodeAsStd ==
    /\ reach <= size
    /\ pc = "done" => [n |-> count, err |-> failed] = StdDecode(text, 0, text.len)

=============================================================================
