----------------------------- MODULE HeadReader -----------------------------
(***************************************************************************)
(* readHead of package httpserver (server_tinygo.go): the loop that reads  *)
(* a connection until its buffer holds the end of a request head.  Only    *)
(* the bytes a read delivered, and the few before them that could belong   *)
(* to a terminator cut in two, are searched.                               *)
(*                                                                         *)
(* External: the connection, which delivers any bytes in any chunks.       *)
(***************************************************************************)
EXTENDS Naturals, Sequences

CONSTANTS
    HeadBytes,    \* the bytes a client sends
    Terminator,   \* headTerminator
    InitialCap,   \* capacity of the first buffer
    HeadLimit     \* the limit max

ASSUME BytesAssumption == Terminator \in Seq(HeadBytes) /\ Len(Terminator) > 0
ASSUME SizesAssumption == InitialCap \in Nat \ {0} /\ HeadLimit \in Nat

VARIABLES
    buf,      \* buf, the bytes read so far
    cap,      \* cap(buf)
    status    \* "reading", or how readHead returned

readVars == <<buf, cap, status>>

ReadInit == buf = <<>> /\ cap = InitialCap /\ status = "reading"

-----------------------------------------------------------------------------
\* bytes.Contains.
Contains(s, t) ==
    \E i \in 0 .. Len(s) : i + Len(t) <= Len(s) /\ SubSeq(s, i + 1, i + Len(t)) = t

\* Mutant of Start: the window is one byte short.
StartLate(n) == IF n < Len(Terminator) - 2 THEN 0 ELSE n - (Len(Terminator) - 2)

\* Where the search starts when n bytes were there before the read.
Start(n) == IF n < Len(Terminator) - 1 THEN 0 ELSE n - (Len(Terminator) - 1)

\* The capacity a read finds: a full buffer is doubled.
Grown == IF Len(buf) = cap THEN 2 * cap ELSE cap

\* What the loop does with the bytes of a read and with its error.
Outcome(new, err) ==
    IF Contains(SubSeq(new, Start(Len(buf)) + 1, Len(new)), Terminator) THEN "ok"
    ELSE IF Len(new) > HeadLimit THEN "tooLarge"
    ELSE IF err THEN "err"
    ELSE "reading"

\* conn.Read delivers a chunk that fits the spare capacity, with or without an
\* error behind it.
Read(chunk, err) ==
    /\ status = "reading"
    /\ Len(buf) + Len(chunk) <= Grown
    /\ buf' = buf \o chunk
    /\ cap' = Grown
    /\ status' = Outcome(buf \o chunk, err)

\* conn.Read delivers nothing but an error: EOF, or the read deadline.
ReadFails ==
    /\ status = "reading"
    /\ cap' = Grown
    /\ status' = "err"
    /\ UNCHANGED buf

-----------------------------------------------------------------------------
ReadNext ==
    \/ \E n \in 1 .. Grown - Len(buf) :
          \E chunk \in [1 .. n -> HeadBytes], err \in BOOLEAN : Read(chunk, err)
    \/ ReadFails

ReadSpec == ReadInit /\ [][ReadNext]_readVars

-----------------------------------------------------------------------------
(* Properties.                                                             *)

\* readHead returns the head as soon as its end has arrived, however the
\* terminator was cut into reads, and never without it: the window of three
\* bytes before a read is as good as searching the whole buffer.
HeadFound == (status = "ok") <=> Contains(buf, Terminator)

\* A client that never ends its head makes the server hold a bounded buffer:
\* at most twice the limit, although reads may fill all of the capacity.
BufferBounded ==
    /\ Len(buf) <= cap
    /\ cap <= InitialCap \/ cap <= 2 * HeadLimit

\* readHead finds the end of a head wherever reads cut it, in bounded memory.
HeadReads == HeadFound /\ BufferBounded

=============================================================================
