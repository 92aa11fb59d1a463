------------------------------ MODULE MbedConn ------------------------------
(***************************************************************************)
(* The mbedTLS connection of package https: mbedConn (dial_mbedtls.go),    *)
(* the shim tls_mbedtls.c, and of the vendored mbedTLS (ssl_msg.c) the     *)
(* record buffers that survive a call: the input record that is fetched in *)
(* pieces, the plaintext that was not read yet, and the output record that *)
(* was encrypted and not sent whole.                                       *)
(*                                                                         *)
(* Goroutines share the connection: a call checks connState, under its own *)
(* lock, then waits for ioMu and uses the session.  A call in the session  *)
(* ends with its result, a timeout or an error of the socket.              *)
(*                                                                         *)
(* Bytes are numbered, those the peer sends and those the caller writes. A *)
(* record takes MbUnits writes or reads of the socket.                     *)
(*                                                                         *)
(* External: cryptography, the socket, the peer.                           *)
(***************************************************************************)
EXTENDS Naturals, Sequences

CONSTANTS
    Users,       \* goroutines
    MbUnits,     \* pieces of a record in the socket
    MbPlain,     \* plaintext bytes of a record of the peer
    MbMessage,   \* plaintext bytes of a record of the caller at most
    MbArrivals,  \* bound: pieces the peer sends
    MbWritten    \* bound: bytes the caller writes

ASSUME MbSizes ==
    /\ {MbUnits, MbPlain, MbMessage} \subseteq Nat \ {0}
    /\ {MbArrivals, MbWritten} \subseteq Nat

Resting == [at |-> "idle", call |-> "none", len |-> 0, done |-> 0, chunk |-> 0]

VARIABLES
    closed,    \* connState.closed
    ioMu,      \* ioMu: {} or {its holder}
    mbSession, \* "open", or "freed" by https_mbed_close
    user,      \* user[g]: the call goroutine g is in
    came,      \* pieces that have arrived
    mbEnd,     \* how the peer's stream ends: "none", "notify" or "cut"
    whole,     \* records of the peer that were decrypted
    inLeft,    \* in_left: pieces of the next record
    inOfft,    \* in_offt: plaintext not read yet
    mbRead,    \* bytes Reads have returned
    mbEnded,   \* a Read returned the end of the stream
    outMsg,    \* out_msg
    outLeft,   \* out_left: pieces of it still to be sent
    mbPeer,    \* bytes the peer has decrypted
    mbReported,\* bytes that Writes reported
    retry,     \* bytes of a Write that failed before their report
    strayed    \* a failed Write was followed by another than its retry

mbConn == <<closed, ioMu, mbSession>>
mbIn == <<came, mbEnd, whole, inLeft, inOfft, mbRead, mbEnded>>
mbOut == <<outMsg, outLeft, mbPeer, mbReported, retry, strayed>>
mbVars == <<mbConn, user, mbIn, mbOut>>

MbInit ==
    /\ closed = FALSE
    /\ ioMu = {}
    /\ mbSession = "open"
    /\ user = [g \in Users |-> Resting]
    /\ came = 0
    /\ mbEnd = "none"
    /\ whole = 0
    /\ inLeft = 0
    /\ inOfft = <<>>
    /\ mbRead = <<>>
    /\ mbEnded = FALSE
    /\ outMsg = <<>>
    /\ outLeft = 0
    /\ mbPeer = <<>>
    /\ mbReported = 0
    /\ retry = 0
    /\ strayed = FALSE

\* The numbers from a + 1 to b.
Bytes(a, b) == [i \in 1 .. b - a |-> a + i]
Least(a, b) == IF a < b THEN a ELSE b

-----------------------------------------------------------------------------
(* The peer.                                                               *)

PieceArrives ==
    /\ mbEnd = "none"
    /\ came < MbArrivals
    /\ came' = came + 1
    /\ UNCHANGED <<mbConn, user, mbEnd, whole, inLeft, inOfft, mbRead, mbEnded, mbOut>>

\* close_notify comes between records, the end of the socket anywhere.
StreamEnds(how) ==
    /\ mbEnd = "none"
    /\ how = "notify" => came % MbUnits = 0
    /\ mbEnd' = how
    /\ UNCHANGED <<mbConn, user, came, whole, inLeft, inOfft, mbRead, mbEnded, mbOut>>

-----------------------------------------------------------------------------
(* mbedConn.                                                               *)

\* readBudget or writeBudget lets the call through.
Budgeted(g, call, len) ==
    /\ user[g] = Resting
    /\ ~closed
    /\ user' = [user EXCEPT ![g] = [Resting EXCEPT !.at = "lock", !.call = call, !.len = len]]
    /\ UNCHANGED <<mbConn, mbIn, mbOut>>

\* connState.close, by the first Close.
CloseMarks(g) ==
    /\ user[g] = Resting
    /\ ~closed
    /\ closed' = TRUE
    /\ user' = [user EXCEPT ![g] = [Resting EXCEPT !.at = "lock", !.call = "close"]]
    /\ UNCHANGED <<ioMu, mbSession, mbIn, mbOut>>

\* The session that Close freed while the call waited for ioMu: its handle is
\* 0, and the call returns HTTPS_MBED_ERR_CLOSED.
FindsFreed(g) ==
    /\ user[g].at = "lock"
    /\ ioMu = {}
    /\ mbSession = "freed"
    /\ user' = [user EXCEPT ![g] = Resting]
    /\ UNCHANGED <<mbConn, mbIn, mbOut>>

\* Mutant of EntersRead: the session's handle is not looked at.
EntersReadUnchecked(g) ==
    /\ user[g].at = "lock" /\ user[g].call = "read"
    /\ ioMu = {}
    /\ ioMu' = {g}
    /\ user' = [user EXCEPT ![g].at = "read"]
    /\ UNCHANGED <<closed, mbSession, mbIn, mbOut>>

EntersRead(g) ==
    /\ user[g].at = "lock" /\ user[g].call = "read"
    /\ ioMu = {}
    /\ mbSession = "open"
    /\ ioMu' = {g}
    /\ user' = [user EXCEPT ![g].at = "read"]
    /\ UNCHANGED <<closed, mbSession, mbIn, mbOut>>

\* A Write with other bytes than those of a failed one strays.
EntersWrite(g) ==
    /\ user[g].at = "lock" /\ user[g].call = "write"
    /\ ioMu = {}
    /\ mbSession = "open"
    /\ mbReported + user[g].len <= MbWritten
    /\ ioMu' = {g}
    /\ user' = [user EXCEPT ![g].at = "write"]
    /\ strayed' = (strayed \/ (retry # 0 /\ user[g].len # retry))
    /\ UNCHANGED <<closed, mbSession, mbIn, outMsg, outLeft, mbPeer, mbReported, retry>>

\* Close has ioMu: close_notify within 100ms, the session and the socket go.
ClosesSession(g) ==
    /\ user[g].at = "lock" /\ user[g].call = "close"
    /\ ioMu = {}
    /\ mbSession = "open"
    /\ mbSession' = "freed"
    /\ user' = [user EXCEPT ![g] = Resting]
    /\ UNCHANGED <<closed, ioMu, mbIn, mbOut>>

MbLeaves(g) == user' = [user EXCEPT ![g] = Resting] /\ ioMu' = {}

-----------------------------------------------------------------------------
(* https_mbed_read.                                                        *)

\* ssl_read_application_data.
ReadTakes(g) ==
    /\ user[g].at = "read"
    /\ inOfft # <<>>
    /\ LET n == Least(user[g].len, Len(inOfft))
       IN  /\ mbRead' = mbRead \o SubSeq(inOfft, 1, n)
           /\ inOfft' = SubSeq(inOfft, n + 1, Len(inOfft))
    /\ MbLeaves(g)
    /\ UNCHANGED <<closed, mbSession, came, mbEnd, whole, inLeft, mbEnded, mbOut>>

InPieces == came - (MbUnits * whole + inLeft)

\* mbedtls_ssl_fetch_input reads no further than the record.
BioRecv(g, n) ==
    /\ user[g].at = "read"
    /\ inOfft = <<>>
    /\ inLeft < MbUnits
    /\ n <= InPieces /\ n <= MbUnits - inLeft
    /\ inLeft' = inLeft + n
    /\ UNCHANGED <<mbConn, user, came, mbEnd, whole, inOfft, mbRead, mbEnded, mbOut>>

\* mbedtls_ssl_read_record with a whole record.
ReadRecord(g) ==
    /\ user[g].at = "read"
    /\ inOfft = <<>>
    /\ inLeft = MbUnits
    /\ inLeft' = 0
    /\ whole' = whole + 1
    /\ inOfft' = Bytes(MbPlain * whole, MbPlain * (whole + 1))
    /\ UNCHANGED <<mbConn, user, came, mbEnd, mbRead, mbEnded, mbOut>>

\* MBEDTLS_ERR_SSL_PEER_CLOSE_NOTIFY, or the end of the socket.
ReadEnds(g) ==
    /\ user[g].at = "read"
    /\ inOfft = <<>>
    /\ inLeft < MbUnits
    /\ InPieces = 0
    /\ mbEnd # "none"
    /\ mbEnded' = TRUE
    /\ MbLeaves(g)
    /\ UNCHANGED <<closed, mbSession, came, mbEnd, whole, inLeft, inOfft, mbRead, mbOut>>

\* Mutant of ReadFails: a timeout drops what was fetched of a record.
ReadFailsDropping(g) ==
    /\ user[g].at = "read"
    /\ inOfft = <<>>
    /\ inLeft < MbUnits
    /\ whole' = IF inLeft = 0 THEN whole ELSE whole + 1
    /\ inLeft' = 0
    /\ MbLeaves(g)
    /\ UNCHANGED <<closed, mbSession, came, mbEnd, inOfft, mbRead, mbEnded, mbOut>>

\* The deadline, or an error of the socket; in_left stays.
ReadFails(g) ==
    /\ user[g].at = "read"
    /\ inOfft = <<>>
    /\ inLeft < MbUnits
    /\ MbLeaves(g)
    /\ UNCHANGED <<closed, mbSession, mbIn, mbOut>>

-----------------------------------------------------------------------------
(* https_mbed_write.                                                       *)

\* ssl_write_real: a new record, or the one that is left from a Write before,
\* taken for this one's bytes.
SslWrite(g) ==
    /\ user[g].at = "write"
    /\ LET chunk == Least(user[g].len - user[g].done, MbMessage)
           from == mbReported + user[g].done
       IN  /\ user' = [user EXCEPT ![g].at = "flush", ![g].chunk = chunk]
           /\ IF outLeft = 0
              THEN outMsg' = Bytes(from, from + chunk) /\ outLeft' = MbUnits
              ELSE UNCHANGED <<outMsg, outLeft>>
    /\ UNCHANGED <<mbConn, mbIn, mbPeer, mbReported, retry, strayed>>

\* bio_send within mbedtls_ssl_flush_output.
BioSend(g, n) ==
    /\ user[g].at = "flush"
    /\ n <= outLeft
    /\ outLeft' = outLeft - n
    /\ mbPeer' = IF outLeft = n THEN mbPeer \o outMsg ELSE mbPeer
    /\ UNCHANGED <<mbConn, user, mbIn, outMsg, mbReported, retry, strayed>>

\* The record is sent: the next chunk, or the end of the Write.
Flushed(g) ==
    /\ user[g].at = "flush"
    /\ outLeft = 0
    /\ LET done == user[g].done + user[g].chunk
       IN  IF done < user[g].len
           THEN /\ user' = [user EXCEPT ![g].at = "write", ![g].done = done]
                /\ UNCHANGED <<ioMu, mbReported, retry>>
           ELSE /\ MbLeaves(g)
                /\ mbReported' = mbReported + done
                /\ retry' = 0
    /\ UNCHANGED <<closed, mbSession, mbIn, outMsg, outLeft, mbPeer, strayed>>

\* Mutant of WriteFails: the record in progress counts as written.
WriteFailsCounted(g) ==
    /\ user[g].at = "flush"
    /\ outLeft > 0
    /\ mbReported' = mbReported + user[g].done + user[g].chunk
    /\ retry' = user[g].len - user[g].done
    /\ MbLeaves(g)
    /\ UNCHANGED <<closed, mbSession, mbIn, outMsg, outLeft, mbPeer, strayed>>

\* The deadline, or an error of the socket: the record stays with out_left.
WriteFails(g) ==
    /\ user[g].at = "flush"
    /\ outLeft > 0
    /\ mbReported' = mbReported + user[g].done
    /\ retry' = user[g].len - user[g].done
    /\ MbLeaves(g)
    /\ UNCHANGED <<closed, mbSession, mbIn, outMsg, outLeft, mbPeer, strayed>>

-----------------------------------------------------------------------------
MbStep(g) ==
    \/ FindsFreed(g) \/ EntersRead(g) \/ EntersWrite(g) \/ ClosesSession(g)
    \/ ReadTakes(g) \/ ReadRecord(g) \/ ReadEnds(g) \/ ReadFails(g)
    \/ \E n \in 1 .. MbUnits : BioRecv(g, n) \/ BioSend(g, n)
    \/ SslWrite(g) \/ Flushed(g) \/ WriteFails(g)

MbNext ==
    \/ PieceArrives
    \/ \E how \in {"notify", "cut"} : StreamEnds(how)
    \/ \E g \in Users :
          \/ \E len \in 1 .. 2 * MbMessage : Budgeted(g, "write", len)
          \/ \E len \in 1 .. MbPlain : Budgeted(g, "read", len)
          \/ CloseMarks(g)
          \/ MbStep(g)

MbSpec == MbInit /\ [][MbNext]_mbVars

-----------------------------------------------------------------------------
(* Properties.                                                             *)

MbStream == INSTANCE ByteStream WITH given <- MbPlain * (came \div MbUnits),
                                     got <- mbRead, ended <- mbEnded

\* Reads of an mbedTLS connection are those of a byte stream, although they
\* time out in the middle of a record and take its plaintext in parts.
MbReadsStream == MbStream!StreamSpec

\* The peer gets what Writes reported, byte for byte, and, of a Write that
\* failed, nothing that was not reported unless it is retried with the same
\* bytes: then the record that mbedTLS kept is sent as theirs, once.
MbWritesExact ==
    ~strayed =>
        LET done == {user[g].done + IF user[g].at = "flush" /\ outLeft = 0 THEN user[g].chunk
                                                                           ELSE 0 :
                        g \in {h \in Users : user[h].at \in {"write", "flush"}}}
        IN  IF done = {} THEN mbPeer = Bytes(0, mbReported)
                         ELSE \E d \in done : mbPeer = Bytes(0, mbReported + d)

\* The check of closed and the use of the session are two steps with ioMu
\* between them; no call is in the session that a Close has freed in between.
MbSessionLive ==
    \A g \in Users : user[g].at \in {"read", "write", "flush"} =>
        mbSession = "open" /\ ioMu = {g}

=============================================================================
