------------------------------ MODULE Schannel ------------------------------
(***************************************************************************)
(* The Schannel session of internal/schannel (sspibridge.c): handshake,    *)
(* trust decision, record input with its two buffers, renegotiation,       *)
(* record output and shutdown.  scConn (https/dial_windows.go) serialises  *)
(* the calls, so one call is in progress at a time, against a socket that  *)
(* may deliver anything from one unit to all that has arrived, time out,   *)
(* fail or end.                                                            *)
(*                                                                         *)
(* The peer sends records of Units socket bytes each.  A record has a kind *)
(* and holds the plaintext bytes from + 1 to upto of the peer's stream:    *)
(*   more, done  handshake messages after which it goes on, or is complete *)
(*   cred        one that asks for a client certificate                    *)
(*   data        application data                                          *)
(*   reneg       the peer wants to renegotiate (post-handshake messages of *)
(*               TLS 1.3 as well); handshake messages follow               *)
(*   close       close_notify, behind which the peer sends nothing         *)
(*   huge        the beginning of one that is longer than the input buffer *)
(*               can get; nothing but more of it follows                   *)
(*                                                                         *)
(* External: SSPI and crypt32, modelled by the statuses the code tells     *)
(* apart, the socket and the peer.                                         *)
(***************************************************************************)
EXTENDS Naturals, Sequences, SequencesExt

CONSTANTS
    Cases,       \* the cases: what the Config trusts, what the peer sends,
                 \* and how many bytes the caller writes
    Units,       \* socket bytes of a record
    EncInitial,  \* SC_ENC_INITIAL
    EncMax,      \* SC_ENC_MAX
    MaxBuf,      \* bound: size of the caller's buffer
    MaxMessage   \* cbMaximumMessage

ASSUME ScSizes ==
    /\ {Units, EncInitial, EncMax, MaxMessage} \subseteq Nat \ {0}
    /\ EncInitial <= EncMax
    /\ MaxBuf \in Nat

\* skip_verify, ca_only, the extra anchors (NULL, an empty store, a store),
\* and where the peer's certificate chain ends.
\* The chain can end in an anchor that there is.
Trusts == {t \in [skip : BOOLEAN, caOnly : BOOLEAN, castore : {"null", "empty", "some"},
                   root : {"system", "anchor", "unknown"}] :
              t.root = "anchor" => t.castore = "some"}

Kinds == {"more", "done", "cred", "data", "reneg", "close", "huge"}
Records == {r \in [kind : Kinds, from : Nat, upto : Nat] :
               /\ r.from <= r.upto
               /\ r.from < r.upto => r.kind \in {"data", "reneg"}}

\* The records of a peer that keeps to the protocol: their plaintext numbered
\* in their order, and what may follow what.
WellFormed(w) ==
    /\ w \in Seq(Records)
    /\ \A i \in DOMAIN w :
          /\ w[i].from = IF i = 1 THEN 0 ELSE w[i - 1].upto
          /\ w[i].kind = "close" => i = Len(w)
          /\ \A j \in i + 1 .. Len(w) :
                /\ w[i].upto <= w[j].from
                /\ w[i].kind = "huge" => w[j].kind = "huge" /\ w[j].upto = w[i].upto
                /\ w[i].kind = "reneg" /\ w[j].kind \in {"data", "reneg"} =>
                      \E k \in i + 1 .. j - 1 : w[k].kind = "done"

ASSUME ScCases ==
    \A c \in Cases : c.trust \in Trusts /\ WellFormed(c.wire) /\ c.writes \in Nat

\* A call in progress: where it is, the caller's buffer, and what it holds.
NoCall == [at |-> "idle", len |-> 0, buf |-> <<>>, retried |-> FALSE]

VARIABLES
    session,   \* "new", "handshake", "open", "failed", "closed"
    trust,     \* the Config's trust and the peer's chain
    wire,      \* the records the peer sends
    writes,    \* bytes the caller writes at most
    arrived,   \* socket bytes that have arrived
    hungUp,    \* the peer has closed the socket behind these
    taken,     \* records consumed
    encLen,    \* enc_len: bytes of record taken + 1 on
    encCap,    \* enc_cap
    dec,       \* the stash: plaintext behind dec_off
    eof,       \* eof
    call,      \* the call in progress
    read,      \* the bytes Reads have returned
    ended,     \* a Read returned the end of the stream
    writing,   \* a write in progress: [len, sent], len = 0 for none
    reported,  \* bytes that Writes have reported as written
    peerGot,   \* bytes the peer has decrypted
    garbled    \* a record was not sent whole

scIn == <<taken, encLen, encCap, dec, eof>>
scOut == <<writing, reported, peerGot, garbled>>
scCase == <<trust, wire, writes>>
scNet == <<scCase, arrived, hungUp>>
scVars == <<session, scNet, scIn, call, read, ended, scOut>>

ScInit ==
    /\ session = "new"
    /\ \E c \in Cases : trust = c.trust /\ wire = c.wire /\ writes = c.writes
    /\ arrived = 0
    /\ hungUp = FALSE
    /\ taken = 0
    /\ encLen = 0
    /\ encCap = EncInitial
    /\ dec = <<>>
    /\ eof = FALSE
    /\ call = NoCall
    /\ read = <<>>
    /\ ended = FALSE
    /\ writing = [len |-> 0, sent |-> 0]
    /\ reported = 0
    /\ peerGot = 0
    /\ garbled = FALSE

-----------------------------------------------------------------------------
(* The peer.                                                               *)

Arrives ==
    /\ ~hungUp
    /\ arrived < Units * Len(wire)
    /\ arrived' = arrived + 1
    /\ UNCHANGED <<session, scCase, hungUp, scIn, call, read, ended, scOut>>

HangsUp ==
    /\ ~hungUp
    /\ hungUp' = TRUE
    /\ UNCHANGED <<session, scCase, arrived, scIn, call, read, ended, scOut>>

-----------------------------------------------------------------------------
(* Trust.                                                                  *)

\* Mutant of VerifyWith: a NULL exclusive root restores the system defaults.
VerifyWithDefaults(exclusive) ==
    IF exclusive /\ trust.castore # "null" THEN trust.root = "anchor"
                                           ELSE trust.root = "system"

\* verify_with: exclusive counts the extra anchors only, and fails without any.
VerifyWith(exclusive) ==
    IF exclusive THEN trust.castore # "null" /\ trust.root = "anchor"
                 ELSE trust.root = "system"

\* verify_chain.
Verified ==
    \/ trust.skip
    \/ IF trust.caOnly
       THEN VerifyWith(TRUE)
       ELSE VerifyWith(FALSE) \/ (trust.castore # "null" /\ VerifyWith(TRUE))

-----------------------------------------------------------------------------
(* The socket and the input buffer.                                        *)

Goto(at) == call' = [call EXCEPT !.at = at]

\* Mutant of CanGrow: no limit.
CanGrowAlways == TRUE

\* grow: twice the capacity, as far as the limit; a full buffer at the limit
\* cannot grow.
CanGrow == encLen < encCap \/ 2 * encCap <= EncMax
GrownCap == IF encLen < encCap THEN encCap ELSE 2 * encCap

\* Bytes in the socket.
InSocket == arrived - (Units * taken + encLen)

\* Record taken + 1 is in the buffer, whole.
Whole == encLen >= Units /\ wire[taken + 1].kind # "huge"
Record == wire[taken + 1]

\* SECBUFFER_EXTRA moves to the front.
Consume ==
    /\ taken' = taken + 1
    /\ encLen' = encLen - Units

\* The call fails: with the handshake, or with a Read.
Fails ==
    /\ call' = NoCall
    /\ session' = IF session = "handshake" THEN "failed" ELSE session

\* sock_recv for a caller that goes on at "at".
SockRecv(from, at) ==
    /\ call.at = from
    /\ \E n \in 1 .. InSocket : n <= encCap - encLen /\ encLen' = encLen + n
    /\ Goto(at)
    /\ UNCHANGED <<session, scNet, taken, encCap, dec, eof, read, ended, scOut>>

\* recv returns 0 at the end of the stream, and when it is given no room.
RecvReturnsZero == (InSocket = 0 /\ hungUp) \/ encLen = encCap

\* The deadline passes, or the socket fails.
SockFails ==
    /\ call.at \in {"recv", "tokenRecv"}
    /\ Fails
    /\ UNCHANGED <<scNet, scIn, read, ended, scOut>>

-----------------------------------------------------------------------------
(* do_handshake, the initial one and a renegotiation.                      *)

\* https_sc_handshake up to the first token, which may fail to be sent.
HandshakeBegins(ok) ==
    /\ session = "new"
    /\ session' = IF ok THEN "handshake" ELSE "failed"
    /\ call' = IF ok THEN [NoCall EXCEPT !.at = "tokenRoom"] ELSE NoCall
    /\ UNCHANGED <<scNet, scIn, read, ended, scOut>>

\* Room for a read, or HTTPS_SC_ERR_ALLOC.
TokenRoom ==
    /\ call.at = "tokenRoom"
    /\ IF CanGrow
       THEN encCap' = GrownCap /\ Goto("tokenRecv") /\ UNCHANGED session
       ELSE Fails /\ UNCHANGED encCap
    /\ UNCHANGED <<scNet, taken, encLen, dec, eof, read, ended, scOut>>

TokenRecv == SockRecv("tokenRecv", "token")

\* The peer hung up mid-handshake.
TokenEOF ==
    /\ call.at = "tokenRecv"
    /\ RecvReturnsZero
    /\ eof' = TRUE
    /\ Fails
    /\ UNCHANGED <<scNet, taken, encLen, encCap, dec, read, ended, scOut>>

\* SEC_E_INCOMPLETE_MESSAGE.
TokenIncomplete ==
    /\ call.at = "token"
    /\ ~Whole
    /\ Goto("tokenRoom")
    /\ UNCHANGED <<session, scNet, scIn, read, ended, scOut>>

\* SEC_I_INCOMPLETE_CREDENTIALS, once: the same input again.
TokenCred ==
    /\ call.at = "token"
    /\ Whole
    /\ Record.kind = "cred"
    /\ ~call.retried
    /\ call' = [call EXCEPT !.retried = TRUE]
    /\ UNCHANGED <<session, scNet, scIn, read, ended, scOut>>

\* SEC_I_CONTINUE_NEEDED: the answer is sent, the message consumed.
TokenContinue ==
    /\ call.at = "token"
    /\ Whole
    /\ Record.kind = "more" \/ (Record.kind = "cred" /\ call.retried)
    /\ Consume
    /\ Goto(IF encLen = Units THEN "tokenRoom" ELSE "token")
    /\ UNCHANGED <<session, scNet, encCap, dec, eof, read, ended, scOut>>

\* The answer is not sent: the call fails before the message is consumed.
TokenSendFails ==
    /\ call.at = "token"
    /\ Whole
    /\ Record.kind \in {"more", "done"} \/ (Record.kind = "cred" /\ call.retried)
    /\ Fails
    /\ UNCHANGED <<scNet, scIn, read, ended, scOut>>

\* Anything else is an error of the handshake.
TokenRefused ==
    /\ call.at = "token"
    /\ Whole
    /\ \/ Record.kind \notin {"more", "done", "cred"}
       \/ Record.kind = "cred" /\ call.retried
    /\ Consume
    /\ Fails
    /\ UNCHANGED <<scNet, encCap, dec, eof, read, ended, scOut>>

\* SEC_E_OK.  The initial handshake goes on to the trust decision and the stream
\* sizes, which there may be none of, and a Read to return what it has stashed
\* or to decrypt more.
HandshakeDone ==
    /\ call.at = "token"
    /\ Whole
    /\ Record.kind = "done"
    /\ Consume
    /\ IF session = "handshake"
       THEN call' = NoCall /\ session' \in IF Verified THEN {"open", "failed"} ELSE {"failed"}
       ELSE Goto(IF dec # <<>> THEN "return" ELSE "decrypt") /\ UNCHANGED session
    /\ UNCHANGED <<scNet, encCap, dec, eof, read, ended, scOut>>

-----------------------------------------------------------------------------
(* https_sc_read.                                                          *)

\* No call is in progress: scConn's ioMu.
Quiet == session = "open" /\ call.at = "idle" /\ writing.len = 0

FirstOf(n, s) == SubSeq(s, 1, IF n < Len(s) THEN n ELSE Len(s))
RestOf(n, s) == SubSeq(s, n + 1, Len(s))

\* Plaintext bytes in the first i records, and those of record i + 1.
PlainBefore(i) == IF i = 0 THEN 0 ELSE wire[i].upto
PlainOf(i) == [b \in 1 .. wire[i + 1].upto - wire[i + 1].from |-> wire[i + 1].from + b]

\* take_plaintext, before anything else.
ReadStashed(len) ==
    /\ Quiet
    /\ dec # <<>>
    /\ read' = read \o FirstOf(len, dec)
    /\ dec' = RestOf(len, dec)
    /\ UNCHANGED <<session, scNet, taken, encLen, encCap, eof, call, ended, scOut>>

ReadBegins(len) ==
    /\ Quiet
    /\ dec = <<>>
    /\ call' = [NoCall EXCEPT !.at = "decrypt", !.len = len]
    /\ UNCHANGED <<session, scNet, scIn, read, ended, scOut>>

\* Mutant of Direct: plaintext before a renegotiation goes to the caller, too.
DirectAlways == IF dec = <<>> THEN call.len - Len(call.buf) ELSE 0

\* How much of a record goes straight into the caller's buffer.
Direct ==
    IF Record.kind # "reneg" /\ dec = <<>> THEN call.len - Len(call.buf) ELSE 0

\* DecryptMessage with a whole record: its plaintext leaves the buffer before
\* the bytes behind it move to the front.
Decrypts ==
    /\ call.at = "decrypt"
    /\ Whole
    /\ Record.kind \in {"data", "reneg", "close"}
    /\ LET buf == call.buf \o FirstOf(Direct, PlainOf(taken))
           stash == dec \o RestOf(Direct, PlainOf(taken))
       IN  /\ dec' = stash
           /\ call' = [call EXCEPT
                 !.buf = buf,
                 !.retried = FALSE,
                 !.at = IF Record.kind = "reneg"
                        THEN IF encLen = Units THEN "tokenRoom" ELSE "token"
                        ELSE IF buf # <<>> \/ stash # <<>> \/ eof \/ Record.kind = "close"
                        THEN "return" ELSE "decrypt"]
    /\ Consume
    /\ eof' = (eof \/ Record.kind = "close")
    /\ UNCHANGED <<session, scNet, encCap, read, ended, scOut>>

\* A record that is not application data.
DecryptFails ==
    /\ call.at = "decrypt"
    /\ Whole
    /\ Record.kind \notin {"data", "reneg", "close"}
    /\ Fails
    /\ UNCHANGED <<scNet, scIn, read, ended, scOut>>

\* SEC_E_INCOMPLETE_MESSAGE, or nothing to decrypt: more is read unless the
\* stream has ended; a truncated record is dropped.
DecryptIncomplete ==
    /\ call.at = "decrypt"
    /\ ~Whole
    /\ IF CanGrow \/ encLen = 0
       THEN encCap' = GrownCap /\ Goto(IF eof THEN "return" ELSE "recv") /\ UNCHANGED session
       ELSE Fails /\ UNCHANGED encCap
    /\ UNCHANGED <<scNet, taken, encLen, dec, eof, read, ended, scOut>>

Recv == SockRecv("recv", "decrypt")

RecvZero ==
    /\ call.at = "recv"
    /\ RecvReturnsZero
    /\ eof' = TRUE
    /\ Goto("return")
    /\ UNCHANGED <<session, scNet, taken, encLen, encCap, dec, read, ended, scOut>>

\* The direct bytes, and what of the stash still fits.
ReadReturns ==
    /\ call.at = "return"
    /\ LET n == call.buf \o FirstOf(call.len - Len(call.buf), dec)
       IN  /\ read' = read \o n
           /\ ended' = (ended \/ n = <<>>)
           /\ dec' = RestOf(call.len - Len(call.buf), dec)
    /\ call' = NoCall
    /\ UNCHANGED <<session, scNet, taken, encLen, encCap, eof, scOut>>

-----------------------------------------------------------------------------
(* https_sc_write and https_sc_close.                                      *)

WriteBegins(len) ==
    /\ Quiet
    /\ reported + len <= writes
    /\ writing' = [len |-> len, sent |-> 0]
    /\ UNCHANGED <<session, scNet, scIn, call, read, ended, reported, peerGot, garbled>>

Chunk == IF writing.len - writing.sent > MaxMessage THEN MaxMessage
         ELSE writing.len - writing.sent

\* A record is sent; the last one ends the call.
SendsRecord ==
    /\ writing.len > 0
    /\ LET sent == writing.sent + Chunk
       IN  /\ writing' = IF sent = writing.len THEN [len |-> 0, sent |-> 0]
                                               ELSE [writing EXCEPT !.sent = sent]
           /\ reported' = IF sent = writing.len THEN reported + sent ELSE reported
    /\ peerGot' = IF garbled THEN peerGot ELSE peerGot + Chunk
    /\ UNCHANGED <<session, scNet, scIn, call, read, ended, garbled>>

\* Mutant of SendFails: the chunk in progress counts as written.
SendFailsCounted(encrypted) ==
    /\ writing.len > 0
    /\ reported' = reported + writing.sent + Chunk
    /\ garbled' = (garbled \/ encrypted)
    /\ writing' = [len |-> 0, sent |-> 0]
    /\ UNCHANGED <<session, scNet, scIn, call, read, ended, peerGot>>

\* EncryptMessage fails, or the socket with a record that is partly sent.
SendFails(encrypted) ==
    /\ writing.len > 0
    /\ reported' = reported + writing.sent
    /\ garbled' = (garbled \/ encrypted)
    /\ writing' = [len |-> 0, sent |-> 0]
    /\ UNCHANGED <<session, scNet, scIn, call, read, ended, peerGot>>

\* close_notify is sent as far as 100ms allow, and the state is freed.
ScClose ==
    /\ Quiet
    /\ session' = "closed"
    /\ dec' = <<>>
    /\ encLen' = 0
    /\ UNCHANGED <<scNet, taken, encCap, eof, call, read, ended, scOut>>

-----------------------------------------------------------------------------
ScNext ==
    \/ Arrives \/ HangsUp
    \/ \E ok \in BOOLEAN : HandshakeBegins(ok)
    \/ TokenRoom \/ TokenRecv \/ TokenEOF \/ TokenIncomplete \/ TokenCred
    \/ TokenContinue \/ TokenSendFails \/ TokenRefused \/ HandshakeDone
    \/ SockFails
    \/ \E len \in 1 .. MaxBuf : ReadStashed(len) \/ ReadBegins(len)
    \/ Decrypts \/ DecryptFails \/ DecryptIncomplete \/ Recv \/ RecvZero \/ ReadReturns
    \/ \E len \in 1 .. writes : WriteBegins(len)
    \/ SendsRecord
    \/ \E encrypted \in BOOLEAN : SendFails(encrypted)
    \/ ScClose

ScSpec == ScInit /\ [][ScNext]_scVars

-----------------------------------------------------------------------------
(* Properties.                                                             *)

\* The plaintext of the records that have arrived whole, up to close_notify.
Arrived ==
    LET whole == {i \in 0 .. Len(wire) : /\ i * Units <= arrived
                                         /\ \A j \in 1 .. i : wire[j].kind # "close"}
    IN  PlainBefore(CHOOSE i \in whole : \A j \in whole : j <= i)

Stream == INSTANCE ByteStream WITH given <- Arrived, got <- read, ended <- ended

\* Reads of a Schannel session are those of a byte stream, however records are
\* cut into socket reads and buffers, whatever was read behind the handshake,
\* and although Reads time out, within a renegotiation as well: plaintext that
\* a call has decrypted and not returned stays in the stash for the next.
ScReadsStream == Stream!StreamSpec

\* The input buffer stays within SC_ENC_MAX, the stash holds what is left of
\* one record, and "direct and the stash never both hold bytes for this call".
ScBuffers ==
    /\ encLen <= encCap /\ encCap <= EncMax
    /\ dec # <<>> => \E i \in 0 .. Len(wire) - 1 : ToSet(dec) \subseteq ToSet(PlainOf(i))
    /\ call.at = "return" => call.buf = <<>> \/ Len(call.buf) = call.len \/ dec = <<>>

\* What Writes have reported has reached the peer in whole records, and as
\* long as no record was cut short nothing more has: a Write that fails
\* reports exactly the chunks before the failure.
ScWritesReported ==
    /\ ~garbled => reported + writing.sent = peerGot
    /\ garbled => peerGot <= reported + writing.sent

\* A session is open to application data only with a chain that the Config
\* trusts: the system roots unless RootCAsOnly, the extra anchors in addition,
\* and nothing with RootCAsOnly and no anchors.
ScTrustDecided ==
    session = "open" =>
        \/ trust.skip
        \/ trust.root = "anchor"
        \/ trust.root = "system" /\ ~trust.caOnly

=============================================================================
