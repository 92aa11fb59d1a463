--------------------------- MODULE SchannelProofs ---------------------------
(***************************************************************************)
(* Proofs about Schannel, for every well-formed stream of records of the   *)
(* peer, every trust setting and all sizes: the trust decision, the two    *)
(* buffers of the input, what a Write reports, and that Reads implement    *)
(* ByteStream.                                                             *)
(*                                                                         *)
(* The stash alone says little.  ScStreamInv places it: what Reads have    *)
(* returned, what the call in progress holds and the stash are, in this    *)
(* order, the plaintext of the records that were consumed.  For that to    *)
(* survive a failing call, only a call that returns may hold bytes         *)
(* (ScCallInv); in a renegotiation, the records consumed hold none         *)
(* (ScRenegInv); for the end of the stream, eof means that nothing more    *)
(* can come (ScDrainedInv).                                                *)
(***************************************************************************)
EXTENDS Schannel, WellFoundedInduction, TLAPS

TokenAts == {"tokenRoom", "tokenRecv", "token"}
ScCalls == [at : TokenAts \cup {"idle", "decrypt", "recv", "return"}, len : Nat,
          buf : Seq(Nat), retried : BOOLEAN]

ScTypes ==
    /\ session \in {"new", "handshake", "open", "failed", "closed"}
    /\ trust \in Trusts /\ WellFormed(wire) /\ writes \in Nat
    /\ arrived \in Nat /\ taken \in Nat /\ encLen \in Nat /\ encCap \in Nat
    /\ dec \in Seq(Nat) /\ read \in Seq(Nat)
    /\ call \in ScCalls

ScFlags == hungUp \in BOOLEAN /\ eof \in BOOLEAN /\ ended \in BOOLEAN

\* Where a call can be in a session, and who holds plaintext then.
ScCallInv ==
    /\ call.at = "idle" => call = NoCall
    /\ call.at # "idle" => session \in {"handshake", "open"}
    /\ call.at \in {"decrypt", "recv", "return"} => session = "open"
    /\ call.at # "idle" /\ session = "open" => call.len > 0
    /\ session \in {"new", "handshake"} => dec = <<>> /\ read = <<>>
    /\ call.at \in {"decrypt", "recv"} => dec = <<>>
    /\ call.at # "return" => call.buf = <<>>
    /\ Len(call.buf) <= call.len
    /\ call.at = "return" => call.buf = <<>> \/ Len(call.buf) = call.len \/ dec = <<>>
    /\ call.at = "return" /\ call.buf = <<>> /\ dec = <<>> => eof

\* The input buffer, and the socket before it.
ScRoomInv ==
    /\ encLen <= encCap /\ encCap <= EncMax /\ encCap > 0
    /\ call.at \in {"recv", "tokenRecv"} => encLen < encCap

ScSocketInv ==
    /\ Units * taken + encLen <= arrived
    /\ arrived <= Units * Len(wire)

\* Read, in the call and stashed: the plaintext of the records consumed.
ScStreamInv ==
    /\ \A i \in DOMAIN read : read[i] = i
    /\ session \in {"new", "handshake", "open"} =>
          /\ \A i \in DOMAIN call.buf : call.buf[i] = Len(read) + i
          /\ \A i \in DOMAIN dec : dec[i] = Len(read) + Len(call.buf) + i
          /\ Len(read) + Len(call.buf) + Len(dec) = PlainBefore(taken)

\* The stash is of one record.
ScStashInv ==
    dec # <<>> => \E i \in 0 .. Len(wire) - 1 : ToSet(dec) \subseteq ToSet(PlainOf(i))

\* A renegotiation goes on until its last message.
ScRenegInv ==
    session = "open" /\ call.at \in TokenAts =>
        \E i \in 1 .. taken : /\ wire[i].kind = "reneg"
                              /\ \A k \in i + 1 .. taken : wire[k].kind # "done"

\* eof: close_notify was the last record, or the socket has ended in a record.
\* More is read only when no record is whole.
ScDrainedInv ==
    /\ eof /\ session = "open" =>
          \/ taken > 0 /\ wire[taken].kind = "close"
          \/ hungUp /\ InSocket = 0 /\ ~Whole
    /\ session \in {"new", "handshake"} => ~eof
    /\ session = "open" /\ call.at \in {"recv", "tokenRoom", "tokenRecv"} => ~Whole

ScInv == /\ ScTypes /\ ScFlags /\ ScCallInv /\ ScRoomInv /\ ScSocketInv
         /\ ScStreamInv /\ ScStashInv /\ ScRenegInv /\ ScDrainedInv

-----------------------------------------------------------------------------
(* The sizes, the streams and the next record.                             *)

\* The sizes are numbers, and positive where the code has them so.
LEMMA ScNumbers ==
    /\ Units \in Nat /\ Units > 0 /\ EncInitial \in Nat /\ EncInitial > 0
    /\ EncMax \in Nat /\ EncInitial <= EncMax /\ MaxMessage \in Nat /\ MaxMessage > 0
    /\ MaxBuf \in Nat
BY ScSizes

\* The case is chosen once.
LEMMA ScCaseKept == [ScNext]_scVars => UNCHANGED scCase
<1> SUFFICES ASSUME [ScNext]_scVars PROVE UNCHANGED scCase
  OBVIOUS
<1>1. CASE Arrives
  BY <1>1 DEF Arrives, scNet
<1>2. CASE HangsUp
  BY <1>2 DEF HangsUp, scNet
<1>3. ASSUME NEW ok \in BOOLEAN, HandshakeBegins(ok) PROVE UNCHANGED scCase
  BY <1>3 DEF HandshakeBegins, scNet
<1>4. CASE TokenRoom
  BY <1>4 DEF TokenRoom, scNet
<1>5. CASE TokenRecv
  BY <1>5 DEF TokenRecv, SockRecv, scNet
<1>6. CASE TokenEOF
  BY <1>6 DEF TokenEOF, scNet
<1>7. CASE TokenIncomplete
  BY <1>7 DEF TokenIncomplete, scNet
<1>8. CASE TokenCred
  BY <1>8 DEF TokenCred, scNet
<1>9. CASE TokenContinue
  BY <1>9 DEF TokenContinue, scNet
<1>10. CASE TokenSendFails
  BY <1>10 DEF TokenSendFails, scNet
<1>11. CASE TokenRefused
  BY <1>11 DEF TokenRefused, scNet
<1>12. CASE HandshakeDone
  BY <1>12 DEF HandshakeDone, scNet
<1>13. CASE SockFails
  BY <1>13 DEF SockFails, scNet
<1>14. ASSUME NEW len \in 1 .. MaxBuf, ReadStashed(len) PROVE UNCHANGED scCase
  BY <1>14 DEF ReadStashed, scNet
<1>15. ASSUME NEW len \in 1 .. MaxBuf, ReadBegins(len) PROVE UNCHANGED scCase
  BY <1>15 DEF ReadBegins, scNet
<1>16. CASE Decrypts
  BY <1>16 DEF Decrypts, scNet
<1>17. CASE DecryptFails
  BY <1>17 DEF DecryptFails, scNet
<1>18. CASE DecryptIncomplete
  BY <1>18 DEF DecryptIncomplete, scNet
<1>19. CASE Recv
  BY <1>19 DEF Recv, SockRecv, scNet
<1>20. CASE RecvZero
  BY <1>20 DEF RecvZero, scNet
<1>21. CASE ReadReturns
  BY <1>21 DEF ReadReturns, scNet
<1>22. ASSUME NEW len \in 1 .. writes, WriteBegins(len) PROVE UNCHANGED scCase
  BY <1>22 DEF WriteBegins, scNet
<1>23. CASE SendsRecord
  BY <1>23 DEF SendsRecord, scNet
<1>24. ASSUME NEW encrypted \in BOOLEAN, SendFails(encrypted) PROVE UNCHANGED scCase
  BY <1>24 DEF SendFails, scNet
<1>25. CASE ScClose
  BY <1>25 DEF ScClose, scNet
<1>26. CASE UNCHANGED scVars
  BY <1>26 DEF scVars, scNet
<1> QED
  BY <1>1, <1>2, <1>3, <1>4, <1>5, <1>6, <1>7, <1>8, <1>9, <1>10,
     <1>11, <1>12, <1>13, <1>14, <1>15, <1>16, <1>17, <1>18, <1>19, <1>20,
     <1>21, <1>22, <1>23, <1>24, <1>25, <1>26
     DEF ScNext

\* Behind the records consumed there is the one that is whole.
LEMMA ScWhole ==
    ASSUME ScTypes, ScSocketInv, Whole
    PROVE  /\ taken + 1 \in DOMAIN wire /\ taken + 1 <= Len(wire) /\ Record \in Records
           /\ Units <= encLen /\ Record.kind # "huge"
<1>1. wire \in Seq(Records) /\ taken \in Nat /\ encLen \in Nat /\ arrived \in Nat
  BY DEF ScTypes, WellFormed
<1>2. encLen >= Units /\ Record.kind # "huge"
  BY DEF Whole, Record
<1>3. Len(wire) \in Nat /\ Units \in Nat /\ Units > 0
  BY <1>1, ScNumbers
<1>4. Units * taken + Units <= Units * Len(wire)
  BY <1>1, <1>2, <1>3 DEF ScSocketInv
<1>5. taken + 1 <= Len(wire)
  <2>1. SUFFICES ASSUME Len(wire) <= taken PROVE FALSE
    BY <1>1, <1>3
  <2>2. PICK k \in Nat : taken = Len(wire) + k
    BY <1>1, <1>3, <2>1
  <2>3. Units * taken = Units * Len(wire) + Units * k /\ Units * k \in Nat /\ Units * Len(wire) \in Nat
    BY <1>3, <2>2
  <2> QED
    BY <1>3, <1>4, <2>3
<1> QED
  BY <1>1, <1>2, <1>5 DEF Record

\* The plaintext of the next record starts where that of the others ends.
LEMMA ScNextPlain ==
    ASSUME WellFormed(wire), NEW i \in Nat, i + 1 \in DOMAIN wire
    PROVE  /\ wire[i + 1] \in Records /\ PlainBefore(i) = wire[i + 1].from
           /\ PlainBefore(i + 1) = wire[i + 1].upto
           /\ PlainBefore(i) \in Nat /\ PlainBefore(i + 1) \in Nat
           /\ PlainBefore(i) <= PlainBefore(i + 1)
<1>1. wire \in Seq(Records) /\ wire[i + 1] \in Records /\ i + 1 # 0
  BY DEF WellFormed
<1>2. wire[i + 1].from = IF i + 1 = 1 THEN 0 ELSE wire[i].upto
  BY DEF WellFormed
<1>3. PlainBefore(i) = wire[i + 1].from
  BY <1>2 DEF PlainBefore
<1> QED
  BY <1>1, <1>3 DEF PlainBefore, Records

\* Its bytes.
LEMMA ScPlainBytes ==
    ASSUME WellFormed(wire), NEW i \in Nat, i + 1 \in DOMAIN wire
    PROVE  /\ PlainOf(i) \in Seq(Nat)
           /\ Len(PlainOf(i)) = PlainBefore(i + 1) - PlainBefore(i)
           /\ \A b \in 1 .. Len(PlainOf(i)) : PlainOf(i)[b] = PlainBefore(i) + b
<1>1. PICK n \in Nat, m \in Nat : n = wire[i + 1].from /\ m = wire[i + 1].upto /\ n <= m
  BY ScNextPlain
<1> DEFINE q == [b \in 1 .. m - n |-> n + b]
<1>2. PlainOf(i) = q
  BY <1>1 DEF PlainOf
<1>3. q \in Seq(Nat) /\ Len(q) = m - n
  BY <1>1
<1>4. \A b \in 1 .. m - n : q[b] = n + b
  OBVIOUS
<1>5. PlainBefore(i) = n /\ PlainBefore(i + 1) = m
  BY <1>1, ScNextPlain
<1> HIDE DEF q
<1> QED
  BY <1>2, <1>3, <1>4, <1>5

\* The first n elements of a sequence, or all of them, and the rest.
ScParts(n, m, s) ==
    /\ m <= n /\ m <= Len(s) /\ (n <= Len(s) => m = n) /\ (n > Len(s) => m = Len(s))
    /\ FirstOf(n, s) \in Seq(Nat) /\ Len(FirstOf(n, s)) = m
    /\ \A i \in 1 .. m : FirstOf(n, s)[i] = s[i]
    /\ RestOf(n, s) \in Seq(Nat) /\ Len(RestOf(n, s)) = Len(s) - m
    /\ \A i \in 1 .. Len(s) - m : RestOf(n, s)[i] = s[m + i]

\* There is a place where it is cut.
LEMMA ScCut ==
    ASSUME NEW s \in Seq(Nat), NEW n \in Nat
    PROVE  \E m \in Nat : ScParts(n, m, s)
<1>1. CASE n < Len(s)
  <2>1. ScParts(n, n, s)
    BY <1>1 DEF FirstOf, RestOf, ScParts
  <2> QED
    BY <2>1
<1>2. CASE ~(n < Len(s))
  <2>1. RestOf(n, s) = <<>>
    BY <1>2 DEF RestOf
  <2>2. /\ FirstOf(n, s) \in Seq(Nat) /\ Len(FirstOf(n, s)) = Len(s)
        /\ \A i \in 1 .. Len(s) : FirstOf(n, s)[i] = s[i]
    BY <1>2 DEF FirstOf
  <2>3. ScParts(n, Len(s), s)
    BY <1>2, <2>1, <2>2 DEF ScParts
  <2> QED
    BY <2>3
<1> QED
  BY <1>1, <1>2

-----------------------------------------------------------------------------
(* Types.                                                                  *)

\* A call goes on at another place.
LEMMA ScGoto ==
    ASSUME call \in ScCalls, NEW at \in TokenAts \cup {"idle", "decrypt", "recv", "return"}, Goto(at)
    PROVE  /\ call' \in ScCalls /\ call'.at = at /\ call'.len = call.len
           /\ call'.buf = call.buf /\ call'.retried = call.retried
BY DEF Goto, ScCalls

\* There is no call, or a new one.
LEMMA ScNoCall ==
    /\ NoCall \in ScCalls /\ NoCall.at = "idle" /\ NoCall.len = 0 /\ NoCall.buf = <<>>
    /\ Len(NoCall.buf) <= NoCall.len
    /\ \A n \in Nat : LET c == [NoCall EXCEPT !.at = "decrypt", !.len = n]
                      IN  c \in ScCalls /\ c.at = "decrypt" /\ c.len = n /\ c.buf = <<>> /\ Len(c.buf) <= c.len
    /\ LET c == [NoCall EXCEPT !.at = "tokenRoom"]
       IN  c \in ScCalls /\ c.at = "tokenRoom" /\ c.len = 0 /\ c.buf = <<>> /\ Len(c.buf) <= c.len
<1>0. <<>> \in Seq(Nat) /\ Len(<<>>) = 0
  OBVIOUS
<1>1. PICK e \in Seq(Nat) : e = <<>> /\ Len(e) = 0
  BY <1>0, Zenon
<1>2. NoCall = [at |-> "idle", len |-> 0, buf |-> e, retried |-> FALSE]
  BY <1>1 DEF NoCall
<1>3. NoCall \in ScCalls /\ NoCall.at = "idle" /\ NoCall.len = 0 /\ NoCall.buf = e /\ Len(NoCall.buf) <= NoCall.len
  BY <1>1, <1>2 DEF ScCalls, TokenAts
<1>4. ASSUME NEW n \in Nat
      PROVE  LET c == [NoCall EXCEPT !.at = "decrypt", !.len = n]
             IN  c \in ScCalls /\ c.at = "decrypt" /\ c.len = n /\ c.buf = e /\ Len(c.buf) <= c.len
  <2>1. PICK c : c = [NoCall EXCEPT !.at = "decrypt", !.len = n]
    OBVIOUS
  <2>2. c \in ScCalls /\ c.at = "decrypt" /\ c.len = n /\ c.buf = e
    BY <1>2, <2>1 DEF ScCalls, TokenAts
  <2>3. Len(c.buf) <= c.len
    BY <1>1, <2>2
  <2> QED
    BY <2>1, <2>2, <2>3, Zenon
<1>5. LET c == [NoCall EXCEPT !.at = "tokenRoom"]
      IN  c \in ScCalls /\ c.at = "tokenRoom" /\ c.len = 0 /\ c.buf = e /\ Len(c.buf) <= c.len
  <2>1. PICK c : c = [NoCall EXCEPT !.at = "tokenRoom"]
    OBVIOUS
  <2>2. c \in ScCalls /\ c.at = "tokenRoom" /\ c.len = 0 /\ c.buf = e
    BY <1>2, <2>1 DEF ScCalls, TokenAts
  <2>3. Len(c.buf) <= c.len
    BY <1>1, <2>2
  <2> QED
    BY <2>1, <2>2, <2>3, Zenon
<1> QED
  BY <1>1, <1>3, <1>4, <1>5, Zenon

\* A failing call leaves no call, and ends a handshake.
LEMMA ScFailing ==
    ASSUME Fails, session \in {"new", "handshake", "open", "failed", "closed"}
    PROVE  /\ call' = NoCall /\ call' \in ScCalls /\ call'.at = "idle" /\ call'.len = 0 /\ call'.buf = <<>>
           /\ session' = (IF session = "handshake" THEN "failed" ELSE session)
           /\ session' \in {"new", "open", "failed", "closed"}
BY ScNoCall DEF Fails

\* DecryptMessage of a whole record: its plaintext is divided between the
\* caller and the stash, which were both empty.
LEMMA ScDecrypting ==
    ASSUME ScTypes, ScCallInv, ScSocketInv, Decrypts
    PROVE  /\ session = "open" /\ session' = "open" /\ taken + 1 \in DOMAIN wire /\ call.len > 0
           /\ taken' = taken + 1 /\ encLen' = encLen - Units /\ encLen' \in Nat
           /\ dec = <<>> /\ call.buf = <<>>
           /\ PlainOf(taken) \in Seq(Nat)
           /\ call' \in ScCalls /\ dec' \in Seq(Nat) /\ call'.len = call.len
           /\ \E d \in Nat :
                 /\ d = IF Record.kind = "reneg" THEN 0 ELSE call.len
                 /\ call'.buf = FirstOf(d, PlainOf(taken))
                 /\ dec' = RestOf(d, PlainOf(taken))
           /\ Record.kind = "reneg" => call'.at \in TokenAts
           /\ Record.kind # "reneg" =>
                 \/ call'.at = "decrypt" /\ call'.buf = <<>> /\ dec' = <<>>
                 \/ call'.at = "return" /\ (call'.buf # <<>> \/ dec' # <<>> \/ eof \/ Record.kind = "close")
<1>1. Whole /\ call.at = "decrypt" /\ taken' = taken + 1 /\ encLen' = encLen - Units
  BY DEF Decrypts, Consume
<1>2. session = "open" /\ session' = "open" /\ dec = <<>> /\ call.buf = <<>> /\ call.len > 0
  BY <1>1 DEF ScCallInv, Decrypts
<1>3. taken + 1 \in DOMAIN wire /\ Units <= encLen /\ Units \in Nat /\ encLen \in Nat /\ call \in ScCalls
      /\ WellFormed(wire) /\ taken \in Nat
  BY <1>1, ScWhole, ScNumbers DEF ScTypes
<1>4. PICK P \in Seq(Nat) : P = PlainOf(taken)
  BY <1>3, ScPlainBytes
<1>5. call.len \in Nat /\ call.len - Len(call.buf) = call.len
  BY <1>2, <1>3 DEF ScCalls
<1>6. PICK d \in Nat : d = Direct /\ d = IF Record.kind = "reneg" THEN 0 ELSE call.len
  BY <1>2, <1>5 DEF Direct
<1>7. PICK b \in Seq(Nat), r \in Seq(Nat) : b = FirstOf(d, P) /\ r = RestOf(d, P)
  BY ScCut DEF ScParts
<1>8. call.buf \o b = b /\ dec \o r = r
  BY <1>2
<1>9. PICK at \in TokenAts \cup {"decrypt", "return"} :
         /\ at = IF Record.kind = "reneg"
                 THEN IF encLen = Units THEN "tokenRoom" ELSE "token"
                 ELSE IF b # <<>> \/ r # <<>> \/ eof \/ Record.kind = "close"
                 THEN "return" ELSE "decrypt"
  BY DEF TokenAts
<1>10. dec' = r /\ call' = [call EXCEPT !.buf = b, !.retried = FALSE, !.at = at]
  BY <1>4, <1>6, <1>7, <1>8, <1>9 DEF Decrypts
<1>11. call' \in ScCalls /\ call'.buf = b /\ call'.at = at /\ call'.len = call.len
  BY <1>3, <1>10 DEF ScCalls
<1>12. Record.kind = "reneg" => at \in TokenAts
  BY <1>9 DEF TokenAts
<1>13. Record.kind # "reneg" =>
           \/ at = "decrypt" /\ b = <<>> /\ r = <<>>
           \/ at = "return" /\ (b # <<>> \/ r # <<>> \/ eof \/ Record.kind = "close")
  BY <1>9
<1>14. encLen' \in Nat
  BY <1>1, <1>3
<1> QED
  BY <1>1, <1>2, <1>3, <1>4, <1>6, <1>7, <1>10, <1>11, <1>12, <1>13, <1>14

\* Consuming a whole record.
LEMMA ScConsuming ==
    ASSUME ScTypes, ScSocketInv, Whole, Consume
    PROVE  /\ taken' = taken + 1 /\ taken' \in Nat /\ taken' \in DOMAIN wire
           /\ encLen' = encLen - Units /\ encLen' \in Nat
<1>1. taken + 1 \in DOMAIN wire /\ Units <= encLen
  BY ScWhole
<1> QED
  BY <1>1, ScNumbers DEF Consume, ScTypes

\* The types survive every step.
LEMMA ScTypesStep ==
    ASSUME ScTypes, ScCallInv, ScSocketInv, [ScNext]_scVars
    PROVE  ScTypes'
<1> DEFINE Same == /\ session' \in {"new", "handshake", "open", "failed", "closed"}
                   /\ arrived' \in Nat /\ taken' \in Nat /\ encLen' \in Nat /\ encCap' \in Nat
                   /\ dec' \in Seq(Nat) /\ read' \in Seq(Nat)
                   /\ call' \in ScCalls
<1> SUFFICES Same
  BY ScCaseKept DEF ScTypes, scCase
<1>0. /\ session \in {"new", "handshake", "open", "failed", "closed"}
      /\ arrived \in Nat /\ taken \in Nat /\ encLen \in Nat /\ encCap \in Nat
      /\ dec \in Seq(Nat) /\ read \in Seq(Nat) /\ call \in ScCalls
  BY DEF ScTypes
<1>1. CASE Arrives
  BY <1>0, <1>1 DEF Arrives, scNet, scIn
<1>2. CASE HangsUp
  BY <1>0, <1>2 DEF HangsUp, scNet, scIn
<1>3. ASSUME NEW ok \in BOOLEAN, HandshakeBegins(ok) PROVE Same
  BY <1>0, <1>3, ScNoCall DEF HandshakeBegins, scNet, scIn
<1>4. CASE TokenRoom
  <2>1. CASE CanGrow
    BY <1>0, <1>4, <2>1, ScGoto DEF TokenRoom, GrownCap, TokenAts, scNet
  <2>2. CASE ~CanGrow
    BY <1>0, <1>4, <2>2, ScFailing DEF TokenRoom, scNet
  <2> QED
    BY <2>1, <2>2
<1>5. CASE TokenRecv
  <2>1. call' \in ScCalls
    BY <1>0, <1>5, ScGoto DEF TokenRecv, SockRecv, TokenAts
  <2>2. encLen' \in Nat
    BY <1>0, <1>5 DEF TokenRecv, SockRecv
  <2> QED
    BY <1>0, <1>5, <2>1, <2>2 DEF TokenRecv, SockRecv, scNet
<1>6. CASE TokenEOF
  BY <1>0, <1>6, ScFailing DEF TokenEOF, scNet, scIn
<1>7. CASE TokenIncomplete
  BY <1>0, <1>7, ScGoto DEF TokenIncomplete, TokenAts, scNet, scIn
<1>8. CASE TokenCred
  <2>1. call' \in ScCalls
    BY <1>0, <1>8 DEF TokenCred, ScCalls
  <2> QED
    BY <1>0, <1>8, <2>1 DEF TokenCred, scNet, scIn
<1>9. CASE TokenContinue
  <2>1. PICK at \in TokenAts : at = IF encLen = Units THEN "tokenRoom" ELSE "token"
    BY DEF TokenAts
  <2>2. call' \in ScCalls
    BY <1>0, <1>9, <2>1, ScGoto DEF TokenContinue
  <2>3. taken' \in Nat /\ encLen' \in Nat
    <3>1. Whole /\ Consume
      BY <1>9 DEF TokenContinue
    <3> QED
      BY <3>1, ScConsuming
  <2> QED
    BY <1>0, <1>9, <2>2, <2>3 DEF TokenContinue, scNet
<1>10. CASE TokenSendFails
  BY <1>0, <1>10, ScFailing DEF TokenSendFails, scNet, scIn
<1>11. CASE TokenRefused
  <2>1. taken' \in Nat /\ encLen' \in Nat
    <3>1. Whole /\ Consume
      BY <1>11 DEF TokenRefused
    <3> QED
      BY <3>1, ScConsuming
  <2> QED
    BY <1>0, <1>11, <2>1, ScFailing DEF TokenRefused, scNet, scIn
<1>12. CASE HandshakeDone
  <2>0. taken' \in Nat /\ encLen' \in Nat
    <3>1. Whole /\ Consume
      BY <1>12 DEF HandshakeDone
    <3> QED
      BY <3>1, ScConsuming
  <2>1. CASE session = "handshake"
    <3>1. session' \in {"open", "failed"} /\ call' = NoCall
      BY <1>12, <2>1 DEF HandshakeDone
    <3> QED
      BY <1>0, <1>12, <2>0, <3>1, ScNoCall DEF HandshakeDone, scNet
  <2>2. CASE session # "handshake"
    <3>1. PICK at \in {"decrypt", "return"} : at = IF dec # <<>> THEN "return" ELSE "decrypt"
      OBVIOUS
    <3>2. call' \in ScCalls
      BY <1>0, <1>12, <2>2, <3>1, ScGoto DEF HandshakeDone
    <3> QED
      BY <1>0, <1>12, <2>0, <2>2, <3>2 DEF HandshakeDone, scNet
  <2> QED
    BY <2>1, <2>2
<1>13. CASE SockFails
  BY <1>0, <1>13, ScFailing DEF SockFails, scNet, scIn
<1>14. ASSUME NEW len \in 1 .. MaxBuf, ReadStashed(len) PROVE Same
  <2>1. len \in Nat
    BY ScNumbers
  <2>2. FirstOf(len, dec) \in Seq(Nat) /\ RestOf(len, dec) \in Seq(Nat)
    BY <1>0, <2>1, ScCut DEF ScParts
  <2> QED
    BY <1>0, <1>14, <2>2 DEF ReadStashed, scNet
<1>15. ASSUME NEW len \in 1 .. MaxBuf, ReadBegins(len) PROVE Same
  <2>1. len \in Nat
    BY ScNumbers
  <2> QED
    BY <1>0, <1>15, <2>1, ScNoCall DEF ReadBegins, scNet, scIn
<1>16. CASE Decrypts
  <2>1. session' = "open" /\ taken' = taken + 1 /\ encLen' \in Nat /\ call' \in ScCalls /\ dec' \in Seq(Nat)
    BY <1>16, ScDecrypting
  <2> QED
    BY <1>0, <1>16, <2>1 DEF Decrypts, scNet
<1>17. CASE DecryptFails
  BY <1>0, <1>17, ScFailing DEF DecryptFails, scNet, scIn
<1>18. CASE DecryptIncomplete
  <2>1. CASE CanGrow \/ encLen = 0
    <3>1. PICK at \in {"recv", "return"} : at = IF eof THEN "return" ELSE "recv"
      OBVIOUS
    <3>2. call' \in ScCalls
      BY <1>0, <1>18, <2>1, <3>1, ScGoto DEF DecryptIncomplete
    <3> QED
      BY <1>0, <1>18, <2>1, <3>2 DEF DecryptIncomplete, GrownCap, scNet
  <2>2. CASE ~(CanGrow \/ encLen = 0)
    BY <1>0, <1>18, <2>2, ScFailing DEF DecryptIncomplete, scNet
  <2> QED
    BY <2>1, <2>2
<1>19. CASE Recv
  <2>1. call' \in ScCalls
    BY <1>0, <1>19, ScGoto DEF Recv, SockRecv, TokenAts
  <2>2. encLen' \in Nat
    BY <1>0, <1>19 DEF Recv, SockRecv
  <2> QED
    BY <1>0, <1>19, <2>1, <2>2 DEF Recv, SockRecv, scNet
<1>20. CASE RecvZero
  BY <1>0, <1>20, ScGoto DEF RecvZero, scNet
<1>21. CASE ReadReturns
  <2>1. PICK n \in Nat : n = call.len - Len(call.buf)
    BY <1>0 DEF ScCallInv, ScCalls
  <2>2. FirstOf(n, dec) \in Seq(Nat) /\ RestOf(n, dec) \in Seq(Nat) /\ call.buf \in Seq(Nat)
    BY <1>0, ScCut DEF ScCalls, ScParts
  <2>3. read' = read \o (call.buf \o FirstOf(n, dec)) /\ dec' = RestOf(n, dec) /\ call' = NoCall
    BY <1>21, <2>1 DEF ReadReturns
  <2>4. read' \in Seq(Nat) /\ dec' \in Seq(Nat)
    BY <1>0, <2>2, <2>3
  <2> QED
    BY <1>0, <1>21, <2>3, <2>4, ScNoCall DEF ReadReturns, scNet
<1>22. ASSUME NEW len \in 1 .. writes, WriteBegins(len) PROVE Same
  BY <1>0, <1>22 DEF WriteBegins, scNet, scIn
<1>23. CASE SendsRecord
  BY <1>0, <1>23 DEF SendsRecord, scNet, scIn
<1>24. ASSUME NEW encrypted \in BOOLEAN, SendFails(encrypted) PROVE Same
  BY <1>0, <1>24 DEF SendFails, scNet, scIn
<1>25. CASE ScClose
  <2>1. <<>> \in Seq(Nat)
    OBVIOUS
  <2> QED
    BY <1>0, <1>25, <2>1 DEF ScClose, scNet
<1>26. CASE UNCHANGED scVars
  BY <1>0, <1>26 DEF scVars, scNet, scIn
<1> QED
  BY <1>1, <1>2, <1>3, <1>4, <1>5, <1>6, <1>7, <1>8, <1>9, <1>10,
     <1>11, <1>12, <1>13, <1>14, <1>15, <1>16, <1>17, <1>18, <1>19, <1>20,
     <1>21, <1>22, <1>23, <1>24, <1>25, <1>26
     DEF ScNext

\* The flags are Boolean.
LEMMA ScFlagsStep ==
    ASSUME ScFlags, [ScNext]_scVars
    PROVE  ScFlags'
<1>1. CASE Arrives
  BY <1>1 DEF Arrives, scNet, scIn, ScFlags
<1>2. CASE HangsUp
  BY <1>2 DEF HangsUp, scNet, scIn, ScFlags
<1>3. ASSUME NEW ok \in BOOLEAN, HandshakeBegins(ok) PROVE ScFlags'
  BY <1>3 DEF HandshakeBegins, scNet, scIn, ScFlags
<1>4. CASE TokenRoom
  BY <1>4 DEF TokenRoom, scNet, scIn, ScFlags
<1>5. CASE TokenRecv
  BY <1>5 DEF TokenRecv, SockRecv, scNet, scIn, ScFlags
<1>6. CASE TokenEOF
  BY <1>6 DEF TokenEOF, scNet, scIn, ScFlags
<1>7. CASE TokenIncomplete
  BY <1>7 DEF TokenIncomplete, scNet, scIn, ScFlags
<1>8. CASE TokenCred
  BY <1>8 DEF TokenCred, scNet, scIn, ScFlags
<1>9. CASE TokenContinue
  BY <1>9 DEF TokenContinue, scNet, scIn, ScFlags
<1>10. CASE TokenSendFails
  BY <1>10 DEF TokenSendFails, scNet, scIn, ScFlags
<1>11. CASE TokenRefused
  BY <1>11 DEF TokenRefused, scNet, scIn, ScFlags
<1>12. CASE HandshakeDone
  BY <1>12 DEF HandshakeDone, scNet, scIn, ScFlags
<1>13. CASE SockFails
  BY <1>13 DEF SockFails, scNet, scIn, ScFlags
<1>14. ASSUME NEW len \in 1 .. MaxBuf, ReadStashed(len) PROVE ScFlags'
  BY <1>14 DEF ReadStashed, scNet, scIn, ScFlags
<1>15. ASSUME NEW len \in 1 .. MaxBuf, ReadBegins(len) PROVE ScFlags'
  BY <1>15 DEF ReadBegins, scNet, scIn, ScFlags
<1>16. CASE Decrypts
  <2>1. eof' \in BOOLEAN
    BY <1>16 DEF Decrypts
  <2> QED
    BY <1>16, <2>1 DEF Decrypts, scNet, ScFlags
<1>17. CASE DecryptFails
  BY <1>17 DEF DecryptFails, scNet, scIn, ScFlags
<1>18. CASE DecryptIncomplete
  BY <1>18 DEF DecryptIncomplete, scNet, scIn, ScFlags
<1>19. CASE Recv
  BY <1>19 DEF Recv, SockRecv, scNet, scIn, ScFlags
<1>20. CASE RecvZero
  BY <1>20 DEF RecvZero, scNet, scIn, ScFlags
<1>21. CASE ReadReturns
  <2>1. ended' \in BOOLEAN
    BY <1>21 DEF ReadReturns
  <2> QED
    BY <1>21, <2>1 DEF ReadReturns, scNet, ScFlags
<1>22. ASSUME NEW len \in 1 .. writes, WriteBegins(len) PROVE ScFlags'
  BY <1>22 DEF WriteBegins, scNet, scIn, ScFlags
<1>23. CASE SendsRecord
  BY <1>23 DEF SendsRecord, scNet, scIn, ScFlags
<1>24. ASSUME NEW encrypted \in BOOLEAN, SendFails(encrypted) PROVE ScFlags'
  BY <1>24 DEF SendFails, scNet, scIn, ScFlags
<1>25. CASE ScClose
  BY <1>25 DEF ScClose, scNet, scIn, ScFlags
<1>26. CASE UNCHANGED scVars
  BY <1>26 DEF scVars, scNet, scIn, ScFlags
<1> QED
  BY <1>1, <1>2, <1>3, <1>4, <1>5, <1>6, <1>7, <1>8, <1>9, <1>10,
     <1>11, <1>12, <1>13, <1>14, <1>15, <1>16, <1>17, <1>18, <1>19, <1>20,
     <1>21, <1>22, <1>23, <1>24, <1>25, <1>26
     DEF ScNext

-----------------------------------------------------------------------------
(* The input buffer and the socket.                                        *)

\* The buffer has room for what is read into it, and stays within its limit.
LEMMA ScRoomStep ==
    ASSUME ScTypes, ScCallInv, ScRoomInv, ScSocketInv, [ScNext]_scVars
    PROVE  ScRoomInv'
<1>0. /\ encLen \in Nat /\ encCap \in Nat /\ EncMax \in Nat /\ Units \in Nat /\ call \in ScCalls
      /\ session \in {"new", "handshake", "open", "failed", "closed"}
      /\ encLen <= encCap /\ encCap <= EncMax /\ encCap > 0
      /\ call.at \in {"recv", "tokenRecv"} => encLen < encCap
  BY ScNumbers DEF ScTypes, ScRoomInv
<1>1. CASE Arrives
  BY <1>0, <1>1 DEF Arrives, scIn, ScRoomInv
<1>2. CASE HangsUp
  BY <1>0, <1>2 DEF HangsUp, scIn, ScRoomInv
<1>3. ASSUME NEW ok \in BOOLEAN, HandshakeBegins(ok) PROVE ScRoomInv'
  BY <1>0, <1>3, ScNoCall DEF HandshakeBegins, scNet, scIn, ScRoomInv
<1>4. CASE TokenRoom
  <2>1. CASE CanGrow
    <3>1. call'.at = "tokenRecv" /\ encLen' = encLen /\ encCap' = GrownCap
      BY <1>0, <1>4, <2>1, ScGoto DEF TokenRoom, TokenAts
    <3> QED
      BY <1>0, <2>1, <3>1 DEF CanGrow, GrownCap, ScRoomInv
  <2>2. CASE ~CanGrow
    <3>1. call'.at = "idle" /\ encLen' = encLen /\ encCap' = encCap
      BY <1>0, <1>4, <2>2, ScFailing DEF TokenRoom
    <3> QED
      BY <1>0, <3>1 DEF ScRoomInv
  <2> QED
    BY <2>1, <2>2
<1>5. CASE TokenRecv
  <2>1. call'.at = "token" /\ encCap' = encCap
    BY <1>0, <1>5, ScGoto DEF TokenRecv, SockRecv, TokenAts
  <2>2. encLen' <= encCap
    BY <1>0, <1>5 DEF TokenRecv, SockRecv
  <2> QED
    BY <1>0, <2>1, <2>2 DEF ScRoomInv
<1>6. CASE TokenEOF
  BY <1>0, <1>6, ScFailing DEF TokenEOF, scIn, ScRoomInv
<1>7. CASE TokenIncomplete
  BY <1>0, <1>7, ScGoto DEF TokenIncomplete, TokenAts, scIn, ScRoomInv
<1>8. CASE TokenCred
  <2>1. call'.at = "token"
    BY <1>0, <1>8 DEF TokenCred, ScCalls
  <2> QED
    BY <1>0, <1>8, <2>1 DEF TokenCred, scIn, ScRoomInv
<1>9. CASE TokenContinue
  <2>1. PICK at \in TokenAts \ {"tokenRecv"} : at = IF encLen = Units THEN "tokenRoom" ELSE "token"
    BY DEF TokenAts
  <2>2. call'.at = at /\ encCap' = encCap /\ at # "recv"
    BY <1>0, <1>9, <2>1, ScGoto DEF TokenContinue, TokenAts
  <2>3. Whole /\ Consume
    BY <1>9 DEF TokenContinue
  <2>4. encLen' = encLen - Units /\ encLen' \in Nat
    BY <2>3, ScConsuming
  <2> QED
    BY <1>0, <2>1, <2>2, <2>4 DEF ScRoomInv
<1>10. CASE TokenSendFails
  BY <1>0, <1>10, ScFailing DEF TokenSendFails, scIn, ScRoomInv
<1>11. CASE TokenRefused
  <2>1. call'.at = "idle" /\ encCap' = encCap
    BY <1>0, <1>11, ScFailing DEF TokenRefused
  <2>2. Whole /\ Consume
    BY <1>11 DEF TokenRefused
  <2>3. encLen' = encLen - Units /\ encLen' \in Nat
    BY <2>2, ScConsuming
  <2> QED
    BY <1>0, <2>1, <2>3 DEF ScRoomInv
<1>12. CASE HandshakeDone
  <2>1. call'.at \in {"idle", "return", "decrypt"}
    <3>1. CASE session = "handshake"
      BY <1>12, <3>1, ScNoCall DEF HandshakeDone
    <3>2. CASE session # "handshake"
      BY <1>0, <1>12, <3>2, ScGoto DEF HandshakeDone
    <3> QED
      BY <3>1, <3>2
  <2>2. Whole /\ Consume /\ encCap' = encCap
    BY <1>12 DEF HandshakeDone
  <2>3. encLen' = encLen - Units /\ encLen' \in Nat
    BY <2>2, ScConsuming
  <2> QED
    BY <1>0, <2>1, <2>2, <2>3 DEF ScRoomInv
<1>13. CASE SockFails
  BY <1>0, <1>13, ScFailing DEF SockFails, scIn, ScRoomInv
<1>14. ASSUME NEW len \in 1 .. MaxBuf, ReadStashed(len) PROVE ScRoomInv'
  BY <1>0, <1>14 DEF ReadStashed, ScRoomInv
<1>15. ASSUME NEW len \in 1 .. MaxBuf, ReadBegins(len) PROVE ScRoomInv'
  <2>1. len \in Nat
    BY ScNumbers
  <2> QED
    BY <1>0, <1>15, <2>1, ScNoCall DEF ReadBegins, scIn, ScRoomInv
<1>16. CASE Decrypts
  <2>1. encCap' = encCap /\ encLen' = encLen - Units /\ encLen' \in Nat
    BY <1>16, ScDecrypting DEF Decrypts
  <2>2. call'.at \notin {"recv"}
    BY <1>16, ScDecrypting DEF TokenAts
  <2>3. call'.at # "tokenRecv"
    BY <1>0, <1>16 DEF Decrypts, ScCalls
  <2> QED
    BY <1>0, <2>1, <2>2, <2>3 DEF ScRoomInv
<1>17. CASE DecryptFails
  BY <1>0, <1>17, ScFailing DEF DecryptFails, scIn, ScRoomInv
<1>18. CASE DecryptIncomplete
  <2>1. CASE CanGrow \/ encLen = 0
    <3>1. encLen' = encLen /\ encCap' = GrownCap
      BY <1>18, <2>1 DEF DecryptIncomplete
    <3> QED
      BY <1>0, <2>1, <3>1 DEF CanGrow, GrownCap, ScRoomInv
  <2>2. CASE ~(CanGrow \/ encLen = 0)
    <3>1. call'.at = "idle" /\ encLen' = encLen /\ encCap' = encCap
      BY <1>0, <1>18, <2>2, ScFailing DEF DecryptIncomplete
    <3> QED
      BY <1>0, <3>1 DEF ScRoomInv
  <2> QED
    BY <2>1, <2>2
<1>19. CASE Recv
  <2>1. call'.at = "decrypt" /\ encCap' = encCap
    BY <1>0, <1>19, ScGoto DEF Recv, SockRecv, TokenAts
  <2>2. encLen' <= encCap
    BY <1>0, <1>19 DEF Recv, SockRecv
  <2> QED
    BY <1>0, <2>1, <2>2 DEF ScRoomInv
<1>20. CASE RecvZero
  <2>1. call'.at = "return"
    BY <1>0, <1>20, ScGoto DEF RecvZero
  <2> QED
    BY <1>0, <1>20, <2>1 DEF RecvZero, ScRoomInv
<1>21. CASE ReadReturns
  BY <1>0, <1>21, ScNoCall DEF ReadReturns, ScRoomInv
<1>22. ASSUME NEW len \in 1 .. writes, WriteBegins(len) PROVE ScRoomInv'
  BY <1>0, <1>22 DEF WriteBegins, scIn, ScRoomInv
<1>23. CASE SendsRecord
  BY <1>0, <1>23 DEF SendsRecord, scIn, ScRoomInv
<1>24. ASSUME NEW encrypted \in BOOLEAN, SendFails(encrypted) PROVE ScRoomInv'
  BY <1>0, <1>24 DEF SendFails, scIn, ScRoomInv
<1>25. CASE ScClose
  BY <1>0, <1>25 DEF ScClose, Quiet, ScRoomInv
<1>26. CASE UNCHANGED scVars
  BY <1>0, <1>26 DEF scVars, scIn, ScRoomInv
<1> QED
  BY <1>1, <1>2, <1>3, <1>4, <1>5, <1>6, <1>7, <1>8, <1>9, <1>10,
     <1>11, <1>12, <1>13, <1>14, <1>15, <1>16, <1>17, <1>18, <1>19, <1>20,
     <1>21, <1>22, <1>23, <1>24, <1>25, <1>26
     DEF ScNext

\* What is in the buffer has arrived, behind the records consumed.
LEMMA ScSocketStep ==
    ASSUME ScTypes, ScCallInv, ScSocketInv, [ScNext]_scVars
    PROVE  ScSocketInv'
<1>0. /\ encLen \in Nat /\ taken \in Nat /\ arrived \in Nat /\ Units \in Nat /\ wire' = wire
      /\ Units * taken + encLen <= arrived /\ arrived <= Units * Len(wire)
      /\ Units * taken \in Nat
  BY ScNumbers, ScCaseKept DEF ScTypes, ScSocketInv, scCase
<1>a. ASSUME Whole, Consume, arrived' = arrived PROVE ScSocketInv'
  <2>1. taken' = taken + 1 /\ encLen' = encLen - Units /\ encLen' \in Nat
    BY <1>a, ScConsuming
  <2>2. Units * (taken + 1) = Units * taken + Units
    BY <1>0
  <2> QED
    BY <1>0, <1>a, <2>1, <2>2 DEF ScSocketInv
<1>1. CASE Arrives
  BY <1>0, <1>1 DEF Arrives, scNet, scIn, ScSocketInv
<1>2. CASE HangsUp
  BY <1>0, <1>2 DEF HangsUp, scNet, scIn, ScSocketInv
<1>3. ASSUME NEW ok \in BOOLEAN, HandshakeBegins(ok) PROVE ScSocketInv'
  BY <1>0, <1>3 DEF HandshakeBegins, scNet, scIn, ScSocketInv
<1>4. CASE TokenRoom
  BY <1>0, <1>4 DEF TokenRoom, scNet, scIn, ScSocketInv
<1>5. CASE TokenRecv
  <2>1. PICK u \in Nat : u = Units * taken
    BY <1>0
  <2>2. PICK n \in 1 .. InSocket : encLen' = encLen + n
    BY <1>5 DEF TokenRecv, SockRecv
  <2>3. InSocket = arrived - (u + encLen)
    BY <2>1 DEF InSocket
  <2>4. u + encLen' <= arrived
    BY <1>0, <2>2, <2>3
  <2> QED
    BY <1>0, <1>5, <2>1, <2>4 DEF TokenRecv, SockRecv, scNet, ScSocketInv
<1>6. CASE TokenEOF
  BY <1>0, <1>6 DEF TokenEOF, scNet, scIn, ScSocketInv
<1>7. CASE TokenIncomplete
  BY <1>0, <1>7 DEF TokenIncomplete, scNet, scIn, ScSocketInv
<1>8. CASE TokenCred
  BY <1>0, <1>8 DEF TokenCred, scNet, scIn, ScSocketInv
<1>9. CASE TokenContinue
  BY <1>a, <1>9 DEF TokenContinue, scNet
<1>10. CASE TokenSendFails
  BY <1>0, <1>10 DEF TokenSendFails, scNet, scIn, ScSocketInv
<1>11. CASE TokenRefused
  BY <1>a, <1>11 DEF TokenRefused, scNet
<1>12. CASE HandshakeDone
  BY <1>a, <1>12 DEF HandshakeDone, scNet
<1>13. CASE SockFails
  BY <1>0, <1>13 DEF SockFails, scNet, scIn, ScSocketInv
<1>14. ASSUME NEW len \in 1 .. MaxBuf, ReadStashed(len) PROVE ScSocketInv'
  BY <1>0, <1>14 DEF ReadStashed, scNet, scIn, ScSocketInv
<1>15. ASSUME NEW len \in 1 .. MaxBuf, ReadBegins(len) PROVE ScSocketInv'
  BY <1>0, <1>15 DEF ReadBegins, scNet, scIn, ScSocketInv
<1>16. CASE Decrypts
  BY <1>a, <1>16 DEF Decrypts, scNet
<1>17. CASE DecryptFails
  BY <1>0, <1>17 DEF DecryptFails, scNet, scIn, ScSocketInv
<1>18. CASE DecryptIncomplete
  BY <1>0, <1>18 DEF DecryptIncomplete, scNet, scIn, ScSocketInv
<1>19. CASE Recv
  <2>1. PICK u \in Nat : u = Units * taken
    BY <1>0
  <2>2. PICK n \in 1 .. InSocket : encLen' = encLen + n
    BY <1>19 DEF Recv, SockRecv
  <2>3. InSocket = arrived - (u + encLen)
    BY <2>1 DEF InSocket
  <2>4. u + encLen' <= arrived
    BY <1>0, <2>2, <2>3
  <2> QED
    BY <1>0, <1>19, <2>1, <2>4 DEF Recv, SockRecv, scNet, ScSocketInv
<1>20. CASE RecvZero
  BY <1>0, <1>20 DEF RecvZero, scNet, scIn, ScSocketInv
<1>21. CASE ReadReturns
  BY <1>0, <1>21 DEF ReadReturns, scNet, scIn, ScSocketInv
<1>22. ASSUME NEW len \in 1 .. writes, WriteBegins(len) PROVE ScSocketInv'
  BY <1>0, <1>22 DEF WriteBegins, scNet, scIn, ScSocketInv
<1>23. CASE SendsRecord
  BY <1>0, <1>23 DEF SendsRecord, scNet, scIn, ScSocketInv
<1>24. ASSUME NEW encrypted \in BOOLEAN, SendFails(encrypted) PROVE ScSocketInv'
  BY <1>0, <1>24 DEF SendFails, scNet, scIn, ScSocketInv
<1>25. CASE ScClose
  BY <1>0, <1>25 DEF ScClose, scNet, scIn, ScSocketInv
<1>26. CASE UNCHANGED scVars
  BY <1>0, <1>26 DEF scVars, scNet, scIn, ScSocketInv
<1> QED
  BY <1>1, <1>2, <1>3, <1>4, <1>5, <1>6, <1>7, <1>8, <1>9, <1>10,
     <1>11, <1>12, <1>13, <1>14, <1>15, <1>16, <1>17, <1>18, <1>19, <1>20,
     <1>21, <1>22, <1>23, <1>24, <1>25, <1>26
     DEF ScNext

-----------------------------------------------------------------------------
(* Where a call is.                                                        *)

\* A call that fails holds nothing, and the stash is as it was.
LEMMA ScCallFails ==
    ASSUME ScTypes, ScCallInv, Fails, UNCHANGED <<dec, read>>
    PROVE  ScCallInv'
<1>1. /\ call' = NoCall /\ call'.at = "idle" /\ call'.len = 0 /\ call'.buf = <<>>
      /\ session' = (IF session = "handshake" THEN "failed" ELSE session)
  BY ScFailing DEF ScTypes
<1>2. Len(call'.buf) <= call'.len
  BY <1>1
<1> QED
  BY <1>1, <1>2 DEF ScCallInv

\* A call in progress that goes on, to return something or at the end.
LEMMA ScCallGoes ==
    ASSUME ScTypes, ScCallInv, UNCHANGED <<session, dec, read>>,
           NEW at \in TokenAts \cup {"decrypt", "recv", "return"}, Goto(at),
           call.at \notin {"idle", "return"},
           at \in {"decrypt", "recv"} => session = "open" /\ dec = <<>>,
           at = "return" => session = "open" /\ (dec = <<>> => eof')
    PROVE  ScCallInv'
<1>1. /\ call'.at = at /\ call'.len = call.len /\ call'.buf = call.buf /\ at # "idle" /\ call \in ScCalls
  BY ScGoto DEF ScTypes, TokenAts
<1>2. call.buf = <<>> /\ Len(call.buf) <= call.len
  BY DEF ScCallInv
<1>3. session \in {"handshake", "open"} /\ (session = "open" => call.len > 0)
      /\ (session = "handshake" => dec = <<>> /\ read = <<>>)
  BY DEF ScCallInv
<1> QED
  BY <1>1, <1>2, <1>3 DEF ScCallInv, TokenAts

\* Every step keeps a call where it can be.
LEMMA ScCallStep ==
    ASSUME ScTypes, ScFlags, ScCallInv, ScSocketInv, [ScNext]_scVars
    PROVE  ScCallInv'
<1>0. call \in ScCalls /\ session \in {"new", "handshake", "open", "failed", "closed"} /\ dec \in Seq(Nat)
  BY DEF ScTypes
<1>1. CASE Arrives
  BY <1>0, <1>1 DEF Arrives, scNet, scIn, ScCallInv
<1>2. CASE HangsUp
  BY <1>0, <1>2 DEF HangsUp, scNet, scIn, ScCallInv
<1>3. ASSUME NEW ok \in BOOLEAN, HandshakeBegins(ok) PROVE ScCallInv'
  <2>1. CASE ok
    <3>1. session' = "handshake" /\ call' = [NoCall EXCEPT !.at = "tokenRoom"]
      BY <1>3, <2>1 DEF HandshakeBegins
    <3>2. call'.at = "tokenRoom" /\ call'.len = 0 /\ call'.buf = <<>> /\ Len(call'.buf) <= call'.len
      BY <3>1, ScNoCall
    <3>3. dec' = <<>> /\ read' = <<>>
      BY <1>3 DEF HandshakeBegins, scIn, ScCallInv
    <3> QED
      BY <3>1, <3>2, <3>3 DEF ScCallInv
  <2>2. CASE ~ok
    <3>1. session' = "failed" /\ call' = NoCall
      BY <1>3, <2>2 DEF HandshakeBegins
    <3>2. call'.at = "idle" /\ call'.len = 0 /\ call'.buf = <<>> /\ Len(call'.buf) <= call'.len
      BY <3>1, ScNoCall
    <3> QED
      BY <3>1, <3>2 DEF ScCallInv
  <2> QED
    BY <2>1, <2>2
<1>4. CASE TokenRoom
  <2>1. CASE CanGrow
    BY <1>4, <2>1, ScCallGoes DEF TokenRoom, TokenAts
  <2>2. CASE ~CanGrow
    BY <1>4, <2>2, ScCallFails DEF TokenRoom
  <2> QED
    BY <2>1, <2>2
<1>5. CASE TokenRecv
  BY <1>5, ScCallGoes DEF TokenRecv, SockRecv, TokenAts
<1>6. CASE TokenEOF
  BY <1>6, ScCallFails DEF TokenEOF, scIn
<1>7. CASE TokenIncomplete
  BY <1>7, ScCallGoes DEF TokenIncomplete, TokenAts, scIn
<1>8. CASE TokenCred
  <2>1. call'.at = "token" /\ call'.buf = call.buf /\ call'.len = call.len /\ call.at = "token"
    BY <1>0, <1>8 DEF TokenCred, ScCalls
  <2> QED
    BY <1>8, <2>1 DEF TokenCred, scIn, ScCallInv
<1>9. CASE TokenContinue
  <2>1. PICK at \in TokenAts : at = IF encLen = Units THEN "tokenRoom" ELSE "token"
    BY DEF TokenAts
  <2>2. Goto(at) /\ call.at = "token" /\ UNCHANGED <<session, dec, read>>
    BY <1>9, <2>1 DEF TokenContinue
  <2> QED
    BY <2>2, ScCallGoes DEF TokenAts
<1>10. CASE TokenSendFails
  BY <1>10, ScCallFails DEF TokenSendFails, scIn
<1>11. CASE TokenRefused
  BY <1>11, ScCallFails DEF TokenRefused, scIn
<1>12. CASE HandshakeDone
  <2>1. CASE session = "handshake"
    <3>1. /\ call' = NoCall /\ session' \in {"open", "failed"}
      BY <1>12, <2>1 DEF HandshakeDone
    <3>2. call'.at = "idle" /\ call'.len = 0 /\ call'.buf = <<>> /\ Len(call'.buf) <= call'.len
      BY <3>1, ScNoCall
    <3> QED
      BY <3>1, <3>2 DEF ScCallInv
  <2>2. CASE session # "handshake"
    <3>1. PICK at \in {"decrypt", "return"} : at = IF dec # <<>> THEN "return" ELSE "decrypt"
      OBVIOUS
    <3>2. Goto(at) /\ call.at = "token" /\ UNCHANGED <<session, dec, read>>
      BY <1>12, <2>2, <3>1 DEF HandshakeDone
    <3>3. session = "open"
      BY <2>2, <3>2 DEF ScCallInv
    <3> QED
      BY <3>1, <3>2, <3>3, ScCallGoes
  <2> QED
    BY <2>1, <2>2
<1>13. CASE SockFails
  BY <1>13, ScCallFails DEF SockFails, scIn
<1>14. ASSUME NEW len \in 1 .. MaxBuf, ReadStashed(len) PROVE ScCallInv'
  <2>1. UNCHANGED <<session, call>> /\ session = "open" /\ call.at = "idle"
    BY <1>14 DEF ReadStashed, Quiet
  <2> QED
    BY <2>1 DEF ScCallInv
<1>15. ASSUME NEW len \in 1 .. MaxBuf, ReadBegins(len) PROVE ScCallInv'
  <2>1. len \in Nat /\ len > 0
    BY ScNumbers
  <2>2. call'.at = "decrypt" /\ call'.len = len /\ call'.buf = <<>> /\ Len(call'.buf) <= call'.len
    BY <1>15, <2>1, ScNoCall DEF ReadBegins
  <2>3. session' = "open" /\ dec' = <<>>
    BY <1>15 DEF ReadBegins, Quiet, scIn
  <2> QED
    BY <2>1, <2>2, <2>3 DEF ScCallInv
<1>16. CASE Decrypts
  <2>1. /\ session' = "open" /\ call'.len = call.len /\ call.len > 0 /\ call' \in ScCalls
        /\ PlainOf(taken) \in Seq(Nat) /\ dec' \in Seq(Nat)
    BY <1>16, ScDecrypting
  <2>2. PICK d \in Nat : /\ d = IF Record.kind = "reneg" THEN 0 ELSE call.len
                         /\ call'.buf = FirstOf(d, PlainOf(taken))
                         /\ dec' = RestOf(d, PlainOf(taken))
    BY <1>16, ScDecrypting
  <2>3. PICK P \in Seq(Nat) : P = PlainOf(taken)
    BY <2>1
  <2>4. /\ Len(call'.buf) <= d /\ (Len(call'.buf) = d \/ Len(dec') = 0)
    <3>1. PICK m \in Nat : ScParts(d, m, P)
      BY ScCut
    <3>2. /\ Len(call'.buf) = m /\ m <= d /\ Len(dec') = Len(P) - m
          /\ (d <= Len(P) => m = d) /\ (d > Len(P) => m = Len(P)) /\ m <= Len(P)
      BY <2>2, <2>3, <3>1, Zenon DEF ScParts
    <3>3. Len(P) \in Nat
      OBVIOUS
    <3> QED
      BY <3>2, <3>3
  <2>5. call'.len \in Nat /\ call'.buf \in Seq(Nat) /\ d <= call'.len
    BY <2>1, <2>2 DEF ScCalls
  <2>6. Len(call'.buf) <= call'.len
    BY <2>4, <2>5
  <2>7. CASE Record.kind = "reneg"
    <3>1. call'.at \in TokenAts
      BY <1>16, <2>7, ScDecrypting
    <3>2. call'.buf = <<>>
      BY <2>2, <2>4, <2>5, <2>7
    <3> QED
      BY <2>1, <2>6, <3>1, <3>2 DEF ScCallInv, TokenAts
  <2>8. CASE Record.kind # "reneg"
    <3>1. \/ call'.at = "decrypt" /\ call'.buf = <<>> /\ dec' = <<>>
          \/ call'.at = "return" /\ (call'.buf # <<>> \/ dec' # <<>> \/ eof \/ Record.kind = "close")
      BY <1>16, <2>8, ScDecrypting
    <3>2. Len(call'.buf) = call'.len \/ dec' = <<>>
      BY <2>1, <2>2, <2>4, <2>8
    <3>3. CASE call'.at = "decrypt" /\ call'.buf = <<>> /\ dec' = <<>>
      BY <2>1, <2>6, <3>3 DEF ScCallInv
    <3>4. CASE call'.at = "return" /\ (call'.buf # <<>> \/ dec' # <<>> \/ eof \/ Record.kind = "close")
      <4>1. call'.buf = <<>> /\ dec' = <<>> => eof'
        BY <1>16, <3>4 DEF Decrypts
      <4> QED
        BY <2>1, <2>6, <3>2, <3>4, <4>1 DEF ScCallInv
    <3> QED
      BY <3>1, <3>3, <3>4
  <2> QED
    BY <2>7, <2>8
<1>17. CASE DecryptFails
  BY <1>17, ScCallFails DEF DecryptFails, scIn
<1>18. CASE DecryptIncomplete
  <2>0. session = "open" /\ dec = <<>> /\ call.at = "decrypt" /\ UNCHANGED <<dec, read>> /\ eof' = eof
    BY <1>18 DEF DecryptIncomplete, ScCallInv
  <2>1. CASE CanGrow \/ encLen = 0
    <3>1. PICK at \in {"recv", "return"} : at = IF eof THEN "return" ELSE "recv"
      OBVIOUS
    <3>2. Goto(at) /\ session' = session
      BY <1>18, <2>1, <3>1 DEF DecryptIncomplete
    <3>3. at = "return" => eof'
      BY <2>0, <3>1
    <3> QED
      BY <2>0, <3>1, <3>2, <3>3, ScCallGoes
  <2>2. CASE ~(CanGrow \/ encLen = 0)
    BY <2>0, <1>18, <2>2, ScCallFails DEF DecryptIncomplete
  <2> QED
    BY <2>1, <2>2
<1>19. CASE Recv
  <2>1. session = "open" /\ dec = <<>>
    BY <1>19 DEF Recv, SockRecv, ScCallInv
  <2> QED
    BY <1>19, <2>1, ScCallGoes DEF Recv, SockRecv
<1>20. CASE RecvZero
  <2>1. session = "open" /\ dec = <<>> /\ eof' /\ call.at = "recv"
    BY <1>20 DEF RecvZero, ScCallInv
  <2> QED
    BY <1>20, <2>1, ScCallGoes DEF RecvZero
<1>21. CASE ReadReturns
  <2>1. call' = NoCall /\ session' = "open"
    BY <1>21 DEF ReadReturns, ScCallInv
  <2>2. call'.at = "idle" /\ call'.len = 0 /\ call'.buf = <<>> /\ Len(call'.buf) <= call'.len
    BY <2>1, ScNoCall
  <2> QED
    BY <2>1, <2>2 DEF ScCallInv
<1>22. ASSUME NEW len \in 1 .. writes, WriteBegins(len) PROVE ScCallInv'
  BY <1>0, <1>22 DEF WriteBegins, scNet, scIn, ScCallInv
<1>23. CASE SendsRecord
  BY <1>0, <1>23 DEF SendsRecord, scNet, scIn, ScCallInv
<1>24. ASSUME NEW encrypted \in BOOLEAN, SendFails(encrypted) PROVE ScCallInv'
  BY <1>0, <1>24 DEF SendFails, scNet, scIn, ScCallInv
<1>25. CASE ScClose
  <2>1. call' = call /\ call.at = "idle" /\ session' = "closed"
    BY <1>25 DEF ScClose, Quiet
  <2> QED
    BY <2>1 DEF ScCallInv
<1>26. CASE UNCHANGED scVars
  BY <1>0, <1>26 DEF scVars, scNet, scIn, ScCallInv
<1> QED
  BY <1>1, <1>2, <1>3, <1>4, <1>5, <1>6, <1>7, <1>8, <1>9, <1>10,
     <1>11, <1>12, <1>13, <1>14, <1>15, <1>16, <1>17, <1>18, <1>19, <1>20,
     <1>21, <1>22, <1>23, <1>24, <1>25, <1>26
     DEF ScNext

-----------------------------------------------------------------------------
(* The stash, renegotiations and the end of the stream.                    *)

\* A stash that shrinks is still of one record.
LEMMA ScStashShrinks ==
    ASSUME ScStashInv, wire' = wire, ToSet(dec') \subseteq ToSet(dec), dec = <<>> => dec' = <<>>
    PROVE  ScStashInv'
<1> SUFFICES ASSUME dec' # <<>>
             PROVE  \E i \in 0 .. Len(wire) - 1 : ToSet(dec') \subseteq ToSet(PlainOf(i)')
  BY DEF ScStashInv
<1>1. PICK i \in 0 .. Len(wire) - 1 : ToSet(dec) \subseteq ToSet(PlainOf(i))
  BY DEF ScStashInv
<1>2. PlainOf(i)' = PlainOf(i)
  BY DEF PlainOf
<1> QED
  BY <1>1, <1>2

\* What is left of a sequence is of it.
LEMMA ScRestSet ==
    ASSUME NEW q \in Seq(Nat), NEW n \in Nat
    PROVE  ToSet(RestOf(n, q)) \subseteq ToSet(q) /\ (q = <<>> => RestOf(n, q) = <<>>)
<1>1. PICK m \in Nat : /\ m <= Len(q) /\ RestOf(n, q) \in Seq(Nat) /\ Len(RestOf(n, q)) = Len(q) - m
                       /\ \A i \in 1 .. Len(q) - m : RestOf(n, q)[i] = q[m + i]
  <2>1. PICK m \in Nat : ScParts(n, m, q)
    BY ScCut
  <2> QED
    BY <2>1, Zenon DEF ScParts
<1>2. PICK r \in Seq(Nat) : r = RestOf(n, q)
  BY <1>1
<1>3. ASSUME NEW x \in ToSet(r) PROVE x \in ToSet(q)
  <2>1. PICK i \in 1 .. Len(q) - m : x = r[i]
    BY <1>1, <1>2 DEF ToSet
  <2>2. PICK l \in Nat : l = Len(q) /\ m <= l
    BY <1>1
  <2>3. m + i \in 1 .. l /\ DOMAIN q = 1 .. l
    BY <2>2
  <2>4. x = q[m + i] /\ m + i \in DOMAIN q
    BY <1>1, <1>2, <2>1, <2>3, Zenon
  <2> QED
    BY <2>4 DEF ToSet
<1>4. q = <<>> => r = <<>>
  BY <1>1, <1>2
<1> QED
  BY <1>2, <1>3, <1>4

\* The stash is of one record.
LEMMA ScStashStep ==
    ASSUME ScTypes, ScCallInv, ScSocketInv, ScStashInv, [ScNext]_scVars
    PROVE  ScStashInv'
<1>0. wire' = wire /\ dec \in Seq(Nat) /\ call \in ScCalls /\ taken \in Nat
  BY ScCaseKept DEF ScTypes, scCase
<1>a. ASSUME dec' = dec PROVE ScStashInv'
  BY <1>0, <1>a, ScStashShrinks
<1>b. ASSUME NEW n \in Nat, dec' = RestOf(n, dec) PROVE ScStashInv'
  BY <1>0, <1>b, ScStashShrinks, ScRestSet
<1>1. CASE Arrives
  BY <1>a, <1>1 DEF Arrives, scIn
<1>2. CASE HangsUp
  BY <1>a, <1>2 DEF HangsUp, scIn
<1>3. ASSUME NEW ok \in BOOLEAN, HandshakeBegins(ok) PROVE ScStashInv'
  BY <1>a, <1>3 DEF HandshakeBegins, scIn
<1>4. CASE TokenRoom
  BY <1>a, <1>4 DEF TokenRoom, scIn
<1>5. CASE TokenRecv
  BY <1>a, <1>5 DEF TokenRecv, SockRecv, scIn
<1>6. CASE TokenEOF
  BY <1>a, <1>6 DEF TokenEOF, scIn
<1>7. CASE TokenIncomplete
  BY <1>a, <1>7 DEF TokenIncomplete, scIn
<1>8. CASE TokenCred
  BY <1>a, <1>8 DEF TokenCred, scIn
<1>9. CASE TokenContinue
  BY <1>a, <1>9 DEF TokenContinue, scIn
<1>10. CASE TokenSendFails
  BY <1>a, <1>10 DEF TokenSendFails, scIn
<1>11. CASE TokenRefused
  BY <1>a, <1>11 DEF TokenRefused, scIn
<1>12. CASE HandshakeDone
  BY <1>a, <1>12 DEF HandshakeDone, scIn
<1>13. CASE SockFails
  BY <1>a, <1>13 DEF SockFails, scIn
<1>14. ASSUME NEW len \in 1 .. MaxBuf, ReadStashed(len) PROVE ScStashInv'
  <2>1. len \in Nat
    BY ScNumbers
  <2> QED
    BY <1>b, <1>14, <2>1 DEF ReadStashed
<1>15. ASSUME NEW len \in 1 .. MaxBuf, ReadBegins(len) PROVE ScStashInv'
  BY <1>a, <1>15 DEF ReadBegins, scIn
<1>16. CASE Decrypts
  <2>1. taken + 1 \in DOMAIN wire /\ PlainOf(taken) \in Seq(Nat)
    BY <1>16, ScDecrypting
  <2>2. PICK d \in Nat : dec' = RestOf(d, PlainOf(taken))
    BY <1>16, ScDecrypting
  <2>3. ToSet(dec') \subseteq ToSet(PlainOf(taken))
    BY <2>1, <2>2, ScRestSet
  <2>4. wire \in Seq(Records)
    BY DEF ScTypes, WellFormed
  <2>5. taken \in 0 .. Len(wire) - 1
    BY <1>0, <2>1, <2>4
  <2>6. \A i : PlainOf(i)' = PlainOf(i)
    BY <1>0 DEF PlainOf
  <2> QED
    BY <1>0, <2>3, <2>5, <2>6 DEF ScStashInv
<1>17. CASE DecryptFails
  BY <1>a, <1>17 DEF DecryptFails, scIn
<1>18. CASE DecryptIncomplete
  BY <1>a, <1>18 DEF DecryptIncomplete, scIn
<1>19. CASE Recv
  BY <1>a, <1>19 DEF Recv, SockRecv, scIn
<1>20. CASE RecvZero
  BY <1>a, <1>20 DEF RecvZero, scIn
<1>21. CASE ReadReturns
  <2>1. PICK n \in Nat : n = call.len - Len(call.buf)
    BY <1>0 DEF ScCallInv, ScCalls
  <2> QED
    BY <1>b, <1>21, <2>1 DEF ReadReturns
<1>22. ASSUME NEW len \in 1 .. writes, WriteBegins(len) PROVE ScStashInv'
  BY <1>a, <1>22 DEF WriteBegins, scIn
<1>23. CASE SendsRecord
  BY <1>a, <1>23 DEF SendsRecord, scIn
<1>24. ASSUME NEW encrypted \in BOOLEAN, SendFails(encrypted) PROVE ScStashInv'
  BY <1>a, <1>24 DEF SendFails, scIn
<1>25. CASE ScClose
  BY <1>25 DEF ScClose, ScStashInv
<1>26. CASE UNCHANGED scVars
  BY <1>a, <1>26 DEF scVars, scIn
<1> QED
  BY <1>1, <1>2, <1>3, <1>4, <1>5, <1>6, <1>7, <1>8, <1>9, <1>10,
     <1>11, <1>12, <1>13, <1>14, <1>15, <1>16, <1>17, <1>18, <1>19, <1>20,
     <1>21, <1>22, <1>23, <1>24, <1>25, <1>26
     DEF ScNext

\* A renegotiation is behind a reneg record and before its done.
LEMMA ScRenegStep ==
    ASSUME ScTypes, ScCallInv, ScSocketInv, ScRenegInv, [ScNext]_scVars
    PROVE  ScRenegInv'
<1>0. /\ wire' = wire /\ taken \in Nat /\ call \in ScCalls
      /\ session \in {"new", "handshake", "open", "failed", "closed"}
  BY ScCaseKept DEF ScTypes, scCase
<1>a. ASSUME taken' = taken, session' = "open" => session = "open", call.at \in TokenAts
      PROVE  ScRenegInv'
  BY <1>0, <1>a DEF ScRenegInv
<1>b. ASSUME session' # "open" \/ call'.at \notin TokenAts PROVE ScRenegInv'
  BY <1>b DEF ScRenegInv
<1>1. CASE Arrives
  BY <1>0, <1>1 DEF Arrives, scNet, scIn, ScRenegInv, TokenAts
<1>2. CASE HangsUp
  BY <1>0, <1>2 DEF HangsUp, scNet, scIn, ScRenegInv, TokenAts
<1>3. ASSUME NEW ok \in BOOLEAN, HandshakeBegins(ok) PROVE ScRenegInv'
  <2>1. session' # "open"
    BY <1>3 DEF HandshakeBegins
  <2> QED
    BY <1>b, <2>1
<1>4. CASE TokenRoom
  <2>1. CASE CanGrow
    BY <1>0, <1>a, <1>4, <2>1 DEF TokenRoom, TokenAts
  <2>2. CASE ~CanGrow
    BY <1>0, <1>b, <1>4, <2>2, ScFailing DEF TokenRoom, TokenAts
  <2> QED
    BY <2>1, <2>2
<1>5. CASE TokenRecv
  BY <1>0, <1>a, <1>5 DEF TokenRecv, SockRecv, TokenAts
<1>6. CASE TokenEOF
  <2>1. call'.at = "idle"
    BY <1>0, <1>6, ScFailing DEF TokenEOF
  <2> QED
    BY <1>b, <2>1 DEF TokenAts
<1>7. CASE TokenIncomplete
  BY <1>0, <1>7 DEF TokenIncomplete, scNet, scIn, ScRenegInv, TokenAts
<1>8. CASE TokenCred
  BY <1>0, <1>8 DEF TokenCred, scNet, scIn, ScRenegInv, TokenAts
<1>9. CASE TokenContinue
  <2>1. Whole /\ Consume /\ Record.kind # "done" /\ session' = session /\ call.at = "token"
    BY <1>9 DEF TokenContinue
  <2>2. taken' = taken + 1
    BY <2>1 DEF Consume
  <2> SUFFICES ASSUME session = "open"
               PROVE  \E i \in 1 .. taken + 1 : /\ wire[i].kind = "reneg"
                                                /\ \A k \in i + 1 .. taken + 1 : wire[k].kind # "done"
    BY <1>0, <2>1, <2>2 DEF ScRenegInv
  <2>3. PICK i \in 1 .. taken : wire[i].kind = "reneg" /\ \A k \in i + 1 .. taken : wire[k].kind # "done"
    BY <2>1 DEF ScRenegInv, TokenAts
  <2>4. wire[taken + 1].kind # "done"
    BY <2>1 DEF Record
  <2>5. ASSUME NEW k \in i + 1 .. taken + 1 PROVE wire[k].kind # "done"
    <3>1. k \in i + 1 .. taken \/ k = taken + 1
      BY <1>0
    <3> QED
      BY <2>3, <2>4, <3>1
  <2> QED
    BY <1>0, <2>3, <2>5
<1>10. CASE TokenSendFails
  <2>1. call'.at = "idle"
    BY <1>0, <1>10, ScFailing DEF TokenSendFails
  <2> QED
    BY <1>b, <2>1 DEF TokenAts
<1>11. CASE TokenRefused
  <2>1. call'.at = "idle"
    BY <1>0, <1>11, ScFailing DEF TokenRefused
  <2> QED
    BY <1>b, <2>1 DEF TokenAts
<1>12. CASE HandshakeDone
  <2>1. call'.at \in {"idle", "return", "decrypt"}
    <3>1. CASE session = "handshake"
      BY <1>12, <3>1, ScNoCall DEF HandshakeDone
    <3>2. CASE session # "handshake"
      BY <1>0, <1>12, <3>2, ScGoto DEF HandshakeDone
    <3> QED
      BY <3>1, <3>2
  <2> QED
    BY <1>b, <2>1 DEF TokenAts
<1>13. CASE SockFails
  <2>1. call'.at = "idle"
    BY <1>0, <1>13, ScFailing DEF SockFails
  <2> QED
    BY <1>b, <2>1 DEF TokenAts
<1>14. ASSUME NEW len \in 1 .. MaxBuf, ReadStashed(len) PROVE ScRenegInv'
  BY <1>0, <1>14 DEF ReadStashed, scNet, scIn, ScRenegInv, TokenAts
<1>15. ASSUME NEW len \in 1 .. MaxBuf, ReadBegins(len) PROVE ScRenegInv'
  <2>1. len \in Nat
    BY ScNumbers
  <2>2. call'.at = "decrypt"
    BY <1>15, <2>1, ScNoCall DEF ReadBegins
  <2> QED
    BY <1>b, <2>2 DEF TokenAts
<1>16. CASE Decrypts
  <2>1. taken' = taken + 1 /\ (Record.kind # "reneg" => call'.at \notin TokenAts)
    BY <1>16, ScDecrypting DEF TokenAts
  <2>2. CASE Record.kind = "reneg"
    <3>1. wire'[taken'].kind = "reneg" /\ taken' \in 1 .. taken'
      BY <1>0, <2>1, <2>2 DEF Record
    <3>2. \A k \in taken' + 1 .. taken' : FALSE
      BY <1>0, <2>1
    <3> QED
      BY <3>1, <3>2 DEF ScRenegInv
  <2>3. CASE Record.kind # "reneg"
    BY <1>b, <2>1, <2>3
  <2> QED
    BY <2>2, <2>3
<1>17. CASE DecryptFails
  <2>1. call'.at = "idle"
    BY <1>0, <1>17, ScFailing DEF DecryptFails
  <2> QED
    BY <1>b, <2>1 DEF TokenAts
<1>18. CASE DecryptIncomplete
  <2>1. call'.at \in {"recv", "return", "idle"}
    <3>1. CASE CanGrow \/ encLen = 0
      <4>1. PICK at \in {"recv", "return"} : at = IF eof THEN "return" ELSE "recv"
        OBVIOUS
      <4> QED
        BY <1>0, <1>18, <3>1, <4>1, ScGoto DEF DecryptIncomplete
    <3>2. CASE ~(CanGrow \/ encLen = 0)
      BY <1>0, <1>18, <3>2, ScFailing DEF DecryptIncomplete
    <3> QED
      BY <3>1, <3>2
  <2> QED
    BY <1>b, <2>1 DEF TokenAts
<1>19. CASE Recv
  BY <1>0, <1>b, <1>19, ScGoto DEF Recv, SockRecv, TokenAts
<1>20. CASE RecvZero
  BY <1>0, <1>b, <1>20, ScGoto DEF RecvZero, TokenAts
<1>21. CASE ReadReturns
  BY <1>b, <1>21, ScNoCall DEF ReadReturns, TokenAts
<1>22. ASSUME NEW len \in 1 .. writes, WriteBegins(len) PROVE ScRenegInv'
  BY <1>0, <1>22 DEF WriteBegins, scNet, scIn, ScRenegInv, TokenAts
<1>23. CASE SendsRecord
  BY <1>0, <1>23 DEF SendsRecord, scNet, scIn, ScRenegInv, TokenAts
<1>24. ASSUME NEW encrypted \in BOOLEAN, SendFails(encrypted) PROVE ScRenegInv'
  BY <1>0, <1>24 DEF SendFails, scNet, scIn, ScRenegInv, TokenAts
<1>25. CASE ScClose
  BY <1>b, <1>25 DEF ScClose
<1>26. CASE UNCHANGED scVars
  BY <1>0, <1>26 DEF scVars, scIn, ScRenegInv
<1> QED
  BY <1>1, <1>2, <1>3, <1>4, <1>5, <1>6, <1>7, <1>8, <1>9, <1>10,
     <1>11, <1>12, <1>13, <1>14, <1>15, <1>16, <1>17, <1>18, <1>19, <1>20,
     <1>21, <1>22, <1>23, <1>24, <1>25, <1>26
     DEF ScNext

\* After eof nothing is whole: no record comes behind close_notify, and a
\* socket that has ended gives no more of one.
LEMMA ScDrainedNotWhole ==
    ASSUME ScTypes, ScSocketInv, ScDrainedInv, eof, session = "open"
    PROVE  ~Whole
<1> SUFFICES ASSUME Whole PROVE FALSE
  OBVIOUS
<1>1. taken > 0 /\ wire[taken].kind = "close"
  BY DEF ScDrainedInv
<1>2. taken + 1 <= Len(wire) /\ wire \in Seq(Records) /\ taken \in Nat
  BY ScWhole DEF ScTypes, WellFormed
<1>3. taken \in DOMAIN wire
  BY <1>1, <1>2
<1>4. taken = Len(wire)
  BY <1>1, <1>3 DEF ScTypes, WellFormed
<1> QED
  BY <1>2, <1>4

\* What ScDrainedInv says is untouched while the socket and the buffer are.
LEMMA ScDrainedKept ==
    ASSUME ScTypes, ScDrainedInv, UNCHANGED <<wire, taken, encLen, arrived, eof>>, hungUp => hungUp',
           session' \in {"new", "handshake"} => session \in {"new", "handshake"},
           session' = "open" => session = "open",
           session' = "open" /\ call'.at \in {"recv", "tokenRoom", "tokenRecv"} =>
               call.at \in {"recv", "tokenRoom", "tokenRecv"} \/ ~Whole
    PROVE  ScDrainedInv'
<1>1. Whole' = Whole /\ InSocket' = InSocket
  BY DEF Whole, InSocket
<1> QED
  BY <1>1 DEF ScDrainedInv

\* A step that consumes a record is not one after eof.
LEMMA ScDrainedConsumed ==
    ASSUME ScTypes, ScFlags, ScSocketInv, ScDrainedInv, Whole, Consume, UNCHANGED <<wire, eof>>,
           session \in {"handshake", "open"}, session' \in {"handshake", "open", "failed"},
           session' = "handshake" => session = "handshake",
           session' = "open" /\ call'.at \in {"recv", "tokenRoom", "tokenRecv"} => encLen = Units
    PROVE  ScDrainedInv'
<1>1. ~eof
  BY ScDrainedNotWhole DEF ScDrainedInv
<1>2. encLen' = encLen - Units
  BY ScConsuming
<1>3. encLen = Units => ~Whole'
  BY <1>2, ScNumbers DEF Whole
<1> QED
  BY <1>1, <1>3 DEF ScDrainedInv

\* eof is set at the end of the socket only, and the end is the end.
LEMMA ScDrainedStep ==
    ASSUME ScTypes, ScFlags, ScCallInv, ScRoomInv, ScSocketInv, ScDrainedInv, [ScNext]_scVars
    PROVE  ScDrainedInv'
<1>0. /\ wire' = wire /\ taken \in Nat /\ call \in ScCalls /\ encLen \in Nat /\ encCap \in Nat /\ arrived \in Nat
      /\ session \in {"new", "handshake", "open", "failed", "closed"}
  BY ScCaseKept DEF ScTypes, scCase
<1>a. ASSUME call.at = "token" PROVE session \in {"handshake", "open"}
  BY <1>a DEF ScCallInv
<1>1. CASE Arrives
  <2>1. /\ ~hungUp /\ UNCHANGED <<session, taken, encLen, eof, hungUp, call>>
    BY <1>1 DEF Arrives, scIn
  <2>2. Whole' = Whole
    BY <1>0, <2>1 DEF Whole
  <2> QED
    BY <1>0, <2>1, <2>2 DEF ScDrainedInv
<1>2. CASE HangsUp
  BY <1>0, <1>2, ScDrainedKept DEF HangsUp, scNet, scIn, scCase
<1>3. ASSUME NEW ok \in BOOLEAN, HandshakeBegins(ok) PROVE ScDrainedInv'
  <2>1. session = "new" /\ session' \in {"handshake", "failed"} /\ eof' = eof
    BY <1>3 DEF HandshakeBegins, scIn
  <2> QED
    BY <2>1 DEF ScDrainedInv
<1>4. CASE TokenRoom
  <2>0. call.at = "tokenRoom" /\ UNCHANGED <<taken, encLen, arrived, eof, hungUp>>
    BY <1>4 DEF TokenRoom, scNet
  <2>1. CASE CanGrow
    BY <1>0, <1>4, <2>0, <2>1, ScDrainedKept DEF TokenRoom
  <2>2. CASE ~CanGrow
    <3>1. /\ call'.at = "idle" /\ session' = IF session = "handshake" THEN "failed" ELSE session
      BY <1>0, <1>4, <2>2, ScFailing DEF TokenRoom
    <3> QED
      BY <1>0, <2>0, <3>1, ScDrainedKept
  <2> QED
    BY <2>1, <2>2
<1>5. CASE TokenRecv
  <2>1. UNCHANGED <<session, taken, eof>> /\ call'.at = "token" /\ InSocket # 0
    BY <1>0, <1>5, ScGoto DEF TokenRecv, SockRecv, TokenAts
  <2> QED
    BY <1>0, <2>1 DEF ScDrainedInv
<1>6. CASE TokenEOF
  <2>1. /\ call'.at = "idle" /\ session' = IF session = "handshake" THEN "failed" ELSE session
    BY <1>0, <1>6, ScFailing DEF TokenEOF
  <2>2. call.at = "tokenRecv" /\ RecvReturnsZero /\ UNCHANGED <<taken, encLen, arrived, hungUp>>
    BY <1>6 DEF TokenEOF, scNet
  <2>3. InSocket = 0 /\ hungUp
    BY <1>0, <2>2 DEF RecvReturnsZero, ScRoomInv
  <2>4. Whole' = Whole /\ InSocket' = InSocket
    BY <1>0, <2>2 DEF Whole, InSocket
  <2>5. session \in {"handshake", "open"}
    BY <2>2 DEF ScCallInv
  <2> QED
    BY <2>1, <2>2, <2>3, <2>4, <2>5 DEF ScDrainedInv
<1>7. CASE TokenIncomplete
  <2>1. ~Whole /\ UNCHANGED <<session, taken, encLen, arrived, eof, hungUp>>
    BY <1>7 DEF TokenIncomplete, scNet, scIn
  <2> QED
    BY <1>0, <2>1, ScDrainedKept
<1>8. CASE TokenCred
  <2>1. call'.at = "token" /\ UNCHANGED <<session, taken, encLen, arrived, eof, hungUp>>
    BY <1>0, <1>8 DEF TokenCred, scNet, scIn, ScCalls
  <2> QED
    BY <1>0, <2>1, ScDrainedKept
<1>9. CASE TokenContinue
  <2>1. PICK at \in TokenAts : at = IF encLen = Units THEN "tokenRoom" ELSE "token"
    BY DEF TokenAts
  <2>2. call'.at = at
    BY <1>0, <1>9, <2>1, ScGoto DEF TokenContinue
  <2>3. Whole /\ Consume /\ eof' = eof /\ call.at = "token" /\ session' = session
    BY <1>9 DEF TokenContinue
  <2> QED
    BY <1>0, <1>a, <2>1, <2>2, <2>3, ScDrainedConsumed
<1>10. CASE TokenSendFails
  <2>1. /\ call'.at = "idle" /\ session' \in {"new", "open", "failed", "closed"}
        /\ session' = IF session = "handshake" THEN "failed" ELSE session
    BY <1>0, <1>10, ScFailing DEF TokenSendFails
  <2> QED
    BY <1>0, <1>10, <2>1, ScDrainedKept DEF TokenSendFails, scNet, scIn
<1>11. CASE TokenRefused
  <2>1. /\ call'.at = "idle" /\ session' = IF session = "handshake" THEN "failed" ELSE session
    BY <1>0, <1>11, ScFailing DEF TokenRefused
  <2>2. Whole /\ Consume /\ eof' = eof /\ call.at = "token"
    BY <1>11 DEF TokenRefused
  <2> QED
    BY <1>0, <1>a, <2>1, <2>2, ScDrainedConsumed
<1>12. CASE HandshakeDone
  <2>1. call'.at \in {"idle", "return", "decrypt"} /\ session' \in {"open", "failed"}
    <3>1. CASE session = "handshake"
      BY <1>12, <3>1, ScNoCall DEF HandshakeDone
    <3>2. CASE session # "handshake"
      BY <1>0, <1>a, <1>12, <3>2, ScGoto DEF HandshakeDone
    <3> QED
      BY <3>1, <3>2
  <2>2. Whole /\ Consume /\ eof' = eof /\ call.at = "token"
    BY <1>12 DEF HandshakeDone
  <2> QED
    BY <1>0, <1>a, <2>1, <2>2, ScDrainedConsumed
<1>13. CASE SockFails
  <2>1. /\ call'.at = "idle" /\ session' \in {"new", "open", "failed", "closed"}
        /\ session' = IF session = "handshake" THEN "failed" ELSE session
    BY <1>0, <1>13, ScFailing DEF SockFails
  <2> QED
    BY <1>0, <1>13, <2>1, ScDrainedKept DEF SockFails, scNet, scIn
<1>14. ASSUME NEW len \in 1 .. MaxBuf, ReadStashed(len) PROVE ScDrainedInv'
  BY <1>0, <1>14, ScDrainedKept DEF ReadStashed, scNet, scIn, scCase
<1>15. ASSUME NEW len \in 1 .. MaxBuf, ReadBegins(len) PROVE ScDrainedInv'
  <2>1. len \in Nat
    BY ScNumbers
  <2>2. call'.at = "decrypt" /\ UNCHANGED <<session, taken, encLen, arrived, eof, hungUp>>
    BY <1>15, <2>1, ScNoCall DEF ReadBegins, scNet, scIn
  <2> QED
    BY <1>0, <2>2, ScDrainedKept
<1>16. CASE Decrypts
  <2>1. Whole /\ Consume
    BY <1>16 DEF Decrypts
  <2>2. /\ session = "open" /\ session' = "open" /\ taken' = taken + 1 /\ call' \in ScCalls
        /\ call'.at \in TokenAts => Record.kind = "reneg"
    BY <1>16, ScDecrypting DEF TokenAts
  <2>3. ~eof
    BY <2>1, <2>2, ScDrainedNotWhole
  <2>4. call'.at \in {"recv", "tokenRoom", "tokenRecv"} => encLen = Units
    <3>1. call'.at # "recv"
      BY <1>16, ScDecrypting DEF TokenAts
    <3>2. CASE Record.kind = "reneg"
      <4>1. call'.at = IF encLen = Units THEN "tokenRoom" ELSE "token"
        BY <1>0, <1>16, <3>2 DEF Decrypts, ScCalls
      <4> QED
        BY <4>1
    <3>3. CASE Record.kind # "reneg"
      BY <2>2, <3>1, <3>3 DEF TokenAts
    <3> QED
      BY <3>2, <3>3
  <2>5. CASE Record.kind = "close"
    <3>1. taken' > 0 /\ wire'[taken'].kind = "close"
      BY <1>0, <2>2, <2>5 DEF Record
    <3>2. call'.at \notin {"recv", "tokenRoom", "tokenRecv"}
      BY <1>16, <2>5, ScDecrypting
    <3> QED
      BY <2>2, <3>1, <3>2 DEF ScDrainedInv
  <2>6. CASE Record.kind # "close"
    <3>1. ~eof'
      BY <1>16, <2>3, <2>6 DEF Decrypts
    <3>2. eof' = eof
      BY <2>3, <3>1, ScFlagsStep DEF ScFlags
    <3> QED
      BY <1>0, <2>1, <2>2, <2>4, <3>2, ScDrainedConsumed
  <2> QED
    BY <2>5, <2>6
<1>17. CASE DecryptFails
  <2>1. /\ call'.at = "idle" /\ session' \in {"new", "open", "failed", "closed"}
        /\ session' = IF session = "handshake" THEN "failed" ELSE session
    BY <1>0, <1>17, ScFailing DEF DecryptFails
  <2> QED
    BY <1>0, <1>17, <2>1, ScDrainedKept DEF DecryptFails, scNet, scIn
<1>18. CASE DecryptIncomplete
  <2>0. ~Whole /\ UNCHANGED <<taken, encLen, arrived, eof, hungUp>> /\ session = "open"
    BY <1>18 DEF DecryptIncomplete, scNet, ScCallInv
  <2>1. session' = "open"
    <3>1. CASE CanGrow \/ encLen = 0
      BY <1>18, <2>0, <3>1 DEF DecryptIncomplete
    <3>2. CASE ~(CanGrow \/ encLen = 0)
      BY <2>0, <1>18, <3>2, ScFailing DEF DecryptIncomplete
    <3> QED
      BY <3>1, <3>2
  <2> QED
    BY <1>0, <2>0, <2>1, ScDrainedKept
<1>19. CASE Recv
  <2>1. UNCHANGED <<session, taken, eof>> /\ call'.at = "decrypt" /\ InSocket # 0
    BY <1>0, <1>19, ScGoto DEF Recv, SockRecv, TokenAts
  <2> QED
    BY <1>0, <2>1 DEF ScDrainedInv
<1>20. CASE RecvZero
  <2>1. call'.at = "return" /\ session = "open" /\ session' = "open"
    BY <1>0, <1>20, ScGoto DEF RecvZero, ScCallInv
  <2>2. call.at = "recv" /\ RecvReturnsZero /\ UNCHANGED <<taken, encLen, arrived, hungUp>>
    BY <1>20 DEF RecvZero, scNet
  <2>3. InSocket = 0 /\ hungUp /\ ~Whole
    BY <1>0, <2>1, <2>2 DEF RecvReturnsZero, ScRoomInv, ScDrainedInv
  <2>4. Whole' = Whole /\ InSocket' = InSocket
    BY <1>0, <2>2 DEF Whole, InSocket
  <2> QED
    BY <2>1, <2>2, <2>3, <2>4 DEF ScDrainedInv
<1>21. CASE ReadReturns
  <2>1. call'.at = "idle" /\ UNCHANGED <<session, taken, encLen, arrived, eof, hungUp>>
    BY <1>21, ScNoCall DEF ReadReturns, scNet
  <2> QED
    BY <1>0, <2>1, ScDrainedKept
<1>22. ASSUME NEW len \in 1 .. writes, WriteBegins(len) PROVE ScDrainedInv'
  BY <1>0, <1>22, ScDrainedKept DEF WriteBegins, scNet, scIn, scCase
<1>23. CASE SendsRecord
  BY <1>0, <1>23, ScDrainedKept DEF SendsRecord, scNet, scIn, scCase
<1>24. ASSUME NEW encrypted \in BOOLEAN, SendFails(encrypted) PROVE ScDrainedInv'
  BY <1>0, <1>24, ScDrainedKept DEF SendFails, scNet, scIn, scCase
<1>25. CASE ScClose
  BY <1>25 DEF ScClose, ScDrainedInv
<1>26. CASE UNCHANGED scVars
  BY <1>0, <1>26, ScDrainedKept DEF scVars, scNet, scIn
<1> QED
  BY <1>1, <1>2, <1>3, <1>4, <1>5, <1>6, <1>7, <1>8, <1>9, <1>10,
     <1>11, <1>12, <1>13, <1>14, <1>15, <1>16, <1>17, <1>18, <1>19, <1>20,
     <1>21, <1>22, <1>23, <1>24, <1>25, <1>26
     DEF ScNext

-----------------------------------------------------------------------------
(* The plaintext.                                                          *)

\* Nothing of the plaintext moves.
LEMMA ScStreamKept ==
    ASSUME ScStreamInv, UNCHANGED <<read, dec>>, call'.buf = call.buf,
           session' \in {"new", "handshake", "open"} =>
              session \in {"new", "handshake", "open"} /\ PlainBefore(taken)' = PlainBefore(taken)
    PROVE  ScStreamInv'
BY DEF ScStreamInv

\* A record without plaintext is consumed.
LEMMA ScConsumedEmpty ==
    ASSUME ScTypes, ScSocketInv, Whole, Consume, wire' = wire, Record.kind \notin {"data", "reneg"}
    PROVE  PlainBefore(taken)' = PlainBefore(taken)
<1>1. taken' = taken + 1 /\ taken + 1 \in DOMAIN wire /\ WellFormed(wire) /\ taken \in Nat
  BY ScConsuming DEF ScTypes
<1>2. /\ wire[taken + 1] \in Records /\ PlainBefore(taken) = wire[taken + 1].from
      /\ PlainBefore(taken + 1) = wire[taken + 1].upto
  BY <1>1, ScNextPlain
<1>3. wire[taken + 1].from = wire[taken + 1].upto
  BY <1>2 DEF Record, Records
<1>4. PlainBefore(taken)' = PlainBefore(taken + 1)
  BY <1>1 DEF PlainBefore
<1> QED
  BY <1>2, <1>3, <1>4

\* A call that fails holds no bytes.
LEMMA ScStreamFails ==
    ASSUME ScTypes, ScCallInv, ScStreamInv, Fails, call.at # "return", UNCHANGED <<read, dec>>,
           session = "open" => PlainBefore(taken)' = PlainBefore(taken),
           session \in {"handshake", "open"}
    PROVE  ScStreamInv'
<1>1. call'.buf = <<>> /\ call.buf = <<>>
  BY ScFailing DEF ScTypes, ScCallInv
<1>2. session' \in {"failed", "open"} /\ (session' = "open" => session = "open")
  BY ScFailing DEF ScTypes
<1> QED
  BY <1>1, <1>2, ScStreamKept

\* One sequence behind another.
LEMMA ScJoin ==
    ASSUME NEW s \in Seq(Nat), NEW t \in Seq(Nat)
    PROVE  /\ s \o t \in Seq(Nat) /\ Len(s \o t) = Len(s) + Len(t)
           /\ Len(s) \in Nat /\ Len(t) \in Nat
           /\ \A i \in 1 .. Len(s) : (s \o t)[i] = s[i]
           /\ \A i \in 1 .. Len(t) : (s \o t)[Len(s) + i] = t[i]
OBVIOUS

\* The bytes of s are numbered from o + 1 on.
ScFrom(s, o) == \A i \in 1 .. Len(s) : s[i] = o + i

\* Two numbered sequences, one of which goes on where the other ends.
LEMMA ScNumbered ==
    ASSUME NEW s \in Seq(Nat), NEW t \in Seq(Nat), NEW o \in Nat,
           ScFrom(s, o), ScFrom(t, o + Len(s))
    PROVE  s \o t \in Seq(Nat) /\ Len(s \o t) = Len(s) + Len(t) /\ ScFrom(s \o t, o)
<1>1. PICK m \in Nat, n \in Nat : m = Len(s) /\ n = Len(t)
  OBVIOUS
<1>2. PICK u \in Seq(Nat) : /\ u = s \o t /\ Len(u) = m + n
                            /\ \A i \in 1 .. m : u[i] = s[i]
                            /\ \A i \in 1 .. n : u[m + i] = t[i]
  BY <1>1, ScJoin
<1>3. ASSUME NEW i \in 1 .. m + n PROVE u[i] = o + i
  <2>1. CASE i <= m
    BY <1>1, <1>2, <2>1 DEF ScFrom
  <2>2. CASE i > m
    <3>1. PICK k \in 1 .. n : i = m + k
      BY <2>2
    <3>2. u[i] = t[k] /\ t[k] = o + m + k
      BY <1>1, <1>2, <3>1 DEF ScFrom
    <3> QED
      BY <3>1, <3>2
  <2> QED
    BY <2>1, <2>2
<1>4. ScFrom(u, o)
  BY <1>2, <1>3, Zenon DEF ScFrom
<1> QED
  BY <1>1, <1>2, <1>4, Zenon

\* What is cut from a numbered sequence is numbered.
LEMMA ScCutNumbered ==
    ASSUME NEW s \in Seq(Nat), NEW n \in Nat, NEW o \in Nat, ScFrom(s, o)
    PROVE  /\ FirstOf(n, s) \in Seq(Nat) /\ RestOf(n, s) \in Seq(Nat)
           /\ Len(FirstOf(n, s)) + Len(RestOf(n, s)) = Len(s)
           /\ ScFrom(FirstOf(n, s), o) /\ ScFrom(RestOf(n, s), o + Len(FirstOf(n, s)))
<1>1. PICK m \in Nat : ScParts(n, m, s)
  BY ScCut
<1>2. /\ m <= Len(s)
      /\ FirstOf(n, s) \in Seq(Nat) /\ Len(FirstOf(n, s)) = m
      /\ \A i \in 1 .. m : FirstOf(n, s)[i] = s[i]
      /\ RestOf(n, s) \in Seq(Nat) /\ Len(RestOf(n, s)) = Len(s) - m
      /\ \A i \in 1 .. Len(s) - m : RestOf(n, s)[i] = s[m + i]
  BY <1>1, Zenon DEF ScParts
<1>3. PICK l \in Nat : l = Len(s)
  OBVIOUS
<1>4. \A i \in 1 .. l : s[i] = o + i
  BY <1>3, Zenon DEF ScFrom
<1>5. ASSUME NEW i \in 1 .. m PROVE FirstOf(n, s)[i] = o + i
  <2>1. i \in 1 .. l
    BY <1>2, <1>3
  <2> QED
    BY <1>2, <1>4, <2>1, Zenon
<1>6. ASSUME NEW i \in 1 .. l - m PROVE RestOf(n, s)[i] = o + m + i
  <2>1. m + i \in 1 .. l /\ o + (m + i) = o + m + i
    BY <1>2, <1>3
  <2>2. RestOf(n, s)[i] = s[m + i] /\ s[m + i] = o + (m + i)
    BY <1>2, <1>3, <1>4, <2>1, Zenon
  <2> QED
    BY <2>1, <2>2, Zenon
<1>7. m + (l - m) = l
  BY <1>2, <1>3
<1> QED
  BY <1>2, <1>3, <1>5, <1>6, <1>7, Zenon DEF ScFrom

\* Bytes read, bytes in the call and the stash, and what a Read makes of them.
ScMoved(g, b, x, n) ==
    \E h \in Seq(Nat), r \in Seq(Nat) :
        /\ h = g \o (b \o FirstOf(n, x)) /\ r = RestOf(n, x)
        /\ Len(h) + Len(r) = Len(g) + Len(b) + Len(x)
        /\ ScFrom(h, 0) /\ ScFrom(r, Len(h))

\* They stay numbered in their order.
LEMMA ScMoves ==
    ASSUME NEW g \in Seq(Nat), NEW b \in Seq(Nat), NEW x \in Seq(Nat), NEW n \in Nat,
           ScFrom(g, 0), ScFrom(b, Len(g)), ScFrom(x, Len(g) + Len(b))
    PROVE  ScMoved(g, b, x, n)
<1>1. PICK lg \in Nat, lb \in Nat, lx \in Nat : lg = Len(g) /\ lb = Len(b) /\ lx = Len(x)
  OBVIOUS
<1>2. PICK o \in Nat : o = lg + lb
  OBVIOUS
<1>3. ScFrom(x, o)
  BY <1>1, <1>2, Zenon
<1>4. PICK f \in Seq(Nat), r \in Seq(Nat) :
         /\ f = FirstOf(n, x) /\ r = RestOf(n, x) /\ Len(f) + Len(r) = Len(x)
         /\ ScFrom(f, o) /\ ScFrom(r, o + Len(f))
  BY <1>3, ScCutNumbered
<1>5. PICK lf \in Nat, lr \in Nat : lf = Len(f) /\ lr = Len(r)
  OBVIOUS
<1>6. ScFrom(b, lg) /\ ScFrom(f, lg + Len(b))
  BY <1>1, <1>2, <1>4, Zenon
<1>7. PICK k \in Seq(Nat) : k = b \o f /\ Len(k) = Len(b) + Len(f) /\ ScFrom(k, lg)
  BY <1>6, ScNumbered
<1>8. 0 \in Nat /\ 0 + Len(g) = lg
  BY <1>1
<1>9. ScFrom(k, 0 + Len(g))
  BY <1>7, <1>8, Zenon
<1>10. PICK h \in Seq(Nat) : h = g \o k /\ Len(h) = Len(g) + Len(k) /\ ScFrom(h, 0)
  BY <1>8, <1>9, ScNumbered
<1>11. h = g \o (b \o FirstOf(n, x)) /\ r = RestOf(n, x)
  BY <1>4, <1>7, <1>10, Zenon
<1>12. lf + lr = lx /\ Len(h) = lg + (lb + lf)
  BY <1>1, <1>4, <1>5, <1>7, <1>10, Zenon
<1>13. (lg + (lb + lf)) + lr = lg + lb + lx /\ o + lf = lg + (lb + lf)
  BY <1>2, <1>12
<1>14. Len(h) + Len(r) = Len(g) + Len(b) + Len(x) /\ o + Len(f) = Len(h)
  BY <1>1, <1>5, <1>12, <1>13, Zenon
<1>15. ScFrom(r, Len(h))
  BY <1>4, <1>14, Zenon
<1> QED
  BY <1>10, <1>11, <1>14, <1>15, Zenon DEF ScMoved

\* A Read takes what its call holds and the first n bytes of the stash, behind
\* what was read.
LEMMA ScStreamTaken ==
    ASSUME ScTypes, ScStreamInv, session = "open", session' = "open", NEW n \in Nat,
           UNCHANGED <<wire, taken>>, call'.buf = <<>>,
           read' = read \o (call.buf \o FirstOf(n, dec)), dec' = RestOf(n, dec)
    PROVE  ScStreamInv'
<1>1. PICK g \in Seq(Nat), b \in Seq(Nat), x \in Seq(Nat) : g = read /\ b = call.buf /\ x = dec
  BY DEF ScTypes, ScCalls
<1>2. /\ DOMAIN g = 1 .. Len(g) /\ DOMAIN b = 1 .. Len(b) /\ DOMAIN x = 1 .. Len(x)
      /\ \A i \in 1 .. Len(g) : 0 + i = i
  BY SMT
<1>3. ScFrom(g, 0) /\ ScFrom(b, Len(g)) /\ ScFrom(x, Len(g) + Len(b))
  <2>1. /\ \A i \in DOMAIN g : g[i] = i
        /\ \A i \in DOMAIN b : b[i] = Len(g) + i
        /\ \A i \in DOMAIN x : x[i] = Len(g) + Len(b) + i
    BY <1>1, Zenon DEF ScStreamInv
  <2> QED
    BY <1>2, <2>1, Zenon DEF ScFrom
<1>4. PICK h \in Seq(Nat), r \in Seq(Nat) :
         /\ h = g \o (b \o FirstOf(n, x)) /\ r = RestOf(n, x)
         /\ Len(h) + Len(r) = Len(g) + Len(b) + Len(x)
         /\ ScFrom(h, 0) /\ ScFrom(r, Len(h))
  <2>1. ScMoved(g, b, x, n)
    BY <1>3, ScMoves
  <2> QED
    BY <2>1, Zenon DEF ScMoved
<1>5. read' = h /\ dec' = r
  BY <1>1, <1>4, Zenon
<1>6. PlainBefore(taken)' = Len(h) + Len(r)
  <2>1. Len(g) + Len(b) + Len(x) = PlainBefore(taken)
    BY <1>1, Zenon DEF ScStreamInv
  <2> QED
    BY <1>4, <2>1, Zenon DEF PlainBefore
<1>7. PICK e \in Seq(Nat) : e = <<>> /\ Len(e) = 0 /\ DOMAIN e = {}
  <2>1. <<>> \in Seq(Nat) /\ Len(<<>>) = 0 /\ DOMAIN <<>> = {}
    BY SMT
  <2> QED
    BY <2>1, Zenon
<1>8. PICK lh \in Nat : lh = Len(h) /\ lh + 0 = lh
  OBVIOUS
<1>9. /\ DOMAIN h = 1 .. Len(h) /\ DOMAIN r = 1 .. Len(r)
      /\ Len(h) + Len(e) = Len(h) /\ \A i \in 1 .. Len(h) : 0 + i = i
  BY <1>7, <1>8
<1>10. call'.buf = e
  BY <1>7, Zenon
<1> QED
  <2>1. \A i \in DOMAIN read' : read'[i] = i
    BY <1>4, <1>5, <1>9, Zenon DEF ScFrom
  <2>2. \A i \in DOMAIN call'.buf : call'.buf[i] = Len(read') + i
    BY <1>7, <1>10, Zenon
  <2>3. \A i \in DOMAIN dec' : dec'[i] = Len(read') + Len(call'.buf) + i
    BY <1>4, <1>5, <1>9, <1>10, Zenon DEF ScFrom
  <2>4. Len(read') + Len(call'.buf) + Len(dec') = PlainBefore(taken)'
    BY <1>5, <1>6, <1>9, <1>10, Zenon
  <2> QED
    BY <2>1, <2>2, <2>3, <2>4, Zenon DEF ScStreamInv

\* A record is decrypted behind everything that was.
LEMMA ScStreamDecrypted ==
    ASSUME ScTypes, ScCallInv, ScSocketInv, ScStreamInv, Decrypts, wire' = wire
    PROVE  ScStreamInv'
<1>1. /\ session = "open" /\ taken + 1 \in DOMAIN wire /\ taken' = taken + 1
      /\ dec = <<>> /\ call.buf = <<>> /\ read' = read
  BY ScDecrypting DEF Decrypts
<1>2. WellFormed(wire) /\ taken \in Nat /\ read \in Seq(Nat)
  BY DEF ScTypes
<1>3. PICK P \in Seq(Nat) : /\ P = PlainOf(taken)
                            /\ Len(P) = PlainBefore(taken + 1) - PlainBefore(taken)
                            /\ \A b \in 1 .. Len(P) : P[b] = PlainBefore(taken) + b
  BY <1>1, <1>2, ScPlainBytes
<1>4. PICK d \in Nat : call'.buf = FirstOf(d, P) /\ dec' = RestOf(d, P)
  BY <1>3, ScDecrypting
<1>5. PICK m \in Nat : ScParts(d, m, P)
  BY ScCut
<1>6. PICK f \in Seq(Nat), r \in Seq(Nat) :
         /\ f = FirstOf(d, P) /\ Len(f) = m /\ \A i \in 1 .. m : f[i] = P[i]
         /\ r = RestOf(d, P) /\ Len(r) = Len(P) - m /\ \A i \in 1 .. Len(P) - m : r[i] = P[m + i]
         /\ m <= Len(P)
  BY <1>5, Zenon DEF ScParts
<1>7. /\ \A i \in DOMAIN read : read[i] = i
      /\ Len(read) = PlainBefore(taken) /\ Len(read) \in Nat
  BY <1>1, <1>2 DEF ScStreamInv
<1>8. PICK p \in Nat, q \in Nat : p = PlainBefore(taken) /\ q = PlainBefore(taken + 1)
  BY <1>1, <1>2, ScNextPlain
<1>9. PlainBefore(taken)' = q
  BY <1>1, <1>8 DEF PlainBefore
<1>10. /\ \A i \in 1 .. m : f[i] = p + i
       /\ \A i \in 1 .. Len(P) - m : r[i] = p + m + i
       /\ p + m + Len(r) = q
  <2>1. Len(P) = q - p /\ Len(P) \in Nat /\ \A b \in 1 .. Len(P) : P[b] = p + b
    BY <1>3, <1>8
  <2>2. \A i \in 1 .. m : i \in 1 .. Len(P)
    BY <1>6, <2>1
  <2>3. \A i \in 1 .. Len(P) - m : m + i \in 1 .. Len(P)
    BY <1>6, <2>1
  <2>4. \A i \in 1 .. m : f[i] = p + i
    BY <1>6, <2>1, <2>2
  <2>5. \A i \in 1 .. Len(P) - m : r[i] = p + (m + i)
    BY <1>6, <2>1, <2>3, Zenon
  <2>6. p + m + Len(r) = q
    BY <1>6, <2>1
  <2> QED
    BY <2>4, <2>5, <2>6
<1>11. /\ \A i \in DOMAIN f : f[i] = p + i
       /\ \A i \in DOMAIN r : r[i] = p + Len(f) + i
       /\ p + Len(f) + Len(r) = q
  <2>1. DOMAIN f = 1 .. m /\ DOMAIN r = 1 .. Len(P) - m /\ Len(f) = m
    BY <1>6
  <2> QED
    BY <1>10, <2>1
<1>12. call'.buf = f /\ dec' = r /\ Len(read') = p /\ read' = read
  BY <1>1, <1>4, <1>6, <1>7, <1>8
<1> QED
  BY <1>7, <1>9, <1>11, <1>12 DEF ScStreamInv

\* Behind a renegotiation's request, plaintext comes after its last message.
LEMMA ScAfterReneg ==
    ASSUME WellFormed(wire), NEW i \in DOMAIN wire
    PROVE  \A j \in i + 1 .. Len(wire) :
              wire[i].kind = "reneg" /\ wire[j].kind \in {"data", "reneg"} =>
                 \E k \in i + 1 .. j - 1 : wire[k].kind = "done"
<1>1. PICK w : w = wire
  OBVIOUS
<1>2. WellFormed(w) /\ i \in DOMAIN w
  BY <1>1, Zenon
<1>3. \A j \in i + 1 .. Len(w) :
         w[i].kind = "reneg" /\ w[j].kind \in {"data", "reneg"} =>
            \E k \in i + 1 .. j - 1 : w[k].kind = "done"
  BY <1>2 DEF WellFormed
<1> QED
  BY <1>1, <1>3

\* What was read, is in the call and is stashed is what was consumed.
LEMMA ScStreamStep ==
    ASSUME ScTypes, ScCallInv, ScSocketInv, ScStreamInv, ScRenegInv, [ScNext]_scVars
    PROVE  ScStreamInv'
<1>0. /\ wire' = wire /\ taken \in Nat /\ call \in ScCalls /\ dec \in Seq(Nat) /\ read \in Seq(Nat)
      /\ session \in {"new", "handshake", "open", "failed", "closed"}
  BY ScCaseKept DEF ScTypes, scCase
<1>a. ASSUME taken' = taken PROVE PlainBefore(taken)' = PlainBefore(taken)
  BY <1>0, <1>a DEF PlainBefore
<1>b. ASSUME call.at = "token" PROVE session \in {"handshake", "open"} /\ call.buf = <<>>
  BY <1>b DEF ScCallInv
<1>1. CASE Arrives
  BY <1>0, <1>a, <1>1, ScStreamKept DEF Arrives, scIn
<1>2. CASE HangsUp
  BY <1>0, <1>a, <1>2, ScStreamKept DEF HangsUp, scIn
<1>3. ASSUME NEW ok \in BOOLEAN, HandshakeBegins(ok) PROVE ScStreamInv'
  <2>1. call'.buf = <<>> /\ call.buf = <<>>
    BY <1>3, ScNoCall DEF HandshakeBegins, ScCallInv
  <2> QED
    BY <1>0, <1>a, <1>3, <2>1, ScStreamKept DEF HandshakeBegins, scIn
<1>4. CASE TokenRoom
  <2>0. call.at = "tokenRoom" /\ UNCHANGED <<taken, read, dec>>
    BY <1>4 DEF TokenRoom
  <2>1. CASE CanGrow
    <3>1. call'.buf = call.buf /\ session' = session
      BY <1>0, <1>4, <2>1, ScGoto DEF TokenRoom, TokenAts
    <3> QED
      BY <1>a, <2>0, <3>1, ScStreamKept
  <2>2. CASE ~CanGrow
    <3>1. Fails /\ session \in {"handshake", "open"}
      BY <1>4, <2>0, <2>2 DEF TokenRoom, ScCallInv
    <3> QED
      BY <1>a, <2>0, <3>1, ScStreamFails
  <2> QED
    BY <2>1, <2>2
<1>5. CASE TokenRecv
  <2>1. UNCHANGED <<session, taken, read, dec>> /\ call'.buf = call.buf
    BY <1>0, <1>5, ScGoto DEF TokenRecv, SockRecv, TokenAts
  <2> QED
    BY <1>a, <2>1, ScStreamKept
<1>6. CASE TokenEOF
  <2>1. taken' = taken /\ UNCHANGED <<read, dec>> /\ call.at \notin {"idle", "return"} /\ Fails
    BY <1>6 DEF TokenEOF, scIn
  <2>2. session \in {"handshake", "open"}
    BY <2>1 DEF ScCallInv
  <2> QED
    BY <1>a, <2>1, <2>2, ScStreamFails
<1>7. CASE TokenIncomplete
  <2>1. UNCHANGED <<session, taken, read, dec>> /\ call'.buf = call.buf
    BY <1>0, <1>7, ScGoto DEF TokenIncomplete, TokenAts, scIn
  <2> QED
    BY <1>a, <2>1, ScStreamKept
<1>8. CASE TokenCred
  <2>1. UNCHANGED <<session, taken, read, dec>> /\ call'.buf = call.buf
    BY <1>0, <1>8 DEF TokenCred, scIn, ScCalls
  <2> QED
    BY <1>a, <2>1, ScStreamKept
<1>9. CASE TokenContinue
  <2>1. PICK at \in TokenAts : at = IF encLen = Units THEN "tokenRoom" ELSE "token"
    BY DEF TokenAts
  <2>2. call'.buf = call.buf
    BY <1>0, <1>9, <2>1, ScGoto DEF TokenContinue
  <2>3. Whole /\ Consume /\ UNCHANGED <<session, read, dec>> /\ Record.kind \notin {"data", "reneg"}
    BY <1>9 DEF TokenContinue
  <2>4. PlainBefore(taken)' = PlainBefore(taken)
    BY <1>0, <2>3, ScConsumedEmpty
  <2> QED
    BY <2>2, <2>3, <2>4, ScStreamKept
<1>10. CASE TokenSendFails
  <2>1. taken' = taken /\ UNCHANGED <<read, dec>> /\ call.at \notin {"idle", "return"} /\ Fails
    BY <1>10 DEF TokenSendFails, scIn
  <2>2. session \in {"handshake", "open"}
    BY <2>1 DEF ScCallInv
  <2> QED
    BY <1>a, <2>1, <2>2, ScStreamFails
<1>11. CASE TokenRefused
  <2>1. Whole /\ Consume /\ Fails /\ call.at = "token" /\ UNCHANGED <<read, dec>>
    BY <1>11 DEF TokenRefused
  <2>2. ASSUME session = "open" PROVE Record.kind \notin {"data", "reneg"}
    <3>1. PICK i \in 1 .. taken : wire[i].kind = "reneg" /\ \A k \in i + 1 .. taken : wire[k].kind # "done"
      BY <2>1, <2>2 DEF ScRenegInv, TokenAts
    <3>2. taken + 1 <= Len(wire) /\ wire \in Seq(Records)
      BY <2>1, ScWhole DEF ScTypes, WellFormed
    <3>3. i \in DOMAIN wire /\ taken + 1 \in i + 1 .. Len(wire) /\ (taken + 1) - 1 = taken
      BY <1>0, <3>2
    <3>4. \A j \in i + 1 .. Len(wire) :
             wire[i].kind = "reneg" /\ wire[j].kind \in {"data", "reneg"} =>
                \E k \in i + 1 .. j - 1 : wire[k].kind = "done"
      BY <3>3, ScAfterReneg DEF ScTypes
    <3>5. wire[taken + 1].kind \in {"data", "reneg"} => \E k \in i + 1 .. taken : wire[k].kind = "done"
      BY <3>1, <3>3, <3>4
    <3> QED
      BY <3>1, <3>5 DEF Record
  <2>3. session = "open" => PlainBefore(taken)' = PlainBefore(taken)
    BY <1>0, <2>1, <2>2, ScConsumedEmpty
  <2> QED
    BY <1>b, <2>1, <2>3, ScStreamFails
<1>12. CASE HandshakeDone
  <2>1. call.at = "token" /\ Whole /\ Consume /\ Record.kind \notin {"data", "reneg"} /\ UNCHANGED <<read, dec>>
    BY <1>12 DEF HandshakeDone
  <2>2. PlainBefore(taken)' = PlainBefore(taken)
    BY <1>0, <2>1, ScConsumedEmpty
  <2>3. call'.buf = call.buf
    <3>1. CASE session = "handshake"
      BY <1>b, <1>12, <2>1, <3>1, ScNoCall DEF HandshakeDone
    <3>2. CASE session # "handshake"
      BY <1>0, <1>12, <3>2, ScGoto DEF HandshakeDone
    <3> QED
      BY <3>1, <3>2
  <2> QED
    BY <1>b, <2>1, <2>2, <2>3, ScStreamKept
<1>13. CASE SockFails
  <2>1. taken' = taken /\ UNCHANGED <<read, dec>> /\ call.at \notin {"idle", "return"} /\ Fails
    BY <1>13 DEF SockFails, scIn
  <2>2. session \in {"handshake", "open"}
    BY <2>1 DEF ScCallInv
  <2> QED
    BY <1>a, <2>1, <2>2, ScStreamFails
<1>14. ASSUME NEW len \in 1 .. MaxBuf, ReadStashed(len) PROVE ScStreamInv'
  <2>1. len \in Nat
    BY ScNumbers
  <2>2. /\ session = "open" /\ session' = "open" /\ taken' = taken /\ call' = call /\ call.at = "idle"
        /\ read' = read \o FirstOf(len, dec) /\ dec' = RestOf(len, dec)
    BY <1>14 DEF ReadStashed, Quiet
  <2>3. call.buf = <<>>
    BY <2>2 DEF ScCallInv
  <2>4. FirstOf(len, dec) \in Seq(Nat)
    BY <1>0, <2>1, ScCut DEF ScParts
  <2>5. <<>> \o FirstOf(len, dec) = FirstOf(len, dec)
    BY <2>4
  <2>6. read' = read \o (call.buf \o FirstOf(len, dec))
    BY <2>2, <2>3, <2>5, Zenon
  <2> QED
    BY <1>0, <2>1, <2>2, <2>3, <2>6, ScStreamTaken
<1>15. ASSUME NEW len \in 1 .. MaxBuf, ReadBegins(len) PROVE ScStreamInv'
  <2>1. len \in Nat
    BY ScNumbers
  <2>2. call'.buf = <<>> /\ call.at = "idle" /\ UNCHANGED <<session, taken, read, dec>>
    BY <1>15, <2>1, ScNoCall DEF ReadBegins, Quiet, scIn
  <2>3. call.buf = <<>>
    BY <2>2 DEF ScCallInv
  <2> QED
    BY <1>a, <2>2, <2>3, ScStreamKept
<1>16. CASE Decrypts
  BY <1>0, <1>16, ScStreamDecrypted
<1>17. CASE DecryptFails
  <2>1. taken' = taken /\ UNCHANGED <<read, dec>> /\ call.at \notin {"idle", "return"} /\ Fails
    BY <1>17 DEF DecryptFails, scIn
  <2>2. session \in {"handshake", "open"}
    BY <2>1 DEF ScCallInv
  <2> QED
    BY <1>a, <2>1, <2>2, ScStreamFails
<1>18. CASE DecryptIncomplete
  <2>0. call.at = "decrypt" /\ UNCHANGED <<taken, read, dec>> /\ session = "open"
    BY <1>18 DEF DecryptIncomplete, ScCallInv
  <2>1. CASE CanGrow \/ encLen = 0
    <3>1. PICK at \in {"recv", "return"} : at = IF eof THEN "return" ELSE "recv"
      OBVIOUS
    <3>2. call'.buf = call.buf /\ session' = session
      BY <1>0, <1>18, <2>1, <3>1, ScGoto DEF DecryptIncomplete
    <3> QED
      BY <1>a, <2>0, <3>2, ScStreamKept
  <2>2. CASE ~(CanGrow \/ encLen = 0)
    <3>1. Fails
      BY <1>18, <2>2 DEF DecryptIncomplete
    <3> QED
      BY <1>a, <2>0, <3>1, ScStreamFails
  <2> QED
    BY <2>1, <2>2
<1>19. CASE Recv
  <2>1. UNCHANGED <<session, taken, read, dec>> /\ call'.buf = call.buf
    BY <1>0, <1>19, ScGoto DEF Recv, SockRecv, TokenAts
  <2> QED
    BY <1>a, <2>1, ScStreamKept
<1>20. CASE RecvZero
  <2>1. UNCHANGED <<session, taken, read, dec>> /\ call'.buf = call.buf
    BY <1>0, <1>20, ScGoto DEF RecvZero
  <2> QED
    BY <1>a, <2>1, ScStreamKept
<1>21. CASE ReadReturns
  <2>1. PICK n \in Nat : n = call.len - Len(call.buf)
    BY <1>0 DEF ScCallInv, ScCalls
  <2>2. /\ session = "open" /\ session' = "open" /\ taken' = taken /\ call' = NoCall
        /\ read' = read \o (call.buf \o FirstOf(n, dec)) /\ dec' = RestOf(n, dec)
    BY <1>21, <2>1 DEF ReadReturns, ScCallInv
  <2> QED
    BY <1>0, <2>2, ScNoCall, ScStreamTaken
<1>22. ASSUME NEW len \in 1 .. writes, WriteBegins(len) PROVE ScStreamInv'
  BY <1>0, <1>a, <1>22, ScStreamKept DEF WriteBegins, scIn
<1>23. CASE SendsRecord
  BY <1>0, <1>a, <1>23, ScStreamKept DEF SendsRecord, scIn
<1>24. ASSUME NEW encrypted \in BOOLEAN, SendFails(encrypted) PROVE ScStreamInv'
  BY <1>0, <1>a, <1>24, ScStreamKept DEF SendFails, scIn
<1>25. CASE ScClose
  <2>1. read' = read /\ session' = "closed"
    BY <1>25 DEF ScClose
  <2> QED
    BY <2>1 DEF ScStreamInv
<1>26. CASE UNCHANGED scVars
  BY <1>0, <1>a, <1>26, ScStreamKept DEF scVars, scIn
<1> QED
  BY <1>1, <1>2, <1>3, <1>4, <1>5, <1>6, <1>7, <1>8, <1>9, <1>10,
     <1>11, <1>12, <1>13, <1>14, <1>15, <1>16, <1>17, <1>18, <1>19, <1>20,
     <1>21, <1>22, <1>23, <1>24, <1>25, <1>26
     DEF ScNext

-----------------------------------------------------------------------------
(* The invariant.                                                          *)

\* It holds at first.
LEMMA ScInitial == ScInit => ScInv
<1> SUFFICES ASSUME ScInit PROVE ScInv
  OBVIOUS
<1>1. PICK c \in Cases : trust = c.trust /\ wire = c.wire /\ writes = c.writes
  BY DEF ScInit
<1>2. c.trust \in Trusts /\ WellFormed(c.wire) /\ c.writes \in Nat
  BY ScCases, Zenon
<1>3. trust \in Trusts /\ WellFormed(wire) /\ writes \in Nat
  BY <1>1, <1>2, Zenon
<1>4. /\ session = "new" /\ arrived = 0 /\ hungUp = FALSE /\ taken = 0 /\ encLen = 0
      /\ encCap = EncInitial /\ dec = <<>> /\ eof = FALSE /\ call = NoCall /\ read = <<>>
      /\ ended = FALSE
  BY DEF ScInit
<1>5. /\ call \in ScCalls /\ call.at = "idle" /\ call.len = 0 /\ call.buf = <<>>
      /\ Len(call.buf) <= call.len
  BY <1>4, ScNoCall
<1>6. <<>> \in Seq(Nat) /\ Len(<<>>) = 0 /\ DOMAIN <<>> = {}
  OBVIOUS
<1>7. ScTypes
  <2>1. 0 \in Nat /\ EncInitial \in Nat
    BY ScNumbers
  <2> QED
    BY <1>3, <1>4, <1>5, <1>6, <2>1 DEF ScTypes
<1>8. ScFlags
  BY <1>4, Zenon DEF ScFlags
<1>9. ScCallInv
  BY <1>4, <1>5, Zenon DEF ScCallInv
<1>10. ScRoomInv
  BY <1>4, <1>5, ScNumbers DEF ScRoomInv
<1>11. ScSocketInv
  <2>1. Len(wire) \in Nat
    BY <1>3 DEF WellFormed
  <2>2. Units * 0 + 0 <= 0 /\ 0 <= Units * Len(wire)
    BY <2>1, ScNumbers
  <2> QED
    BY <1>4, <2>2 DEF ScSocketInv
<1>12. ScStreamInv
  <2>1. PlainBefore(taken) = 0
    BY <1>4 DEF PlainBefore
  <2> QED
    BY <1>4, <1>5, <1>6, <2>1 DEF ScStreamInv
<1>13. ScStashInv /\ ScRenegInv /\ ScDrainedInv
  BY <1>4, <1>5, Zenon DEF ScStashInv, ScRenegInv, ScDrainedInv
<1> QED
  BY <1>7, <1>8, <1>9, <1>10, <1>11, <1>12, <1>13, Zenon DEF ScInv

\* Every step keeps it.
LEMMA ScStep == ScInv /\ [ScNext]_scVars => ScInv'
<1> SUFFICES ASSUME ScInv, [ScNext]_scVars PROVE ScInv'
  OBVIOUS
<1>1. /\ ScTypes /\ ScFlags /\ ScCallInv /\ ScRoomInv /\ ScSocketInv
      /\ ScStreamInv /\ ScStashInv /\ ScRenegInv /\ ScDrainedInv
  BY Zenon DEF ScInv
<1>2. ScTypes' /\ ScFlags' /\ ScCallInv'
  BY <1>1, ScTypesStep, ScFlagsStep, ScCallStep
<1>3. ScRoomInv' /\ ScSocketInv' /\ ScStreamInv'
  BY <1>1, ScRoomStep, ScSocketStep, ScStreamStep
<1>4. ScStashInv' /\ ScRenegInv' /\ ScDrainedInv'
  BY <1>1, ScStashStep, ScRenegStep, ScDrainedStep
<1> QED
  BY <1>2, <1>3, <1>4, Zenon DEF ScInv

\* So it always holds.
LEMMA ScInvariant == ScSpec => []ScInv
BY ScInitial, ScStep, PTL DEF ScSpec

-----------------------------------------------------------------------------
(* The theorems.                                                           *)

\* sspibridge.c keeps its two buffers within their limits, and of the caller's
\* buffer and the stash only one holds bytes for a call: for every stream of
\* records, however it is cut into socket reads.
THEOREM ScBuffersHold == ScSpec => []ScBuffers
<1>1. ScInv => ScBuffers
  BY Zenon DEF ScInv, ScBuffers, ScRoomInv, ScStashInv, ScCallInv
<1> QED
  BY <1>1, ScInvariant, PTL

\* verify_chain decides as the Config says.
LEMMA ScVerified ==
    ASSUME Verified
    PROVE  trust.skip \/ trust.root = "anchor" \/ (trust.root = "system" /\ ~trust.caOnly)
BY Zenon DEF Verified, VerifyWith

\* No step but the end of the handshake opens a session.
LEMMA ScTrustStep == ScTrustDecided /\ [ScNext]_scVars => ScTrustDecided'
<1> SUFFICES ASSUME ScTrustDecided, [ScNext]_scVars PROVE ScTrustDecided'
  OBVIOUS
<1>a. trust' = trust
  BY ScCaseKept DEF scCase
<1>b. ASSUME session' = "open" => session = "open" PROVE ScTrustDecided'
  BY <1>a, <1>b, Zenon DEF ScTrustDecided
<1>c. ASSUME Fails PROVE ScTrustDecided'
  BY <1>b, <1>c DEF Fails
<1>1. CASE Arrives
  BY <1>b, <1>c, <1>1 DEF Arrives
<1>2. CASE HangsUp
  BY <1>b, <1>c, <1>2 DEF HangsUp
<1>3. ASSUME NEW ok \in BOOLEAN, HandshakeBegins(ok) PROVE ScTrustDecided'
  BY <1>b, <1>c, <1>3 DEF HandshakeBegins
<1>4. CASE TokenRoom
  BY <1>b, <1>c, <1>4 DEF TokenRoom
<1>5. CASE TokenRecv
  BY <1>b, <1>c, <1>5 DEF TokenRecv, SockRecv
<1>6. CASE TokenEOF
  BY <1>b, <1>c, <1>6 DEF TokenEOF
<1>7. CASE TokenIncomplete
  BY <1>b, <1>c, <1>7 DEF TokenIncomplete
<1>8. CASE TokenCred
  BY <1>b, <1>c, <1>8 DEF TokenCred
<1>9. CASE TokenContinue
  BY <1>b, <1>c, <1>9 DEF TokenContinue
<1>10. CASE TokenSendFails
  BY <1>b, <1>c, <1>10 DEF TokenSendFails
<1>11. CASE TokenRefused
  BY <1>b, <1>c, <1>11 DEF TokenRefused
<1>12. CASE HandshakeDone
  <2>1. CASE session = "handshake"
    <3>1. session' \in IF Verified THEN {"open", "failed"} ELSE {"failed"}
      BY <1>12, <2>1 DEF HandshakeDone
    <3>2. CASE Verified
      BY <1>a, <3>2, ScVerified, Zenon DEF ScTrustDecided
    <3>3. CASE ~Verified
      BY <1>b, <3>1, <3>3
    <3> QED
      BY <3>2, <3>3, Zenon
  <2>2. CASE session # "handshake"
    BY <1>b, <1>12, <2>2 DEF HandshakeDone
  <2> QED
    BY <2>1, <2>2, Zenon
<1>13. CASE SockFails
  BY <1>b, <1>c, <1>13 DEF SockFails
<1>14. ASSUME NEW len \in 1 .. MaxBuf, ReadStashed(len) PROVE ScTrustDecided'
  BY <1>b, <1>c, <1>14 DEF ReadStashed
<1>15. ASSUME NEW len \in 1 .. MaxBuf, ReadBegins(len) PROVE ScTrustDecided'
  BY <1>b, <1>c, <1>15 DEF ReadBegins
<1>16. CASE Decrypts
  BY <1>b, <1>c, <1>16 DEF Decrypts
<1>17. CASE DecryptFails
  BY <1>b, <1>c, <1>17 DEF DecryptFails
<1>18. CASE DecryptIncomplete
  BY <1>b, <1>c, <1>18 DEF DecryptIncomplete
<1>19. CASE Recv
  BY <1>b, <1>c, <1>19 DEF Recv, SockRecv
<1>20. CASE RecvZero
  BY <1>b, <1>c, <1>20 DEF RecvZero
<1>21. CASE ReadReturns
  BY <1>b, <1>c, <1>21 DEF ReadReturns
<1>22. ASSUME NEW len \in 1 .. writes, WriteBegins(len) PROVE ScTrustDecided'
  BY <1>b, <1>c, <1>22 DEF WriteBegins
<1>23. CASE SendsRecord
  BY <1>b, <1>c, <1>23 DEF SendsRecord
<1>24. ASSUME NEW encrypted \in BOOLEAN, SendFails(encrypted) PROVE ScTrustDecided'
  BY <1>b, <1>c, <1>24 DEF SendFails
<1>25. CASE ScClose
  BY <1>b, <1>c, <1>25 DEF ScClose
<1>26. CASE UNCHANGED scVars
  BY <1>b, <1>c, <1>26 DEF scVars
<1> QED
  BY <1>1, <1>2, <1>3, <1>4, <1>5, <1>6, <1>7, <1>8, <1>9, <1>10,
     <1>11, <1>12, <1>13, <1>14, <1>15, <1>16, <1>17, <1>18, <1>19, <1>20,
     <1>21, <1>22, <1>23, <1>24, <1>25, <1>26
     DEF ScNext

\* sspibridge.c's do_handshake and verify_chain: whatever the peer sends, in
\* the handshake, a renegotiation or instead of them, application data are only
\* exchanged with a peer whose chain the Config trusts.
THEOREM ScTrustHolds == ScSpec => []ScTrustDecided
<1>1. ScInit => ScTrustDecided
  BY Zenon DEF ScInit, ScTrustDecided
<1> QED
  BY <1>1, ScTrustStep, PTL DEF ScSpec

\* A write in progress, and the totals.
ScWriteInv ==
    /\ writing \in [len : Nat, sent : Nat] /\ writing.sent <= writing.len
    /\ writes \in Nat /\ reported \in Nat /\ peerGot \in Nat
    /\ garbled \in BOOLEAN
    /\ ScWritesReported

\* The records of a write.
LEMMA ScWritings ==
    /\ \A n, m \in Nat : LET v == [len |-> n, sent |-> m]
                         IN  v \in [len : Nat, sent : Nat] /\ v.len = n /\ v.sent = m
    /\ \A w \in [len : Nat, sent : Nat], m \in Nat :
          LET v == [w EXCEPT !.sent = m]
          IN  v \in [len : Nat, sent : Nat] /\ v.len = w.len /\ v.sent = m
BY SMT

\* Every step keeps them.
LEMMA ScWriteStep == ScWriteInv /\ [ScNext]_scVars => ScWriteInv'
<1> SUFFICES ASSUME ScWriteInv, [ScNext]_scVars PROVE ScWriteInv'
  OBVIOUS
<1>a. writes' = writes /\ writes \in Nat
  BY ScCaseKept DEF scCase, ScWriteInv
<1>b. ASSUME UNCHANGED scOut PROVE ScWriteInv'
  BY <1>a, <1>b, Zenon DEF ScWriteInv, ScWritesReported, scOut
<1>c. PICK w \in [len : Nat, sent : Nat], r \in Nat, p \in Nat, g \in BOOLEAN :
         /\ w = writing /\ r = reported /\ p = peerGot /\ g = garbled /\ w.sent <= w.len
         /\ ~g => r + w.sent = p
         /\ g => p <= r + w.sent
  BY Zenon DEF ScWriteInv, ScWritesReported
<1>d. PICK z \in [len : Nat, sent : Nat] : z = [len |-> 0, sent |-> 0] /\ z.len = 0 /\ z.sent = 0
  <2>1. 0 \in Nat
    OBVIOUS
  <2> QED
    BY <2>1, ScWritings, Zenon
<1>1. CASE Arrives
  BY <1>b, <1>1 DEF Arrives
<1>2. CASE HangsUp
  BY <1>b, <1>2 DEF HangsUp
<1>3. ASSUME NEW ok \in BOOLEAN, HandshakeBegins(ok) PROVE ScWriteInv'
  BY <1>b, <1>3 DEF HandshakeBegins
<1>4. CASE TokenRoom
  BY <1>b, <1>4 DEF TokenRoom
<1>5. CASE TokenRecv
  BY <1>b, <1>5 DEF TokenRecv, SockRecv
<1>6. CASE TokenEOF
  BY <1>b, <1>6 DEF TokenEOF
<1>7. CASE TokenIncomplete
  BY <1>b, <1>7 DEF TokenIncomplete
<1>8. CASE TokenCred
  BY <1>b, <1>8 DEF TokenCred
<1>9. CASE TokenContinue
  BY <1>b, <1>9 DEF TokenContinue
<1>10. CASE TokenSendFails
  BY <1>b, <1>10 DEF TokenSendFails
<1>11. CASE TokenRefused
  BY <1>b, <1>11 DEF TokenRefused
<1>12. CASE HandshakeDone
  BY <1>b, <1>12 DEF HandshakeDone
<1>13. CASE SockFails
  BY <1>b, <1>13 DEF SockFails
<1>14. ASSUME NEW len \in 1 .. MaxBuf, ReadStashed(len) PROVE ScWriteInv'
  BY <1>b, <1>14 DEF ReadStashed
<1>15. ASSUME NEW len \in 1 .. MaxBuf, ReadBegins(len) PROVE ScWriteInv'
  BY <1>b, <1>15 DEF ReadBegins
<1>16. CASE Decrypts
  BY <1>b, <1>16 DEF Decrypts
<1>17. CASE DecryptFails
  BY <1>b, <1>17 DEF DecryptFails
<1>18. CASE DecryptIncomplete
  BY <1>b, <1>18 DEF DecryptIncomplete
<1>19. CASE Recv
  BY <1>b, <1>19 DEF Recv, SockRecv
<1>20. CASE RecvZero
  BY <1>b, <1>20 DEF RecvZero
<1>21. CASE ReadReturns
  BY <1>b, <1>21 DEF ReadReturns
<1>22. ASSUME NEW len \in 1 .. writes, WriteBegins(len) PROVE ScWriteInv'
  <2>1. PICK v \in [len : Nat, sent : Nat] : v = [len |-> len, sent |-> 0] /\ v.len = len /\ v.sent = 0
    <3>1. 0 \in Nat /\ len \in Nat
      BY <1>a
    <3>2. PICK v : v = [len |-> len, sent |-> 0]
      OBVIOUS
    <3>3. v \in [len : Nat, sent : Nat] /\ v.len = len /\ v.sent = 0
      BY <3>1, <3>2
    <3> QED
      BY <3>2, <3>3, Zenon
  <2>2. /\ writing' = v /\ reported' = r /\ peerGot' = p /\ garbled' = g
        /\ w.len = 0
    BY <1>c, <1>22, <2>1 DEF WriteBegins, Quiet
  <2>3. w.sent = 0 /\ v.sent <= v.len
    BY <1>a, <1>c, <2>1, <2>2
  <2> QED
    BY <1>a, <1>c, <2>1, <2>2, <2>3 DEF ScWriteInv, ScWritesReported
<1>23. CASE SendsRecord
  <2>1. PICK k \in Nat : k = Chunk /\ k <= w.len - w.sent
    BY <1>c, ScNumbers DEF Chunk
  <2>2. PICK q \in Nat : q = IF g THEN p ELSE p + k
    OBVIOUS
  <2>3. peerGot' = q /\ garbled' = g
    BY <1>c, <1>23, <2>1, <2>2 DEF SendsRecord
  <2>4. CASE w.sent + k = w.len
    <3>1. writing' = z /\ reported' = r + (w.sent + k)
      BY <1>c, <1>d, <1>23, <2>1, <2>4 DEF SendsRecord
    <3> QED
      BY <1>a, <1>c, <1>d, <2>1, <2>2, <2>3, <3>1 DEF ScWriteInv, ScWritesReported
  <2>5. CASE w.sent + k # w.len
    <3>1. PICK v \in [len : Nat, sent : Nat] : v = [w EXCEPT !.sent = w.sent + k] /\ v.len = w.len /\ v.sent = w.sent + k
      <4>1. w.sent + k \in Nat
        BY <1>c, <2>1
      <4>2. PICK v : v = [w EXCEPT !.sent = w.sent + k]
        OBVIOUS
      <4>3. v \in [len : Nat, sent : Nat] /\ v.len = w.len /\ v.sent = w.sent + k
        BY <4>1, <4>2
      <4> QED
        BY <4>2, <4>3, Zenon
    <3>2. writing' = v /\ reported' = r
      BY <1>c, <1>23, <2>1, <2>5, <3>1 DEF SendsRecord
    <3> QED
      BY <1>a, <1>c, <2>1, <2>2, <2>3, <3>1, <3>2 DEF ScWriteInv, ScWritesReported
  <2> QED
    BY <2>4, <2>5
<1>24. ASSUME NEW encrypted \in BOOLEAN, SendFails(encrypted) PROVE ScWriteInv'
  <2>1. PICK h \in BOOLEAN : h = (g \/ encrypted)
    BY Zenon
  <2>2. writing' = z /\ reported' = r + w.sent /\ peerGot' = p /\ garbled' = h
    BY <1>c, <1>d, <1>24, <2>1, Zenon DEF SendFails
  <2>3. g => h
    BY <2>1, Zenon
  <2> QED
    BY <1>a, <1>c, <1>d, <2>2, <2>3 DEF ScWriteInv, ScWritesReported
<1>25. CASE ScClose
  BY <1>b, <1>25 DEF ScClose
<1>26. CASE UNCHANGED scVars
  BY <1>b, <1>26 DEF scVars
<1> QED
  BY <1>1, <1>2, <1>3, <1>4, <1>5, <1>6, <1>7, <1>8, <1>9, <1>10,
     <1>11, <1>12, <1>13, <1>14, <1>15, <1>16, <1>17, <1>18, <1>19, <1>20,
     <1>21, <1>22, <1>23, <1>24, <1>25, <1>26
     DEF ScNext

\* https_sc_write reports exactly the bytes that the peer decrypts, whatever
\* the sizes of the writes and wherever they fail.
THEOREM ScWritesHold == ScSpec => []ScWritesReported
<1>1. ScInit => ScWriteInv
  <2> SUFFICES ASSUME ScInit PROVE ScWriteInv
    OBVIOUS
  <2>1. writes \in Nat
    BY ScInitial DEF ScInv, ScTypes
  <2>2. PICK z \in [len : Nat, sent : Nat] : z = [len |-> 0, sent |-> 0] /\ z.len = 0 /\ z.sent = 0
    <3>1. 0 \in Nat
      OBVIOUS
    <3> QED
      BY <3>1, ScWritings, Zenon
  <2>3. writing = z /\ reported = 0 /\ peerGot = 0 /\ garbled = FALSE
    BY <2>2 DEF ScInit
  <2>4. 0 \in Nat /\ 0 <= 0 /\ 0 + 0 = 0
    OBVIOUS
  <2>5. ScWritesReported
    BY <2>2, <2>3, <2>4, Zenon DEF ScWritesReported
  <2> QED
    BY <2>1, <2>2, <2>3, <2>4, <2>5, Zenon DEF ScWriteInv
<1>2. ScWriteInv => ScWritesReported
  BY DEF ScWriteInv
<1> QED
  BY <1>1, <1>2, ScWriteStep, PTL DEF ScSpec

-----------------------------------------------------------------------------
(* Reads are those of a byte stream.                                       *)

\* A set of numbers with a bound has a greatest one.
LEMMA ScGreatest ==
    ASSUME NEW n \in Nat, NEW S \in SUBSET (0 .. n), S # {}
    PROVE  \E m \in S : \A j \in S : j <= m
<1> DEFINE T == {k \in Nat : k <= n /\ n - k \in S}
<1>1. T \subseteq Nat /\ T # {}
  <2>1. PICK j \in S : TRUE
    OBVIOUS
  <2>2. j \in Nat /\ j <= n
    OBVIOUS
  <2>3. n - j \in Nat /\ n - j <= n /\ n - (n - j) = j
    BY <2>2
  <2>4. n - j \in T
    BY <2>3
  <2> QED
    BY <2>4
<1>2. PICK k \in T : \A y \in T : <<y, k>> \notin OpToRel(<, Nat)
  BY <1>1, NatLessThanWellFounded, WFMin
<1>3. k \in Nat /\ k <= n /\ n - k \in S
  OBVIOUS
<1>4. ASSUME NEW j \in S PROVE j <= n - k
  <2>1. j \in Nat /\ j <= n
    OBVIOUS
  <2>2. n - j \in Nat /\ n - j <= n /\ n - (n - j) = j
    BY <2>1
  <2>3. n - j \in T
    BY <2>2
  <2>4. ~(n - j < k)
    BY <1>2, <1>3, <2>2, <2>3 DEF OpToRel
  <2> QED
    BY <1>3, <2>1, <2>4
<1> QED
  BY <1>3, <1>4

\* Plaintext is numbered in the order of the records.
LEMMA ScPlainGrows ==
    ASSUME WellFormed(wire), NEW i \in 0 .. Len(wire), NEW j \in 0 .. Len(wire), i <= j
    PROVE  PlainBefore(i) \in Nat /\ PlainBefore(j) \in Nat /\ PlainBefore(i) <= PlainBefore(j)
<1>1. PICK w \in Seq(Records) : w = wire /\ WellFormed(w)
  BY DEF WellFormed
<1>2. Len(w) \in Nat /\ DOMAIN w = 1 .. Len(w)
  OBVIOUS
<1>3. ASSUME NEW k \in 1 .. Len(w) PROVE w[k].upto \in Nat /\ w[k].from \in Nat /\ w[k].from <= w[k].upto
  <2>1. w[k] \in Records
    BY <1>2
  <2> QED
    BY <2>1 DEF Records
<1>4. ASSUME NEW k \in 0 .. Len(w) PROVE PlainBefore(k) \in Nat /\ PlainBefore(k) = IF k = 0 THEN 0 ELSE w[k].upto
  BY <1>1, <1>2, <1>3 DEF PlainBefore
<1>5. CASE i = 0 \/ i = j
  BY <1>1, <1>4, <1>5
<1>6. CASE i # 0 /\ i # j
  <2>1. i \in 1 .. Len(w) /\ j \in 1 .. Len(w) /\ j \in i + 1 .. Len(w)
    BY <1>1, <1>2, <1>6
  <2>2. w[i].upto <= w[j].from
    BY <1>1, <1>2, <2>1 DEF WellFormed
  <2>3. w[i].upto <= w[j].upto
    BY <1>3, <2>1, <2>2
  <2> QED
    BY <1>1, <1>4, <1>6, <2>1, <2>3
<1> QED
  BY <1>5, <1>6

\* The records that have arrived whole when a socket bytes have, up to
\* close_notify.
ScWholes(a) == {i \in 0 .. Len(wire) : i * Units <= a /\ \A j \in 1 .. i : wire[j].kind # "close"}

\* The plaintext of the last of them.
ScArr(w, a) ==
    LET whole == {i \in 0 .. Len(w) : i * Units <= a /\ \A j \in 1 .. i : w[j].kind # "close"}
        last == CHOOSE i \in whole : \A j \in whole : j <= i
    IN  IF last = 0 THEN 0 ELSE w[last].upto

\* There is a last one.
LEMMA ScArrIs ==
    ASSUME WellFormed(wire), NEW a \in Nat
    PROVE  \E m \in ScWholes(a) :
              /\ \A j \in ScWholes(a) : j <= m
              /\ ScArr(wire, a) = PlainBefore(m)
<1>1. Len(wire) \in Nat
  BY DEF WellFormed
<1>2. ScWholes(a) \in SUBSET (0 .. Len(wire))
  BY DEF ScWholes
<1>3. ScWholes(a) # {}
  <2>1. 0 \in 0 .. Len(wire) /\ 0 * Units <= a /\ 1 .. 0 = {}
    BY <1>1, ScNumbers
  <2>2. 0 \in ScWholes(a)
    BY <2>1 DEF ScWholes
  <2> QED
    BY <2>2
<1>4. \E m \in ScWholes(a) : \A j \in ScWholes(a) : j <= m
  BY <1>1, <1>2, <1>3, ScGreatest
<1>5. PICK m : m = CHOOSE i \in ScWholes(a) : \A j \in ScWholes(a) : j <= i
  OBVIOUS
<1>6. m \in ScWholes(a) /\ \A j \in ScWholes(a) : j <= m
  BY <1>4, <1>5, Zenon
<1>7. ScArr(wire, a) = PlainBefore(m)
  <2> DEFINE last == CHOOSE i \in ScWholes(a) : \A j \in ScWholes(a) : j <= i
  <2>1. ScArr(wire, a) = IF last = 0 THEN 0 ELSE wire[last].upto
    BY Zenon DEF ScArr, ScWholes
  <2>2. last = m
    BY <1>5, Zenon
  <2> HIDE DEF last
  <2> QED
    BY <2>1, <2>2, Zenon DEF PlainBefore
<1> QED
  BY <1>6, <1>7, Zenon

\* Arrived is about that one.
LEMMA ScArrivedIs ==
    ASSUME WellFormed(wire), arrived \in Nat
    PROVE  \E m \in ScWholes(arrived) :
              /\ \A j \in ScWholes(arrived) : j <= m
              /\ Arrived = PlainBefore(m)
<1>1. PICK m \in ScWholes(arrived) :
         (\A j \in ScWholes(arrived) : j <= m) /\ ScArr(wire, arrived) = PlainBefore(m)
  BY ScArrIs
<1>2. Arrived = ScArr(wire, arrived)
  BY Zenon DEF Arrived, ScArr, PlainBefore
<1> QED
  BY <1>1, <1>2, Zenon

\* Only the last record can be close_notify, which holds no plaintext.
LEMMA ScCloseIsLast ==
    ASSUME WellFormed(wire), NEW i \in 1 .. Len(wire), wire[i].kind = "close"
    PROVE  i = Len(wire) /\ PlainBefore(i - 1) = PlainBefore(i)
<1>1. PICK w \in Seq(Records) : w = wire /\ WellFormed(w)
  BY DEF WellFormed
<1>2. Len(w) \in Nat /\ DOMAIN w = 1 .. Len(w) /\ i \in DOMAIN w /\ w[i] \in Records
  BY <1>1
<1>3. i = Len(w)
  BY <1>1, <1>2 DEF WellFormed
<1>4. w[i].from = w[i].upto
  BY <1>1, <1>2 DEF Records
<1>5. i - 1 \in Nat /\ (i - 1) + 1 = i
  BY <1>1, <1>2
<1>6. PICK k \in Nat : k = i - 1 /\ k + 1 = i
  BY <1>5
<1>7. PlainBefore(k) = wire[k + 1].from /\ PlainBefore(k + 1) = wire[k + 1].upto
  BY <1>1, <1>2, <1>6, ScNextPlain
<1> QED
  BY <1>1, <1>3, <1>4, <1>6, <1>7

\* Nothing is consumed that has not arrived.
LEMMA ScConsumedArrived ==
    ASSUME ScTypes, ScSocketInv
    PROVE  /\ Arrived \in Nat /\ PlainBefore(taken) \in Nat /\ PlainBefore(taken) <= Arrived
           /\ taken \in 0 .. Len(wire)
<1>1. /\ WellFormed(wire) /\ arrived \in Nat /\ taken \in Nat /\ encLen \in Nat
      /\ Units \in Nat /\ Units > 0 /\ Len(wire) \in Nat
  BY ScNumbers DEF ScTypes, WellFormed
<1>2. PICK m \in ScWholes(arrived) : (\A j \in ScWholes(arrived) : j <= m) /\ Arrived = PlainBefore(m)
  BY <1>1, ScArrivedIs
<1>3. m \in 0 .. Len(wire)
  BY DEF ScWholes
<1>4. PICK u \in Nat, l \in Nat, t \in Nat : u = Units /\ l = Len(wire) /\ t = taken
  BY <1>1
<1>5. u * t <= arrived /\ u * t <= u * l /\ u * t \in Nat
  <2>1. u * t + encLen <= arrived /\ arrived <= u * l
    BY <1>4 DEF ScSocketInv
  <2>2. u * t \in Nat /\ u * l \in Nat
    BY <1>4
  <2> QED
    BY <1>1, <2>1, <2>2
<1>6. t <= l
  <2>1. SUFFICES ASSUME l < t PROVE FALSE
    OBVIOUS
  <2>2. PICK k \in Nat : t = l + 1 + k
    BY <2>1
  <2>3. u * t = u * l + u + u * k /\ u * k \in Nat /\ u * l \in Nat
    BY <2>2
  <2> QED
    BY <1>1, <1>4, <1>5, <2>3
<1>7. taken \in 0 .. Len(wire)
  BY <1>4, <1>6
<1>8. CASE \A j \in 1 .. taken : wire[j].kind # "close"
  <2>1. taken * Units <= arrived
    BY <1>4, <1>5
  <2>2. taken \in ScWholes(arrived)
    BY <1>7, <1>8, <2>1 DEF ScWholes
  <2>3. taken <= m
    BY <1>2, <2>2
  <2> QED
    BY <1>1, <1>2, <1>3, <1>7, <2>3, ScPlainGrows
<1>9. CASE \E j \in 1 .. taken : wire[j].kind = "close"
  <2>1. PICK j \in 1 .. taken : wire[j].kind = "close"
    BY <1>9
  <2>2. j \in 1 .. Len(wire)
    BY <1>1, <1>7
  <2>3. j = Len(wire) /\ PlainBefore(j - 1) = PlainBefore(j)
    BY <1>1, <2>1, <2>2, ScCloseIsLast
  <2>4. j = taken
    BY <1>1, <1>7, <2>3
  <2>5. PICK k \in Nat : k = taken - 1 /\ k \in 0 .. Len(wire) /\ k < Len(wire)
    BY <1>1, <1>7, <2>3, <2>4
  <2>6. \A i \in 1 .. k : wire[i].kind # "close"
    <3>1. SUFFICES ASSUME NEW i \in 1 .. k, wire[i].kind = "close" PROVE FALSE
      OBVIOUS
    <3>2. i \in 1 .. Len(wire) /\ i # Len(wire)
      BY <1>1, <2>5
    <3> QED
      BY <1>1, <3>1, <3>2, ScCloseIsLast
  <2>7. k * Units <= arrived
    <3>1. u * t = k * u + u
      BY <1>4, <2>5
    <3>2. k * u \in Nat
      OBVIOUS
    <3> QED
      BY <1>1, <1>4, <1>5, <3>1, <3>2
  <2>8. k \in ScWholes(arrived)
    BY <2>5, <2>6, <2>7 DEF ScWholes
  <2>9. k <= m
    BY <1>2, <2>8
  <2>10. PlainBefore(k) \in Nat /\ PlainBefore(m) \in Nat /\ PlainBefore(k) <= PlainBefore(m)
    BY <1>1, <1>3, <2>5, <2>9, ScPlainGrows
  <2> QED
    BY <1>2, <1>7, <2>3, <2>4, <2>5, <2>10
<1> QED
  BY <1>8, <1>9

\* Behind a record that is longer than the buffer can get there is no plaintext.
LEMMA ScHugeIsEmpty ==
    ASSUME WellFormed(wire), NEW i \in Nat, i + 1 \in 1 .. Len(wire), wire[i + 1].kind = "huge",
           NEW m \in i .. Len(wire)
    PROVE  PlainBefore(m) = PlainBefore(i)
<1>1. PICK w \in Seq(Records) : w = wire /\ WellFormed(w)
  BY DEF WellFormed
<1>2. PICK j \in Nat : j = i + 1
  OBVIOUS
<1>3. j \in DOMAIN w /\ w[j] \in Records /\ w[j].kind = "huge" /\ Len(w) \in Nat
  BY <1>1, <1>2
<1>4. w[j].from = w[j].upto
  BY <1>3 DEF Records
<1>5. PlainBefore(i) = wire[i + 1].from /\ PlainBefore(i + 1) = wire[i + 1].upto
  BY <1>1, <1>2, <1>3, ScNextPlain
<1>6. CASE m <= j
  <2>1. m = i \/ m = j
    BY <1>2, <1>6
  <2> QED
    BY <1>1, <1>2, <1>4, <1>5, <2>1
<1>7. CASE m > j
  <2>1. m \in j + 1 .. Len(w) /\ m # 0
    BY <1>1, <1>2, <1>7
  <2>2. w[m].upto = w[j].upto
    BY <1>1, <1>3, <2>1 DEF WellFormed
  <2>3. PlainBefore(m) = w[m].upto
    BY <1>1, <2>1 DEF PlainBefore
  <2> QED
    BY <1>1, <1>2, <1>4, <1>5, <2>2, <2>3
<1> QED
  BY <1>2, <1>6, <1>7

\* When a Read ends the stream, all that has arrived was consumed.
LEMMA ScEndIsDrained ==
    ASSUME ScTypes, ScSocketInv, ScDrainedInv, eof, session = "open"
    PROVE  Arrived = PlainBefore(taken)
<1>1. /\ WellFormed(wire) /\ arrived \in Nat /\ taken \in Nat /\ encLen \in Nat
      /\ Units \in Nat /\ Units > 0 /\ Len(wire) \in Nat
  BY ScNumbers DEF ScTypes, WellFormed
<1>2. PICK m \in ScWholes(arrived) : (\A j \in ScWholes(arrived) : j <= m) /\ Arrived = PlainBefore(m)
  BY <1>1, ScArrivedIs
<1>3. m \in 0 .. Len(wire) /\ m * Units <= arrived /\ \A j \in 1 .. m : wire[j].kind # "close"
  BY DEF ScWholes
<1>4. taken \in 0 .. Len(wire) /\ PlainBefore(taken) \in Nat /\ PlainBefore(taken) <= Arrived
  BY ScConsumedArrived
<1>5. CASE taken > 0 /\ wire[taken].kind = "close"
  <2>1. taken \in 1 .. Len(wire)
    BY <1>1, <1>4, <1>5
  <2>2. taken = Len(wire) /\ PlainBefore(taken - 1) = PlainBefore(taken)
    BY <1>1, <1>5, <2>1, ScCloseIsLast
  <2>3. m # taken
    BY <1>3, <1>5, <2>1
  <2>4. PICK k \in 0 .. Len(wire) : k = taken - 1 /\ m <= k
    BY <1>1, <1>3, <2>1, <2>2, <2>3
  <2>5. PlainBefore(m) \in Nat /\ PlainBefore(m) <= PlainBefore(k)
    BY <1>1, <1>3, <2>4, ScPlainGrows
  <2> QED
    BY <1>2, <1>4, <2>2, <2>4, <2>5
<1>6. CASE InSocket = 0 /\ ~Whole /\ encLen < Units
  <2>1. arrived - (Units * taken + encLen) = 0
    BY <1>6 DEF InSocket
  <2>2. PICK u \in Nat, t \in Nat : u = Units /\ t = taken /\ u > 0
    BY <1>1
  <2>3. u * t \in Nat /\ m \in Nat
    BY <1>1, <1>3
  <2>4. m * u <= u * t + encLen /\ encLen < u
    BY <1>1, <1>3, <1>6, <2>1, <2>2, <2>3
  <2>5. m <= t
    <3>1. SUFFICES ASSUME t < m PROVE FALSE
      BY <2>3
    <3>2. PICK k \in Nat : m = t + 1 + k
      BY <2>3, <3>1
    <3>3. m * u = u * t + u + k * u /\ k * u \in Nat
      BY <3>2
    <3> QED
      BY <1>1, <2>2, <2>3, <2>4, <3>3
  <2>6. PlainBefore(m) \in Nat /\ PlainBefore(m) <= PlainBefore(taken)
    BY <1>1, <1>3, <1>4, <2>2, <2>5, ScPlainGrows
  <2> QED
    BY <1>2, <1>4, <2>6
<1>7. CASE ~Whole /\ encLen >= Units
  <2>1. wire[taken + 1].kind = "huge"
    BY <1>7 DEF Whole
  <2>2. taken + 1 \in 1 .. Len(wire)
    <3>1. PICK u \in Nat, t \in Nat, l \in Nat : u = Units /\ t = taken /\ l = Len(wire) /\ u > 0
      BY <1>1
    <3>2. u * t + encLen <= arrived /\ arrived <= u * l /\ encLen >= u
      BY <1>7, <3>1 DEF ScSocketInv
    <3>3. u * t \in Nat /\ u * l \in Nat
      OBVIOUS
    <3>4. u * t + u <= u * l
      BY <1>1, <3>2, <3>3
    <3>5. t # l
      BY <3>1, <3>3, <3>4
    <3> QED
      BY <1>1, <1>4, <3>1, <3>5
  <2>3. CASE m >= taken
    <3>1. m \in taken .. Len(wire)
      BY <1>1, <1>3, <2>3
    <3> QED
      BY <1>1, <1>2, <2>1, <2>2, <3>1, ScHugeIsEmpty
  <2>4. CASE m < taken
    <3>1. PlainBefore(m) \in Nat /\ PlainBefore(m) <= PlainBefore(taken)
      BY <1>1, <1>3, <1>4, <2>4, ScPlainGrows
    <3> QED
      BY <1>2, <1>4, <3>1
  <2> QED
    BY <1>1, <1>3, <2>3, <2>4
<1>8. (taken > 0 /\ wire[taken].kind = "close") \/ (InSocket = 0 /\ ~Whole)
  BY Zenon DEF ScDrainedInv
<1>9. encLen < Units \/ encLen >= Units
  BY <1>1
<1> QED
  BY <1>5, <1>6, <1>7, <1>8, <1>9, Zenon

\* What arrives does not take back what has arrived.
LEMMA ScArrGrows ==
    ASSUME WellFormed(wire), NEW a \in Nat
    PROVE  /\ ScArr(wire, a) \in Nat /\ ScArr(wire, a + 1) \in Nat
           /\ ScArr(wire, a) <= ScArr(wire, a + 1)
<1>1. PICK m \in ScWholes(a) : (\A j \in ScWholes(a) : j <= m) /\ ScArr(wire, a) = PlainBefore(m)
  BY ScArrIs
<1>2. a + 1 \in Nat
  OBVIOUS
<1>3. PICK n \in ScWholes(a + 1) :
         (\A j \in ScWholes(a + 1) : j <= n) /\ ScArr(wire, a + 1) = PlainBefore(n)
  BY <1>2, ScArrIs
<1>4. Len(wire) \in Nat
  BY DEF WellFormed
<1>5. /\ m \in 0 .. Len(wire) /\ n \in 0 .. Len(wire) /\ m * Units <= a
      /\ \A j \in 1 .. m : wire[j].kind # "close"
  BY DEF ScWholes
<1>6. m * Units <= a + 1
  <2>1. m * Units \in Nat
    BY <1>4, <1>5, ScNumbers
  <2> QED
    BY <1>5, <2>1
<1>7. m \in ScWholes(a + 1)
  BY <1>5, <1>6 DEF ScWholes
<1>8. m <= n
  BY <1>3, <1>7
<1> QED
  BY <1>1, <1>3, <1>5, <1>8, ScPlainGrows

\* A numbered sequence is the one that ByteStream's Take appends.
LEMMA ScFromIs ==
    ASSUME NEW s \in Seq(Nat), NEW o \in Nat, ScFrom(s, o)
    PROVE  s = [i \in 1 .. Len(s) |-> o + i]
<1>1. PICK l \in Nat : l = Len(s)
  OBVIOUS
<1>2. s \in [1 .. l -> Nat]
  BY <1>1
<1>3. \A i \in 1 .. l : s[i] = o + i
  BY <1>1, Zenon DEF ScFrom
<1>4. s = [i \in 1 .. l |-> s[i]]
  BY <1>2, Zenon
<1>5. [i \in 1 .. l |-> s[i]] = [i \in 1 .. l |-> o + i]
  BY <1>3, Zenon
<1> QED
  BY <1>1, <1>4, <1>5, Zenon

\* The bytes a Read returns follow what was read.
ScTakenFrom(o, b, x, n) ==
    \E k \in Seq(Nat) : k = b \o FirstOf(n, x) /\ ScFrom(k, o) /\ Len(k) <= Len(b) + Len(x)

\* They are numbered, and from the call and the stash.
LEMMA ScTakenIs ==
    ASSUME NEW o \in Nat, NEW b \in Seq(Nat), NEW x \in Seq(Nat), NEW n \in Nat,
           ScFrom(b, o), ScFrom(x, o + Len(b))
    PROVE  ScTakenFrom(o, b, x, n)
<1>1. PICK q \in Nat, lb \in Nat, lx \in Nat : lb = Len(b) /\ lx = Len(x) /\ q = o + lb
  OBVIOUS
<1>2. ScFrom(x, q)
  BY <1>1, Zenon
<1>3. PICK f \in Seq(Nat), r \in Seq(Nat) :
         f = FirstOf(n, x) /\ r = RestOf(n, x) /\ Len(f) + Len(r) = Len(x) /\ ScFrom(f, q)
  BY <1>2, ScCutNumbered
<1>4. ScFrom(f, o + Len(b))
  BY <1>1, <1>3, Zenon
<1>5. PICK k \in Seq(Nat) : k = b \o f /\ Len(k) = Len(b) + Len(f) /\ ScFrom(k, o)
  BY <1>4, ScNumbered
<1>6. PICK lf \in Nat, lr \in Nat : lf = Len(f) /\ lr = Len(r)
  OBVIOUS
<1>7. Len(k) <= Len(b) + Len(x)
  <2>1. lf + lr = lx /\ Len(k) = lb + lf
    BY <1>1, <1>3, <1>5, <1>6, Zenon
  <2>2. lb + lf <= lb + lx
    BY <2>1
  <2> QED
    BY <1>1, <2>1, <2>2, Zenon
<1> QED
  BY <1>3, <1>5, <1>7, Zenon DEF ScTakenFrom

\* A Read that returns bytes takes them off the stream.
LEMMA ScTakes ==
    ASSUME ScTypes, ScSocketInv, ScStreamInv, session = "open", NEW n \in Nat,
           UNCHANGED <<Arrived, ended>>, call.buf \o FirstOf(n, dec) # <<>>,
           read' = read \o (call.buf \o FirstOf(n, dec))
    PROVE  Stream!Take
<1>1. PICK g \in Seq(Nat), b \in Seq(Nat), x \in Seq(Nat) : g = read /\ b = call.buf /\ x = dec
  BY DEF ScTypes, ScCalls
<1>2. PICK lg \in Nat, lb \in Nat, lx \in Nat : lg = Len(g) /\ lb = Len(b) /\ lx = Len(x)
  <2>1. Len(g) \in Nat /\ Len(b) \in Nat /\ Len(x) \in Nat
    BY SMT
  <2> QED
    BY <2>1, Zenon
<1>3. /\ DOMAIN b = 1 .. Len(b) /\ DOMAIN x = 1 .. Len(x)
  BY SMT
<1>4. /\ ScFrom(b, Len(g)) /\ ScFrom(x, Len(g) + Len(b)) /\ lg + lb + lx = PlainBefore(taken)
  <2>1. /\ \A i \in DOMAIN b : b[i] = Len(g) + i
        /\ \A i \in DOMAIN x : x[i] = Len(g) + Len(b) + i
        /\ lg + lb + lx = PlainBefore(taken)
    BY <1>1, <1>2, Zenon DEF ScStreamInv
  <2> QED
    BY <1>3, <2>1, Zenon DEF ScFrom
<1>5. PICK k \in Seq(Nat) : k = b \o FirstOf(n, x) /\ ScFrom(k, lg) /\ Len(k) <= lb + lx
  <2>1. ScTakenFrom(lg, b, x, n)
    BY <1>2, <1>4, ScTakenIs
  <2> QED
    BY <1>2, <2>1, Zenon DEF ScTakenFrom
<1>6. PICK lk \in Nat : lk = Len(k) /\ lk > 0
  <2>1. k # <<>>
    BY <1>1, <1>5, Zenon
  <2>2. Len(k) \in Nat /\ Len(k) > 0
    BY <2>1, SMT
  <2> QED
    BY <2>2, Zenon
<1>7. PICK h \in Seq(Nat) : h = g \o k /\ Len(h) = Len(g) + Len(k)
  BY ScJoin
<1>8. read' = h /\ Len(h) = lg + lk
  BY <1>1, <1>2, <1>5, <1>6, <1>7, Zenon
<1>9. PICK d \in Nat : d = Arrived /\ PlainBefore(taken) <= d
  BY ScConsumedArrived
<1>10. lg + lk > lg /\ lg + lk <= d /\ (lg + lk) - lg = lk
  <2>1. lk <= lb + lx /\ lg + lb + lx <= d
    BY <1>4, <1>5, <1>6, <1>9, Zenon
  <2> QED
    BY <1>6, <2>1
<1>11. k = [i \in 1 .. lk |-> lg + i]
  BY <1>5, <1>6, ScFromIs
<1>12. read' = read \o [i \in 1 .. Len(read') - Len(read) |-> Len(read) + i]
  BY <1>1, <1>2, <1>7, <1>8, <1>10, <1>11, Zenon
<1> QED
  BY <1>1, <1>2, <1>8, <1>9, <1>10, <1>12, Zenon DEF Stream!Take

\* The first bytes of a stash are none only when it is empty.
LEMMA ScFirstNone ==
    ASSUME NEW x \in Seq(Nat), NEW n \in Nat
    PROVE  FirstOf(n, x) \in Seq(Nat) /\ (n > 0 /\ FirstOf(n, x) = <<>> => x = <<>>)
<1>1. PICK l \in Nat : l = Len(x)
  OBVIOUS
<1>2. PICK m \in Nat : ScParts(n, m, x)
  BY ScCut
<1>3. PICK f \in Seq(Nat) : f = FirstOf(n, x) /\ Len(f) = m /\ (n > 0 /\ m = 0 => l = 0)
  <2>1. /\ FirstOf(n, x) \in Seq(Nat) /\ Len(FirstOf(n, x)) = m
        /\ (n <= l => m = n) /\ (n > l => m = l)
    BY <1>1, <1>2, Zenon DEF ScParts
  <2>2. n > 0 /\ m = 0 => l = 0
    BY <2>1
  <2> QED
    BY <2>1, <2>2, Zenon
<1>4. (f = <<>> => m = 0) /\ (l = 0 => x = <<>>)
  BY <1>1, <1>3
<1> QED
  BY <1>3, <1>4, Zenon

\* Every step is one of the stream, or none.
LEMMA ScReadsStep ==
    ASSUME ScInv, [ScNext]_scVars
    PROVE  [Stream!StreamNext]_(Stream!streamVars)
<1>a. /\ ScTypes /\ ScFlags /\ ScCallInv /\ ScSocketInv /\ ScStreamInv /\ ScDrainedInv
  BY Zenon DEF ScInv
<1>b. wire' = wire
  BY ScCaseKept DEF scCase
<1>c. Arrived = ScArr(wire, arrived) /\ Arrived' = ScArr(wire', arrived')
  BY Zenon DEF Arrived, ScArr, PlainBefore
<1>d. ASSUME UNCHANGED <<arrived, read, ended>> PROVE [Stream!StreamNext]_(Stream!streamVars)
  <2>1. Arrived' = Arrived
    BY <1>b, <1>c, <1>d, Zenon
  <2> QED
    BY <1>d, <2>1 DEF Stream!streamVars
<1>1. CASE Arrives
  <2>1. arrived' = arrived + 1 /\ UNCHANGED <<read, ended>> /\ arrived \in Nat /\ WellFormed(wire)
    BY <1>a, <1>1 DEF Arrives, ScTypes
  <2>2. Arrived' = ScArr(wire, arrived + 1)
    BY <1>b, <1>c, <2>1, Zenon
  <2>3. Arrived \in Nat /\ Arrived' \in Nat /\ Arrived <= Arrived'
    BY <1>c, <2>1, <2>2, ScArrGrows
  <2>4. CASE Arrived' = Arrived
    BY <2>1, <2>4 DEF Stream!streamVars
  <2>5. CASE Arrived' > Arrived
    BY <2>1, <2>3, <2>5 DEF Stream!StreamNext, Stream!Give
  <2> QED
    BY <2>3, <2>4, <2>5
<1>2. CASE HangsUp
  BY <1>d, <1>2 DEF HangsUp, scNet
<1>3. ASSUME NEW ok \in BOOLEAN, HandshakeBegins(ok) PROVE [Stream!StreamNext]_(Stream!streamVars)
  BY <1>d, <1>3 DEF HandshakeBegins, scNet
<1>4. CASE TokenRoom
  BY <1>d, <1>4 DEF TokenRoom, scNet
<1>5. CASE TokenRecv
  BY <1>d, <1>5 DEF TokenRecv, SockRecv, scNet
<1>6. CASE TokenEOF
  BY <1>d, <1>6 DEF TokenEOF, scNet
<1>7. CASE TokenIncomplete
  BY <1>d, <1>7 DEF TokenIncomplete, scNet
<1>8. CASE TokenCred
  BY <1>d, <1>8 DEF TokenCred, scNet
<1>9. CASE TokenContinue
  BY <1>d, <1>9 DEF TokenContinue, scNet
<1>10. CASE TokenSendFails
  BY <1>d, <1>10 DEF TokenSendFails, scNet
<1>11. CASE TokenRefused
  BY <1>d, <1>11 DEF TokenRefused, scNet
<1>12. CASE HandshakeDone
  BY <1>d, <1>12 DEF HandshakeDone, scNet
<1>13. CASE SockFails
  BY <1>d, <1>13 DEF SockFails, scNet
<1>14. ASSUME NEW len \in 1 .. MaxBuf, ReadStashed(len) PROVE [Stream!StreamNext]_(Stream!streamVars)
  <2>1. /\ session = "open" /\ call.at = "idle" /\ dec # <<>> /\ len \in Nat /\ len > 0
        /\ read' = read \o FirstOf(len, dec) /\ UNCHANGED <<arrived, ended>>
    BY <1>14, ScNumbers DEF ReadStashed, Quiet, scNet
  <2>2. PICK x \in Seq(Nat) : x = dec
    BY <1>a DEF ScTypes
  <2>3. PICK f \in Seq(Nat) : f = FirstOf(len, x) /\ f # <<>>
    <3>1. FirstOf(len, x) \in Seq(Nat) /\ FirstOf(len, x) # <<>>
      BY <2>1, <2>2, ScFirstNone
    <3> QED
      BY <3>1, Zenon
  <2>4. call.buf = <<>>
    BY <1>a, <2>1 DEF ScCallInv
  <2>5. <<>> \o f = f
    BY SMT
  <2>6. call.buf \o FirstOf(len, dec) # <<>> /\ read' = read \o (call.buf \o FirstOf(len, dec))
    BY <2>1, <2>2, <2>3, <2>4, <2>5, Zenon
  <2>7. UNCHANGED <<Arrived, ended>>
    BY <1>b, <1>c, <2>1, Zenon
  <2> QED
    BY <1>a, <2>1, <2>6, <2>7, ScTakes DEF Stream!StreamNext
<1>15. ASSUME NEW len \in 1 .. MaxBuf, ReadBegins(len) PROVE [Stream!StreamNext]_(Stream!streamVars)
  BY <1>d, <1>15 DEF ReadBegins, scNet
<1>16. CASE Decrypts
  BY <1>d, <1>16 DEF Decrypts, scNet
<1>17. CASE DecryptFails
  BY <1>d, <1>17 DEF DecryptFails, scNet
<1>18. CASE DecryptIncomplete
  BY <1>d, <1>18 DEF DecryptIncomplete, scNet
<1>19. CASE Recv
  BY <1>d, <1>19 DEF Recv, SockRecv, scNet
<1>20. CASE RecvZero
  BY <1>d, <1>20 DEF RecvZero, scNet
<1>21. CASE ReadReturns
  <2>1. PICK n \in Nat : n = call.len - Len(call.buf)
    BY <1>a DEF ScCallInv, ScTypes, ScCalls
  <2>2. /\ call.at = "return" /\ read' = read \o (call.buf \o FirstOf(n, dec)) /\ arrived' = arrived
        /\ ended' = (ended \/ call.buf \o FirstOf(n, dec) = <<>>)
    BY <1>21, <2>1, Zenon DEF ReadReturns, scNet
  <2>3. session = "open" /\ call.len > 0
    BY <1>a, <2>2 DEF ScCallInv
  <2>4. Arrived' = Arrived
    BY <1>b, <1>c, <2>2, Zenon
  <2>5. CASE call.buf \o FirstOf(n, dec) # <<>>
    <3>1. ended' = ended
      BY <1>a, <2>2, <2>5, Zenon DEF ScFlags
    <3> QED
      BY <1>a, <2>2, <2>3, <2>4, <2>5, <3>1, ScTakes DEF Stream!StreamNext
  <2>6. CASE call.buf \o FirstOf(n, dec) = <<>>
    <3>1. PICK g \in Seq(Nat), b \in Seq(Nat), x \in Seq(Nat) : g = read /\ b = call.buf /\ x = dec
      BY <1>a DEF ScTypes, ScCalls
    <3>2. b = <<>> /\ FirstOf(n, x) = <<>>
      <4>1. PICK f \in Seq(Nat) : f = FirstOf(n, x)
        BY ScFirstNone
      <4>2. b \o f = <<>>
        BY <2>6, <3>1, <4>1, Zenon
      <4>3. b = <<>> /\ f = <<>>
        BY <4>2, SMT
      <4> QED
        BY <4>1, <4>3, Zenon
    <3>3. n > 0
      <4>1. Len(call.buf) = 0
        BY <3>1, <3>2
      <4> QED
        BY <1>a, <2>1, <2>3, <4>1 DEF ScTypes, ScCalls
    <3>4. x = <<>>
      BY <3>2, <3>3, ScFirstNone
    <3>5. eof
      BY <1>a, <2>2, <3>1, <3>2, <3>4, Zenon DEF ScCallInv
    <3>6. Arrived = PlainBefore(taken)
      BY <1>a, <2>3, <3>5, ScEndIsDrained
    <3>7. Len(g) + Len(b) + Len(x) = PlainBefore(taken)
      BY <1>a, <2>3, <3>1, Zenon DEF ScStreamInv
    <3>8. Len(g) = Len(g) + Len(b) + Len(x)
      BY <3>2, <3>4
    <3>9. g \o <<>> = g
      BY SMT
    <3>10. Len(read) = Arrived /\ read' = read /\ ended' = TRUE
      BY <2>2, <2>6, <3>1, <3>6, <3>7, <3>8, <3>9, Zenon
    <3> QED
      BY <2>4, <3>10, Zenon DEF Stream!StreamNext, Stream!End
  <2> QED
    BY <2>5, <2>6, Zenon
<1>22. ASSUME NEW len \in 1 .. writes, WriteBegins(len) PROVE [Stream!StreamNext]_(Stream!streamVars)
  BY <1>d, <1>22 DEF WriteBegins, scNet
<1>23. CASE SendsRecord
  BY <1>d, <1>23 DEF SendsRecord, scNet
<1>24. ASSUME NEW encrypted \in BOOLEAN, SendFails(encrypted) PROVE [Stream!StreamNext]_(Stream!streamVars)
  BY <1>d, <1>24 DEF SendFails, scNet
<1>25. CASE ScClose
  BY <1>d, <1>25 DEF ScClose, scNet
<1>26. CASE UNCHANGED scVars
  BY <1>d, <1>26 DEF scVars, scNet
<1> QED
  BY <1>1, <1>2, <1>3, <1>4, <1>5, <1>6, <1>7, <1>8, <1>9, <1>10,
     <1>11, <1>12, <1>13, <1>14, <1>15, <1>16, <1>17, <1>18, <1>19, <1>20,
     <1>21, <1>22, <1>23, <1>24, <1>25, <1>26
     DEF ScNext

\* https_sc_read gives its caller the peer's bytes in order, none twice and none
\* left out, and the end only when there are no more: for every sequence of
\* records, however the socket cuts them, and through failed and interrupted
\* calls and renegotiations.
THEOREM ScReadsImplement == ScSpec => ScReadsStream
<1>1. ScInit => Stream!StreamInit
  <2> SUFFICES ASSUME ScInit PROVE Stream!StreamInit
    OBVIOUS
  <2>1. Arrived \in Nat
    BY ScInitial, ScConsumedArrived DEF ScInv
  <2> QED
    BY <2>1 DEF ScInit, Stream!StreamInit
<1>2. ScInv /\ [ScNext]_scVars => [Stream!StreamNext]_(Stream!streamVars)
  BY ScReadsStep
<1> QED
  BY <1>1, <1>2, ScInvariant, PTL DEF ScSpec, ScReadsStream, Stream!StreamSpec

=============================================================================
