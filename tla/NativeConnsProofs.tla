-------------------------- MODULE NativeConnsProofs --------------------------
(***************************************************************************)
(* Proofs about MbedConn, for any number of goroutines, all sizes of       *)
(* records and messages and everything the socket may do, and about the    *)
(* three native backends together (MCNativeConns).                         *)
(*                                                                         *)
(* A call checks connState and takes ioMu in two steps, so that what is    *)
(* true of the session is carried by ioMu (MbSessionLive), and whoever     *)
(* writes is alone (MbOutInv).  What the peer has got is then determined   *)
(* by where that one is: between Writes a record that was not sent whole   *)
(* is the beginning of what is to be retried.                              *)
(***************************************************************************)
EXTENDS MCNativeConns, NwConnProofs, SchannelProofs

MbCalls == [at : {"idle", "lock", "read", "write", "flush"},
            call : {"none", "read", "write", "close"}, len : Nat, done : Nat, chunk : Nat]

MbTypes ==
    /\ user \in [Users -> MbCalls]
    /\ came \in Nat /\ whole \in Nat /\ inLeft \in Nat /\ outLeft \in Nat
    /\ mbReported \in Nat /\ retry \in Nat
    /\ inOfft \in Seq(Nat) /\ mbRead \in Seq(Nat)

\* A call in progress has bytes to read or to write.
MbCallInv ==
    \A g \in Users :
        /\ user[g].at = "lock" => user[g].done = 0 /\ (user[g].call # "close" => user[g].len > 0)
        /\ user[g].at = "read" => user[g].len > 0
        /\ user[g].at \in {"write", "flush"} => user[g].done < user[g].len
        /\ user[g].at = "flush" => user[g].chunk = Least(user[g].len - user[g].done, MbMessage)

MbWriter(g) == user[g].at \in {"write", "flush"}

\* Between Writes: a record is left exactly when a Write has failed, and holds
\* the first bytes of its retry.
MbOutIdle ==
    /\ retry # 0 <=> outLeft # 0
    /\ ~strayed =>
          /\ mbPeer = Bytes(0, mbReported)
          /\ outLeft # 0 => outMsg = Bytes(mbReported, mbReported + Least(retry, MbMessage))

\* In a Write of g: the record that is left is of its next bytes.
MbOutOf(g) ==
    LET from == mbReported + user[g].done
    IN  ~strayed =>
          /\ user[g].at = "write" =>
                /\ mbPeer = Bytes(0, from)
                /\ outLeft # 0 =>
                      outMsg = Bytes(from, from + Least(user[g].len - user[g].done, MbMessage))
          /\ user[g].at = "flush" =>
                IF outLeft = 0
                THEN mbPeer = Bytes(0, from + user[g].chunk)
                ELSE mbPeer = Bytes(0, from) /\ outMsg = Bytes(from, from + user[g].chunk)

MbOutInv ==
    /\ (\A g \in Users : ~MbWriter(g)) => MbOutIdle
    /\ \A g \in Users : MbWriter(g) => MbOutOf(g)

\* Read, and decrypted: the plaintext of the whole records.
MbInInv ==
    /\ ScFrom(mbRead, 0) /\ ScFrom(inOfft, Len(mbRead))
    /\ Len(mbRead) + Len(inOfft) = MbPlain * whole
    /\ inLeft <= MbUnits /\ MbUnits * whole + inLeft <= came

MbInv == MbTypes /\ MbCallInv /\ MbSessionLive /\ MbOutInv /\ MbInInv

-----------------------------------------------------------------------------
(* The goroutines.                                                         *)

\* The sizes are numbers, and positive where the code has them so.
LEMMA MbNumbers ==
    /\ MbUnits \in Nat /\ MbUnits > 0 /\ MbPlain \in Nat /\ MbPlain > 0
    /\ MbMessage \in Nat /\ MbMessage > 0 /\ MbArrivals \in Nat /\ MbWritten \in Nat
BY MbSizes

\* Goroutine g gets to r, and the others stay where they are.
MbBecomes(g, r) ==
    /\ user' \in [Users -> MbCalls] /\ user'[g] = r
    /\ \A h \in Users : h # g => user'[h] = user[h]

\* One of them changes.
LEMMA MbOneChanges ==
    ASSUME user \in [Users -> MbCalls], NEW g \in Users, NEW r \in MbCalls, user' = [user EXCEPT ![g] = r]
    PROVE  MbBecomes(g, r)
BY DEF MbBecomes

\* A call returns.
LEMMA MbRests ==
    ASSUME user \in [Users -> MbCalls], NEW g \in Users, user' = [user EXCEPT ![g] = Resting]
    PROVE  MbBecomes(g, Resting) /\ Resting.at = "idle"
<1>1. Resting \in MbCalls /\ Resting.at = "idle"
  BY DEF Resting, MbCalls
<1> QED
  BY <1>1, MbOneChanges

\* A call gets through to ioMu.
LEMMA MbQueues ==
    ASSUME user \in [Users -> MbCalls], NEW g \in Users, NEW c \in {"read", "write"}, NEW n \in Nat,
           Budgeted(g, c, n)
    PROVE  \E r \in MbCalls : MbBecomes(g, r) /\ r.at = "lock" /\ r.call = c /\ r.len = n /\ r.done = 0
<1>1. PICK r : r = [Resting EXCEPT !.at = "lock", !.call = c, !.len = n]
  OBVIOUS
<1>2. r \in MbCalls /\ r.at = "lock" /\ r.call = c /\ r.len = n /\ r.done = 0
  BY <1>1 DEF Resting, MbCalls
<1>3. user' = [user EXCEPT ![g] = r]
  BY <1>1, Zenon DEF Budgeted
<1>4. MbBecomes(g, r)
  BY <1>2, <1>3, MbOneChanges
<1> QED
  BY <1>2, <1>4

\* A Close does.
LEMMA MbQueuesClose ==
    ASSUME user \in [Users -> MbCalls], NEW g \in Users,
           user' = [user EXCEPT ![g] = [Resting EXCEPT !.at = "lock", !.call = "close"]]
    PROVE  \E r \in MbCalls : MbBecomes(g, r) /\ r.at = "lock" /\ r.call = "close" /\ r.done = 0
<1>1. PICK r : r = [Resting EXCEPT !.at = "lock", !.call = "close"]
  OBVIOUS
<1>2. r \in MbCalls /\ r.at = "lock" /\ r.call = "close" /\ r.done = 0
  BY <1>1 DEF Resting, MbCalls
<1>3. MbBecomes(g, r)
  BY <1>1, <1>2, MbOneChanges
<1> QED
  BY <1>2, <1>3

\* A call enters the session.
LEMMA MbEnters ==
    ASSUME user \in [Users -> MbCalls], NEW g \in Users, NEW a \in {"read", "write"},
           user' = [user EXCEPT ![g].at = a]
    PROVE  \E r \in MbCalls : /\ MbBecomes(g, r) /\ r.at = a /\ r.call = user[g].call
                              /\ r.len = user[g].len /\ r.done = user[g].done
<1>1. PICK u \in MbCalls : u = user[g]
  OBVIOUS
<1>2. PICK r : r = [u EXCEPT !.at = a]
  OBVIOUS
<1>3. r \in MbCalls /\ r.at = a /\ r.call = u.call /\ r.len = u.len /\ r.done = u.done
  BY <1>2 DEF MbCalls
<1>4. user' = [user EXCEPT ![g] = r]
  BY <1>1, <1>2
<1>5. MbBecomes(g, r)
  BY <1>3, <1>4, MbOneChanges
<1> QED
  BY <1>1, <1>3, <1>5

\* A record is on its way.
LEMMA MbFlushes ==
    ASSUME user \in [Users -> MbCalls], NEW g \in Users, NEW c \in Nat,
           user' = [user EXCEPT ![g].at = "flush", ![g].chunk = c]
    PROVE  \E r \in MbCalls : /\ MbBecomes(g, r) /\ r.at = "flush" /\ r.chunk = c
                              /\ r.len = user[g].len /\ r.done = user[g].done
<1>1. PICK u \in MbCalls : u = user[g]
  OBVIOUS
<1>2. PICK r : r = [u EXCEPT !.at = "flush", !.chunk = c]
  OBVIOUS
<1>3. r \in MbCalls /\ r.at = "flush" /\ r.chunk = c /\ r.len = u.len /\ r.done = u.done
  BY <1>2 DEF MbCalls
<1>4. user' = [user EXCEPT ![g] = r]
  BY <1>1, <1>2
<1>5. MbBecomes(g, r)
  BY <1>3, <1>4, MbOneChanges
<1> QED
  BY <1>1, <1>3, <1>5

\* A Write goes on with its next bytes.
LEMMA MbGoesOn ==
    ASSUME user \in [Users -> MbCalls], NEW g \in Users, NEW d \in Nat,
           user' = [user EXCEPT ![g].at = "write", ![g].done = d]
    PROVE  \E r \in MbCalls : MbBecomes(g, r) /\ r.at = "write" /\ r.done = d /\ r.len = user[g].len
<1>1. PICK u \in MbCalls : u = user[g]
  OBVIOUS
<1>2. PICK r : r = [u EXCEPT !.at = "write", !.done = d]
  OBVIOUS
<1>3. r \in MbCalls /\ r.at = "write" /\ r.done = d /\ r.len = u.len
  BY <1>2 DEF MbCalls
<1>4. user' = [user EXCEPT ![g] = r]
  BY <1>1, <1>2
<1>5. MbBecomes(g, r)
  BY <1>3, <1>4, MbOneChanges
<1> QED
  BY <1>1, <1>3, <1>5

\* Least is the one or the other.
LEMMA MbLeast ==
    ASSUME NEW a \in Nat, NEW b \in Nat
    PROVE  /\ Least(a, b) \in Nat /\ Least(a, b) <= a /\ Least(a, b) <= b
           /\ (a > 0 /\ b > 0 => Least(a, b) > 0)
BY DEF Least

\* What a call must be at its place.
MbCallOk(c) ==
    /\ c.at = "lock" => c.done = 0 /\ (c.call # "close" => c.len > 0)
    /\ c.at = "read" => c.len > 0
    /\ c.at \in {"write", "flush"} => c.done < c.len
    /\ c.at = "flush" => c.chunk = Least(c.len - c.done, MbMessage)

\* The calls keep that.
LEMMA MbCallStep ==
    ASSUME MbTypes, MbCallInv, [MbNext]_mbVars
    PROVE  user' \in [Users -> MbCalls] /\ MbCallInv'
<1> DEFINE Goal == user' \in [Users -> MbCalls] /\ MbCallInv'
<1> SUFFICES Goal
  OBVIOUS
<1>a. user \in [Users -> MbCalls] /\ \A h \in Users : MbCallOk(user[h])
  BY Zenon DEF MbTypes, MbCallInv, MbCallOk
<1>b. ASSUME user' = user PROVE Goal
  BY <1>b, Zenon DEF MbTypes, MbCallInv
<1>c. ASSUME NEW g \in Users, NEW r, MbBecomes(g, r), MbCallOk(r) PROVE Goal
  <2>1. \A h \in Users : MbCallOk(user'[h])
    BY <1>a, <1>c, Zenon DEF MbBecomes
  <2> QED
    BY <1>c, <2>1, Zenon DEF MbCallInv, MbCallOk, MbBecomes
<1>d. ASSUME NEW g \in Users, user' = [user EXCEPT ![g] = Resting] PROVE Goal
  <2>1. MbBecomes(g, Resting) /\ Resting.at = "idle"
    BY <1>a, <1>d, MbRests
  <2>2. MbCallOk(Resting)
    BY <2>1 DEF MbCallOk
  <2> QED
    BY <1>c, <2>1, <2>2
<1>e. ASSUME NEW g \in Users, NEW c \in {"read", "write"}, NEW n \in Nat, n > 0, Budgeted(g, c, n) PROVE Goal
  <2>1. PICK r \in MbCalls : MbBecomes(g, r) /\ r.at = "lock" /\ r.call = c /\ r.len = n /\ r.done = 0
    BY <1>a, <1>e, MbQueues
  <2>2. MbCallOk(r)
    BY <1>e, <2>1 DEF MbCallOk
  <2> QED
    BY <1>c, <2>1, <2>2
<1>f. ASSUME NEW g \in Users, NEW a \in {"read", "write"}, user' = [user EXCEPT ![g].at = a],
             user[g].at = "lock", user[g].call # "close"
      PROVE  Goal
  <2>1. PICK r \in MbCalls : /\ MbBecomes(g, r) /\ r.at = a /\ r.len = user[g].len /\ r.done = user[g].done
    BY <1>a, <1>f, MbEnters
  <2>2. MbCallOk(user[g])
    BY <1>a
  <2>3. MbCallOk(r)
    BY <1>f, <2>1, <2>2 DEF MbCallOk
  <2> QED
    BY <1>c, <2>1, <2>3
<1>1. CASE PieceArrives
  BY <1>b, <1>1 DEF PieceArrives
<1>2. ASSUME NEW how \in {"notify", "cut"}, StreamEnds(how) PROVE Goal
  BY <1>b, <1>2 DEF StreamEnds
<1>3. ASSUME NEW g \in Users, NEW len \in 1 .. 2 * MbMessage, Budgeted(g, "write", len) PROVE Goal
  <2>1. len \in Nat /\ len > 0
    BY MbNumbers
  <2> QED
    BY <1>e, <1>3, <2>1
<1>4. ASSUME NEW g \in Users, NEW len \in 1 .. MbPlain, Budgeted(g, "read", len) PROVE Goal
  <2>1. len \in Nat /\ len > 0
    BY MbNumbers
  <2> QED
    BY <1>e, <1>4, <2>1
<1>5. ASSUME NEW g \in Users, CloseMarks(g) PROVE Goal
  <2>1. PICK r \in MbCalls : MbBecomes(g, r) /\ r.at = "lock" /\ r.call = "close" /\ r.done = 0
    BY <1>a, <1>5, MbQueuesClose DEF CloseMarks
  <2>2. MbCallOk(r)
    BY <2>1 DEF MbCallOk
  <2> QED
    BY <1>c, <2>1, <2>2
<1>6. ASSUME NEW g \in Users, FindsFreed(g) PROVE Goal
  BY <1>d, <1>6 DEF FindsFreed
<1>7. ASSUME NEW g \in Users, EntersRead(g) PROVE Goal
  BY <1>f, <1>7 DEF EntersRead
<1>8. ASSUME NEW g \in Users, EntersWrite(g) PROVE Goal
  BY <1>f, <1>8 DEF EntersWrite
<1>9. ASSUME NEW g \in Users, ClosesSession(g) PROVE Goal
  BY <1>d, <1>9 DEF ClosesSession
<1>10. ASSUME NEW g \in Users, ReadTakes(g) PROVE Goal
  BY <1>d, <1>10 DEF ReadTakes, MbLeaves
<1>11. ASSUME NEW g \in Users, ReadRecord(g) PROVE Goal
  BY <1>b, <1>11 DEF ReadRecord
<1>12. ASSUME NEW g \in Users, ReadEnds(g) PROVE Goal
  BY <1>d, <1>12 DEF ReadEnds, MbLeaves
<1>13. ASSUME NEW g \in Users, ReadFails(g) PROVE Goal
  BY <1>d, <1>13 DEF ReadFails, MbLeaves
<1>14. ASSUME NEW g \in Users, NEW n \in 1 .. MbUnits, BioRecv(g, n) PROVE Goal
  BY <1>b, <1>14 DEF BioRecv
<1>15. ASSUME NEW g \in Users, NEW n \in 1 .. MbUnits, BioSend(g, n) PROVE Goal
  BY <1>b, <1>15 DEF BioSend
<1>16. ASSUME NEW g \in Users, SslWrite(g) PROVE Goal
  <2>1. PICK u \in MbCalls : u = user[g] /\ MbCallOk(u) /\ u.at = "write"
    BY <1>a, <1>16 DEF SslWrite
  <2>2. u.done < u.len /\ u.len \in Nat /\ u.done \in Nat /\ u.len - u.done \in Nat
    BY <2>1 DEF MbCallOk, MbCalls
  <2>3. PICK c \in Nat : c = Least(u.len - u.done, MbMessage)
    BY <2>2, MbLeast, MbNumbers
  <2>4. user' = [user EXCEPT ![g].at = "flush", ![g].chunk = c]
    BY <1>16, <2>1, <2>3, Zenon DEF SslWrite
  <2>5. PICK r \in MbCalls : MbBecomes(g, r) /\ r.at = "flush" /\ r.chunk = c /\ r.len = u.len /\ r.done = u.done
    BY <1>a, <2>1, <2>4, MbFlushes
  <2>6. MbCallOk(r)
    BY <2>2, <2>3, <2>5 DEF MbCallOk
  <2> QED
    BY <1>c, <2>5, <2>6
<1>17. ASSUME NEW g \in Users, Flushed(g) PROVE Goal
  <2>1. PICK u \in MbCalls : u = user[g]
    BY <1>a
  <2>2. PICK d \in Nat : d = u.done + u.chunk
    BY DEF MbCalls
  <2>3. CASE d < u.len
    <3>1. user' = [user EXCEPT ![g].at = "write", ![g].done = d]
      BY <1>17, <2>1, <2>2, <2>3, Zenon DEF Flushed
    <3>2. PICK r \in MbCalls : MbBecomes(g, r) /\ r.at = "write" /\ r.done = d /\ r.len = u.len
      BY <1>a, <2>1, <3>1, MbGoesOn
    <3>3. MbCallOk(r)
      BY <2>3, <3>2 DEF MbCallOk
    <3> QED
      BY <1>c, <3>2, <3>3
  <2>4. CASE ~(d < u.len)
    <3>1. MbLeaves(g)
      BY <1>17, <2>1, <2>2, <2>4, Zenon DEF Flushed
    <3> QED
      BY <1>d, <3>1 DEF MbLeaves
  <2> QED
    BY <2>3, <2>4
<1>18. ASSUME NEW g \in Users, WriteFails(g) PROVE Goal
  BY <1>d, <1>18 DEF WriteFails, MbLeaves
<1>19. CASE UNCHANGED mbVars
  BY <1>b, <1>19 DEF mbVars
<1> HIDE DEF Goal
<1> QED
  BY <1>1, <1>2, <1>3, <1>4, <1>5, <1>6, <1>7, <1>8, <1>9, <1>10,
     <1>11, <1>12, <1>13, <1>14, <1>15, <1>16, <1>17, <1>18, <1>19
     DEF MbNext, MbStep

-----------------------------------------------------------------------------
(* The session and its lock.                                               *)

\* Whoever is in the session has ioMu, and the session is not freed.
LEMMA MbLiveStep ==
    ASSUME MbTypes, MbCallInv, MbSessionLive, [MbNext]_mbVars
    PROVE  MbSessionLive'
<1> DEFINE In(c) == c.at \in {"read", "write", "flush"}
<1>a. user \in [Users -> MbCalls] /\ \A h \in Users : In(user[h]) => mbSession = "open" /\ ioMu = {h}
  BY DEF MbTypes, MbSessionLive
<1>b. ASSUME user' = user, UNCHANGED <<ioMu, mbSession>> PROVE MbSessionLive'
  BY <1>b, Zenon DEF MbSessionLive
<1>c. ASSUME NEW g \in Users, NEW r, MbBecomes(g, r), ~In(r), UNCHANGED <<ioMu, mbSession>> PROVE MbSessionLive'
  BY <1>a, <1>c DEF MbSessionLive, MbBecomes
<1>d. ASSUME NEW g \in Users, In(user[g]), MbLeaves(g) PROVE MbSessionLive'
  <2>1. MbBecomes(g, Resting) /\ Resting.at = "idle"
    BY <1>a, <1>d, MbRests DEF MbLeaves
  <2>2. ASSUME NEW h \in Users, In(user'[h]) PROVE FALSE
    <3>1. h # g
      BY <2>1, <2>2 DEF MbBecomes
    <3>2. user'[h] = user[h]
      BY <2>1, <3>1, Zenon DEF MbBecomes
    <3>3. ioMu = {h} /\ ioMu = {g}
      BY <1>a, <1>d, <2>2, <3>2
    <3> QED
      BY <3>1, <3>3
  <2> QED
    BY <2>2 DEF MbSessionLive
<1>e. ASSUME NEW g \in Users, NEW r, MbBecomes(g, r), ioMu = {}, ioMu' = {g}, mbSession = "open", mbSession' = "open"
      PROVE  MbSessionLive'
  <2>1. ASSUME NEW h \in Users, In(user'[h]) PROVE h = g
    <3>1. SUFFICES ASSUME h # g PROVE FALSE
      OBVIOUS
    <3>2. user'[h] = user[h]
      BY <1>e, <3>1, Zenon DEF MbBecomes
    <3> QED
      BY <1>a, <1>e, <2>1, <3>2
  <2> QED
    BY <1>e, <2>1 DEF MbSessionLive
<1>f. ASSUME NEW g \in Users, NEW r, MbBecomes(g, r), In(user[g]), UNCHANGED <<ioMu, mbSession>> PROVE MbSessionLive'
  <2>1. ASSUME NEW h \in Users, In(user'[h]) PROVE mbSession' = "open" /\ ioMu' = {h}
    BY <1>a, <1>f, <2>1 DEF MbBecomes
  <2> QED
    BY <2>1 DEF MbSessionLive
<1>1. CASE PieceArrives
  BY <1>b, <1>1 DEF PieceArrives, mbConn
<1>2. ASSUME NEW how \in {"notify", "cut"}, StreamEnds(how) PROVE MbSessionLive'
  BY <1>b, <1>2 DEF StreamEnds, mbConn
<1>3. ASSUME NEW g \in Users, NEW len \in 1 .. 2 * MbMessage, Budgeted(g, "write", len) PROVE MbSessionLive'
  <2>1. len \in Nat /\ UNCHANGED <<ioMu, mbSession>>
    BY <1>3, MbNumbers DEF Budgeted, mbConn
  <2>2. PICK r \in MbCalls : MbBecomes(g, r) /\ r.at = "lock"
    BY <1>a, <1>3, <2>1, MbQueues
  <2> QED
    BY <1>c, <2>1, <2>2
<1>4. ASSUME NEW g \in Users, NEW len \in 1 .. MbPlain, Budgeted(g, "read", len) PROVE MbSessionLive'
  <2>1. len \in Nat /\ UNCHANGED <<ioMu, mbSession>>
    BY <1>4, MbNumbers DEF Budgeted, mbConn
  <2>2. PICK r \in MbCalls : MbBecomes(g, r) /\ r.at = "lock"
    BY <1>a, <1>4, <2>1, MbQueues
  <2> QED
    BY <1>c, <2>1, <2>2
<1>5. ASSUME NEW g \in Users, CloseMarks(g) PROVE MbSessionLive'
  <2>1. PICK r \in MbCalls : MbBecomes(g, r) /\ r.at = "lock"
    BY <1>a, <1>5, MbQueuesClose DEF CloseMarks
  <2>2. UNCHANGED <<ioMu, mbSession>>
    BY <1>5 DEF CloseMarks
  <2> QED
    BY <1>c, <2>1, <2>2
<1>6. ASSUME NEW g \in Users, FindsFreed(g) PROVE MbSessionLive'
  <2>1. MbBecomes(g, Resting) /\ Resting.at = "idle" /\ UNCHANGED <<ioMu, mbSession>>
    BY <1>a, <1>6, MbRests DEF FindsFreed, mbConn
  <2> QED
    BY <1>c, <2>1
<1>7. ASSUME NEW g \in Users, EntersRead(g) PROVE MbSessionLive'
  <2>1. PICK r \in MbCalls : MbBecomes(g, r)
    BY <1>a, <1>7, MbEnters DEF EntersRead
  <2> QED
    BY <1>e, <1>7, <2>1 DEF EntersRead
<1>8. ASSUME NEW g \in Users, EntersWrite(g) PROVE MbSessionLive'
  <2>1. PICK r \in MbCalls : MbBecomes(g, r)
    BY <1>a, <1>8, MbEnters DEF EntersWrite
  <2> QED
    BY <1>e, <1>8, <2>1 DEF EntersWrite
<1>9. ASSUME NEW g \in Users, ClosesSession(g) PROVE MbSessionLive'
  <2>1. MbBecomes(g, Resting) /\ Resting.at = "idle" /\ ioMu = {}
    BY <1>a, <1>9, MbRests DEF ClosesSession
  <2>2. ASSUME NEW h \in Users, In(user'[h]) PROVE FALSE
    BY <1>a, <2>1, <2>2 DEF MbBecomes
  <2> QED
    BY <2>2 DEF MbSessionLive
<1>10. ASSUME NEW g \in Users, ReadTakes(g) PROVE MbSessionLive'
  BY <1>d, <1>10 DEF ReadTakes
<1>11. ASSUME NEW g \in Users, ReadRecord(g) PROVE MbSessionLive'
  BY <1>b, <1>11 DEF ReadRecord, mbConn
<1>12. ASSUME NEW g \in Users, ReadEnds(g) PROVE MbSessionLive'
  BY <1>d, <1>12 DEF ReadEnds
<1>13. ASSUME NEW g \in Users, ReadFails(g) PROVE MbSessionLive'
  BY <1>d, <1>13 DEF ReadFails
<1>14. ASSUME NEW g \in Users, NEW n \in 1 .. MbUnits, BioRecv(g, n) PROVE MbSessionLive'
  BY <1>b, <1>14 DEF BioRecv, mbConn
<1>15. ASSUME NEW g \in Users, NEW n \in 1 .. MbUnits, BioSend(g, n) PROVE MbSessionLive'
  BY <1>b, <1>15 DEF BioSend, mbConn
<1>16. ASSUME NEW g \in Users, SslWrite(g) PROVE MbSessionLive'
  <2>1. PICK r : MbBecomes(g, r)
    <3>1. PICK u \in MbCalls : u = user[g]
      BY <1>a
    <3>2. PICK c : c = Least(u.len - u.done, MbMessage)
      OBVIOUS
    <3>3. user' = [user EXCEPT ![g].at = "flush", ![g].chunk = c]
      BY <1>16, <3>1, <3>2, Zenon DEF SslWrite
    <3>4. c \in Nat
      <4>1. user[g].at = "write"
        BY <1>16 DEF SslWrite
      <4>2. u.done < u.len
        BY <3>1, <4>1 DEF MbCallInv
      <4>3. u.len - u.done \in Nat
        BY <4>2 DEF MbCalls
      <4> QED
        BY <3>2, <4>3, MbLeast, MbNumbers
    <3> QED
      BY <1>a, <3>3, <3>4, MbFlushes
  <2>2. In(user[g]) /\ UNCHANGED <<ioMu, mbSession>>
    BY <1>16 DEF SslWrite, mbConn
  <2> QED
    BY <1>f, <2>1, <2>2
<1>17. ASSUME NEW g \in Users, Flushed(g) PROVE MbSessionLive'
  <2>1. PICK u \in MbCalls : u = user[g]
    BY <1>a
  <2>2. PICK d \in Nat : d = u.done + u.chunk
    BY DEF MbCalls
  <2>3. In(user[g]) /\ mbSession' = mbSession
    BY <1>17 DEF Flushed
  <2>4. CASE d < u.len
    <3>1. user' = [user EXCEPT ![g].at = "write", ![g].done = d] /\ ioMu' = ioMu
      BY <1>17, <2>1, <2>2, <2>4, Zenon DEF Flushed
    <3>2. PICK r \in MbCalls : MbBecomes(g, r)
      BY <1>a, <3>1, MbGoesOn
    <3> QED
      BY <1>f, <2>3, <3>1, <3>2
  <2>5. CASE ~(d < u.len)
    <3>1. MbLeaves(g)
      BY <1>17, <2>1, <2>2, <2>5, Zenon DEF Flushed
    <3> QED
      BY <1>d, <2>3, <3>1
  <2> QED
    BY <2>4, <2>5
<1>18. ASSUME NEW g \in Users, WriteFails(g) PROVE MbSessionLive'
  BY <1>d, <1>18 DEF WriteFails
<1>19. CASE UNCHANGED mbVars
  BY <1>b, <1>19 DEF mbVars, mbConn
<1> QED
  BY <1>1, <1>2, <1>3, <1>4, <1>5, <1>6, <1>7, <1>8, <1>9, <1>10,
     <1>11, <1>12, <1>13, <1>14, <1>15, <1>16, <1>17, <1>18, <1>19
     DEF MbNext, MbStep

-----------------------------------------------------------------------------
(* Writes.                                                                 *)

\* The numbers from a + 1 to b, as a numbered sequence.
LEMMA MbBytes ==
    ASSUME NEW a \in Nat, NEW c \in Nat
    PROVE  Bytes(a, a + c) \in Seq(Nat) /\ Len(Bytes(a, a + c)) = c /\ ScFrom(Bytes(a, a + c), a)
<1> DEFINE q == [i \in 1 .. c |-> a + i]
<1>1. Bytes(a, a + c) = q
  <2>1. (a + c) - a = c
    OBVIOUS
  <2> QED
    BY <2>1, Zenon DEF Bytes
<1>2. q \in Seq(Nat) /\ Len(q) = c
  OBVIOUS
<1>3. \A i \in 1 .. c : q[i] = a + i
  OBVIOUS
<1> HIDE DEF q
<1> QED
  BY <1>1, <1>2, <1>3, Zenon DEF ScFrom

\* The peer has the first bytes and gets the next ones.
LEMMA MbBytesJoin ==
    ASSUME NEW a \in Nat, NEW c \in Nat
    PROVE  Bytes(0, a) \o Bytes(a, a + c) = Bytes(0, a + c)
<1>1. 0 \in Nat /\ 0 + a = a /\ a + c \in Nat /\ (a + c) - 0 = a + c
  OBVIOUS
<1>2. PICK p \in Seq(Nat), q \in Seq(Nat) :
         /\ p = Bytes(0, a) /\ Len(p) = a /\ ScFrom(p, 0)
         /\ q = Bytes(a, a + c) /\ Len(q) = c /\ ScFrom(q, a)
  <2>1. Bytes(0, 0 + a) \in Seq(Nat) /\ Len(Bytes(0, 0 + a)) = a /\ ScFrom(Bytes(0, 0 + a), 0)
    BY <1>1, MbBytes
  <2> QED
    BY <1>1, <2>1, MbBytes
<1>3. ScFrom(q, 0 + Len(p))
  BY <1>1, <1>2, Zenon
<1>4. PICK h \in Seq(Nat) : h = p \o q /\ Len(h) = a + c /\ ScFrom(h, 0)
  BY <1>1, <1>2, <1>3, ScNumbered
<1>5. h = [i \in 1 .. a + c |-> 0 + i]
  BY <1>1, <1>4, ScFromIs
<1>6. h = Bytes(0, a + c)
  BY <1>1, <1>5, Zenon DEF Bytes
<1> QED
  BY <1>2, <1>4, <1>6, Zenon

\* Whoever is in the session is the only one that can be writing.
LEMMA MbAlone ==
    ASSUME MbSessionLive, NEW g \in Users, user[g].at \in {"read", "write", "flush"}
    PROVE  \A h \in Users : h # g => ~MbWriter(h)
<1>1. SUFFICES ASSUME NEW h \in Users, h # g, MbWriter(h) PROVE FALSE
  OBVIOUS
<1>2. ioMu = {g}
  BY DEF MbSessionLive
<1>3. ioMu = {h}
  BY <1>1 DEF MbSessionLive, MbWriter
<1> QED
  BY <1>1, <1>2, <1>3

\* What the peer has, and what is left of a record, follows the writer.
LEMMA MbOutStep ==
    ASSUME MbTypes, MbCallInv, MbSessionLive, MbOutInv, [MbNext]_mbVars
    PROVE  MbOutInv'
<1> DEFINE W(c) == c.at \in {"write", "flush"}
<1>a. user \in [Users -> MbCalls] /\ (\A h \in Users : MbCallOk(user[h])) /\ mbReported \in Nat /\ outLeft \in Nat
  BY Zenon DEF MbTypes, MbCallInv, MbCallOk
<1>b. ASSUME UNCHANGED mbOut, \A h \in Users : user'[h] = user[h] \/ (~W(user[h]) /\ ~W(user'[h]))
      PROVE  MbOutInv'
  <2>1. UNCHANGED <<outMsg, outLeft, mbPeer, mbReported, retry, strayed>>
    BY <1>b DEF mbOut
  <2>2. ASSUME \A h \in Users : ~W(user'[h]) PROVE MbOutIdle'
    <3>1. \A h \in Users : ~MbWriter(h)
      BY <1>b, <2>2, Zenon DEF MbWriter
    <3>2. MbOutIdle
      BY <3>1, Zenon DEF MbOutInv
    <3> QED
      BY <2>1, <3>2, Zenon DEF MbOutIdle
  <2>3. ASSUME NEW h \in Users, W(user'[h]) PROVE MbOutOf(h)'
    <3>1. user'[h] = user[h] /\ MbWriter(h)
      BY <1>b, <2>3, Zenon DEF MbWriter
    <3>2. MbOutOf(h)
      BY <3>1, Zenon DEF MbOutInv
    <3> QED
      BY <2>1, <3>1, <3>2, Zenon DEF MbOutOf
  <2> QED
    BY <2>2, <2>3, Zenon DEF MbOutInv, MbWriter
<1>c. ASSUME NEW g \in Users, NEW r, MbBecomes(g, r), ~W(user[g]), ~W(r), UNCHANGED mbOut PROVE MbOutInv'
  BY <1>b, <1>c, Zenon DEF MbBecomes
<1>d. ASSUME NEW g \in Users, ~W(user[g]), user' = [user EXCEPT ![g] = Resting], UNCHANGED mbOut PROVE MbOutInv'
  <2>1. MbBecomes(g, Resting) /\ Resting.at = "idle"
    BY <1>a, <1>d, MbRests
  <2> QED
    BY <1>c, <1>d, <2>1
<1>e. ASSUME NEW g \in Users, NEW r, MbBecomes(g, r), ~W(r), \A h \in Users : h # g => ~MbWriter(h), MbOutIdle'
      PROVE  MbOutInv'
  <2>1. \A h \in Users : ~W(user'[h])
    BY <1>e, Zenon DEF MbBecomes, MbWriter
  <2> QED
    BY <1>e, <2>1, Zenon DEF MbOutInv, MbWriter
<1>f. ASSUME NEW g \in Users, NEW r, MbBecomes(g, r), W(r), \A h \in Users : h # g => ~MbWriter(h), MbOutOf(g)'
      PROVE  MbOutInv'
  <2>1. \A h \in Users : W(user'[h]) => h = g
    BY <1>f, Zenon DEF MbBecomes, MbWriter
  <2>2. W(user'[g])
    BY <1>f, Zenon DEF MbBecomes
  <2> QED
    BY <1>f, <2>1, <2>2, Zenon DEF MbOutInv, MbWriter
<1>g. ASSUME NEW g \in Users, NEW c \in {"read", "write"}, NEW n \in Nat, Budgeted(g, c, n) PROVE MbOutInv'
  <2>1. PICK r \in MbCalls : MbBecomes(g, r) /\ r.at = "lock"
    BY <1>a, <1>g, MbQueues
  <2>2. user[g] = Resting /\ UNCHANGED mbOut
    BY <1>g DEF Budgeted
  <2>3. ~W(user[g])
    BY <2>2 DEF Resting
  <2> QED
    BY <1>c, <2>1, <2>2, <2>3
<1>1. CASE PieceArrives
  BY <1>b, <1>1 DEF PieceArrives
<1>2. ASSUME NEW how \in {"notify", "cut"}, StreamEnds(how) PROVE MbOutInv'
  BY <1>b, <1>2 DEF StreamEnds
<1>3. ASSUME NEW g \in Users, NEW len \in 1 .. 2 * MbMessage, Budgeted(g, "write", len) PROVE MbOutInv'
  <2>1. len \in Nat
    BY MbNumbers
  <2> QED
    BY <1>g, <1>3, <2>1
<1>4. ASSUME NEW g \in Users, NEW len \in 1 .. MbPlain, Budgeted(g, "read", len) PROVE MbOutInv'
  <2>1. len \in Nat
    BY MbNumbers
  <2> QED
    BY <1>g, <1>4, <2>1
<1>5. ASSUME NEW g \in Users, CloseMarks(g) PROVE MbOutInv'
  <2>1. PICK r \in MbCalls : MbBecomes(g, r) /\ r.at = "lock"
    BY <1>a, <1>5, MbQueuesClose DEF CloseMarks
  <2>2. user[g] = Resting /\ UNCHANGED mbOut
    BY <1>5 DEF CloseMarks
  <2>3. ~W(user[g])
    BY <2>2 DEF Resting
  <2> QED
    BY <1>c, <2>1, <2>2, <2>3
<1>6. ASSUME NEW g \in Users, FindsFreed(g) PROVE MbOutInv'
  BY <1>d, <1>6 DEF FindsFreed
<1>7. ASSUME NEW g \in Users, EntersRead(g) PROVE MbOutInv'
  <2>1. PICK r \in MbCalls : MbBecomes(g, r) /\ r.at = "read"
    BY <1>a, <1>7, MbEnters DEF EntersRead
  <2> QED
    BY <1>c, <1>7, <2>1 DEF EntersRead
<1>8. ASSUME NEW g \in Users, EntersWrite(g) PROVE MbOutInv'
  <2>1. PICK u \in MbCalls : u = user[g] /\ MbCallOk(u) /\ u.at = "lock"
    BY <1>a, <1>8 DEF EntersWrite
  <2>2. PICK r \in MbCalls : MbBecomes(g, r) /\ r.at = "write" /\ r.len = u.len /\ r.done = u.done
    BY <1>a, <1>8, <2>1, MbEnters DEF EntersWrite
  <2>3. r.done = 0 /\ r.len \in Nat
    BY <2>1, <2>2 DEF MbCallOk, MbCalls
  <2>4. \A h \in Users : ~MbWriter(h)
    BY <1>8 DEF EntersWrite, MbSessionLive, MbWriter
  <2>5. MbOutIdle
    BY <2>4, Zenon DEF MbOutInv
  <2>6. /\ UNCHANGED <<outMsg, outLeft, mbPeer, mbReported, retry>>
        /\ strayed' = (strayed \/ (retry # 0 /\ u.len # retry))
    BY <1>8, <2>1, Zenon DEF EntersWrite
  <2>7. mbReported + r.done = mbReported /\ r.len - r.done = r.len
    BY <1>a, <2>3
  <2>8. user'[g] = r
    BY <2>2, Zenon DEF MbBecomes
  <2>9. ASSUME ~strayed' PROVE mbPeer' = Bytes(0, mbReported' + r.done)
    BY <2>5, <2>6, <2>7, <2>9, Zenon DEF MbOutIdle
  <2>10. ASSUME ~strayed', outLeft' # 0
         PROVE  outMsg' = Bytes(mbReported' + r.done, mbReported' + r.done + Least(r.len - r.done, MbMessage))
    <3>1. ~strayed /\ outLeft # 0 /\ retry # 0
      BY <2>5, <2>6, <2>10, Zenon DEF MbOutIdle
    <3>2. retry = r.len
      BY <2>2, <2>6, <2>10, <3>1, Zenon
    <3> QED
      BY <2>5, <2>6, <2>7, <3>1, <3>2, Zenon DEF MbOutIdle
  <2>11. MbOutOf(g)'
    BY <2>2, <2>8, <2>9, <2>10 DEF MbOutOf
  <2> QED
    BY <1>f, <2>2, <2>4, <2>11
<1>9. ASSUME NEW g \in Users, ClosesSession(g) PROVE MbOutInv'
  BY <1>d, <1>9 DEF ClosesSession
<1>10. ASSUME NEW g \in Users, ReadTakes(g) PROVE MbOutInv'
  BY <1>d, <1>10 DEF ReadTakes, MbLeaves
<1>11. ASSUME NEW g \in Users, ReadRecord(g) PROVE MbOutInv'
  BY <1>b, <1>11 DEF ReadRecord
<1>12. ASSUME NEW g \in Users, ReadEnds(g) PROVE MbOutInv'
  BY <1>d, <1>12 DEF ReadEnds, MbLeaves
<1>13. ASSUME NEW g \in Users, ReadFails(g) PROVE MbOutInv'
  BY <1>d, <1>13 DEF ReadFails, MbLeaves
<1>14. ASSUME NEW g \in Users, NEW n \in 1 .. MbUnits, BioRecv(g, n) PROVE MbOutInv'
  BY <1>b, <1>14 DEF BioRecv
<1>15. ASSUME NEW g \in Users, NEW n \in 1 .. MbUnits, BioSend(g, n) PROVE MbOutInv'
  <2>1. PICK u \in MbCalls : u = user[g] /\ u.at = "flush" /\ user' = user
    BY <1>a, <1>15 DEF BioSend
  <2>2. PICK o \in Nat, c \in Nat : o = mbReported + u.done /\ c = u.chunk
    BY <1>a DEF MbCalls
  <2>3. /\ UNCHANGED <<outMsg, mbReported, retry, strayed>> /\ n <= outLeft
        /\ outLeft' = outLeft - n /\ mbPeer' = IF outLeft = n THEN mbPeer \o outMsg ELSE mbPeer
    BY <1>15, Zenon DEF BioSend
  <2>4. n > 0 /\ outLeft # 0 /\ (outLeft' = 0 <=> outLeft = n)
    BY <1>a, <2>3, MbNumbers
  <2>5. \A h \in Users : h # g => ~MbWriter(h)
    BY <2>1, MbAlone
  <2>6. ASSUME ~strayed PROVE mbPeer = Bytes(0, o) /\ outMsg = Bytes(o, o + c)
    <3>1. MbOutOf(g) /\ user[g].at = "flush"
      BY <2>1 DEF MbOutInv, MbWriter
    <3> QED
      BY <2>1, <2>2, <2>4, <2>6, <3>1, Zenon DEF MbOutOf
  <2>7. ASSUME ~strayed', outLeft' = 0 PROVE mbPeer' = Bytes(0, o + c)
    BY <2>3, <2>4, <2>6, <2>7, MbBytesJoin
  <2>8. ASSUME ~strayed', outLeft' # 0 PROVE mbPeer' = Bytes(0, o) /\ outMsg' = Bytes(o, o + c)
    BY <2>3, <2>4, <2>6, <2>8, Zenon
  <2>9. user'[g] = u /\ mbReported' + u.done = o /\ u.chunk = c /\ u.at # "write"
    BY <2>1, <2>2, <2>3
  <2>10. MbOutOf(g)'
    BY <2>7, <2>8, <2>9, Zenon DEF MbOutOf
  <2>11. MbBecomes(g, u)
    BY <1>a, <2>1, Zenon DEF MbBecomes
  <2> QED
    BY <1>f, <2>1, <2>5, <2>10, <2>11
<1>16. ASSUME NEW g \in Users, SslWrite(g) PROVE MbOutInv'
  <2>1. PICK u \in MbCalls : u = user[g] /\ MbCallOk(u) /\ u.at = "write"
    BY <1>a, <1>16 DEF SslWrite
  <2>2. u.done < u.len /\ u.len \in Nat /\ u.done \in Nat /\ u.len - u.done \in Nat
    BY <2>1 DEF MbCallOk, MbCalls
  <2>3. PICK c \in Nat : c = Least(u.len - u.done, MbMessage)
    BY <2>2, MbLeast, MbNumbers
  <2>4. PICK o \in Nat : o = mbReported + u.done
    BY <1>a, <2>2
  <2>5. /\ user' = [user EXCEPT ![g].at = "flush", ![g].chunk = c]
        /\ IF outLeft = 0 THEN outMsg' = Bytes(o, o + c) /\ outLeft' = MbUnits
                          ELSE UNCHANGED <<outMsg, outLeft>>
        /\ UNCHANGED <<mbPeer, mbReported, retry, strayed>>
    BY <1>16, <2>1, <2>3, <2>4, Zenon DEF SslWrite
  <2>6. PICK r \in MbCalls : MbBecomes(g, r) /\ r.at = "flush" /\ r.chunk = c /\ r.len = u.len /\ r.done = u.done
    BY <1>a, <2>1, <2>5, MbFlushes
  <2>7. \A h \in Users : h # g => ~MbWriter(h)
    BY <2>1, MbAlone
  <2>8. ASSUME ~strayed
        PROVE  mbPeer = Bytes(0, o) /\ (outLeft # 0 => outMsg = Bytes(o, o + c))
    <3>1. MbOutOf(g) /\ user[g].at = "write"
      BY <2>1 DEF MbOutInv, MbWriter
    <3> QED
      BY <2>1, <2>3, <2>4, <2>8, <3>1, Zenon DEF MbOutOf
  <2>9. outLeft' # 0
    BY <2>5, MbNumbers
  <2>10. ASSUME ~strayed' PROVE mbPeer' = Bytes(0, o) /\ outMsg' = Bytes(o, o + c)
    BY <2>5, <2>8, <2>10, Zenon
  <2>11. user'[g] = r /\ mbReported' + r.done = o /\ r.chunk = c /\ r.at # "write"
    BY <2>4, <2>5, <2>6 DEF MbBecomes
  <2>12. MbOutOf(g)'
    BY <2>9, <2>10, <2>11, Zenon DEF MbOutOf
  <2> QED
    BY <1>f, <2>6, <2>7, <2>12
<1>17. ASSUME NEW g \in Users, Flushed(g) PROVE MbOutInv'
  <2>1. PICK u \in MbCalls : u = user[g] /\ u.at = "flush"
    BY <1>a, <1>17 DEF Flushed
  <2>2. PICK d \in Nat, o \in Nat : /\ d = u.done + u.chunk /\ o = mbReported + u.done + u.chunk
                                    /\ mbReported + d = o
    BY <1>a DEF MbCalls
  <2>3. outLeft = 0 /\ UNCHANGED <<outMsg, outLeft, mbPeer, strayed>>
    BY <1>17 DEF Flushed
  <2>4. \A h \in Users : h # g => ~MbWriter(h)
    BY <2>1, MbAlone
  <2>5. ASSUME ~strayed PROVE mbPeer = Bytes(0, o)
    <3>1. MbOutOf(g) /\ user[g].at = "flush"
      BY <2>1 DEF MbOutInv, MbWriter
    <3> QED
      BY <2>1, <2>2, <2>3, <2>5, <3>1, Zenon DEF MbOutOf
  <2>6. CASE d < u.len
    <3>1. user' = [user EXCEPT ![g].at = "write", ![g].done = d] /\ UNCHANGED <<mbReported, retry>>
      BY <1>17, <2>1, <2>2, <2>6, Zenon DEF Flushed
    <3>2. PICK r \in MbCalls : MbBecomes(g, r) /\ r.at = "write" /\ r.done = d /\ r.len = u.len
      BY <1>a, <2>1, <3>1, MbGoesOn
    <3>3. user'[g] = r /\ mbReported' + r.done = o /\ r.at # "flush"
      BY <2>2, <3>1, <3>2 DEF MbBecomes
    <3>4. MbOutOf(g)'
      BY <2>3, <2>5, <3>3, Zenon DEF MbOutOf
    <3> QED
      BY <1>f, <2>4, <3>2, <3>4
  <2>7. CASE ~(d < u.len)
    <3>1. MbLeaves(g) /\ mbReported' = mbReported + d /\ retry' = 0
      BY <1>17, <2>1, <2>2, <2>7, Zenon DEF Flushed
    <3>2. MbBecomes(g, Resting) /\ Resting.at = "idle"
      BY <1>a, <3>1, MbRests DEF MbLeaves
    <3>3. MbOutIdle'
      BY <2>2, <2>3, <2>5, <3>1, Zenon DEF MbOutIdle
    <3> QED
      BY <1>e, <2>4, <3>2, <3>3
  <2> QED
    BY <2>6, <2>7
<1>18. ASSUME NEW g \in Users, WriteFails(g) PROVE MbOutInv'
  <2>1. PICK u \in MbCalls : u = user[g] /\ MbCallOk(u) /\ u.at = "flush"
    BY <1>a, <1>18 DEF WriteFails
  <2>2. u.done < u.len /\ u.len \in Nat /\ u.done \in Nat
    BY <2>1 DEF MbCallOk, MbCalls
  <2>3. PICK o \in Nat, l \in Nat : o = mbReported + u.done /\ l = u.len - u.done /\ l # 0
    BY <1>a, <2>2
  <2>4. /\ outLeft # 0 /\ UNCHANGED <<outMsg, outLeft, mbPeer, strayed>>
        /\ mbReported' = o /\ retry' = l /\ MbLeaves(g)
    <3>1. outLeft > 0
      BY <1>18 DEF WriteFails
    <3>2. outLeft # 0
      BY <1>a, <3>1
    <3> QED
      BY <1>18, <2>1, <2>3, <3>2, Zenon DEF WriteFails
  <2>5. \A h \in Users : h # g => ~MbWriter(h)
    BY <2>1, MbAlone
  <2>6. u.chunk = Least(l, MbMessage)
    BY <2>1, <2>3 DEF MbCallOk
  <2>7. ASSUME ~strayed PROVE mbPeer = Bytes(0, o) /\ outMsg = Bytes(o, o + Least(l, MbMessage))
    <3>1. MbOutOf(g) /\ user[g].at = "flush"
      BY <2>1 DEF MbOutInv, MbWriter
    <3> QED
      BY <2>1, <2>3, <2>4, <2>6, <2>7, <3>1, Zenon DEF MbOutOf
  <2>8. MbOutIdle'
    BY <2>3, <2>4, <2>7, Zenon DEF MbOutIdle
  <2>9. MbBecomes(g, Resting) /\ Resting.at = "idle"
    BY <1>a, <2>4, MbRests DEF MbLeaves
  <2> QED
    BY <1>e, <2>5, <2>8, <2>9
<1>19. CASE UNCHANGED mbVars
  BY <1>b, <1>19 DEF mbVars
<1> QED
  BY <1>1, <1>2, <1>3, <1>4, <1>5, <1>6, <1>7, <1>8, <1>9, <1>10,
     <1>11, <1>12, <1>13, <1>14, <1>15, <1>16, <1>17, <1>18, <1>19
     DEF MbNext, MbStep

-----------------------------------------------------------------------------
(* Reads.                                                                  *)

\* The first n bytes of a sequence and the others, numbered behind others.
MbCut(g, x, n) ==
    \E h \in Seq(Nat), r \in Seq(Nat) :
        /\ h = g \o SubSeq(x, 1, n) /\ r = SubSeq(x, n + 1, Len(x))
        /\ Len(h) + Len(r) = Len(g) + Len(x) /\ Len(h) = Len(g) + n
        /\ ScFrom(h, 0) /\ ScFrom(r, Len(h))

\* A Read cuts its bytes off the record.
LEMMA MbCuts ==
    ASSUME NEW g \in Seq(Nat), NEW x \in Seq(Nat), NEW n \in Nat, n <= Len(x),
           ScFrom(g, 0), ScFrom(x, Len(g))
    PROVE  MbCut(g, x, n)
<1>1. PICK e \in Seq(Nat), lg \in Nat, lx \in Nat : e = <<>> /\ Len(e) = 0 /\ lg = Len(g) /\ lx = Len(x)
  <2>1. <<>> \in Seq(Nat) /\ Len(<<>>) = 0 /\ Len(g) \in Nat /\ Len(x) \in Nat
    OBVIOUS
  <2> QED
    BY <2>1, Zenon
<1>2. lg + 0 = lg /\ lg + 0 + lx = lg + lx /\ 1 .. 0 = {}
  OBVIOUS
<1>3. ScFrom(e, Len(g)) /\ ScFrom(x, Len(g) + Len(e))
  BY <1>1, <1>2, Zenon DEF ScFrom
<1>4. ScMoved(g, e, x, n)
  BY <1>3, ScMoves
<1>5. FirstOf(n, x) = SubSeq(x, 1, n) /\ RestOf(n, x) = SubSeq(x, n + 1, Len(x))
  <2>1. n = IF n < Len(x) THEN n ELSE Len(x)
    OBVIOUS
  <2> QED
    BY <2>1, Zenon DEF FirstOf, RestOf
<1>6. PICK f \in Seq(Nat) : f = SubSeq(x, 1, n) /\ Len(f) = n /\ <<>> \o f = f
  <2>1. SubSeq(x, 1, n) \in Seq(Nat) /\ Len(SubSeq(x, 1, n)) = n
    OBVIOUS
  <2>2. PICK f \in Seq(Nat) : f = SubSeq(x, 1, n) /\ Len(f) = n
    BY <2>1, Zenon
  <2>3. <<>> \o f = f
    BY SMT
  <2> QED
    BY <2>2, <2>3, Zenon
<1>7. PICK h \in Seq(Nat), r \in Seq(Nat) :
         /\ h = g \o (e \o FirstOf(n, x)) /\ r = RestOf(n, x)
         /\ Len(h) + Len(r) = Len(g) + Len(e) + Len(x)
         /\ ScFrom(h, 0) /\ ScFrom(r, Len(h))
  BY <1>4, Zenon DEF ScMoved
<1>8. h = g \o f /\ r = SubSeq(x, n + 1, Len(x)) /\ Len(h) + Len(r) = Len(g) + Len(x)
  BY <1>1, <1>2, <1>5, <1>6, <1>7, Zenon
<1>9. Len(h) = Len(g) + n
  <2>1. Len(g \o f) = Len(g) + Len(f)
    BY ScJoin
  <2> QED
    BY <1>6, <1>8, <2>1, Zenon
<1> QED
  BY <1>6, <1>7, <1>8, <1>9, Zenon DEF MbCut

\* The variables keep their types.
LEMMA MbTypesStep ==
    ASSUME MbTypes, MbCallInv, MbInInv, [MbNext]_mbVars
    PROVE  MbTypes'
<1>a. user' \in [Users -> MbCalls]
  BY MbCallStep
<1>b. /\ user \in [Users -> MbCalls] /\ came \in Nat /\ whole \in Nat /\ inLeft \in Nat /\ outLeft \in Nat
      /\ mbReported \in Nat /\ retry \in Nat /\ inOfft \in Seq(Nat) /\ mbRead \in Seq(Nat)
  BY DEF MbTypes
<1>c. ASSUME NEW g \in Users
      PROVE  user[g].len \in Nat /\ user[g].done \in Nat /\ user[g].chunk \in Nat
  <2>1. user[g] \in MbCalls
    BY <1>b
  <2> QED
    BY <2>1 DEF MbCalls
<1>1. CASE PieceArrives
  BY <1>a, <1>b, <1>1 DEF PieceArrives, mbIn, mbOut, MbTypes
<1>2. ASSUME NEW how \in {"notify", "cut"}, StreamEnds(how) PROVE MbTypes'
  BY <1>a, <1>b, <1>2 DEF StreamEnds, mbIn, mbOut, MbTypes
<1>3. ASSUME NEW g \in Users, NEW len \in 1 .. 2 * MbMessage, Budgeted(g, "write", len) PROVE MbTypes'
  BY <1>a, <1>b, <1>3 DEF Budgeted, mbIn, mbOut, MbTypes
<1>4. ASSUME NEW g \in Users, NEW len \in 1 .. MbPlain, Budgeted(g, "read", len) PROVE MbTypes'
  BY <1>a, <1>b, <1>4 DEF Budgeted, mbIn, mbOut, MbTypes
<1>5. ASSUME NEW g \in Users, CloseMarks(g) PROVE MbTypes'
  BY <1>a, <1>b, <1>5 DEF CloseMarks, mbIn, mbOut, MbTypes
<1>6. ASSUME NEW g \in Users, FindsFreed(g) PROVE MbTypes'
  BY <1>a, <1>b, <1>6 DEF FindsFreed, mbIn, mbOut, MbTypes
<1>7. ASSUME NEW g \in Users, EntersRead(g) PROVE MbTypes'
  BY <1>a, <1>b, <1>7 DEF EntersRead, mbIn, mbOut, MbTypes
<1>8. ASSUME NEW g \in Users, EntersWrite(g) PROVE MbTypes'
  BY <1>a, <1>b, <1>8 DEF EntersWrite, mbIn, mbOut, MbTypes
<1>9. ASSUME NEW g \in Users, ClosesSession(g) PROVE MbTypes'
  BY <1>a, <1>b, <1>9 DEF ClosesSession, mbIn, mbOut, MbTypes
<1>10. ASSUME NEW g \in Users, ReadTakes(g) PROVE MbTypes'
  <2>1. PICK n \in Nat : n = Least(user[g].len, Len(inOfft)) /\ n <= Len(inOfft)
    <3>1. PICK k \in Nat, l \in Nat : k = user[g].len /\ l = Len(inOfft)
      BY <1>b, <1>c
    <3>2. Least(k, l) \in Nat /\ Least(k, l) <= l
      BY MbLeast
    <3> QED
      BY <3>1, <3>2, Zenon
  <2>2. mbRead' = mbRead \o SubSeq(inOfft, 1, n) /\ inOfft' = SubSeq(inOfft, n + 1, Len(inOfft))
    BY <1>10, <2>1, Zenon DEF ReadTakes
  <2>3. MbCut(mbRead, inOfft, n)
    BY <1>b, <2>1, MbCuts DEF MbInInv
  <2>4. mbRead' \in Seq(Nat) /\ inOfft' \in Seq(Nat)
    BY <2>2, <2>3, Zenon DEF MbCut
  <2>5. UNCHANGED <<came, whole, inLeft, outLeft, mbReported, retry>>
    BY <1>10 DEF ReadTakes, mbOut
  <2> QED
    BY <1>a, <1>b, <2>4, <2>5, Zenon DEF MbTypes
<1>11. ASSUME NEW g \in Users, ReadRecord(g) PROVE MbTypes'
  <2>1. PICK a \in Nat : a = MbPlain * whole /\ MbPlain * (whole + 1) = a + MbPlain
    BY <1>b, MbNumbers
  <2>2. inOfft' = Bytes(a, a + MbPlain)
    BY <1>11, <2>1, Zenon DEF ReadRecord
  <2>3. inOfft' \in Seq(Nat)
    BY <2>1, <2>2, MbBytes, MbNumbers
  <2>4. whole' = whole + 1 /\ inLeft' = 0 /\ UNCHANGED <<came, mbRead, outLeft, mbReported, retry>>
    BY <1>11 DEF ReadRecord, mbOut
  <2> QED
    BY <1>a, <1>b, <2>3, <2>4 DEF MbTypes
<1>12. ASSUME NEW g \in Users, ReadEnds(g) PROVE MbTypes'
  BY <1>a, <1>b, <1>12 DEF ReadEnds, mbIn, mbOut, MbTypes
<1>13. ASSUME NEW g \in Users, ReadFails(g) PROVE MbTypes'
  BY <1>a, <1>b, <1>13 DEF ReadFails, mbIn, mbOut, MbTypes
<1>14. ASSUME NEW g \in Users, NEW n \in 1 .. MbUnits, BioRecv(g, n) PROVE MbTypes'
  <2>1. inLeft' \in Nat
    BY <1>b, <1>14, MbNumbers DEF BioRecv
  <2>2. UNCHANGED <<came, whole, outLeft, inOfft, mbRead, mbReported, retry>>
    BY <1>14 DEF BioRecv, mbOut
  <2> QED
    BY <1>a, <1>b, <2>1, <2>2, Zenon DEF MbTypes
<1>15. ASSUME NEW g \in Users, NEW n \in 1 .. MbUnits, BioSend(g, n) PROVE MbTypes'
  <2>1. outLeft' \in Nat
    BY <1>b, <1>15, MbNumbers DEF BioSend
  <2>2. UNCHANGED <<came, whole, inLeft, inOfft, mbRead, mbReported, retry>>
    BY <1>15 DEF BioSend, mbIn
  <2> QED
    BY <1>a, <1>b, <2>1, <2>2, Zenon DEF MbTypes
<1>16. ASSUME NEW g \in Users, SslWrite(g) PROVE MbTypes'
  <2>1. outLeft' \in Nat
    BY <1>b, <1>16, MbNumbers DEF SslWrite
  <2>2. UNCHANGED <<came, whole, inLeft, inOfft, mbRead, mbReported, retry>>
    BY <1>16 DEF SslWrite, mbIn
  <2> QED
    BY <1>a, <1>b, <2>1, <2>2, Zenon DEF MbTypes
<1>17. ASSUME NEW g \in Users, Flushed(g) PROVE MbTypes'
  <2>1. mbReported' \in Nat /\ retry' \in Nat
    <3>1. CASE user[g].done + user[g].chunk < user[g].len
      BY <1>b, <1>17, <3>1 DEF Flushed
    <3>2. CASE ~(user[g].done + user[g].chunk < user[g].len)
      BY <1>b, <1>c, <1>17, <3>2 DEF Flushed
    <3> QED
      BY <3>1, <3>2
  <2>2. UNCHANGED <<came, whole, inLeft, inOfft, mbRead, outLeft>>
    BY <1>17 DEF Flushed, mbIn
  <2> QED
    BY <1>a, <1>b, <2>1, <2>2, Zenon DEF MbTypes
<1>18. ASSUME NEW g \in Users, WriteFails(g) PROVE MbTypes'
  <2>1. user[g].done < user[g].len
    BY <1>18 DEF WriteFails, MbCallInv
  <2>2. mbReported' \in Nat /\ retry' \in Nat
    BY <1>b, <1>c, <1>18, <2>1 DEF WriteFails
  <2>3. UNCHANGED <<came, whole, inLeft, inOfft, mbRead, outLeft>>
    BY <1>18 DEF WriteFails, mbIn
  <2> QED
    BY <1>a, <1>b, <2>2, <2>3, Zenon DEF MbTypes
<1>19. CASE UNCHANGED mbVars
  BY <1>a, <1>b, <1>19 DEF mbVars, mbIn, mbOut, MbTypes
<1> QED
  BY <1>1, <1>2, <1>3, <1>4, <1>5, <1>6, <1>7, <1>8, <1>9, <1>10,
     <1>11, <1>12, <1>13, <1>14, <1>15, <1>16, <1>17, <1>18, <1>19
     DEF MbNext, MbStep

\* What is read and decrypted is the plaintext of the whole records.
LEMMA MbInStep ==
    ASSUME MbTypes, MbInInv, [MbNext]_mbVars
    PROVE  MbInInv'
<1>b. /\ user \in [Users -> MbCalls] /\ came \in Nat /\ whole \in Nat /\ inLeft \in Nat
      /\ inOfft \in Seq(Nat) /\ mbRead \in Seq(Nat)
  BY DEF MbTypes
<1>c. ASSUME UNCHANGED <<came, whole, inLeft, inOfft, mbRead>> PROVE MbInInv'
  BY <1>c, Zenon DEF MbInInv
<1>1. CASE PieceArrives
  <2>1. UNCHANGED <<whole, inLeft, inOfft, mbRead>> /\ came' = came + 1
    BY <1>1 DEF PieceArrives
  <2>2. MbUnits * whole \in Nat
    BY <1>b, MbNumbers
  <2>3. MbUnits * whole + inLeft <= came + 1
    BY <1>b, <2>2 DEF MbInInv
  <2> QED
    BY <2>1, <2>3, Zenon DEF MbInInv
<1>2. ASSUME NEW how \in {"notify", "cut"}, StreamEnds(how) PROVE MbInInv'
  BY <1>c, <1>2 DEF StreamEnds, mbIn
<1>3. ASSUME NEW g \in Users, NEW len \in 1 .. 2 * MbMessage, Budgeted(g, "write", len) PROVE MbInInv'
  BY <1>c, <1>3 DEF Budgeted, mbIn
<1>4. ASSUME NEW g \in Users, NEW len \in 1 .. MbPlain, Budgeted(g, "read", len) PROVE MbInInv'
  BY <1>c, <1>4 DEF Budgeted, mbIn
<1>5. ASSUME NEW g \in Users, CloseMarks(g) PROVE MbInInv'
  BY <1>c, <1>5 DEF CloseMarks, mbIn
<1>6. ASSUME NEW g \in Users, FindsFreed(g) PROVE MbInInv'
  BY <1>c, <1>6 DEF FindsFreed, mbIn
<1>7. ASSUME NEW g \in Users, EntersRead(g) PROVE MbInInv'
  BY <1>c, <1>7 DEF EntersRead, mbIn
<1>8. ASSUME NEW g \in Users, EntersWrite(g) PROVE MbInInv'
  BY <1>c, <1>8 DEF EntersWrite, mbIn
<1>9. ASSUME NEW g \in Users, ClosesSession(g) PROVE MbInInv'
  BY <1>c, <1>9 DEF ClosesSession, mbIn
<1>10. ASSUME NEW g \in Users, ReadTakes(g) PROVE MbInInv'
  <2>0. user[g].len \in Nat
    BY <1>b DEF MbCalls
  <2>1. PICK n \in Nat : n = Least(user[g].len, Len(inOfft)) /\ n <= Len(inOfft)
    <3>1. PICK k \in Nat, l \in Nat : k = user[g].len /\ l = Len(inOfft)
      BY <1>b, <2>0
    <3>2. Least(k, l) \in Nat /\ Least(k, l) <= l
      BY MbLeast
    <3> QED
      BY <3>1, <3>2, Zenon
  <2>2. mbRead' = mbRead \o SubSeq(inOfft, 1, n) /\ inOfft' = SubSeq(inOfft, n + 1, Len(inOfft))
    BY <1>10, <2>1, Zenon DEF ReadTakes
  <2>3. MbCut(mbRead, inOfft, n)
    BY <1>b, <2>1, MbCuts DEF MbInInv
  <2>4. /\ Len(mbRead') + Len(inOfft') = Len(mbRead) + Len(inOfft)
        /\ ScFrom(mbRead', 0) /\ ScFrom(inOfft', Len(mbRead'))
    BY <2>2, <2>3, Zenon DEF MbCut
  <2>5. UNCHANGED <<came, whole, inLeft>>
    BY <1>10 DEF ReadTakes
  <2> QED
    BY <2>4, <2>5, Zenon DEF MbInInv
<1>11. ASSUME NEW g \in Users, ReadRecord(g) PROVE MbInInv'
  <2>1. PICK a \in Nat : a = MbPlain * whole /\ MbPlain * (whole + 1) = a + MbPlain
    BY <1>b, MbNumbers
  <2>2. /\ inOfft' = Bytes(a, a + MbPlain) /\ inLeft' = 0 /\ whole' = whole + 1 /\ UNCHANGED <<came, mbRead>>
        /\ inOfft = <<>> /\ inLeft = MbUnits
    BY <1>11, <2>1, Zenon DEF ReadRecord
  <2>3. Len(inOfft') = MbPlain /\ ScFrom(inOfft', a)
    BY <2>1, <2>2, MbBytes, MbNumbers
  <2>4. Len(mbRead) = a
    <3>1. Len(mbRead) + Len(inOfft) = a
      BY <2>1, Zenon DEF MbInInv
    <3> QED
      BY <1>b, <2>2, <3>1
  <2>5. MbUnits * (whole + 1) + 0 <= came /\ 0 <= MbUnits
    <3>1. MbUnits * (whole + 1) + 0 = MbUnits * whole + MbUnits
      BY <1>b, MbNumbers
    <3>2. MbUnits * whole + MbUnits <= came
      BY <2>2, Zenon DEF MbInInv
    <3> QED
      BY <3>1, <3>2, MbNumbers
  <2>6. Len(mbRead') + Len(inOfft') = MbPlain * whole'
    BY <2>1, <2>2, <2>3, <2>4, Zenon
  <2>7. ScFrom(mbRead', 0) /\ ScFrom(inOfft', Len(mbRead'))
    BY <2>2, <2>3, <2>4, Zenon DEF MbInInv
  <2> QED
    BY <2>2, <2>5, <2>6, <2>7, Zenon DEF MbInInv
<1>12. ASSUME NEW g \in Users, ReadEnds(g) PROVE MbInInv'
  BY <1>c, <1>12 DEF ReadEnds, mbIn
<1>13. ASSUME NEW g \in Users, ReadFails(g) PROVE MbInInv'
  BY <1>c, <1>13 DEF ReadFails, mbIn
<1>14. ASSUME NEW g \in Users, NEW n \in 1 .. MbUnits, BioRecv(g, n) PROVE MbInInv'
  <2>1. /\ UNCHANGED <<came, whole, inOfft, mbRead>> /\ inLeft' = inLeft + n
        /\ n <= came - (MbUnits * whole + inLeft) /\ n <= MbUnits - inLeft
    BY <1>14 DEF BioRecv, InPieces
  <2>2. PICK q \in Nat : q = MbUnits * whole
    BY <1>b, MbNumbers
  <2>3. n \in Nat /\ MbUnits \in Nat
    BY MbNumbers
  <2>4. inLeft + n <= MbUnits /\ q + (inLeft + n) <= came
    BY <1>b, <2>1, <2>2, <2>3
  <2> QED
    BY <2>1, <2>2, <2>4, Zenon DEF MbInInv
<1>15. ASSUME NEW g \in Users, NEW n \in 1 .. MbUnits, BioSend(g, n) PROVE MbInInv'
  BY <1>c, <1>15 DEF BioSend, mbIn
<1>16. ASSUME NEW g \in Users, SslWrite(g) PROVE MbInInv'
  BY <1>c, <1>16 DEF SslWrite, mbIn
<1>17. ASSUME NEW g \in Users, Flushed(g) PROVE MbInInv'
  BY <1>c, <1>17 DEF Flushed, mbIn
<1>18. ASSUME NEW g \in Users, WriteFails(g) PROVE MbInInv'
  BY <1>c, <1>18 DEF WriteFails, mbIn
<1>19. CASE UNCHANGED mbVars
  BY <1>c, <1>19 DEF mbVars, mbIn
<1> QED
  BY <1>1, <1>2, <1>3, <1>4, <1>5, <1>6, <1>7, <1>8, <1>9, <1>10,
     <1>11, <1>12, <1>13, <1>14, <1>15, <1>16, <1>17, <1>18, <1>19
     DEF MbNext, MbStep

-----------------------------------------------------------------------------
(* The invariant, and what follows for mbedConn.                           *)

\* It always holds.
LEMMA MbInvariant == MbSpec => []MbInv
<1>1. MbInit => MbInv
  <2> SUFFICES ASSUME MbInit PROVE MbInv
    OBVIOUS
  <2>1. /\ user = [g \in Users |-> Resting] /\ ioMu = {} /\ came = 0 /\ whole = 0 /\ inLeft = 0
        /\ inOfft = <<>> /\ mbRead = <<>> /\ outLeft = 0 /\ mbPeer = <<>> /\ mbReported = 0
        /\ retry = 0
    BY DEF MbInit
  <2>2. Resting \in MbCalls /\ Resting.at = "idle"
    BY DEF Resting, MbCalls
  <2>3. user \in [Users -> MbCalls] /\ \A g \in Users : user[g].at = "idle"
    BY <2>1, <2>2
  <2>4. <<>> \in Seq(Nat) /\ Len(<<>>) = 0 /\ 0 \in Nat /\ 1 .. 0 = {}
    OBVIOUS
  <2>5. MbTypes
    BY <2>1, <2>3, <2>4, Zenon DEF MbTypes
  <2>6. MbCallInv /\ MbSessionLive
    BY <2>3 DEF MbCallInv, MbSessionLive
  <2>7. Bytes(0, 0) = <<>>
    <3>1. [i \in 1 .. 0 - 0 |-> 0 + i] = <<>>
      OBVIOUS
    <3> QED
      BY <3>1 DEF Bytes
  <2>8. MbOutIdle
    BY <2>1, <2>7, Zenon DEF MbOutIdle
  <2>9. MbOutInv
    BY <2>3, <2>8 DEF MbOutInv, MbWriter
  <2>10. MbInInv
    <3>1. ScFrom(<<>>, 0)
      BY <2>4, Zenon DEF ScFrom
    <3>2. 0 + 0 = MbPlain * 0 /\ 0 <= MbUnits /\ MbUnits * 0 + 0 <= 0
      BY MbNumbers
    <3> QED
      BY <2>1, <2>4, <3>1, <3>2, Zenon DEF MbInInv
  <2> QED
    BY <2>5, <2>6, <2>9, <2>10 DEF MbInv
<1>2. MbInv /\ [MbNext]_mbVars => MbInv'
  BY MbTypesStep, MbCallStep, MbLiveStep, MbOutStep, MbInStep DEF MbInv
<1> QED
  BY <1>1, <1>2, PTL DEF MbSpec

\* dial_mbedtls.go checks connState and takes ioMu in two steps; for any number
\* of goroutines and Closes, no call is in a session that was freed between.
THEOREM MbSessionHolds == MbSpec => []MbSessionLive
<1>1. MbInv => MbSessionLive
  BY DEF MbInv
<1> QED
  BY <1>1, MbInvariant, PTL

\* mbedtls_ssl_write keeps a record that was not sent whole: the peer gets the
\* bytes that Writes reported, each once and in order, for all lengths and
\* wherever a Write fails, as long as a failed Write is retried with its bytes.
THEOREM MbWritesHold == MbSpec => []MbWritesExact
<1>1. MbInv => MbWritesExact
  <2> SUFFICES ASSUME MbInv, ~strayed PROVE MbWritesExact
    BY DEF MbWritesExact
  <2> DEFINE D(g) == user[g].done + IF user[g].at = "flush" /\ outLeft = 0 THEN user[g].chunk ELSE 0
             done == {D(g) : g \in {h \in Users : user[h].at \in {"write", "flush"}}}
  <2>1. user \in [Users -> MbCalls] /\ mbReported \in Nat /\ MbOutInv /\ MbSessionLive
    BY DEF MbInv, MbTypes
  <2>2. ASSUME NEW g \in Users, MbWriter(g)
        PROVE  D(g) \in done /\ mbPeer = Bytes(0, mbReported + D(g))
    <3>1. D(g) \in done
      BY <2>2, Zenon DEF MbWriter
    <3>2. MbOutOf(g)
      BY <2>1, <2>2, Zenon DEF MbOutInv
    <3>3. PICK u \in MbCalls : u = user[g] /\ u.at \in {"write", "flush"}
      BY <2>1, <2>2 DEF MbWriter
    <3>4. u.done \in Nat /\ u.chunk \in Nat
      BY <3>3 DEF MbCalls
    <3>5. CASE u.at = "flush" /\ outLeft = 0
      <4>1. mbPeer = Bytes(0, mbReported + u.done + u.chunk)
        BY <3>2, <3>3, <3>5, Zenon DEF MbOutOf
      <4>2. D(g) = u.done + u.chunk
        BY <3>3, <3>5, Zenon
      <4>3. mbReported + u.done + u.chunk = mbReported + (u.done + u.chunk)
        BY <2>1, <3>4
      <4> QED
        BY <3>1, <4>1, <4>2, <4>3, Zenon
    <3>6. CASE ~(u.at = "flush" /\ outLeft = 0)
      <4>1. mbPeer = Bytes(0, mbReported + u.done)
        BY <3>2, <3>3, <3>6, Zenon DEF MbOutOf
      <4>2. D(g) = u.done + 0
        BY <3>3, <3>6, Zenon
      <4>3. u.done + 0 = u.done
        BY <3>4
      <4> QED
        BY <3>1, <4>1, <4>2, <4>3, Zenon
    <3> QED
      BY <3>5, <3>6, Zenon
  <2>3. CASE \E g \in Users : MbWriter(g)
    <3>1. done # {} /\ \E d \in done : mbPeer = Bytes(0, mbReported + d)
      BY <2>2, <2>3, Zenon
    <3> QED
      BY <3>1, Zenon DEF MbWritesExact
  <2>4. CASE \A g \in Users : ~MbWriter(g)
    <3>1. done = {}
      BY <2>4, Zenon DEF MbWriter
    <3>2. mbPeer = Bytes(0, mbReported)
      BY <2>1, <2>4, Zenon DEF MbOutInv, MbOutIdle
    <3> QED
      BY <3>1, <3>2, Zenon DEF MbWritesExact
  <2> QED
    BY <2>3, <2>4, Zenon
<1> QED
  BY <1>1, MbInvariant, PTL

-----------------------------------------------------------------------------
(* Reads of mbedConn are those of a byte stream.                           *)

\* The quotient.
LEMMA MbQuotient ==
    ASSUME NEW a \in Nat, NEW u \in Nat, u > 0
    PROVE  a \div u \in Nat /\ u * (a \div u) <= a /\ a < u * (a \div u) + u
OBVIOUS

\* It is the greatest number of its kind.
LEMMA MbQuotientIs ==
    ASSUME NEW u \in Nat, u > 0, NEW k \in Nat, NEW q \in Nat, NEW a \in Nat,
           u * k <= a, a < u * q + u
    PROVE  k <= q
<1>1. SUFFICES ASSUME q < k PROVE FALSE
  OBVIOUS
<1>2. PICK j \in Nat : k = q + 1 + j
  BY <1>1
<1>3. u * k = u * q + u + u * j /\ u * j \in Nat /\ u * q \in Nat
  BY <1>2
<1> QED
  BY <1>3

\* Products grow with their factors.
LEMMA MbProduct ==
    ASSUME NEW p \in Nat, NEW k \in Nat, NEW q \in Nat, k <= q
    PROVE  p * k \in Nat /\ p * q \in Nat /\ p * k <= p * q
<1>1. PICK j \in Nat : q = k + j
  OBVIOUS
<1>2. p * q = p * k + p * j /\ p * j \in Nat /\ p * k \in Nat
  BY <1>1
<1> QED
  BY <1>2

\* The plaintext of the records that have arrived whole.
MbGiven(n) == MbPlain * (n \div MbUnits)

\* It grows with what arrives, and what was decrypted is of it.
LEMMA MbGivenGrows ==
    ASSUME NEW n \in Nat, NEW k \in Nat, MbUnits * k <= n
    PROVE  /\ MbGiven(n) \in Nat /\ MbPlain * k <= MbGiven(n)
           /\ MbGiven(n + 1) \in Nat /\ MbGiven(n) <= MbGiven(n + 1)
           /\ (n < MbUnits * k + MbUnits => MbGiven(n) = MbPlain * k)
<1>1. PICK q \in Nat : q = n \div MbUnits /\ MbUnits * q <= n /\ n < MbUnits * q + MbUnits
  BY MbQuotient, MbNumbers
<1>2. n + 1 \in Nat
  OBVIOUS
<1>3. PICK r \in Nat : r = (n + 1) \div MbUnits /\ MbUnits * r <= n + 1 /\ n + 1 < MbUnits * r + MbUnits
  BY <1>2, MbQuotient, MbNumbers
<1>4. k <= q
  BY <1>1, MbQuotientIs, MbNumbers
<1>5. q <= r
  <2>1. MbUnits * q \in Nat
    BY MbNumbers
  <2>2. MbUnits * q <= n + 1
    BY <1>1, <2>1
  <2> QED
    BY <1>2, <1>3, <2>2, MbQuotientIs, MbNumbers
<1>6. n < MbUnits * k + MbUnits => q <= k
  BY <1>1, MbQuotientIs, MbNumbers
<1>7. MbPlain * k \in Nat /\ MbPlain * q \in Nat /\ MbPlain * k <= MbPlain * q
  BY <1>4, MbProduct, MbNumbers
<1>8. MbPlain * r \in Nat /\ MbPlain * q <= MbPlain * r
  BY <1>5, MbProduct, MbNumbers
<1>9. n < MbUnits * k + MbUnits => q = k
  BY <1>4, <1>6
<1> QED
  BY <1>1, <1>3, <1>7, <1>8, <1>9, Zenon DEF MbGiven

\* A Read that returns n bytes takes them off the stream.
LEMMA MbTakes ==
    ASSUME NEW g \in Seq(Nat), NEW x \in Seq(Nat), NEW n \in Nat, n > 0, n <= Len(x),
           ScFrom(x, Len(g))
    PROVE  /\ Len(g \o SubSeq(x, 1, n)) = Len(g) + n
           /\ SubSeq(x, 1, n) = [i \in 1 .. (Len(g) + n) - Len(g) |-> Len(g) + i]
<1>1. PICK lg \in Nat, lx \in Nat : lg = Len(g) /\ lx = Len(x)
  <2>1. Len(g) \in Nat /\ Len(x) \in Nat
    BY SMT
  <2> QED
    BY <2>1, Zenon
<1>2. PICK f \in Seq(Nat) : f = SubSeq(x, 1, n) /\ Len(f) = n /\ \A i \in 1 .. n : f[i] = x[i]
  <2>1. /\ SubSeq(x, 1, n) \in Seq(Nat) /\ Len(SubSeq(x, 1, n)) = n
        /\ \A i \in 1 .. n : SubSeq(x, 1, n)[i] = x[i]
    BY SMT
  <2> QED
    BY <2>1, Zenon
<1>3. \A i \in 1 .. n : i \in 1 .. lx
  BY <1>1
<1>4. ScFrom(f, lg)
  BY <1>1, <1>2, <1>3, Zenon DEF ScFrom
<1>5. f = [i \in 1 .. n |-> lg + i]
  BY <1>2, <1>4, ScFromIs
<1>6. Len(g \o f) = Len(g) + Len(f)
  BY ScJoin
<1>7. (lg + n) - lg = n
  OBVIOUS
<1> QED
  BY <1>1, <1>2, <1>5, <1>6, <1>7, Zenon

\* Every step is one of the stream, or none.
LEMMA MbReadsStep ==
    ASSUME MbInv, [MbNext]_mbVars
    PROVE  [MbStream!StreamNext]_(MbStream!streamVars)
<1>a. /\ user \in [Users -> MbCalls] /\ came \in Nat /\ whole \in Nat /\ inLeft \in Nat
      /\ inOfft \in Seq(Nat) /\ mbRead \in Seq(Nat)
      /\ MbCallInv /\ MbInInv
  BY DEF MbInv, MbTypes
<1>b. MbUnits * whole \in Nat /\ MbPlain * whole \in Nat /\ MbUnits * whole + inLeft <= came
  BY <1>a, MbNumbers DEF MbInInv
<1>c. ASSUME UNCHANGED <<came, mbRead, mbEnded>> PROVE [MbStream!StreamNext]_(MbStream!streamVars)
  BY <1>c DEF MbStream!streamVars
<1>d. MbUnits * whole <= came
  BY <1>a, <1>b
<1>e. /\ MbGiven(came) \in Nat /\ MbPlain * whole <= MbGiven(came)
      /\ MbGiven(came + 1) \in Nat /\ MbGiven(came) <= MbGiven(came + 1)
      /\ (came < MbUnits * whole + MbUnits => MbGiven(came) = MbPlain * whole)
  BY <1>a, <1>d, MbGivenGrows
<1>1. CASE PieceArrives
  <2>1. came' = came + 1 /\ UNCHANGED <<mbRead, mbEnded>>
    BY <1>1 DEF PieceArrives
  <2>2. PICK a \in Nat, b \in Nat : a = MbGiven(came) /\ b = MbGiven(came + 1) /\ a <= b
    BY <1>e
  <2>3. a = MbPlain * (came \div MbUnits) /\ b = MbPlain * (came' \div MbUnits)
    BY <2>1, <2>2, Zenon DEF MbGiven
  <2>4. CASE a = b
    BY <2>1, <2>3, <2>4, Zenon DEF MbStream!streamVars
  <2>5. CASE b > a
    BY <2>1, <2>3, <2>5, Zenon DEF MbStream!StreamNext, MbStream!Give
  <2> QED
    BY <2>2, <2>4, <2>5
<1>2. ASSUME NEW how \in {"notify", "cut"}, StreamEnds(how) PROVE [MbStream!StreamNext]_(MbStream!streamVars)
  BY <1>c, <1>2 DEF StreamEnds, mbIn
<1>3. ASSUME NEW g \in Users, NEW len \in 1 .. 2 * MbMessage, Budgeted(g, "write", len) PROVE [MbStream!StreamNext]_(MbStream!streamVars)
  BY <1>c, <1>3 DEF Budgeted, mbIn
<1>4. ASSUME NEW g \in Users, NEW len \in 1 .. MbPlain, Budgeted(g, "read", len) PROVE [MbStream!StreamNext]_(MbStream!streamVars)
  BY <1>c, <1>4 DEF Budgeted, mbIn
<1>5. ASSUME NEW g \in Users, CloseMarks(g) PROVE [MbStream!StreamNext]_(MbStream!streamVars)
  BY <1>c, <1>5 DEF CloseMarks, mbIn
<1>6. ASSUME NEW g \in Users, FindsFreed(g) PROVE [MbStream!StreamNext]_(MbStream!streamVars)
  BY <1>c, <1>6 DEF FindsFreed, mbIn
<1>7. ASSUME NEW g \in Users, EntersRead(g) PROVE [MbStream!StreamNext]_(MbStream!streamVars)
  BY <1>c, <1>7 DEF EntersRead, mbIn
<1>8. ASSUME NEW g \in Users, EntersWrite(g) PROVE [MbStream!StreamNext]_(MbStream!streamVars)
  BY <1>c, <1>8 DEF EntersWrite, mbIn
<1>9. ASSUME NEW g \in Users, ClosesSession(g) PROVE [MbStream!StreamNext]_(MbStream!streamVars)
  BY <1>c, <1>9 DEF ClosesSession, mbIn
<1>10. ASSUME NEW g \in Users, ReadTakes(g) PROVE [MbStream!StreamNext]_(MbStream!streamVars)
  <2>1. user[g].len \in Nat /\ user[g].len > 0
    <3>1. user[g] \in MbCalls /\ user[g].at = "read"
      BY <1>a, <1>10 DEF ReadTakes
    <3> QED
      BY <1>a, <3>1 DEF MbCallInv, MbCalls
  <2>2. PICK k \in Seq(Nat), x \in Seq(Nat), lk \in Nat, lx \in Nat :
           k = mbRead /\ x = inOfft /\ lk = Len(k) /\ lx = Len(x) /\ lx > 0
    <3>1. PICK k \in Seq(Nat), x \in Seq(Nat) : k = mbRead /\ x = inOfft /\ x # <<>>
      BY <1>a, <1>10 DEF ReadTakes
    <3>2. Len(k) \in Nat /\ Len(x) \in Nat /\ Len(x) > 0
      BY <3>1
    <3> QED
      BY <3>1, <3>2, Zenon
  <2>3. PICK n \in Nat : n = Least(user[g].len, Len(inOfft)) /\ n > 0 /\ n <= lx
    BY <2>1, <2>2, MbLeast
  <2>4. mbRead' = k \o SubSeq(x, 1, n) /\ UNCHANGED <<came, mbEnded>>
    BY <1>10, <2>2, <2>3, Zenon DEF ReadTakes
  <2>5. ScFrom(x, Len(k)) /\ lk + lx = MbPlain * whole
    BY <1>a, <2>2, Zenon DEF MbInInv
  <2>6. /\ Len(k \o SubSeq(x, 1, n)) = Len(k) + n
        /\ SubSeq(x, 1, n) = [i \in 1 .. (Len(k) + n) - Len(k) |-> Len(k) + i]
    <3>1. n <= Len(x) /\ n > 0 /\ ScFrom(x, Len(k))
      BY <2>2, <2>3, <2>5, Zenon
    <3> QED
      BY <3>1, MbTakes
  <2>7. Len(mbRead') = lk + n /\ mbRead' = mbRead \o [i \in 1 .. Len(mbRead') - Len(mbRead) |-> Len(mbRead) + i]
    BY <2>2, <2>4, <2>6, Zenon
  <2>8. PICK d \in Nat : d = MbPlain * (came \div MbUnits) /\ MbPlain * whole <= d
    BY <1>e, Zenon DEF MbGiven
  <2>9. lk + n > lk /\ lk + n <= d
    BY <1>b, <2>2, <2>3, <2>5, <2>8
  <2>10. MbPlain * (came' \div MbUnits) = MbPlain * (came \div MbUnits)
    BY <2>4, Zenon
  <2> QED
    BY <2>2, <2>4, <2>7, <2>8, <2>9, <2>10, Zenon DEF MbStream!StreamNext, MbStream!Take
<1>11. ASSUME NEW g \in Users, ReadRecord(g) PROVE [MbStream!StreamNext]_(MbStream!streamVars)
  BY <1>c, <1>11 DEF ReadRecord, mbIn
<1>12. ASSUME NEW g \in Users, ReadEnds(g) PROVE [MbStream!StreamNext]_(MbStream!streamVars)
  <2>1. /\ inOfft = <<>> /\ inLeft < MbUnits /\ came - (MbUnits * whole + inLeft) = 0
        /\ mbEnded' = TRUE /\ UNCHANGED <<came, mbRead>>
    BY <1>12 DEF ReadEnds, InPieces
  <2>2. came < MbUnits * whole + MbUnits
    BY <1>a, <1>b, <2>1, MbNumbers
  <2>3. MbPlain * (came \div MbUnits) = MbPlain * whole
    BY <1>e, <2>2, Zenon DEF MbGiven
  <2>4. Len(mbRead) = MbPlain * whole
    <3>1. Len(mbRead) + Len(inOfft) = MbPlain * whole
      BY <1>a, Zenon DEF MbInInv
    <3> QED
      BY <1>a, <2>1, <3>1
  <2>5. MbPlain * (came' \div MbUnits) = MbPlain * (came \div MbUnits)
    BY <2>1, Zenon
  <2> QED
    BY <2>1, <2>3, <2>4, <2>5, Zenon DEF MbStream!StreamNext, MbStream!End
<1>13. ASSUME NEW g \in Users, ReadFails(g) PROVE [MbStream!StreamNext]_(MbStream!streamVars)
  BY <1>c, <1>13 DEF ReadFails, mbIn
<1>14. ASSUME NEW g \in Users, NEW n \in 1 .. MbUnits, BioRecv(g, n) PROVE [MbStream!StreamNext]_(MbStream!streamVars)
  BY <1>c, <1>14 DEF BioRecv, mbIn
<1>15. ASSUME NEW g \in Users, NEW n \in 1 .. MbUnits, BioSend(g, n) PROVE [MbStream!StreamNext]_(MbStream!streamVars)
  BY <1>c, <1>15 DEF BioSend, mbIn
<1>16. ASSUME NEW g \in Users, SslWrite(g) PROVE [MbStream!StreamNext]_(MbStream!streamVars)
  BY <1>c, <1>16 DEF SslWrite, mbIn
<1>17. ASSUME NEW g \in Users, Flushed(g) PROVE [MbStream!StreamNext]_(MbStream!streamVars)
  BY <1>c, <1>17 DEF Flushed, mbIn
<1>18. ASSUME NEW g \in Users, WriteFails(g) PROVE [MbStream!StreamNext]_(MbStream!streamVars)
  BY <1>c, <1>18 DEF WriteFails, mbIn
<1>19. CASE UNCHANGED mbVars
  BY <1>c, <1>19 DEF mbVars, mbIn
<1> QED
  BY <1>1, <1>2, <1>3, <1>4, <1>5, <1>6, <1>7, <1>8, <1>9, <1>10,
     <1>11, <1>12, <1>13, <1>14, <1>15, <1>16, <1>17, <1>18, <1>19
     DEF MbNext, MbStep

\* https_mbed_read gives its caller the peer's bytes in order, none twice and
\* none left out, and the end only when there are no more: for records of any
\* size, whichever pieces of them a Read finds and wherever it fails.
THEOREM MbReadsImplement == MbSpec => MbReadsStream
<1>1. MbInit => MbStream!StreamInit
  <2> SUFFICES ASSUME MbInit PROVE MbStream!StreamInit
    OBVIOUS
  <2>1. MbPlain * (came \div MbUnits) \in Nat /\ mbRead = <<>> /\ mbEnded = FALSE
    <3>1. came = 0 /\ mbRead = <<>> /\ mbEnded = FALSE
      BY DEF MbInit
    <3>2. 0 \div MbUnits \in Nat
      BY MbQuotient, MbNumbers
    <3>3. MbPlain * (0 \div MbUnits) \in Nat
      BY <3>2, MbNumbers
    <3> QED
      BY <3>1, <3>3, Zenon
  <2> QED
    BY <2>1, Zenon DEF MbStream!StreamInit
<1>2. MbInv /\ [MbNext]_mbVars => [MbStream!StreamNext]_(MbStream!streamVars)
  BY MbReadsStep
<1> QED
  BY <1>1, <1>2, MbInvariant, PTL DEF MbSpec, MbReadsStream, MbStream!StreamSpec

-----------------------------------------------------------------------------
(* The backend that the build compiles in.                                 *)

\* Whichever it is, its behaviours are those of its own specification, and the
\* other two rest.
LEMMA EachBackend == FairSpec => NwSpec /\ ScSpec /\ MbSpec
<1>1. Init => NwInit /\ ScInit /\ MbInit
  BY DEF Init
<1>2. [Next]_vars => [NwNext]_nwVars
  BY DEF Next, vars
<1>3. [Next]_vars => [ScNext]_scVars
  BY DEF Next, vars
<1>4. [Next]_vars => [MbNext]_mbVars
  BY DEF Next, vars
<1> QED
  BY <1>1, <1>2, <1>3, <1>4, PTL DEF FairSpec, NwSpec, ScSpec, MbSpec

\* On no backend does a call or a completion use what a Close, a timeout or both
\* have given back.
THEOREM NativeNoUseAfterClose == FairSpec => []NoUseAfterClose
<1>1. BufferIsCallers /\ MbSessionLive => NoUseAfterClose
  BY DEF NoUseAfterClose
<1> QED
  BY <1>1, EachBackend, NwBufferIsCallers, MbSessionHolds, PTL

\* What Writes report is what the peer gets: on Schannel and on mbedTLS, for all
\* lengths and wherever a Write fails.
THEOREM NativeWritesReported == FairSpec => []WritesReported
<1>1. ScWritesReported /\ MbWritesExact => WritesReported
  BY DEF WritesReported
<1> QED
  BY <1>1, EachBackend, ScWritesHold, MbWritesHold, PTL

\* Reads of either record-based backend are those of a byte stream.
THEOREM NativeReadsAreStream == FairSpec => ReadsAreStream
BY EachBackend, ScReadsImplement, MbReadsImplement, PTL DEF ReadsAreStream

=============================================================================
