-------------------------- MODULE HttpServerProofs --------------------------
(***************************************************************************)
(* Proofs about HttpServer, for every set of connections and every         *)
(* MaxSent: that no byte of a connection is lost or replayed twice on its  *)
(* way to net/http or to the handler, that net/http never runs the handler *)
(* for an upgrade, that a hijack is final, and what Serve returns after    *)
(* Shutdown.                                                               *)
(*                                                                         *)
(* The two stream properties speak about one owner each.  ConnInv says the *)
(* same of the connection at every place before it is closed, and what     *)
(* buffer and handled hold there: what readHead took in is neither handled *)
(* nor dropped until dispatch has chosen.                                  *)
(***************************************************************************)
EXTENDS HttpServer, TLAPS

\* What the client sent is what was handled, then what readHead buffered, then
\* what is still in the connection.
StreamInv(c) ==
    place[c] # "closed" => sent[c] = Requests(handled[c]) \o buffer[c] \o unread[c]

\* What dispatch holds at each place.
PlaceInv(c) ==
    /\ place[c] \in {"none", "queued", "reading"} => handled[c] = <<>> /\ buffer[c] = <<>>
    /\ place[c] \in {"choosing", "offering"} => handled[c] = <<>> /\ buffer[c] # <<>>
    /\ place[c] \in {"handler", "hijacked"} => buffer[c] = <<>>
    /\ hijacked[c] => place[c] \in {"handler", "hijacked", "closed"}

\* The first request of a connection is its head.
HeadInv(c) == sent[c] # <<>> => sent[c][1] = "head"

\* UpgradeIsHijackable, of one connection.
GuardInv(c) ==
    \A i \in DOMAIN handled[c] :
        handled[c][i].by = "handler" => ~WantsUpgrade(c, handled[c][i].tok)

OneConn(c) == StreamInv(c) /\ PlaceInv(c) /\ HeadInv(c) /\ GuardInv(c)

ConnInv == \A c \in Conns : OneConn(c)

\* The end of serve.  Without a failing listener and without Shutdown nobody
\* closes the handoff, so srv.Serve returns "closed" only after ln failed.
EndInv ==
    /\ loop # "accept" => lnErr # "none"
    /\ lnErr = "none" /\ ~shutting => ~done /\ srvClose = "none"
    /\ inner = "closed" => lnErr # "none"
    /\ loop = "returned" => ret = inner /\ inner # "none"

HsInv == TypeOK /\ ConnInv /\ EndInv

-----------------------------------------------------------------------------
(* Sequences of requests and of answers.                                   *)

\* Concatenation is associative.
LEMMA JoinJoin ==
    ASSUME NEW S, NEW a \in Seq(S), NEW b \in Seq(S), NEW d \in Seq(S)
    PROVE  a \o b \o d = a \o (b \o d)
OBVIOUS

\* A sequence is what was taken from it and the rest.
LEMMA TakenAndRest ==
    ASSUME NEW S, NEW u \in Seq(S), NEW n \in 0 .. Len(u)
    PROVE  /\ SubSeq(u, 1, n) \in Seq(S) /\ SubSeq(u, n + 1, Len(u)) \in Seq(S)
           /\ Len(SubSeq(u, 1, n)) = n
           /\ u = SubSeq(u, 1, n) \o SubSeq(u, n + 1, Len(u))
<1> DEFINE a == SubSeq(u, 1, n)
           b == SubSeq(u, n + 1, Len(u))
<1>1. /\ a \in Seq(S) /\ b \in Seq(S)
      /\ Len(a) = n /\ Len(b) = Len(u) - n
      /\ \A i \in 1 .. n : a[i] = u[i]
      /\ \A i \in 1 .. Len(u) - n : b[i] = u[n + i]
  OBVIOUS
<1>2. Len(u) \in Nat /\ n \in Nat /\ n <= Len(u)
  OBVIOUS
<1> HIDE DEF a, b
<1>3. a \o b \in Seq(S) /\ Len(a \o b) = Len(u)
  BY <1>1, <1>2
<1>4. ASSUME NEW i \in 1 .. Len(u) PROVE (a \o b)[i] = u[i]
  <2>1. CASE i <= n
    BY <1>1, <1>2, <2>1
  <2>2. CASE i > n
    <3>1. (a \o b)[i] = b[i - n] /\ i - n \in 1 .. Len(u) - n
      BY <1>1, <1>2, <2>2
    <3>2. n + (i - n) = i
      BY <1>2
    <3> QED
      BY <1>1, <3>1, <3>2
  <2>3. i <= n \/ i > n
    BY <1>2
  <2> QED
    BY <2>1, <2>2, <2>3, Zenon
<1>5. PICK q : q = a \o b
  OBVIOUS
<1>6. q \in Seq(S) /\ Len(q) = Len(u) /\ \A i \in 1 .. Len(u) : q[i] = u[i]
  BY <1>3, <1>4, <1>5, Zenon
<1>7. u = q
  BY <1>6
<1> QED
  BY <1>1, <1>5, <1>7 DEF a, b

\* Nothing joined to a sequence is that sequence.
LEMMA JoinNothing ==
    ASSUME NEW S, NEW a \in Seq(S)
    PROVE  a \o <<>> = a /\ <<>> \o a = a
OBVIOUS

\* A concatenation begins with its first part.
LEMMA JoinFirst ==
    ASSUME NEW S, NEW a \in Seq(S), NEW b \in Seq(S), a # <<>>
    PROVE  (a \o b)[1] = a[1] /\ a \o b # <<>>
<1>1. Len(a) \in Nat /\ Len(a) >= 1
  OBVIOUS
<1>2. Len(a \o b) = Len(a) + Len(b) /\ Len(b) \in Nat
  OBVIOUS
<1>3. a \o b # <<>>
  BY <1>1, <1>2
<1> QED
  BY <1>1, <1>3

\* There is one request to an answer.
LEMMA RequestsTypes ==
    ASSUME NEW h \in Seq(Handled)
    PROVE  Requests(h) \in Seq(Tokens) /\ Len(Requests(h)) = Len(h)
<1>1. DOMAIN h = 1 .. Len(h) /\ Len(h) \in Nat /\ \A i \in 1 .. Len(h) : h[i] \in Handled
  OBVIOUS
<1> DEFINE r == [i \in 1 .. Len(h) |-> h[i].tok]
<1>2. Requests(h) = r
  BY <1>1 DEF Requests
<1>3. \A i \in 1 .. Len(h) : h[i].tok \in Tokens
  BY <1>1 DEF Handled
<1> QED
  BY <1>1, <1>2, <1>3

\* Nothing answered, nothing taken.
LEMMA RequestsNone == Requests(<<>>) = <<>>
BY DEF Requests

\* The requests of two sequences of answers, one after the other.
LEMMA RequestsJoin ==
    ASSUME NEW h \in Seq(Handled), NEW g \in Seq(Handled)
    PROVE  Requests(h \o g) = Requests(h) \o Requests(g)
<1>1. h \o g \in Seq(Handled) /\ Len(h \o g) = Len(h) + Len(g)
  OBVIOUS
<1>2. Requests(h \o g) \in Seq(Tokens) /\ Len(Requests(h \o g)) = Len(h) + Len(g)
  BY <1>1, RequestsTypes
<1>0. /\ Requests(h) \in Seq(Tokens) /\ Len(Requests(h)) = Len(h)
      /\ Requests(g) \in Seq(Tokens) /\ Len(Requests(g)) = Len(g)
      /\ Len(h) \in Nat /\ Len(g) \in Nat
  BY RequestsTypes
<1>3. Requests(h) \o Requests(g) \in Seq(Tokens) /\ Len(Requests(h) \o Requests(g)) = Len(h) + Len(g)
  BY <1>0
<1>4. ASSUME NEW i \in 1 .. Len(h) + Len(g)
      PROVE  Requests(h \o g)[i] = (Requests(h) \o Requests(g))[i]
  <2>1. Requests(h \o g)[i] = (h \o g)[i].tok
    BY <1>1 DEF Requests
  <2>2. CASE i <= Len(h)
    <3>1. (h \o g)[i] = h[i] /\ i \in DOMAIN h
      BY <2>2
    <3>2. (Requests(h) \o Requests(g))[i] = Requests(h)[i]
      BY <2>2, RequestsTypes
    <3> QED
      BY <2>1, <3>1, <3>2 DEF Requests
  <2>3. CASE i > Len(h)
    <3>1. (h \o g)[i] = g[i - Len(h)] /\ i - Len(h) \in DOMAIN g
      BY <2>3
    <3>2. (Requests(h) \o Requests(g))[i] = Requests(g)[i - Len(h)]
      BY <2>3, RequestsTypes
    <3> QED
      BY <2>1, <3>1, <3>2 DEF Requests
  <2> QED
    BY <1>0, <2>2, <2>3
<1> HIDE DEF Requests
<1> QED
  BY <1>2, <1>3, <1>4

\* net/http answers the n requests it takes from f, in their order, and the
\* handler answers none that asks for an upgrade.
LEMMA Serving ==
    ASSUME NEW c \in Conns, NEW f \in Seq(Tokens), NEW n \in 1 .. Len(f)
    PROVE  LET g == [i \in 1 .. n |-> Guarded(c, f[i])]
           IN  /\ g \in Seq(Handled) /\ Len(g) = n
               /\ Requests(g) = SubSeq(f, 1, n)
               /\ \A i \in 1 .. n : g[i].by = "handler" => ~WantsUpgrade(c, g[i].tok)
<1> DEFINE g == [i \in 1 .. n |-> Guarded(c, f[i])]
<1>1. \A i \in 1 .. n : f[i] \in Tokens
  OBVIOUS
<1>2. \A i \in 1 .. n : Guarded(c, f[i]) \in Handled
  BY <1>1 DEF Guarded, Handled, Answers
<1>3. g \in Seq(Handled) /\ Len(g) = n /\ DOMAIN g = 1 .. n
  BY <1>2
<1>4. \A i \in 1 .. n : g[i].tok = f[i] /\ (g[i].by = "handler" => ~WantsUpgrade(c, f[i]))
  BY DEF Guarded
<1> HIDE DEF g
<1>5. Requests(g) = [i \in 1 .. n |-> f[i]]
  BY <1>3, <1>4 DEF Requests
<1>6. SubSeq(f, 1, n) = [i \in 1 .. n |-> f[i]]
  OBVIOUS
<1>7. \A i \in 1 .. n : g[i].by = "handler" => ~WantsUpgrade(c, g[i].tok)
  BY <1>4
<1>8. Requests(g) = SubSeq(f, 1, n)
  BY <1>5, <1>6
<1> QED
  BY <1>3, <1>7, <1>8 DEF g

-----------------------------------------------------------------------------
(* Types.                                                                  *)

\* TypeOK in three parts: the requests of the connections, what dispatch did
\* with them, and the end of serve.
StreamTypes ==
    /\ place \in [Conns -> Places]
    /\ sent \in [Conns -> Seq(Tokens)]
    /\ unread \in [Conns -> Seq(Tokens)]
    /\ buffer \in [Conns -> Seq(Tokens)]
    /\ handled \in [Conns -> Seq(Handled)]

MarkTypes ==
    /\ hijacked \in [Conns -> BOOLEAN]
    /\ wrote \in [Conns -> Nat]

EndTypes ==
    /\ defaultBypass \in BOOLEAN
    /\ kind \in [Conns -> HeadKinds]
    /\ lnErr \in {"none", "failed"}
    /\ loop \in {"accept", "check", "close", "wait", "returned"}
    /\ ret \in {"none", "closed", "serverClosed"}
    /\ done \in BOOLEAN
    /\ srvClose \in {"none", "check", "close", "finished"}
    /\ inner \in {"none", "closed", "serverClosed"}
    /\ shutting \in BOOLEAN
    /\ panicked \in BOOLEAN

\* The three parts are the types.
LEMMA TypeParts == TypeOK <=> StreamTypes /\ MarkTypes /\ EndTypes
BY DEF TypeOK, StreamTypes, MarkTypes, EndTypes

\* A step that leaves the streams, the marks or the listener alone keeps its types.
LEMMA StreamTypesKept ==
    ASSUME StreamTypes, UNCHANGED <<place, sent, unread, buffer, handled>>
    PROVE  StreamTypes'
BY DEF StreamTypes

\* The same for the marks.
LEMMA MarkTypesKept ==
    ASSUME MarkTypes, UNCHANGED <<hijacked, wrote>>
    PROVE  MarkTypes'
BY DEF MarkTypes

\* The same for the listener.
LEMMA EndTypesKept ==
    ASSUME EndTypes, UNCHANGED <<given, listener>>
    PROVE  EndTypes'
BY Zenon DEF EndTypes, given, listener

\* The types hold at the start.
LEMMA TypeInit == Init => TypeOK
<1> SUFFICES ASSUME Init PROVE TypeOK
  OBVIOUS
<1>1. <<>> \in Seq(Tokens) /\ <<>> \in Seq(Handled)
  OBVIOUS
<1>2. StreamTypes /\ MarkTypes
  BY <1>1 DEF Init, StreamTypes, MarkTypes, Places
<1>3. EndTypes
  BY DEF Init, EndTypes
<1> QED
  BY <1>2, <1>3, TypeParts

\* The types of the streams and of the marks survive every step of a connection.
LEMMA ConnTypesStep ==
    ASSUME StreamTypes, MarkTypes, NEW c \in Conns,
           Client(c) \/ Dispatch(c) \/ Owner(c) \/ Accept(c)
    PROVE  StreamTypes' /\ MarkTypes' /\ UNCHANGED <<given, listener>>
<1>1. <<>> \in Seq(Tokens)
  OBVIOUS
<1>2. CASE Connects(c)
  BY <1>1, <1>2, MarkTypesKept DEF Connects, Move, CloseConn, StreamTypes, Places
<1>3. CASE Accept(c)
  BY <1>1, <1>3, MarkTypesKept DEF Accept, Move, CloseConn, StreamTypes, Places
<1>4. CASE HeadFails(c)
  BY <1>1, <1>4, MarkTypesKept DEF HeadFails, Move, CloseConn, StreamTypes, Places
<1>5. CASE ParseFails(c)
  BY <1>1, <1>5, MarkTypesKept DEF ParseFails, Move, CloseConn, StreamTypes, Places
<1>6. CASE Ordinary(c)
  BY <1>1, <1>6, MarkTypesKept DEF Ordinary, Move, CloseConn, StreamTypes, Places
<1>7. CASE EarlyData(c)
  <2>1. [tok |-> "head", by |-> "400"] \in Handled
    BY DEF Handled, Tokens, Answers
  <2>2. Append(handled[c], [tok |-> "head", by |-> "400"]) \in Seq(Handled)
    BY <2>1 DEF StreamTypes
  <2> QED
    BY <1>1, <1>7, <2>2 DEF EarlyData, Move, CloseConn, StreamTypes, MarkTypes, Places
<1>8. CASE Bypass(c)
  <2>1. [tok |-> "head", by |-> "bypass"] \in Handled
    BY DEF Handled, Tokens, Answers
  <2>2. Append(handled[c], [tok |-> "head", by |-> "bypass"]) \in Seq(Handled)
    BY <2>1 DEF StreamTypes
  <2> QED
    BY <1>1, <1>8, <2>2 DEF Bypass, Move, CloseConn, StreamTypes, MarkTypes, Places
<1>9. CASE Offered(c)
  BY <1>1, <1>9, MarkTypesKept DEF Offered, Move, CloseConn, StreamTypes, Places
<1>10. CASE OfferRefused(c)
  BY <1>1, <1>10, MarkTypesKept DEF OfferRefused, Move, CloseConn, StreamTypes, Places
<1>11. CASE Hijack(c)
  BY <1>11, StreamTypesKept DEF Hijack, MarkTypes
<1>12. CASE HandlerFinished(c)
  BY <1>1, <1>12 DEF HandlerFinished, Move, CloseConn, StreamTypes, MarkTypes, Places
<1>13. CASE HandlerKeeps(c)
  BY <1>1, <1>13, MarkTypesKept DEF HandlerKeeps, Move, CloseConn, StreamTypes, Places
<1>14. CASE HijackerCloses(c)
  BY <1>1, <1>14, MarkTypesKept DEF HijackerCloses, Move, CloseConn, StreamTypes, Places
<1>15. CASE NetHttpCloses(c)
  BY <1>1, <1>15, MarkTypesKept DEF NetHttpCloses, Move, CloseConn, StreamTypes, Places
<1>16. ASSUME NEW t \in Tokens, Sends(c, t) PROVE StreamTypes' /\ MarkTypes' /\ UNCHANGED <<given, listener>>
  BY <1>16, MarkTypesKept DEF Sends, StreamTypes
<1>17. ASSUME NEW n \in 1 .. MaxSent, ReadHead(c, n) PROVE StreamTypes' /\ MarkTypes' /\ UNCHANGED <<given, listener>>
  <2>1. n \in 0 .. Len(unread[c]) /\ unread[c] \in Seq(Tokens)
    BY <1>17, MaxSentAssumption DEF ReadHead, StreamTypes
  <2>2. SubSeq(unread[c], 1, n) \in Seq(Tokens) /\ SubSeq(unread[c], n + 1, Len(unread[c])) \in Seq(Tokens)
    BY <2>1, TakenAndRest
  <2> QED
    BY <1>17, <2>2, MarkTypesKept DEF ReadHead, Move, StreamTypes, Places
<1>18. ASSUME NEW n \in 1 .. MaxSent, ServeRequests(c, n) PROVE StreamTypes' /\ MarkTypes' /\ UNCHANGED <<given, listener>>
  <2> DEFINE from == IF buffer[c] # <<>> THEN buffer[c] ELSE unread[c]
             rest == SubSeq(from, n + 1, Len(from))
             g == [i \in 1 .. n |-> Guarded(c, from[i])]
  <2>1. from \in Seq(Tokens) /\ n <= Len(from)
    BY <1>18 DEF ServeRequests, StreamTypes
  <2>2. n \in 1 .. Len(from)
    BY <2>1, MaxSentAssumption
  <2>3. handled' = [handled EXCEPT ![c] = @ \o g]
    BY <1>18 DEF ServeRequests
  <2>4. \/ buffer' = [buffer EXCEPT ![c] = rest] /\ UNCHANGED unread
        \/ unread' = [unread EXCEPT ![c] = rest] /\ UNCHANGED buffer
    BY <1>18 DEF ServeRequests
  <2>5. UNCHANGED <<place, given, sent, hijacked, wrote, listener>>
    BY <1>18 DEF ServeRequests
  <2> HIDE DEF from
  <2>6. rest \in Seq(Tokens)
    BY <2>1, <2>2, TakenAndRest
  <2>7. g \in Seq(Handled)
    BY <2>1, <2>2, Serving
  <2> HIDE DEF rest, g
  <2>8. handled' \in [Conns -> Seq(Handled)]
    BY <2>3, <2>7 DEF StreamTypes
  <2>9. buffer' \in [Conns -> Seq(Tokens)] /\ unread' \in [Conns -> Seq(Tokens)]
    BY <2>4, <2>6 DEF StreamTypes
  <2> QED
    BY <2>5, <2>8, <2>9, MarkTypesKept DEF StreamTypes
<1> QED
  BY <1>2, <1>3, <1>4, <1>5, <1>6, <1>7, <1>8, <1>9, <1>10,
     <1>11, <1>12, <1>13, <1>14, <1>15, <1>16, <1>17, <1>18
     DEF Client, Dispatch, Owner


\* The types survive every step.
LEMMA TypeStep == TypeOK /\ [Next]_vars => TypeOK'
<1> SUFFICES ASSUME TypeOK, [Next]_vars PROVE (StreamTypes /\ MarkTypes /\ EndTypes)'
  BY DEF TypeOK, StreamTypes, MarkTypes, EndTypes
<1>0. StreamTypes /\ MarkTypes /\ EndTypes
  BY TypeParts
<1>1. <<>> \in Seq(Tokens)
  OBVIOUS
<1>2. ASSUME NEW c \in Conns, Client(c) \/ Dispatch(c) \/ Owner(c) \/ Accept(c) PROVE (StreamTypes /\ MarkTypes /\ EndTypes)'
  BY <1>0, <1>2, ConnTypesStep, EndTypesKept
<1>3. CASE AcceptFails
  <2>1. StreamTypes' /\ MarkTypes'
    BY <1>0, <1>3, StreamTypesKept, MarkTypesKept DEF AcceptFails, conns
  <2>2. EndTypes'
    BY <1>0, <1>3 DEF AcceptFails, conns, given, EndTypes
  <2> QED
    BY <2>1, <2>2
<1>4. CASE CheckDone
  <2>1. StreamTypes' /\ MarkTypes'
    BY <1>0, <1>4, StreamTypesKept, MarkTypesKept DEF CheckDone, conns
  <2>2. EndTypes'
    BY <1>0, <1>4 DEF CheckDone, conns, given, EndTypes
  <2> QED
    BY <2>1, <2>2
<1>5. CASE CloseDone
  <2>1. StreamTypes' /\ MarkTypes'
    BY <1>0, <1>5, StreamTypesKept, MarkTypesKept DEF CloseDone, conns
  <2>2. EndTypes'
    BY <1>0, <1>5 DEF CloseDone, conns, given, EndTypes
  <2> QED
    BY <2>1, <2>2
<1>6. CASE Returns
  <2>1. StreamTypes' /\ MarkTypes'
    BY <1>0, <1>6, StreamTypesKept, MarkTypesKept DEF Returns, conns
  <2>2. EndTypes'
    BY <1>0, <1>6 DEF Returns, conns, given, EndTypes
  <2> QED
    BY <2>1, <2>2
<1>7. CASE SrvServeReturns
  <2>1. StreamTypes' /\ MarkTypes'
    BY <1>0, <1>7, StreamTypesKept, MarkTypesKept DEF SrvServeReturns, conns
  <2>2. EndTypes'
    BY <1>0, <1>7 DEF SrvServeReturns, conns, given, EndTypes
  <2> QED
    BY <2>1, <2>2
<1>8. CASE SrvCheckDone
  <2>1. StreamTypes' /\ MarkTypes'
    BY <1>0, <1>8, StreamTypesKept, MarkTypesKept DEF SrvCheckDone, conns
  <2>2. EndTypes'
    BY <1>0, <1>8 DEF SrvCheckDone, conns, given, EndTypes
  <2> QED
    BY <2>1, <2>2
<1>9. CASE SrvCloseDone
  <2>1. StreamTypes' /\ MarkTypes'
    BY <1>0, <1>9, StreamTypesKept, MarkTypesKept DEF SrvCloseDone, conns
  <2>2. EndTypes'
    BY <1>0, <1>9 DEF SrvCloseDone, conns, given, EndTypes
  <2> QED
    BY <2>1, <2>2
<1>10. CASE Shutdown
  <2>1. StreamTypes' /\ MarkTypes'
    BY <1>0, <1>10, StreamTypesKept, MarkTypesKept DEF Shutdown, conns
  <2>2. EndTypes'
    BY <1>0, <1>10 DEF Shutdown, conns, given, EndTypes
  <2> QED
    BY <2>1, <2>2
<1>11. CASE LnFails
  <2>1. StreamTypes' /\ MarkTypes'
    BY <1>0, <1>1, <1>11, MarkTypesKept DEF LnFails, StreamTypes, Places
  <2>2. EndTypes'
    BY <1>0, <1>11 DEF LnFails, given, EndTypes
  <2> QED
    BY <2>1, <2>2
<1>12. CASE UNCHANGED vars
  BY <1>0, <1>12, StreamTypesKept, MarkTypesKept, EndTypesKept DEF vars, conns
<1> QED
  BY <1>2, <1>3, <1>4, <1>5, <1>6, <1>7, <1>8, <1>9, <1>10,
     <1>11, <1>12
     DEF Next, Loop, Srv

-----------------------------------------------------------------------------
(* A step of one connection.                                               *)

\* What a step leaves alone of a connection.
SameStream(c) ==
    /\ sent'[c] = sent[c]
    /\ unread'[c] = unread[c]
    /\ buffer'[c] = buffer[c]
    /\ handled'[c] = handled[c]

Untouched(c) == place'[c] = place[c] /\ hijacked'[c] = hijacked[c] /\ SameStream(c)

\* A connection that a step does not touch keeps its invariant.
LEMMA UntouchedKept ==
    ASSUME NEW c \in Conns, OneConn(c), Untouched(c), UNCHANGED kind
    PROVE  OneConn(c)'
BY DEF OneConn, Untouched, SameStream, StreamInv, PlaceInv, HeadInv, GuardInv, WantsUpgrade

\* The goroutine of one connection touches no other.
LEMMA OthersUntouched ==
    ASSUME StreamTypes, MarkTypes, NEW c \in Conns,
           Client(c) \/ Dispatch(c) \/ Owner(c) \/ Accept(c),
           NEW d \in Conns, d # c
    PROVE  Untouched(d)
<1> USE DEF StreamTypes, MarkTypes, Untouched, SameStream
<1>1. CASE Connects(c)
  BY <1>1 DEF Connects, Move, CloseConn
<1>2. CASE Accept(c)
  BY <1>2 DEF Accept, Move, CloseConn
<1>3. CASE HeadFails(c)
  BY <1>3 DEF HeadFails, Move, CloseConn
<1>4. CASE ParseFails(c)
  BY <1>4 DEF ParseFails, Move, CloseConn
<1>5. CASE Ordinary(c)
  BY <1>5 DEF Ordinary, Move, CloseConn
<1>6. CASE EarlyData(c)
  BY <1>6 DEF EarlyData, Move, CloseConn
<1>7. CASE Bypass(c)
  BY <1>7 DEF Bypass, Move, CloseConn
<1>8. CASE Offered(c)
  BY <1>8 DEF Offered, Move, CloseConn
<1>9. CASE OfferRefused(c)
  BY <1>9 DEF OfferRefused, Move, CloseConn
<1>10. CASE Hijack(c)
  BY <1>10 DEF Hijack, Move, CloseConn
<1>11. CASE HandlerFinished(c)
  BY <1>11 DEF HandlerFinished, Move, CloseConn
<1>12. CASE HandlerKeeps(c)
  BY <1>12 DEF HandlerKeeps, Move, CloseConn
<1>13. CASE HijackerCloses(c)
  BY <1>13 DEF HijackerCloses, Move, CloseConn
<1>14. CASE NetHttpCloses(c)
  BY <1>14 DEF NetHttpCloses, Move, CloseConn
<1>15. ASSUME NEW t \in Tokens, Sends(c, t) PROVE Untouched(d)
  BY <1>15 DEF Sends, Move
<1>16. ASSUME NEW n \in 1 .. MaxSent, ReadHead(c, n) PROVE Untouched(d)
  BY <1>16 DEF ReadHead, Move
<1>17. ASSUME NEW n \in 1 .. MaxSent, ServeRequests(c, n) PROVE Untouched(d)
  BY <1>17 DEF ServeRequests, Move
<1> HIDE DEF StreamTypes, MarkTypes, Untouched, SameStream
<1> QED
  BY <1>1, <1>2, <1>3, <1>4, <1>5, <1>6, <1>7, <1>8, <1>9,
     <1>10, <1>11, <1>12, <1>13, <1>14, <1>15, <1>16, <1>17
     DEF Client, Dispatch, Owner


\* A connection that goes to another place with its stream as it was.
LEMMA Moving ==
    ASSUME NEW c \in Conns, OneConn(c), SameStream(c), UNCHANGED kind,
           place[c] # "closed", PlaceInv(c)'
    PROVE  OneConn(c)'
BY DEF OneConn, SameStream, StreamInv, HeadInv, GuardInv, WantsUpgrade

\* A connection that is closed: nothing is claimed of its stream any more.
LEMMA ClosingConn ==
    ASSUME NEW c \in Conns, OneConn(c), place'[c] = "closed", sent'[c] = sent[c], GuardInv(c)'
    PROVE  OneConn(c)'
BY DEF OneConn, StreamInv, PlaceInv, HeadInv

\* The guard of a connection whose answers stay as they are.
LEMMA GuardKept ==
    ASSUME NEW c \in Conns, GuardInv(c), handled'[c] = handled[c], UNCHANGED kind
    PROVE  GuardInv(c)'
BY DEF GuardInv, WantsUpgrade

\* The client sends: the request is behind everything that is in the stream.
LEMMA SendingConn ==
    ASSUME StreamTypes, NEW c \in Conns, NEW t \in Tokens, OneConn(c), Sends(c, t)
    PROVE  OneConn(c)'
<1>1. /\ sent'[c] = Append(sent[c], t) /\ unread'[c] = Append(unread[c], t)
      /\ place'[c] = place[c] /\ buffer'[c] = buffer[c] /\ handled'[c] = handled[c]
      /\ hijacked'[c] = hijacked[c] /\ UNCHANGED kind /\ place[c] # "closed"
      /\ t = "head" <=> sent[c] = <<>>
  BY DEF Sends, given, StreamTypes
<1>2. /\ sent[c] \in Seq(Tokens) /\ unread[c] \in Seq(Tokens) /\ buffer[c] \in Seq(Tokens)
      /\ handled[c] \in Seq(Handled)
  BY DEF StreamTypes
<1>3. Requests(handled[c]) \in Seq(Tokens)
  BY <1>2, RequestsTypes
<1>4. Requests(handled[c]) \o buffer[c] \in Seq(Tokens)
  BY <1>2, <1>3
<1>5. Append(Requests(handled[c]) \o buffer[c] \o unread[c], t)
         = Requests(handled[c]) \o buffer[c] \o Append(unread[c], t)
  <2>1. PICK a \in Seq(Tokens) : a = Requests(handled[c]) \o buffer[c]
    BY <1>4
  <2>2. PICK u \in Seq(Tokens) : u = unread[c]
    BY <1>2
  <2>3. Append(a \o u, t) = a \o Append(u, t)
    OBVIOUS
  <2> QED
    BY <2>1, <2>2, <2>3, Zenon
<1>6. StreamInv(c)'
  BY <1>1, <1>5 DEF OneConn, StreamInv
<1>7. PlaceInv(c)'
  BY <1>1 DEF OneConn, PlaceInv
<1>8. HeadInv(c)'
  <2>1. CASE sent[c] = <<>>
    BY <1>1, <2>1 DEF HeadInv
  <2>2. CASE sent[c] # <<>>
    <3>1. Len(sent[c]) \in Nat /\ Len(sent[c]) >= 1
      BY <1>2, <2>2
    <3>2. Append(sent[c], t)[1] = sent[c][1]
      BY <1>2, <3>1
    <3> QED
      BY <1>1, <2>2, <3>2 DEF OneConn, HeadInv
  <2> QED
    BY <2>1, <2>2
<1> QED
  BY <1>1, <1>6, <1>7, <1>8, GuardKept DEF OneConn

\* readHead takes the first n requests of the connection into its buffer.
LEMMA ReadingConn ==
    ASSUME StreamTypes, NEW c \in Conns, NEW n \in 1 .. MaxSent, OneConn(c), ReadHead(c, n)
    PROVE  OneConn(c)'
<1> DEFINE a == SubSeq(unread[c], 1, n)
           b == SubSeq(unread[c], n + 1, Len(unread[c]))
<1>1. /\ sent'[c] = sent[c] /\ unread'[c] = b /\ buffer'[c] = a /\ handled'[c] = handled[c]
      /\ place[c] = "reading" /\ place'[c] = "choosing"
      /\ hijacked'[c] = hijacked[c] /\ UNCHANGED kind /\ n <= Len(unread[c])
  BY DEF ReadHead, Move, given, StreamTypes
<1>2. unread[c] \in Seq(Tokens) /\ n \in 0 .. Len(unread[c])
  BY <1>1, MaxSentAssumption DEF StreamTypes
<1>3. a \in Seq(Tokens) /\ b \in Seq(Tokens) /\ Len(a) = n /\ unread[c] = a \o b
  BY <1>2, TakenAndRest
<1> HIDE DEF a, b
<1>4. a # <<>>
  BY <1>3, MaxSentAssumption
<1>5. handled[c] = <<>> /\ buffer[c] = <<>> /\ ~hijacked[c]
      /\ sent[c] = Requests(<<>>) \o <<>> \o unread[c]
  BY <1>1 DEF OneConn, PlaceInv, StreamInv
<1>6. sent[c] = a \o b
  <2>1. Requests(<<>>) \o <<>> = <<>>
    BY RequestsNone
  <2>2. <<>> \o unread[c] = unread[c]
    BY <1>2, JoinNothing
  <2> QED
    BY <1>3, <1>5, <2>1, <2>2, Zenon
<1>7. Requests(<<>>) \o a \o b = a \o b
  BY <1>3, RequestsNone, JoinNothing
<1>8. StreamInv(c)'
  BY <1>1, <1>5, <1>6, <1>7 DEF StreamInv
<1>9. PlaceInv(c)'
  BY <1>1, <1>4, <1>5 DEF PlaceInv
<1>10. HeadInv(c)'
  BY <1>1 DEF OneConn, HeadInv
<1> QED
  BY <1>1, <1>8, <1>9, <1>10, GuardKept DEF OneConn

\* A bypassed request is the only one in the buffer, and it is the head.
LEMMA BypassingConn ==
    ASSUME StreamTypes, NEW c \in Conns, OneConn(c), Bypass(c)
    PROVE  OneConn(c)'
<1> DEFINE h == [tok |-> "head", by |-> "bypass"]
<1>1. /\ sent'[c] = sent[c] /\ unread'[c] = unread[c] /\ buffer'[c] = <<>>
      /\ handled'[c] = Append(handled[c], h)
      /\ place[c] = "choosing" /\ place'[c] = "handler" /\ UNCHANGED kind
      /\ Len(buffer[c]) = 1
  BY DEF Bypass, Move, given, StreamTypes
<1>2. unread[c] \in Seq(Tokens) /\ buffer[c] \in Seq(Tokens)
  BY DEF StreamTypes
<1>3. handled[c] = <<>> /\ sent[c] = Requests(<<>>) \o buffer[c] \o unread[c]
  BY <1>1 DEF OneConn, PlaceInv, StreamInv
<1>4. sent[c] = buffer[c] \o unread[c]
  BY <1>2, <1>3, RequestsNone, JoinNothing
<1>5. sent[c][1] = buffer[c][1] /\ sent[c] # <<>>
  <2>1. PICK b \in Seq(Tokens) : b = buffer[c] /\ Len(b) = 1
    BY <1>1, <1>2, Zenon
  <2>2. b # <<>>
    BY <2>1
  <2> QED
    BY <1>2, <1>4, <2>1, <2>2, JoinFirst, Zenon
<1>6. buffer[c] = <<"head">>
  BY <1>1, <1>2, <1>5 DEF OneConn, HeadInv
<1>7. handled'[c] = <<h>>
  BY <1>1, <1>3
<1>8. DOMAIN <<h>> = {1} /\ <<h>>[1] = h
  OBVIOUS
<1>9. h.tok = "head" /\ h.by = "bypass"
  OBVIOUS
<1> HIDE DEF h
<1>10. Requests(<<h>>) = <<"head">>
  BY <1>8, <1>9 DEF Requests
<1>11. Requests(<<h>>) \o <<>> \o unread[c] = sent[c]
  <2>1. <<"head">> \in Seq(Tokens)
    BY DEF Tokens
  <2> QED
    BY <1>4, <1>6, <1>10, <2>1, JoinNothing
<1>12. StreamInv(c)' /\ PlaceInv(c)'
  BY <1>1, <1>7, <1>11 DEF StreamInv, PlaceInv
<1>13. HeadInv(c)'
  BY <1>1 DEF OneConn, HeadInv
<1>14. GuardInv(c)'
  BY <1>7, <1>8, <1>9 DEF GuardInv
<1> QED
  BY <1>12, <1>13, <1>14 DEF OneConn

\* net/http takes n requests, from the buffer while it holds any and from the
\* connection after that, and the stream is the same.
LEMMA ServingConn ==
    ASSUME StreamTypes, NEW c \in Conns, NEW n \in 1 .. MaxSent, OneConn(c), ServeRequests(c, n)
    PROVE  OneConn(c)'
<1> DEFINE from == IF buffer[c] # <<>> THEN buffer[c] ELSE unread[c]
           taken == SubSeq(from, 1, n)
           rest == SubSeq(from, n + 1, Len(from))
           g == [i \in 1 .. n |-> Guarded(c, from[i])]
<1>1. /\ from \in Seq(Tokens) /\ n <= Len(from) /\ handled[c] \in Seq(Handled)
      /\ unread[c] \in Seq(Tokens) /\ buffer[c] \in Seq(Tokens)
  BY DEF ServeRequests, StreamTypes
<1>2. n \in 1 .. Len(from) /\ n \in 0 .. Len(from)
  BY <1>1, MaxSentAssumption
<1>3. /\ handled'[c] = handled[c] \o g
      /\ sent'[c] = sent[c] /\ place'[c] = place[c] /\ place[c] = "nethttp"
      /\ hijacked'[c] = hijacked[c] /\ UNCHANGED kind
  BY DEF ServeRequests, StreamTypes, given
<1>4. \/ buffer[c] # <<>> /\ from = buffer[c] /\ buffer'[c] = rest /\ unread'[c] = unread[c]
      \/ buffer[c] = <<>> /\ from = unread[c] /\ unread'[c] = rest /\ buffer'[c] = buffer[c]
  BY DEF ServeRequests, StreamTypes
<1> HIDE DEF from
<1>5. taken \in Seq(Tokens) /\ rest \in Seq(Tokens) /\ from = taken \o rest
  BY <1>1, <1>2, TakenAndRest
<1>6. /\ g \in Seq(Handled) /\ Len(g) = n /\ Requests(g) = taken
      /\ \A i \in 1 .. n : g[i].by = "handler" => ~WantsUpgrade(c, g[i].tok)
  BY <1>1, <1>2, Serving
<1> HIDE DEF taken, rest, g
<1>7. PICK r \in Seq(Tokens) : r = Requests(handled[c])
  BY <1>1, RequestsTypes
<1>8. Requests(handled'[c]) = r \o taken
  BY <1>1, <1>3, <1>6, <1>7, RequestsJoin
<1>9. sent[c] = r \o buffer[c] \o unread[c]
  BY <1>3, <1>7 DEF OneConn, StreamInv
<1>10. StreamInv(c)'
  <2>1. CASE buffer[c] # <<>>
    <3>1. sent[c] = r \o (taken \o rest) \o unread[c]
      BY <1>4, <1>5, <1>9, <2>1
    <3>2. r \o (taken \o rest) = r \o taken \o rest
      BY <1>5, <1>7, JoinJoin
    <3>3. buffer'[c] = rest /\ unread'[c] = unread[c]
      BY <1>4, <2>1
    <3> QED
      BY <1>3, <1>8, <3>1, <3>2, <3>3 DEF StreamInv
  <2>2. CASE buffer[c] = <<>>
    <3>1. sent[c] = r \o (taken \o rest)
      BY <1>4, <1>5, <1>7, <1>9, <2>2, JoinNothing
    <3>2. r \o (taken \o rest) = r \o taken \o rest
      BY <1>5, <1>7, JoinJoin
    <3>3. r \o taken \in Seq(Tokens)
      BY <1>5, <1>7
    <3>4. r \o taken \o <<>> = r \o taken
      BY <3>3, JoinNothing
    <3>5. buffer'[c] = <<>> /\ unread'[c] = rest
      BY <1>4, <2>2
    <3> QED
      BY <1>3, <1>8, <3>1, <3>2, <3>4, <3>5 DEF StreamInv
  <2> QED
    BY <2>1, <2>2
<1>11. PlaceInv(c)' /\ HeadInv(c)'
  BY <1>3 DEF OneConn, PlaceInv, HeadInv
<1>12. GuardInv(c)'
  <2>1. DOMAIN handled'[c] = 1 .. Len(handled[c]) + n /\ Len(handled[c]) \in Nat /\ n \in Nat
    <3>1. PICK a \in Seq(Handled), d \in Seq(Handled) : a = handled[c] /\ d = g /\ Len(d) = n
      BY <1>1, <1>6, Zenon
    <3>2. DOMAIN (a \o d) = 1 .. Len(a) + Len(d) /\ Len(a) \in Nat /\ Len(d) \in Nat
      OBVIOUS
    <3> QED
      BY <1>3, <3>1, <3>2, Zenon
  <2>2. ASSUME NEW i \in DOMAIN handled'[c]
        PROVE  handled'[c][i].by = "handler" => ~WantsUpgrade(c, handled'[c][i].tok)
    <3>1. CASE i <= Len(handled[c])
      <4>1. handled'[c][i] = handled[c][i] /\ i \in DOMAIN handled[c]
        BY <1>1, <1>3, <1>6, <2>1, <3>1
      <4> QED
        BY <4>1 DEF OneConn, GuardInv
    <3>2. CASE i > Len(handled[c])
      <4>1. handled'[c][i] = g[i - Len(handled[c])] /\ i - Len(handled[c]) \in 1 .. n
        BY <1>1, <1>3, <1>6, <2>1, <3>2
      <4> QED
        BY <1>6, <4>1
    <3> QED
      BY <2>1, <3>1, <3>2
  <2> QED
    BY <1>3, <2>2 DEF GuardInv, WantsUpgrade
<1> QED
  BY <1>10, <1>11, <1>12 DEF OneConn

-----------------------------------------------------------------------------
(* Every step.                                                             *)

\* A step of a connection keeps what is claimed of it.
LEMMA ConnKept ==
    ASSUME StreamTypes, MarkTypes, NEW c \in Conns, OneConn(c),
           Client(c) \/ Dispatch(c) \/ Owner(c) \/ Accept(c)
    PROVE  OneConn(c)'
<1>1. CASE Connects(c)
  <2>1. /\ SameStream(c) /\ hijacked'[c] = hijacked[c] /\ UNCHANGED kind
        /\ place[c] # "closed" /\ place'[c] = "queued"
    BY <1>1 DEF Connects, Move, given, SameStream, StreamTypes
  <2>2. PlaceInv(c)'
    BY <1>1, <2>1 DEF Connects, SameStream, OneConn, PlaceInv
  <2> QED
    BY <2>1, <2>2, Moving
<1>2. CASE Accept(c)
  <2>1. /\ SameStream(c) /\ hijacked'[c] = hijacked[c] /\ UNCHANGED kind
        /\ place[c] # "closed" /\ place'[c] = "reading"
    BY <1>2 DEF Accept, Move, given, SameStream, StreamTypes
  <2>2. PlaceInv(c)'
    BY <1>2, <2>1 DEF Accept, SameStream, OneConn, PlaceInv
  <2> QED
    BY <2>1, <2>2, Moving
<1>3. CASE Ordinary(c)
  <2>1. /\ SameStream(c) /\ hijacked'[c] = hijacked[c] /\ UNCHANGED kind
        /\ place[c] # "closed" /\ place'[c] = "offering"
    BY <1>3 DEF Ordinary, Move, given, SameStream, StreamTypes
  <2>2. PlaceInv(c)'
    BY <1>3, <2>1 DEF Ordinary, SameStream, OneConn, PlaceInv
  <2> QED
    BY <2>1, <2>2, Moving
<1>4. CASE Offered(c)
  <2>1. /\ SameStream(c) /\ hijacked'[c] = hijacked[c] /\ UNCHANGED kind
        /\ place[c] # "closed" /\ place'[c] = "nethttp"
    BY <1>4 DEF Offered, Move, given, SameStream, StreamTypes
  <2>2. PlaceInv(c)'
    BY <1>4, <2>1 DEF Offered, SameStream, OneConn, PlaceInv
  <2> QED
    BY <2>1, <2>2, Moving
<1>5. CASE HandlerKeeps(c)
  <2>1. /\ SameStream(c) /\ hijacked'[c] = hijacked[c] /\ UNCHANGED kind
        /\ place[c] # "closed" /\ place'[c] = "hijacked"
    BY <1>5 DEF HandlerKeeps, Move, given, SameStream, StreamTypes
  <2>2. PlaceInv(c)'
    BY <1>5, <2>1 DEF HandlerKeeps, SameStream, OneConn, PlaceInv
  <2> QED
    BY <2>1, <2>2, Moving
<1>6. CASE HeadFails(c)
  <2>1. /\ place'[c] = "closed" /\ sent'[c] = sent[c]
        /\ handled'[c] = handled[c] /\ UNCHANGED kind
    BY <1>6 DEF HeadFails, CloseConn, Move, given, StreamTypes
  <2> QED
    BY <2>1, GuardKept, ClosingConn DEF OneConn
<1>7. CASE ParseFails(c)
  <2>1. /\ place'[c] = "closed" /\ sent'[c] = sent[c]
        /\ handled'[c] = handled[c] /\ UNCHANGED kind
    BY <1>7 DEF ParseFails, CloseConn, Move, given, StreamTypes
  <2> QED
    BY <2>1, GuardKept, ClosingConn DEF OneConn
<1>8. CASE OfferRefused(c)
  <2>1. /\ place'[c] = "closed" /\ sent'[c] = sent[c]
        /\ handled'[c] = handled[c] /\ UNCHANGED kind
    BY <1>8 DEF OfferRefused, CloseConn, Move, given, StreamTypes
  <2> QED
    BY <2>1, GuardKept, ClosingConn DEF OneConn
<1>9. CASE HandlerFinished(c)
  <2>1. /\ place'[c] = "closed" /\ sent'[c] = sent[c]
        /\ handled'[c] = handled[c] /\ UNCHANGED kind
    BY <1>9 DEF HandlerFinished, CloseConn, Move, given, StreamTypes
  <2> QED
    BY <2>1, GuardKept, ClosingConn DEF OneConn
<1>10. CASE HijackerCloses(c)
  <2>1. /\ place'[c] = "closed" /\ sent'[c] = sent[c]
        /\ handled'[c] = handled[c] /\ UNCHANGED kind
    BY <1>10 DEF HijackerCloses, CloseConn, Move, given, StreamTypes
  <2> QED
    BY <2>1, GuardKept, ClosingConn DEF OneConn
<1>11. CASE NetHttpCloses(c)
  <2>1. /\ place'[c] = "closed" /\ sent'[c] = sent[c]
        /\ handled'[c] = handled[c] /\ UNCHANGED kind
    BY <1>11 DEF NetHttpCloses, CloseConn, Move, given, StreamTypes
  <2> QED
    BY <2>1, GuardKept, ClosingConn DEF OneConn
<1>12. CASE EarlyData(c)
  <2>1. /\ place[c] = "choosing" /\ place'[c] = "closed" /\ sent'[c] = sent[c]
        /\ handled'[c] = Append(handled[c], [tok |-> "head", by |-> "400"])
    BY <1>12 DEF EarlyData, CloseConn, Move, StreamTypes
  <2>2. handled[c] = <<>>
    BY <2>1 DEF OneConn, PlaceInv
  <2>3. GuardInv(c)'
    BY <2>1, <2>2 DEF GuardInv
  <2> QED
    BY <2>1, <2>3, ClosingConn
<1>13. CASE Bypass(c)
  BY <1>13, BypassingConn
<1>14. CASE Hijack(c)
  <2>1. SameStream(c) /\ UNCHANGED kind /\ place[c] = "handler" /\ place'[c] = place[c]
    BY <1>14 DEF Hijack, given, SameStream
  <2>2. PlaceInv(c)'
    BY <2>1 DEF SameStream, OneConn, PlaceInv
  <2> QED
    BY <2>1, <2>2, Moving
<1>15. ASSUME NEW t \in Tokens, Sends(c, t) PROVE OneConn(c)'
  BY <1>15, SendingConn
<1>16. ASSUME NEW n \in 1 .. MaxSent, ReadHead(c, n) PROVE OneConn(c)'
  BY <1>16, ReadingConn
<1>17. ASSUME NEW n \in 1 .. MaxSent, ServeRequests(c, n) PROVE OneConn(c)'
  BY <1>17, ServingConn
<1> QED
  BY <1>1, <1>2, <1>3, <1>4, <1>5, <1>6, <1>7, <1>8, <1>9,
     <1>10, <1>11, <1>12, <1>13, <1>14, <1>15, <1>16, <1>17
     DEF Client, Dispatch, Owner

\* ConnInv survives every step.
LEMMA ConnInvStep == TypeOK /\ ConnInv /\ [Next]_vars => ConnInv'
<1> SUFFICES ASSUME TypeOK, ConnInv, [Next]_vars PROVE ConnInv'
  OBVIOUS
<1>0. StreamTypes /\ MarkTypes
  BY TypeParts
<1>1. ASSUME NEW c \in Conns, Client(c) \/ Dispatch(c) \/ Owner(c) \/ Accept(c) PROVE ConnInv'
  <2>1. UNCHANGED kind
    BY <1>0, <1>1, ConnTypesStep DEF given
  <2>2. ASSUME NEW d \in Conns, d # c PROVE OneConn(d)'
    BY <1>0, <1>1, <2>1, <2>2, OthersUntouched, UntouchedKept DEF ConnInv
  <2>3. OneConn(c)'
    BY <1>0, <1>1, ConnKept DEF ConnInv
  <2> QED
    BY <2>2, <2>3 DEF ConnInv
<1>2. CASE LnFails
  <2> SUFFICES ASSUME NEW c \in Conns PROVE OneConn(c)'
    BY DEF ConnInv
  <2>1. OneConn(c) /\ UNCHANGED kind /\ sent'[c] = sent[c] /\ handled'[c] = handled[c]
    BY <1>2 DEF LnFails, given, ConnInv
  <2>2. CASE place[c] = "queued"
    <3>1. place'[c] = "closed"
      BY <1>2, <2>2 DEF LnFails
    <3> QED
      BY <2>1, <3>1, GuardKept, ClosingConn DEF OneConn
  <2>3. CASE place[c] # "queued"
    <3>1. Untouched(c)
      BY <1>0, <1>2, <2>3 DEF LnFails, Untouched, SameStream, StreamTypes
    <3> QED
      BY <2>1, <3>1, UntouchedKept
  <2> QED
    BY <2>2, <2>3
<1>3. ASSUME UNCHANGED conns PROVE ConnInv'
  <2> SUFFICES ASSUME NEW c \in Conns PROVE OneConn(c)'
    BY DEF ConnInv
  <2>1. OneConn(c) /\ Untouched(c) /\ UNCHANGED kind
    BY <1>3 DEF ConnInv, conns, given, Untouched, SameStream
  <2> QED
    BY <2>1, UntouchedKept
<1>4. ASSUME AcceptFails \/ CheckDone \/ CloseDone \/ Returns \/ Srv \/ Shutdown \/ UNCHANGED vars
      PROVE  UNCHANGED conns
  BY <1>4 DEF AcceptFails, CheckDone, CloseDone, Returns, Srv, SrvServeReturns, SrvCheckDone,
              SrvCloseDone, Shutdown, vars
<1> QED
  BY <1>1, <1>2, <1>3, <1>4 DEF Next, Loop

\* EndInv survives every step.
LEMMA EndInvStep == TypeOK /\ EndInv /\ [Next]_vars => EndInv'
<1> SUFFICES ASSUME TypeOK, EndInv, [Next]_vars PROVE EndInv'
  OBVIOUS
<1>0. StreamTypes /\ MarkTypes /\ EndTypes
  BY TypeParts
<1>1. ASSUME UNCHANGED listener PROVE EndInv'
  BY <1>1, Zenon DEF listener, EndInv
<1>2. ASSUME NEW c \in Conns, Client(c) \/ Dispatch(c) \/ Owner(c) \/ Accept(c) PROVE EndInv'
  BY <1>0, <1>1, <1>2, ConnTypesStep
<1>3. CASE AcceptFails
  BY <1>0, <1>3 DEF AcceptFails, EndInv, EndTypes
<1>4. CASE CheckDone
  BY <1>0, <1>4 DEF CheckDone, EndInv, EndTypes
<1>5. CASE CloseDone
  BY <1>0, <1>5 DEF CloseDone, EndInv, EndTypes
<1>6. CASE Returns
  BY <1>0, <1>6 DEF Returns, EndInv, EndTypes
<1>7. CASE SrvServeReturns
  BY <1>0, <1>7 DEF SrvServeReturns, EndInv, EndTypes
<1>8. CASE SrvCheckDone
  BY <1>0, <1>8 DEF SrvCheckDone, EndInv, EndTypes
<1>9. CASE SrvCloseDone
  BY <1>0, <1>9 DEF SrvCloseDone, EndInv, EndTypes
<1>10. CASE Shutdown
  BY <1>0, <1>10 DEF Shutdown, EndInv, EndTypes
<1>11. CASE LnFails
  BY <1>0, <1>11 DEF LnFails, EndInv, EndTypes
<1> QED
  BY <1>1, <1>2, <1>3, <1>4, <1>5, <1>6, <1>7, <1>8, <1>9, <1>10, <1>11
     DEF Next, Loop, Srv, vars

\* The inductive invariant holds in every state.
LEMMA HsInvariant == Spec => []HsInv
<1>1. Init => HsInv
  <2> SUFFICES ASSUME Init PROVE HsInv
    OBVIOUS
  <2>1. ASSUME NEW c \in Conns PROVE OneConn(c)
    <3>1. /\ place[c] = "none" /\ sent[c] = <<>> /\ unread[c] = <<>> /\ buffer[c] = <<>>
          /\ handled[c] = <<>> /\ ~hijacked[c]
      BY DEF Init
    <3>2. Requests(<<>>) \o <<>> \o <<>> = <<>>
      BY RequestsNone
    <3> QED
      BY <3>1, <3>2 DEF OneConn, StreamInv, PlaceInv, HeadInv, GuardInv
  <2>2. EndInv
    BY DEF Init, EndInv
  <2> QED
    BY <2>1, <2>2, TypeInit DEF HsInv, ConnInv
<1>2. HsInv /\ [Next]_vars => HsInv'
  BY TypeStep, ConnInvStep, EndInvStep DEF HsInv
<1> QED
  BY <1>1, <1>2, PTL DEF Spec

-----------------------------------------------------------------------------
(* The properties.                                                         *)

\* The type invariant of the server.
THEOREM ServerTypes == Spec => []TypeOK
<1>1. HsInv => TypeOK
  BY DEF HsInv
<1> QED
  BY <1>1, HsInvariant, PTL

\* replayConn and readHead together lose, reorder and repeat nothing: net/http
\* sees what the client sent, however it was split between the buffered head
\* and the connection.
THEOREM ServerReplayComplete == Spec => []ReplayComplete
<1>1. HsInv => ReplayComplete
  BY DEF HsInv, ConnInv, OneConn, StreamInv, ReplayComplete
<1> QED
  BY <1>1, HsInvariant, PTL

\* A handler on a bypassed connection finds everything behind the first
\* request still in the connection: dispatch refuses a head with bytes behind.
THEOREM ServerNoEarlyDataLost == Spec => []NoEarlyDataLost
<1> SUFFICES ASSUME HsInv, NEW c \in Conns, place[c] \in {"handler", "hijacked"}
             PROVE  sent[c] = Requests(handled[c]) \o unread[c]
  <2>1. HsInv => NoEarlyDataLost
    BY DEF NoEarlyDataLost
  <2> QED
    BY <2>1, HsInvariant, PTL
<1>1. sent[c] = Requests(handled[c]) \o <<>> \o unread[c]
  BY DEF HsInv, ConnInv, OneConn, StreamInv, PlaceInv
<1>2. handled[c] \in Seq(Handled)
  BY DEF HsInv, TypeOK
<1>3. PICK r \in Seq(Tokens) : r = Requests(handled[c])
  BY <1>2, RequestsTypes
<1>4. r \o <<>> = r
  BY JoinNothing
<1> QED
  BY <1>1, <1>3, <1>4

\* net/http runs the handler for no request that asks for an upgrade, the
\* first or a later one of a connection: guardUpgrades answers 501.
THEOREM ServerUpgradeIsHijackable == Spec => []UpgradeIsHijackable
<1>1. HsInv => UpgradeIsHijackable
  BY DEF HsInv, ConnInv, OneConn, GuardInv, UpgradeIsHijackable
<1> QED
  BY <1>1, HsInvariant, PTL

\* After Hijack dispatch neither writes to the connection nor closes it.
THEOREM ServerHijackIsFinal == Spec => HijackIsFinal
<1> DEFINE Final == \A c \in Conns : hijacked[c] =>
                         /\ wrote'[c] = wrote[c]
                         /\ place'[c] = "closed" => place[c] \in {"hijacked", "closed"}
<1>1. HsInv /\ [Next]_vars => [Final]_vars
  <2> SUFFICES ASSUME HsInv, Next, NEW d \in Conns, hijacked[d]
               PROVE  wrote'[d] = wrote[d] /\ (place'[d] = "closed" => place[d] \in {"hijacked", "closed"})
    OBVIOUS
  <2>0. StreamTypes /\ MarkTypes /\ place[d] \in {"handler", "hijacked", "closed"}
    BY TypeParts DEF HsInv, ConnInv, OneConn, PlaceInv
  <2>1. ASSUME NEW c \in Conns, Connects(c) PROVE wrote'[d] = wrote[d] /\ (place'[d] = "closed" => place[d] \in {"hijacked", "closed"})
    BY <2>0, <2>1 DEF Connects, Move, CloseConn, StreamTypes, MarkTypes
  <2>2. ASSUME NEW c \in Conns, Accept(c) PROVE wrote'[d] = wrote[d] /\ (place'[d] = "closed" => place[d] \in {"hijacked", "closed"})
    BY <2>0, <2>2 DEF Accept, Move, CloseConn, StreamTypes, MarkTypes
  <2>3. ASSUME NEW c \in Conns, HeadFails(c) PROVE wrote'[d] = wrote[d] /\ (place'[d] = "closed" => place[d] \in {"hijacked", "closed"})
    BY <2>0, <2>3 DEF HeadFails, Move, CloseConn, StreamTypes, MarkTypes
  <2>4. ASSUME NEW c \in Conns, ParseFails(c) PROVE wrote'[d] = wrote[d] /\ (place'[d] = "closed" => place[d] \in {"hijacked", "closed"})
    BY <2>0, <2>4 DEF ParseFails, Move, CloseConn, StreamTypes, MarkTypes
  <2>5. ASSUME NEW c \in Conns, Ordinary(c) PROVE wrote'[d] = wrote[d] /\ (place'[d] = "closed" => place[d] \in {"hijacked", "closed"})
    BY <2>0, <2>5 DEF Ordinary, Move, CloseConn, StreamTypes, MarkTypes
  <2>6. ASSUME NEW c \in Conns, EarlyData(c) PROVE wrote'[d] = wrote[d] /\ (place'[d] = "closed" => place[d] \in {"hijacked", "closed"})
    BY <2>0, <2>6 DEF EarlyData, Move, CloseConn, StreamTypes, MarkTypes
  <2>7. ASSUME NEW c \in Conns, Bypass(c) PROVE wrote'[d] = wrote[d] /\ (place'[d] = "closed" => place[d] \in {"hijacked", "closed"})
    BY <2>0, <2>7 DEF Bypass, Move, CloseConn, StreamTypes, MarkTypes
  <2>8. ASSUME NEW c \in Conns, Offered(c) PROVE wrote'[d] = wrote[d] /\ (place'[d] = "closed" => place[d] \in {"hijacked", "closed"})
    BY <2>0, <2>8 DEF Offered, Move, CloseConn, StreamTypes, MarkTypes
  <2>9. ASSUME NEW c \in Conns, OfferRefused(c) PROVE wrote'[d] = wrote[d] /\ (place'[d] = "closed" => place[d] \in {"hijacked", "closed"})
    BY <2>0, <2>9 DEF OfferRefused, Move, CloseConn, StreamTypes, MarkTypes
  <2>10. ASSUME NEW c \in Conns, Hijack(c) PROVE wrote'[d] = wrote[d] /\ (place'[d] = "closed" => place[d] \in {"hijacked", "closed"})
    BY <2>0, <2>10 DEF Hijack, Move, CloseConn, StreamTypes, MarkTypes
  <2>11. ASSUME NEW c \in Conns, HandlerFinished(c) PROVE wrote'[d] = wrote[d] /\ (place'[d] = "closed" => place[d] \in {"hijacked", "closed"})
    BY <2>0, <2>11 DEF HandlerFinished, Move, CloseConn, StreamTypes, MarkTypes
  <2>12. ASSUME NEW c \in Conns, HandlerKeeps(c) PROVE wrote'[d] = wrote[d] /\ (place'[d] = "closed" => place[d] \in {"hijacked", "closed"})
    BY <2>0, <2>12 DEF HandlerKeeps, Move, CloseConn, StreamTypes, MarkTypes
  <2>13. ASSUME NEW c \in Conns, HijackerCloses(c) PROVE wrote'[d] = wrote[d] /\ (place'[d] = "closed" => place[d] \in {"hijacked", "closed"})
    BY <2>0, <2>13 DEF HijackerCloses, Move, CloseConn, StreamTypes, MarkTypes
  <2>14. ASSUME NEW c \in Conns, NetHttpCloses(c) PROVE wrote'[d] = wrote[d] /\ (place'[d] = "closed" => place[d] \in {"hijacked", "closed"})
    BY <2>0, <2>14 DEF NetHttpCloses, Move, CloseConn, StreamTypes, MarkTypes
  <2>15. ASSUME NEW c \in Conns, NEW t \in Tokens, Sends(c, t) PROVE wrote'[d] = wrote[d] /\ (place'[d] = "closed" => place[d] \in {"hijacked", "closed"})
    BY <2>0, <2>15 DEF Sends, Move, StreamTypes, MarkTypes
  <2>16. ASSUME NEW c \in Conns, NEW n \in 1 .. MaxSent, ReadHead(c, n) PROVE wrote'[d] = wrote[d] /\ (place'[d] = "closed" => place[d] \in {"hijacked", "closed"})
    BY <2>0, <2>16 DEF ReadHead, Move, StreamTypes, MarkTypes
  <2>17. ASSUME NEW c \in Conns, NEW n \in 1 .. MaxSent, ServeRequests(c, n) PROVE wrote'[d] = wrote[d] /\ (place'[d] = "closed" => place[d] \in {"hijacked", "closed"})
    BY <2>0, <2>17 DEF ServeRequests, Move, StreamTypes, MarkTypes
  <2>18. CASE AcceptFails \/ CheckDone \/ CloseDone \/ Returns \/ Srv \/ Shutdown
    BY <2>0, <2>18 DEF AcceptFails, CheckDone, CloseDone, Returns, Srv, SrvServeReturns,
                    SrvCheckDone, SrvCloseDone, Shutdown, conns
  <2>19. CASE LnFails
    BY <2>0, <2>19 DEF LnFails
  <2> QED
    BY <2>1, <2>2, <2>3, <2>4, <2>5, <2>6, <2>7, <2>8, <2>9, <2>10,
       <2>11, <2>12, <2>13, <2>14, <2>15, <2>16, <2>17, <2>18, <2>19
       DEF Next, Client, Dispatch, Owner, Loop
<1> QED
  BY <1>1, HsInvariant, PTL DEF Spec, HijackIsFinal

\* A Serve whose server was shut down while its listener still worked returns
\* ErrServerClosed, whatever its accept loop notices first.  Told is what stays
\* true from that moment on: srv.Serve has not returned anything else.
THEOREM ServerReportsShutdown == Spec => ServeReportsShutdown
<1> DEFINE Told == shutting /\ inner # "closed" /\ (loop = "returned" => ret = "serverClosed")
<1>1. HsInv /\ shutting /\ lnErr = "none" => Told
  BY DEF HsInv, EndInv
<1>2. HsInv /\ Told /\ [Next]_vars => Told'
  <2> SUFFICES ASSUME HsInv, Told, [Next]_vars PROVE Told'
    OBVIOUS
  <2>0. StreamTypes /\ MarkTypes /\ EndTypes
    BY TypeParts DEF HsInv
  <2>1. ASSUME UNCHANGED listener PROVE Told'
    BY <2>1 DEF listener
  <2>2. ASSUME NEW c \in Conns, Client(c) \/ Dispatch(c) \/ Owner(c) \/ Accept(c) PROVE Told'
    BY <2>0, <2>1, <2>2, ConnTypesStep
  <2>3. CASE AcceptFails
    BY <2>0, <2>3 DEF AcceptFails, EndTypes
  <2>4. CASE CheckDone
    BY <2>0, <2>4 DEF CheckDone, EndTypes
  <2>5. CASE CloseDone
    BY <2>0, <2>5 DEF CloseDone, EndTypes
  <2>6. CASE Returns
    BY <2>0, <2>6 DEF Returns, EndTypes
  <2>7. CASE SrvServeReturns
    BY <2>0, <2>7 DEF SrvServeReturns, EndTypes
  <2>8. CASE SrvCheckDone
    BY <2>0, <2>8 DEF SrvCheckDone, EndTypes
  <2>9. CASE SrvCloseDone
    BY <2>0, <2>9 DEF SrvCloseDone, EndTypes
  <2>10. CASE Shutdown
    BY <2>0, <2>10 DEF Shutdown, EndTypes
  <2>11. CASE LnFails
    BY <2>0, <2>11 DEF LnFails, EndTypes
  <2> QED
    BY <2>1, <2>2, <2>3, <2>4, <2>5, <2>6, <2>7, <2>8, <2>9, <2>10, <2>11
       DEF Next, Loop, Srv, vars
<1>3. Told => (loop = "returned" => ret = "serverClosed")
  OBVIOUS
<1> HIDE DEF Told
<1> QED
  BY <1>1, <1>2, <1>3, HsInvariant, PTL DEF Spec, ServeReportsShutdown

=============================================================================
