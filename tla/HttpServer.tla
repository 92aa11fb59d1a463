----------------------------- MODULE HttpServer -----------------------------
(***************************************************************************)
(* Package httpserver on the TinyGo path (server_tinygo.go): the accept    *)
(* loop serve, one dispatch goroutine per connection that reads the first  *)
(* request head and routes the connection, the chanListener between        *)
(* dispatch and net/http, and the shutdown of the three.                   *)
(*                                                                         *)
(* A client sends a sequence of requests.  The first is "head", whose      *)
(* properties are kind[c]; later ones are "req" or, asking for an upgrade, *)
(* "up".  readHead may take in more than the first request.                *)
(*                                                                         *)
(* External: the real listener ln, the clients, the handler, and           *)
(* net/http's Server: its accept loop on the chanListener, and the rule    *)
(* that it closes a listener once, from Shutdown or when Serve returns.    *)
(***************************************************************************)
EXTENDS Naturals, Sequences

CONSTANTS
    Conns,          \* client connections
    MaxSent         \* bound: requests a client sends on one connection

ASSUME MaxSentAssumption == MaxSent \in Nat \ {0}

\* Of a first request: does the predicate want it bypassed, does it parse?
HeadKinds == [up : BOOLEAN, parses : BOOLEAN]

\* Where a connection is: not made, in the queue of ln, with its dispatch
\* goroutine (reading the head, choosing, offering it to net/http, in the
\* handler), with net/http, with the handler that hijacked it, or closed.
Places == {"none", "queued", "reading", "choosing", "offering", "handler",
           "nethttp", "hijacked", "closed"}

\* How a request was answered.
Answers == {"handler", "bypass", "501", "400"}

VARIABLES
    defaultBypass,  \* cfg.defaultBypass: the raw head is scanned, not parsed
    place,     \* place[c]
    kind,      \* kind[c]: the kind of the first request
    sent,      \* sent[c]: all requests the client sent
    unread,    \* unread[c]: those still in the connection
    buffer,    \* buffer[c]: read by readHead; replayConn.head later
    handled,   \* handled[c]: requests taken from the stream and their answers
    hijacked,  \* bypassWriter.hijacked
    wrote,     \* wrote[c]: responses dispatch itself wrote
    lnErr,     \* what ln.Accept fails with from now on, "none" while it works
    loop,      \* the accept loop of serve
    ret,       \* what Serve returned
    done,      \* chanListener.done is closed
    srvClose,  \* net/http's one call of chanListener.Close
    inner,     \* what srv.Serve returned, "none" while it runs
    shutting,  \* srv.Shutdown was called
    panicked   \* a channel was closed twice

given == <<defaultBypass, kind>>
conns == <<place, given, sent, unread, buffer, handled, hijacked, wrote>>
listener == <<lnErr, loop, ret, done, srvClose, inner, shutting, panicked>>
vars == <<conns, listener>>

Tokens == {"head", "req", "up"}

\* A request taken from the stream, and how it was answered.
Handled == [tok : Tokens, by : Answers]

TypeOK ==
    /\ defaultBypass \in BOOLEAN
    /\ place \in [Conns -> Places]
    /\ kind \in [Conns -> HeadKinds]
    /\ sent \in [Conns -> Seq(Tokens)]
    /\ unread \in [Conns -> Seq(Tokens)]
    /\ buffer \in [Conns -> Seq(Tokens)]
    /\ handled \in [Conns -> Seq(Handled)]
    /\ hijacked \in [Conns -> BOOLEAN]
    /\ wrote \in [Conns -> Nat]
    /\ lnErr \in {"none", "failed"}
    /\ loop \in {"accept", "check", "close", "wait", "returned"}
    /\ ret \in {"none", "closed", "serverClosed"}
    /\ done \in BOOLEAN
    /\ srvClose \in {"none", "check", "close", "finished"}
    /\ inner \in {"none", "closed", "serverClosed"}
    /\ shutting \in BOOLEAN
    /\ panicked \in BOOLEAN

Init ==
    /\ defaultBypass \in BOOLEAN
    /\ place = [c \in Conns |-> "none"]
    /\ kind \in [Conns -> HeadKinds]
    /\ sent = [c \in Conns |-> <<>>]
    /\ unread = [c \in Conns |-> <<>>]
    /\ buffer = [c \in Conns |-> <<>>]
    /\ handled = [c \in Conns |-> <<>>]
    /\ hijacked = [c \in Conns |-> FALSE]
    /\ wrote = [c \in Conns |-> 0]
    /\ lnErr = "none"
    /\ loop = "accept"
    /\ ret = "none"
    /\ done = FALSE
    /\ srvClose = "none"
    /\ inner = "none"
    /\ shutting = FALSE
    /\ panicked = FALSE

Move(c, p) == place' = [place EXCEPT ![c] = p]

\* conn.Close(): what was not read is gone with the connection.
CloseConn(c) ==
    /\ Move(c, "closed")
    /\ unread' = [unread EXCEPT ![c] = <<>>]

-----------------------------------------------------------------------------
(* Clients.                                                                *)

Connects(c) ==
    /\ place[c] = "none"
    /\ lnErr = "none"
    /\ Move(c, "queued")
    /\ UNCHANGED <<given, sent, unread, buffer, handled, hijacked, wrote, listener>>

Sends(c, t) ==
    /\ place[c] \notin {"none", "closed"}
    /\ Len(sent[c]) < MaxSent
    /\ (t = "head") <=> (sent[c] = <<>>)
    /\ sent' = [sent EXCEPT ![c] = Append(@, t)]
    /\ unread' = [unread EXCEPT ![c] = Append(@, t)]
    /\ UNCHANGED <<place, given, buffer, handled, hijacked, wrote, listener>>

-----------------------------------------------------------------------------
(* serve: the accept loop.                                                 *)

Accept(c) ==
    /\ loop = "accept"
    /\ lnErr = "none"
    /\ place[c] = "queued"
    /\ Move(c, "reading")
    /\ UNCHANGED <<given, sent, unread, buffer, handled, hijacked, wrote, listener>>

\* Mutant of AcceptFails: serve waits for net/http without closing the handoff.
AcceptFailsUnannounced ==
    /\ loop = "accept"
    /\ lnErr # "none"
    /\ loop' = "wait"
    /\ UNCHANGED <<conns, lnErr, ret, done, srvClose, inner, shutting, panicked>>

AcceptFails ==
    /\ loop = "accept"
    /\ lnErr # "none"
    /\ loop' = "check"
    /\ UNCHANGED <<conns, lnErr, ret, done, srvClose, inner, shutting, panicked>>

\* chanListener.Close looks whether done is closed, and closes it if it was
\* not: a select and a close, with nothing that keeps the two together.
CheckDone ==
    /\ loop = "check"
    /\ loop' = IF done THEN "wait" ELSE "close"
    /\ UNCHANGED <<conns, lnErr, ret, done, srvClose, inner, shutting, panicked>>

CloseDone ==
    /\ loop = "close"
    /\ loop' = "wait"
    /\ done' = TRUE
    /\ panicked' = done
    /\ UNCHANGED <<conns, lnErr, ret, srvClose, inner, shutting>>

\* Mutant of Returns: the error of ln.Accept is what Serve returns.
ReturnsOwnError ==
    /\ loop = "wait"
    /\ inner # "none"
    /\ loop' = "returned"
    /\ ret' = "closed"
    /\ UNCHANGED <<conns, lnErr, done, srvClose, inner, shutting, panicked>>

\* inner := <-served, and the return of serve.
Returns ==
    /\ loop = "wait"
    /\ inner # "none"
    /\ loop' = "returned"
    /\ ret' = inner
    /\ UNCHANGED <<conns, lnErr, done, srvClose, inner, shutting, panicked>>

-----------------------------------------------------------------------------
(* dispatch: one connection.                                               *)

\* readHead fails: the client is gone, the deadline passed, or no end of the
\* head came within the limit.
HeadFails(c) ==
    /\ place[c] = "reading"
    /\ CloseConn(c)
    /\ UNCHANGED <<given, sent, buffer, handled, hijacked, wrote, listener>>

\* readHead returns with the head, and with n requests in its buffer.
ReadHead(c, n) ==
    /\ place[c] = "reading"
    /\ n <= Len(unread[c])
    /\ buffer' = [buffer EXCEPT ![c] = SubSeq(unread[c], 1, n)]
    /\ unread' = [unread EXCEPT ![c] = SubSeq(@, n + 1, Len(@))]
    /\ Move(c, "choosing")
    /\ UNCHANGED <<given, sent, handled, hijacked, wrote, listener>>

\* A custom predicate needs a parsed request before it can choose; the default
\* one scans the raw head and parses only what it bypasses.
ParseFails(c) ==
    /\ place[c] = "choosing"
    /\ ~kind[c].parses
    /\ defaultBypass => kind[c].up
    /\ CloseConn(c)
    /\ UNCHANGED <<given, sent, buffer, handled, hijacked, wrote, listener>>

\* The predicate's choice: the token is there, and no parse stands before it.
Choice(c) == kind[c].up /\ kind[c].parses

\* Ordinary traffic is offered to net/http behind a replayConn.
Ordinary(c) ==
    /\ place[c] = "choosing"
    /\ ~kind[c].up
    /\ defaultBypass \/ kind[c].parses
    /\ Move(c, "offering")
    /\ UNCHANGED <<given, sent, unread, buffer, handled, hijacked, wrote, listener>>

\* Bytes behind the head of a bypassed request: 400 and close.
EarlyData(c) ==
    /\ place[c] = "choosing"
    /\ Choice(c)
    /\ Len(buffer[c]) > 1
    /\ wrote' = [wrote EXCEPT ![c] = @ + 1]
    /\ handled' = [handled EXCEPT ![c] = Append(@, [tok |-> "head", by |-> "400"])]
    /\ CloseConn(c)
    /\ UNCHANGED <<given, sent, buffer, hijacked, listener>>

\* Mutant of Bypass: bytes behind the head are ignored.
BypassAnyway(c) ==
    /\ place[c] = "choosing"
    /\ Choice(c)
    /\ handled' = [handled EXCEPT ![c] = Append(@, [tok |-> "head", by |-> "bypass"])]
    /\ buffer' = [buffer EXCEPT ![c] = <<>>]
    /\ Move(c, "handler")
    /\ UNCHANGED <<given, sent, unread, hijacked, wrote, listener>>

\* The handler runs over a bypassWriter, which reads from the connection.
Bypass(c) ==
    /\ place[c] = "choosing"
    /\ Choice(c)
    /\ Len(buffer[c]) = 1
    /\ handled' = [handled EXCEPT ![c] = Append(@, [tok |-> "head", by |-> "bypass"])]
    /\ buffer' = [buffer EXCEPT ![c] = <<>>]
    /\ Move(c, "handler")
    /\ UNCHANGED <<given, sent, unread, hijacked, wrote, listener>>

\* bypassWriter.Hijack; a second call returns ErrHijacked.
Hijack(c) ==
    /\ place[c] = "handler"
    /\ ~hijacked[c]
    /\ hijacked' = [hijacked EXCEPT ![c] = TRUE]
    /\ UNCHANGED <<place, given, sent, unread, buffer, handled, wrote, listener>>

\* Mutant of HandlerFinished: dispatch does not ask whether w was hijacked.
FinishAnyway(c) ==
    /\ place[c] = "handler"
    /\ wrote' = [wrote EXCEPT ![c] = @ + 1]
    /\ CloseConn(c)
    /\ UNCHANGED <<given, sent, buffer, handled, hijacked, listener>>

\* The handler returns without hijacking: finish writes the buffered response
\* and the connection is closed.
HandlerFinished(c) ==
    /\ place[c] = "handler"
    /\ ~hijacked[c]
    /\ wrote' = [wrote EXCEPT ![c] = @ + 1]
    /\ CloseConn(c)
    /\ UNCHANGED <<given, sent, buffer, handled, hijacked, listener>>

\* The handler returns after Hijack and keeps the connection.
HandlerKeeps(c) ==
    /\ place[c] = "handler"
    /\ hijacked[c]
    /\ Move(c, "hijacked")
    /\ UNCHANGED <<given, sent, unread, buffer, handled, hijacked, wrote, listener>>

\* The code that hijacked the connection closes it.  A handler that does so
\* before it returns is the same to dispatch, which does nothing in between.
HijackerCloses(c) ==
    /\ hijacked[c]
    /\ place[c] = "hijacked"
    /\ CloseConn(c)
    /\ UNCHANGED <<given, sent, buffer, handled, hijacked, wrote, listener>>

\* offer, and net/http's Accept at the other end of the channel.
Offered(c) ==
    /\ place[c] = "offering"
    /\ inner = "none"
    /\ Move(c, "nethttp")
    /\ UNCHANGED <<given, sent, unread, buffer, handled, hijacked, wrote, listener>>

\* Mutant of OfferRefused: offer watches for Shutdown only.
OfferWaits(c) ==
    /\ place[c] = "offering"
    /\ done
    /\ shutting
    /\ CloseConn(c)
    /\ UNCHANGED <<given, sent, buffer, handled, hijacked, wrote, listener>>

\* offer finds done closed, and closes the connection.
OfferRefused(c) ==
    /\ place[c] = "offering"
    /\ done
    /\ CloseConn(c)
    /\ UNCHANGED <<given, sent, buffer, handled, hijacked, wrote, listener>>

-----------------------------------------------------------------------------
(* net/http on the connections it was handed.                              *)

\* A request on a net/http connection asks for what the predicate bypasses.
WantsUpgrade(c, t) == t = "up" \/ (t = "head" /\ kind[c].up)

\* Mutant of Guarded: the handler gets every request.
Unguarded(c, t) == [tok |-> t, by |-> "handler"]

\* guardUpgrades: the handler, or 501.
Guarded(c, t) == [tok |-> t, by |-> IF WantsUpgrade(c, t) THEN "501" ELSE "handler"]

\* Mutant of ServeRequests: replayConn forgets what did not fit the first Read.
ServeFirstRead(c, n) ==
    /\ place[c] = "nethttp"
    /\ LET from == IF buffer[c] # <<>> THEN buffer[c] ELSE unread[c]
           rest == SubSeq(from, n + 1, Len(from))
       IN  /\ n <= Len(from)
           /\ from[1] = "head" => kind[c].parses
           /\ handled' = [handled EXCEPT ![c] =
                             @ \o [i \in 1 .. n |-> Guarded(c, from[i])]]
           /\ IF buffer[c] # <<>>
              THEN buffer' = [buffer EXCEPT ![c] = <<>>] /\ UNCHANGED unread
              ELSE unread' = [unread EXCEPT ![c] = rest] /\ UNCHANGED buffer
    /\ UNCHANGED <<place, given, sent, hijacked, wrote, listener>>

\* net/http reads n requests through replayConn.Read, which serves the bytes
\* already read first, as many as fit, and the connection after that.  It
\* refuses a head that does not parse by itself, and closes.
ServeRequests(c, n) ==
    /\ place[c] = "nethttp"
    /\ LET from == IF buffer[c] # <<>> THEN buffer[c] ELSE unread[c]
           rest == SubSeq(from, n + 1, Len(from))
       IN  /\ n <= Len(from)
           /\ from[1] = "head" => kind[c].parses
           /\ handled' = [handled EXCEPT ![c] =
                             @ \o [i \in 1 .. n |-> Guarded(c, from[i])]]
           /\ IF buffer[c] # <<>>
              THEN buffer' = [buffer EXCEPT ![c] = rest] /\ UNCHANGED unread
              ELSE unread' = [unread EXCEPT ![c] = rest] /\ UNCHANGED buffer
    /\ UNCHANGED <<place, given, sent, hijacked, wrote, listener>>

\* net/http closes a connection: keep-alive over, an error, Shutdown or Close.
NetHttpCloses(c) ==
    /\ place[c] = "nethttp"
    /\ CloseConn(c)
    /\ UNCHANGED <<given, sent, buffer, handled, hijacked, wrote, listener>>

\* net/http's Accept finds done closed: Serve returns, with ErrServerClosed if
\* it is being shut down, and closes its listener unless Shutdown did.
SrvServeReturns ==
    /\ done
    /\ inner = "none"
    /\ inner' = IF shutting THEN "serverClosed" ELSE "closed"
    /\ srvClose' = IF srvClose = "none" THEN "check" ELSE srvClose
    /\ UNCHANGED <<conns, lnErr, loop, ret, done, shutting, panicked>>

\* srv.Shutdown closes the listener srv.Serve was given, not ln.
Shutdown ==
    /\ ~shutting
    /\ shutting' = TRUE
    /\ srvClose' = IF srvClose = "none" THEN "check" ELSE srvClose
    /\ UNCHANGED <<conns, lnErr, loop, ret, done, inner, panicked>>

SrvCheckDone ==
    /\ srvClose = "check"
    /\ srvClose' = IF done THEN "finished" ELSE "close"
    /\ UNCHANGED <<conns, lnErr, loop, ret, done, inner, shutting, panicked>>

SrvCloseDone ==
    /\ srvClose = "close"
    /\ srvClose' = "finished"
    /\ done' = TRUE
    /\ panicked' = done
    /\ UNCHANGED <<conns, lnErr, loop, ret, inner, shutting>>

\* Somebody closes ln, or its Accept starts to fail: nobody waits in its
\* queue any more.
LnFails ==
    /\ lnErr = "none"
    /\ lnErr' = "failed"
    /\ place' = [c \in Conns |-> IF place[c] = "queued" THEN "closed" ELSE place[c]]
    /\ unread' = [c \in Conns |-> IF place[c] = "queued" THEN <<>> ELSE unread[c]]
    /\ UNCHANGED <<given, sent, buffer, handled, hijacked, wrote, loop, ret,
                   done, srvClose, inner, shutting, panicked>>

-----------------------------------------------------------------------------
Client(c) == Connects(c) \/ \E t \in Tokens : Sends(c, t)

\* What the dispatch goroutine of c does to find c an owner.
Dispatch(c) ==
    \/ HeadFails(c)
    \/ \E n \in 1 .. MaxSent : ReadHead(c, n)
    \/ ParseFails(c)
    \/ Ordinary(c)
    \/ EarlyData(c)
    \/ Bypass(c)
    \/ Offered(c)
    \/ OfferRefused(c)

\* What the owner of a connection does with it: a handler, the code it left a
\* hijacked connection to, or net/http.  Nobody promises that they finish.
Owner(c) ==
    \/ Hijack(c)
    \/ HandlerFinished(c)
    \/ HandlerKeeps(c)
    \/ HijackerCloses(c)
    \/ \E n \in 1 .. MaxSent : ServeRequests(c, n)
    \/ NetHttpCloses(c)

Loop == (\E c \in Conns : Accept(c)) \/ AcceptFails \/ CheckDone \/ CloseDone \/ Returns
Srv == SrvServeReturns \/ SrvCheckDone \/ SrvCloseDone

\* A panic ends the process.
Next ==
    /\ ~panicked
    /\ \/ \E c \in Conns : Client(c) \/ Dispatch(c) \/ Owner(c)
       \/ Loop
       \/ Srv
       \/ Shutdown
       \/ LnFails

Spec == Init /\ [][Next]_vars

\* dispatch goroutines, the accept loop and net/http's own goroutines run, and
\* ReadHeaderTimeout ends the wait for a head.
FairSpec ==
    /\ Spec
    /\ \A c \in Conns : WF_vars(~panicked /\ Dispatch(c))
    /\ WF_vars(~panicked /\ Loop)
    /\ WF_vars(~panicked /\ Srv)

-----------------------------------------------------------------------------
(* Properties.                                                             *)

\* The requests of a sequence of answers.
Requests(h) == [i \in DOMAIN h |-> h[i].tok]

\* "Every one of them is replayed on the net/http path": net/http sees exactly
\* what the client sent, in its order, the bytes readHead took in included.
ReplayComplete ==
    \A c \in Conns : place[c] = "nethttp" =>
        sent[c] = Requests(handled[c]) \o buffer[c] \o unread[c]

\* "The hijacked reader starts at the connection": a handler that hijacks
\* finds everything the client sent behind the first request still unread.
NoEarlyDataLost ==
    \A c \in Conns : place[c] \in {"handler", "hijacked"} =>
        sent[c] = Requests(handled[c]) \o unread[c]

\* An upgrade reaches the application over a connection it can hijack, or is
\* refused; net/http, whose Hijack hangs here, never runs the handler for one,
\* as a first or as a later request.
UpgradeIsHijackable ==
    \A c \in Conns : \A i \in DOMAIN handled[c] :
        handled[c][i].by = "handler" => ~WantsUpgrade(c, handled[c][i].tok)

\* Once a handler has hijacked a connection, dispatch writes nothing to it and
\* leaves closing it to the handler.
HijackIsFinal ==
    [][\A c \in Conns : hijacked[c] =>
          /\ wrote'[c] = wrote[c]
          /\ place'[c] = "closed" => place[c] \in {"hijacked", "closed"}]_vars

\* dispatch finds an owner: however net/http is shut down meanwhile, a
\* connection ln accepted reaches a handler or net/http, or is closed, and
\* offer does not wait for ever.
DispatchEnds ==
    \A c \in Conns : place[c] \in {"reading", "choosing", "offering"}
                        ~> place[c] \in {"nethttp", "handler", "closed"} \/ panicked

\* Serve returns once the listener it was given stops, Shutdown or not.
ServeEndsWithListener == lnErr # "none" ~> loop = "returned" \/ panicked

\* "Close is idempotent: http.Server calls it during Shutdown, and serve calls
\* it when the real listener stops": the channel is not closed twice.
CloseIsIdempotent == ~panicked

\* "matching http.Server.Serve, which returns ErrServerClosed after Shutdown or
\* Close": Serve returns when the server is shut down.
ServeEndsWithShutdown == shutting ~> loop = "returned" \/ panicked

\* "callers match on http.ErrServerClosed": a Serve that was shut down before
\* its listener stopped says so, whichever of the two the loop notices first.
ServeReportsShutdown ==
    [](shutting /\ lnErr = "none" => [](loop = "returned" => ret = "serverClosed"))

=============================================================================
