--------------------------- MODULE HttpsTransport ---------------------------
(***************************************************************************)
(* The native HTTPS transport of package https: the pool of idle           *)
(* connections (pool_native.go) and the request loop over it with its      *)
(* single replay and its cancellation watchers (roundtrip_native.go).      *)
(*                                                                         *)
(* A request is one goroutine in RoundTrip followed by the caller that     *)
(* reads and closes the response body; it is used once, and so is a        *)
(* connection, so Reqs and Conns bound the length of a behaviour.          *)
(*                                                                         *)
(* The map from keys to lists is the set idle: a bucket is the part of it  *)
(* with the same key, and a list is in the order of idleSince, which counts*)
(* releases.  A request body is only rebuilt or not rebuilt, a response is *)
(* a head and an end, each tagged with the request the server answers.  The*)
(* servers and the network are external.                                   *)
(***************************************************************************)
EXTENDS Naturals, Sequences, FiniteSets

CONSTANTS
    Reqs,               \* requests
    Conns,              \* identities of connections
    Keys,               \* pool buckets: destination and proxy
    MaxPerHost,         \* MaxIdleConnsPerHost
    MaxTotal,           \* maxIdleConnsTotal
    None

ASSUME NoneAssumption == None \notin Reqs \cup Conns \cup Keys
ASSUME NamesAssumption == {"fresh", "idle", "discarded"} \cap Reqs = {}
ASSUME LimitsAssumption == MaxPerHost \in Nat \ {0} /\ MaxTotal \in Nat \ {0}

\* The step a request takes next.
Labels == {"idle", "lease", "dial", "exchange", "write", "read", "judge",
           "body", "drain", "recycle", "put", "done"}

\* The labels at which a request owns its connection.
Owning == {"exchange", "write", "read", "body", "drain", "recycle", "put"}

\* A response by what its head says of the connection: framed (a length,
\* chunked, or no body at all), or one that ends with the connection.
Kinds == {"framed", "close"}

\* What travels from a server to the client; "extra" is a response that
\* nothing asked for, sent right behind another one.
Items == [req : Reqs, part : {"head", "end", "extra"}, kind : Kinds]

\* The far side of a connection: the requests the server got and has not
\* answered in full, whether it began with the first of them, what it sent
\* that the client has not read, and whether it closed its end.
Links == [serving : Seq(Reqs), halfway : BOOLEAN, stream : Seq(Items),
          gone : BOOLEAN]

Silent == [serving |-> <<>>, halfway |-> FALSE, stream |-> <<>>, gone |-> FALSE]

VARIABLES
    disableKeepAlives,  \* Transport.DisableKeepAlives, set before the first request
    pc,         \* pc[r]: the next step of r
    key,        \* key[r]: the bucket connKey computes for r
    replay,     \* replay[r]: no body, or a GetBody to rebuild it
    attempt,    \* attempt[r]: the loop counter of roundTrip
    conn,       \* conn[r]: the persistConn of the attempt
    reused,     \* reused[r]: the connection came from the pool
    reusable,   \* reusable[r]: poolBody.reusable
    body,       \* body[r]: poolBody.sawEOF and poolBody.failed
    cancelled,  \* requests whose context is done
    idle,       \* the connections in connPool.idle
    idleSince,  \* idleSince[c]: when c was last released
    now,        \* the time of the last release
    aged,       \* idle connections older than IdleConnTimeout
    total,      \* connPool.total
    dropped,    \* connections closeAll took out and has not closed yet
    ckey,       \* ckey[c]: persistConn.key, None before the dial
    broken,     \* broken[c]: persistConn.broken, set when conn is closed
    nread,      \* nread[c]: a response byte arrived for the current request
    watch,      \* watch[<<r, c>>]: the goroutine of watchCancel
    link,       \* link[c]: the far side of the connection
    sends,      \* sends[r]: how often a server got r
    answered,   \* requests of which a response byte was read
    got         \* got[r]: the request whose response r was handed

given == <<disableKeepAlives, key, replay>>
locals == <<attempt, conn, reused, reusable, body>>
pool == <<idle, idleSince, now, aged, total, dropped>>
seen == <<sends, answered, got>>
vars == <<pc, given, locals, cancelled, pool, ckey, broken, nread, watch,
          link, seen>>

TypeOK ==
    /\ disableKeepAlives \in BOOLEAN
    /\ pc \in [Reqs -> Labels]
    /\ key \in [Reqs -> Keys \cup {None}]
    /\ replay \in [Reqs -> BOOLEAN]
    /\ attempt \in [Reqs -> {0, 1}]
    /\ conn \in [Reqs -> Conns \cup {None}]
    /\ reused \in [Reqs -> BOOLEAN]
    /\ reusable \in [Reqs -> BOOLEAN]
    /\ body \in [Reqs -> {"open", "eof", "failed"}]
    /\ cancelled \subseteq Reqs
    /\ idle \subseteq Conns
    /\ idleSince \in [Conns -> Nat]
    /\ now \in Nat
    /\ aged \subseteq Conns
    /\ total \in Nat
    /\ dropped \subseteq Conns
    /\ ckey \in [Conns -> Keys \cup {None}]
    /\ broken \in [Conns -> BOOLEAN]
    /\ nread \in [Conns -> BOOLEAN]
    /\ watch \in [Reqs \X Conns -> {"off", "on", "stopped"}]
    /\ link \in [Conns -> Links]
    /\ sends \in [Reqs -> Nat]
    /\ answered \subseteq Reqs
    /\ got \in [Reqs -> Reqs \cup {None}]

Init ==
    /\ disableKeepAlives \in BOOLEAN
    /\ pc = [r \in Reqs |-> "idle"]
    /\ key = [r \in Reqs |-> None]
    /\ replay = [r \in Reqs |-> FALSE]
    /\ attempt = [r \in Reqs |-> 0]
    /\ conn = [r \in Reqs |-> None]
    /\ reused = [r \in Reqs |-> FALSE]
    /\ reusable = [r \in Reqs |-> FALSE]
    /\ body = [r \in Reqs |-> "open"]
    /\ cancelled = {}
    /\ idle = {}
    /\ idleSince = [c \in Conns |-> 0]
    /\ now = 0
    /\ aged = {}
    /\ total = 0
    /\ dropped = {}
    /\ ckey = [c \in Conns |-> None]
    /\ broken = [c \in Conns |-> FALSE]
    /\ nread = [c \in Conns |-> FALSE]
    /\ watch = [rc \in Reqs \X Conns |-> "off"]
    /\ link = [c \in Conns |-> Silent]
    /\ sends = [r \in Reqs |-> 0]
    /\ answered = {}
    /\ got = [r \in Reqs |-> None]

-----------------------------------------------------------------------------
(* The pool.                                                               *)

\* Mutant of Bucket: the key leaves the destination out.
BucketOfAll(k) == idle

\* The connections of bucket k.
Bucket(k) == {c \in idle : ckey[c] = k}

\* The idle connections that get may hand out.
Usable(k) == {c \in Bucket(k) : c \notin aged /\ ~broken[c]}

\* get returns the newest usable entry of the bucket; the entries it passed
\* on the way there are closed and gone from the pool too.
Newest(S) == CHOOSE c \in S : \A d \in S : idleSince[d] <= idleSince[c]

Passed(k) ==
    IF Usable(k) = {} THEN Bucket(k)
    ELSE {c \in Bucket(k) : idleSince[c] > idleSince[Newest(Usable(k))]}

\* The connections of S leave the pool.
Takes(S) ==
    /\ idle' = idle \ S
    /\ aged' = aged \ S
    /\ total' = total - Cardinality(S)
    /\ UNCHANGED <<idleSince, now>>

\* pc.close() on the connections of S, which discards what was not read.
Close(S) ==
    /\ broken' = [c \in Conns |-> broken[c] \/ c \in S]
    /\ link' = [c \in Conns |-> IF c \in S THEN Silent ELSE link[c]]

\* put refuses a connection when its bucket is full, and when the pool is full
\* and has nothing to evict.
Refused(c) ==
    \/ Cardinality(Bucket(ckey[c])) >= MaxPerHost
    \/ total >= MaxTotal /\ idle = {}

\* What evictOldest closes: the least recently released, if the pool is full.
Oldest == CHOOSE c \in idle : \A d \in idle : idleSince[c] <= idleSince[d]
Evicted == IF total >= MaxTotal THEN {Oldest} ELSE {}

\* c is filed in the place of what is evicted.
Files(c) ==
    /\ idle' = (idle \ Evicted) \cup {c}
    /\ idleSince' = [idleSince EXCEPT ![c] = now + 1]
    /\ now' = now + 1
    /\ aged' = aged \ Evicted
    /\ total' = total - Cardinality(Evicted) + 1

-----------------------------------------------------------------------------
(* A request.                                                              *)

Goto(r, l) == pc' = [pc EXCEPT ![r] = l]

\* The request is over, and the variables of roundTrip and poolBody with it.
End(r) ==
    /\ Goto(r, "done")
    /\ attempt' = [attempt EXCEPT ![r] = 0]
    /\ conn' = [conn EXCEPT ![r] = None]
    /\ reused' = [reused EXCEPT ![r] = FALSE]
    /\ reusable' = [reusable EXCEPT ![r] = FALSE]
    /\ body' = [body EXCEPT ![r] = "open"]

\* stop(): the watcher of r on c is told to end.
Stop(r, c) ==
    watch' = [watch EXCEPT ![<<r, c>>] = IF @ = "on" THEN "stopped" ELSE @]

Begin(r, k, b) ==
    /\ pc[r] = "idle"
    /\ key' = [key EXCEPT ![r] = k]
    /\ replay' = [replay EXCEPT ![r] = b]
    /\ Goto(r, "lease")
    /\ UNCHANGED <<disableKeepAlives, locals, cancelled, pool, ckey, broken, nread,
                   watch, link, seen>>

\* attemptBody of a retry fails: GetBody returned an error.
BodyRebuildFails(r) ==
    /\ pc[r] = "lease"
    /\ attempt[r] = 1
    /\ End(r)
    /\ UNCHANGED <<given, cancelled, pool, ckey, broken, nread, watch,
                   link, seen>>

\* lease without keep-alives: nothing is taken from the pool.
LeaseNothing(r) ==
    /\ pc[r] = "lease"
    /\ disableKeepAlives
    /\ reused' = [reused EXCEPT ![r] = FALSE]
    /\ Goto(r, "dial")
    /\ UNCHANGED <<given, attempt, conn, reusable, body, cancelled, pool,
                   ckey, broken, nread, watch, link, seen>>

\* Mutant of Lease: get leaves the entry it returns in the pool.
LeaseKeepsEntry(r) ==
    /\ pc[r] = "lease"
    /\ ~disableKeepAlives
    /\ LET use == Usable(key[r])
       IN  /\ reused' = [reused EXCEPT ![r] = use # {}]
           /\ conn' = [conn EXCEPT ![r] = IF use = {} THEN None ELSE Newest(use)]
           /\ Goto(r, IF use = {} THEN "dial" ELSE "exchange")
           /\ Takes(Passed(key[r]))
           /\ Close(Passed(key[r]))
    /\ UNCHANGED <<given, attempt, reusable, body, cancelled, dropped,
                   ckey, nread, watch, seen>>

\* lease: connPool.get under the pool's lock.
Lease(r) ==
    /\ pc[r] = "lease"
    /\ ~disableKeepAlives
    /\ LET use == Usable(key[r])
           hit == IF use = {} THEN {} ELSE {Newest(use)}
       IN  /\ reused' = [reused EXCEPT ![r] = use # {}]
           /\ conn' = [conn EXCEPT ![r] = IF use = {} THEN None ELSE Newest(use)]
           /\ Goto(r, IF use = {} THEN "dial" ELSE "exchange")
           /\ Takes(Passed(key[r]) \cup hit)
           /\ Close(Passed(key[r]))
    /\ UNCHANGED <<given, attempt, reusable, body, cancelled, dropped,
                   ckey, nread, watch, seen>>

DialOK(r, c) ==
    /\ pc[r] = "dial"
    /\ ckey[c] = None
    /\ ckey' = [ckey EXCEPT ![c] = key[r]]
    /\ conn' = [conn EXCEPT ![r] = c]
    /\ Goto(r, "exchange")
    /\ UNCHANGED <<given, attempt, reused, reusable, body, cancelled,
                   pool, broken, nread, watch, link, seen>>

DialFails(r) ==
    /\ pc[r] = "dial"
    /\ End(r)
    /\ UNCHANGED <<given, cancelled, pool, ckey, broken, nread, watch,
                   link, seen>>

\* pc.begin(), the deadline, and the start of the watcher.
Exchange(r) ==
    /\ pc[r] = "exchange"
    /\ nread' = [nread EXCEPT ![conn[r]] = FALSE]
    /\ watch' = [watch EXCEPT ![<<r, conn[r]>>] = "on"]
    /\ Goto(r, "write")
    /\ UNCHANGED <<given, locals, cancelled, pool, ckey, broken, link, seen>>

\* SetDeadline fails, before there is a watcher.
DeadlineFails(r) ==
    /\ pc[r] = "exchange"
    /\ nread' = [nread EXCEPT ![conn[r]] = FALSE]
    /\ Close({conn[r]})
    /\ Goto(r, "judge")
    /\ UNCHANGED <<given, locals, cancelled, pool, ckey, watch, seen>>

\* The request is written and flushed.  A server that has closed its end never
\* sees it, although the write succeeds.
Write(r) ==
    /\ pc[r] = "write"
    /\ ~broken[conn[r]]
    /\ IF link[conn[r]].gone THEN UNCHANGED <<link, sends>>
       ELSE /\ link' = [link EXCEPT ![conn[r]].serving = Append(@, r)]
            /\ sends' = [sends EXCEPT ![r] = @ + 1]
    /\ Goto(r, "read")
    /\ UNCHANGED <<given, locals, cancelled, pool, ckey, broken, nread,
                   watch, answered, got>>

\* The exchange is given up: the watcher is stopped, the connection closed.
GiveUp(r) ==
    /\ Stop(r, conn[r])
    /\ Close({conn[r]})
    /\ Goto(r, "judge")
    /\ UNCHANGED <<given, locals, cancelled, pool, ckey, nread, answered,
                   got>>

\* The write fails: the deadline passed, the watcher closed the connection or
\* the peer did.  All of the request may have reached the server even so.
WriteFails(r) ==
    /\ pc[r] = "write"
    /\ \/ UNCHANGED sends
       \/ ~link[conn[r]].gone /\ sends' = [sends EXCEPT ![r] = @ + 1]
    /\ GiveUp(r)

\* ReadResponse has got some bytes of what comes next on the connection.
ReadSome(r) ==
    /\ pc[r] = "read"
    /\ ~broken[conn[r]]
    /\ link[conn[r]].stream # <<>>
    /\ nread' = [nread EXCEPT ![conn[r]] = TRUE]
    /\ answered' = answered \cup {r}
    /\ UNCHANGED <<pc, given, locals, cancelled, pool, ckey, broken,
                   watch, link, sends, got>>

\* ReadResponse fails: the deadline, the watcher, the peer, or no valid head.
ReadFails(r) ==
    /\ pc[r] = "read"
    /\ GiveUp(r)
    /\ UNCHANGED sends

\* Mutants of MayRetry, each without one of its conditions.
RetryAnyBody(r) ==
    attempt[r] = 0 /\ reused[r] /\ ~nread[conn[r]] /\ r \notin cancelled

RetryAfterBytes(r) ==
    attempt[r] = 0 /\ reused[r] /\ replay[r] /\ r \notin cancelled

\* The condition of roundTrip's loop for another attempt.
MayRetry(r) ==
    /\ attempt[r] = 0
    /\ reused[r]
    /\ ~nread[conn[r]]
    /\ replay[r]
    /\ r \notin cancelled

Retry(r) ==
    /\ pc[r] = "judge"
    /\ MayRetry(r)
    /\ attempt' = [attempt EXCEPT ![r] = 1]
    /\ Goto(r, "lease")
    /\ UNCHANGED <<given, conn, reused, reusable, body, cancelled, pool,
                   ckey, broken, nread, watch, link, seen>>

Fail(r) ==
    /\ pc[r] = "judge"
    /\ ~MayRetry(r)
    /\ End(r)
    /\ UNCHANGED <<given, cancelled, pool, ckey, broken, nread, watch,
                   link, seen>>

\* The answer of reusableResponse to a head.
reusableResponse(item) == item.kind = "framed"

\* ReadResponse parses whatever head comes next on the connection.
ReadHead(r) ==
    /\ pc[r] = "read"
    /\ nread[conn[r]]
    /\ ~broken[conn[r]]
    /\ link[conn[r]].stream # <<>>
    /\ LET item == Head(link[conn[r]].stream)
       IN  /\ item.part # "end"
           /\ got' = [got EXCEPT ![r] = item.req]
           /\ reusable' = [reusable EXCEPT ![r] =
                              ~disableKeepAlives /\ reusableResponse(item)]
    /\ link' = [link EXCEPT ![conn[r]].stream = Tail(@)]
    /\ Goto(r, "body")
    /\ UNCHANGED <<given, attempt, conn, reused, body, cancelled, pool,
                   ckey, broken, nread, watch, sends, answered>>

-----------------------------------------------------------------------------
(* The response body.                                                      *)

\* The body of r is read to its end.
ReadEnd(r) ==
    /\ ~broken[conn[r]]
    /\ link[conn[r]].stream # <<>>
    /\ Head(link[conn[r]].stream).part = "end"
    /\ link' = [link EXCEPT ![conn[r]].stream = Tail(@)]
    /\ body' = [body EXCEPT ![r] = "eof"]

\* poolBody.Read returns io.EOF.
BodyEOF(r) ==
    /\ pc[r] = "body"
    /\ body[r] = "open"
    /\ ReadEnd(r)
    /\ UNCHANGED <<pc, given, attempt, conn, reused, reusable, cancelled,
                   pool, ckey, broken, nread, watch, seen>>

\* poolBody.Read returns another error.
BodyFails(r) ==
    /\ pc[r] = "body"
    /\ body[r] = "open"
    /\ body' = [body EXCEPT ![r] = "failed"]
    /\ UNCHANGED <<pc, given, attempt, conn, reused, reusable, cancelled,
                   pool, ckey, broken, nread, watch, link, seen>>

\* poolBody.Close, up to the drain.
BodyClose(r) ==
    /\ pc[r] = "body"
    /\ Stop(r, conn[r])
    /\ Goto(r, IF reusable[r] /\ body[r] = "open" THEN "drain" ELSE "recycle")
    /\ UNCHANGED <<given, locals, cancelled, pool, ckey, broken, nread,
                   link, seen>>

\* Mutant of Drain: no limit.
DrainForEver(r) ==
    /\ pc[r] = "drain"
    /\ ReadEnd(r)
    /\ Goto(r, "recycle")
    /\ UNCHANGED <<given, attempt, conn, reused, reusable, cancelled,
                   pool, ckey, broken, nread, watch, seen>>

\* drain reads the body out, or gives up on an error, on the time limit or on
\* its caps.
Drain(r) ==
    /\ pc[r] = "drain"
    /\ \/ ReadEnd(r)
       \/ body' = [body EXCEPT ![r] = "failed"] /\ UNCHANGED link
    /\ Goto(r, "recycle")
    /\ UNCHANGED <<given, attempt, conn, reused, reusable, cancelled,
                   pool, ckey, broken, nread, watch, seen>>

\* Mutant of Clean: what is left in the reader is not looked at.
CleanUnchecked(r) ==
    /\ reusable[r]
    /\ body[r] = "eof"
    /\ ~disableKeepAlives
    /\ ~broken[conn[r]]

\* The exchange ended cleanly and recycle finds nothing left in the reader.
Clean(r) ==
    /\ reusable[r]
    /\ body[r] = "eof"
    /\ ~disableKeepAlives
    /\ ~broken[conn[r]]
    /\ link[conn[r]].stream = <<>>

\* recycle up to the call of put: clearing the deadline is the last check.
RecycleKeeps(r) ==
    /\ pc[r] = "recycle"
    /\ Clean(r)
    /\ Goto(r, "put")
    /\ UNCHANGED <<given, locals, cancelled, pool, ckey, broken, nread,
                   watch, link, seen>>

\* poolBody.Close closes a connection that recycle does not take, because it
\* is not clean or because its deadline cannot be cleared.
RecycleCloses(r) ==
    /\ pc[r] = "recycle"
    /\ Close({conn[r]})
    /\ End(r)
    /\ UNCHANGED <<given, cancelled, pool, ckey, nread, watch, seen>>

\* Mutant of PutKeeps: the evicted entry is not closed.
PutForgetsEvicted(r) ==
    /\ pc[r] = "put"
    /\ ~Refused(conn[r])
    /\ Files(conn[r])
    /\ End(r)
    /\ UNCHANGED <<given, cancelled, dropped, ckey, broken, nread, watch,
                   link, seen>>

\* connPool.put under the pool's lock.
PutKeeps(r) ==
    /\ pc[r] = "put"
    /\ ~Refused(conn[r])
    /\ Close(Evicted)
    /\ Files(conn[r])
    /\ End(r)
    /\ UNCHANGED <<given, cancelled, dropped, ckey, nread, watch, seen>>

\* put refuses, which leaves the connection to poolBody.Close.
PutRefuses(r) ==
    /\ pc[r] = "put"
    /\ Refused(conn[r])
    /\ Close({conn[r]})
    /\ End(r)
    /\ UNCHANGED <<given, cancelled, pool, ckey, nread, watch, seen>>

-----------------------------------------------------------------------------
(* CloseIdleConnections: the pool is emptied under its lock, and what was  *)
(* in it is closed afterwards, one connection at a time.                   *)

CloseAll ==
    /\ idle # {}
    /\ dropped' = dropped \cup idle
    /\ idle' = {}
    /\ aged' = {}
    /\ total' = 0
    /\ UNCHANGED <<idleSince, now, pc, given, locals, cancelled, ckey, broken, nread,
                   watch, link, seen>>

CloseDropped(c) ==
    /\ c \in dropped
    /\ dropped' = dropped \ {c}
    /\ Close({c})
    /\ UNCHANGED <<pc, given, locals, cancelled, idle, idleSince, now, aged, total, ckey,
                   nread, watch, seen>>

-----------------------------------------------------------------------------
(* Cancellation.                                                           *)

\* The caller cancels the context; `defer cancel()` makes it happen after the
\* request has ended, too.
Cancel(r) ==
    /\ pc[r] # "idle"
    /\ r \notin cancelled
    /\ cancelled' = cancelled \cup {r}
    /\ UNCHANGED <<pc, given, locals, pool, ckey, broken, nread, watch,
                   link, seen>>

\* The watcher's select takes the case of the cancellation, also when the
\* channel done is closed as well: select picks any case that is ready.
WatchFires(r, c) ==
    /\ watch[<<r, c>>] # "off"
    /\ r \in cancelled
    /\ watch' = [watch EXCEPT ![<<r, c>>] = "off"]
    /\ Close({c})
    /\ UNCHANGED <<pc, given, locals, cancelled, pool, ckey, nread, seen>>

WatchEnds(r, c) ==
    /\ watch[<<r, c>>] = "stopped"
    /\ watch' = [watch EXCEPT ![<<r, c>>] = "off"]
    /\ UNCHANGED <<pc, given, locals, cancelled, pool, ckey, broken,
                   nread, link, seen>>

-----------------------------------------------------------------------------
(* External: time and the servers.  What a server does on a connection the *)
(* client has closed is not seen by anyone.                                *)

\* The oldest idle connection that is not aged yet passes IdleConnTimeout.
Age(c) ==
    /\ c \in idle \ aged
    /\ \A d \in idle \ aged : idleSince[c] <= idleSince[d]
    /\ aged' = aged \cup {c}
    /\ UNCHANGED <<pc, given, locals, cancelled, idle, idleSince, now, total, dropped,
                   ckey, broken, nread, watch, link, seen>>

\* Connections on which the server can still act.
Connected(c) == ckey[c] # None /\ ~broken[c] /\ ~link[c].gone

\* The far side of c changes, and nothing else.
Server(c, l) ==
    /\ link' = [link EXCEPT ![c] = l]
    /\ UNCHANGED <<pc, given, locals, cancelled, pool, ckey, broken,
                   nread, watch, seen>>

Item(r, p, k) == [req |-> r, part |-> p, kind |-> k]

\* The server sends the head of its answer to the request it got first.
ServerHead(c, k) ==
    /\ Connected(c)
    /\ link[c].serving # <<>>
    /\ ~link[c].halfway
    /\ Server(c, [link[c] EXCEPT
                    !.halfway = TRUE,
                    !.stream = Append(@, Item(Head(link[c].serving), "head", k))])

\* The server ends the answer, with or without a stray response behind it.
ServerEnd(c, parts) ==
    /\ Connected(c)
    /\ link[c].halfway
    /\ Server(c, [link[c] EXCEPT
                    !.halfway = FALSE,
                    !.serving = Tail(@),
                    !.stream = @ \o [i \in 1 .. Len(parts) |->
                          Item(Head(link[c].serving), parts[i], "framed")]])

\* The server closes a connection, idle or not.
ServerCloses(c) ==
    /\ Connected(c)
    /\ Server(c, [link[c] EXCEPT !.gone = TRUE])

-----------------------------------------------------------------------------
\* What a request does once it has begun; its caller closes the body.
Step(r) ==
    \/ BodyRebuildFails(r)
    \/ LeaseNothing(r)
    \/ Lease(r)
    \/ \E c \in Conns : DialOK(r, c)
    \/ DialFails(r)
    \/ Exchange(r)
    \/ DeadlineFails(r)
    \/ Write(r)
    \/ WriteFails(r)
    \/ ReadHead(r)
    \/ ReadFails(r)
    \/ Retry(r)
    \/ Fail(r)
    \/ BodyClose(r)
    \/ Drain(r)
    \/ RecycleKeeps(r)
    \/ RecycleCloses(r)
    \/ PutKeeps(r)
    \/ PutRefuses(r)

Background(c) ==
    \/ CloseDropped(c)
    \/ \E r \in Reqs : WatchFires(r, c) \/ WatchEnds(r, c)

Environment ==
    \/ CloseAll
    \/ \E r \in Reqs : Cancel(r) \/ ReadSome(r) \/ BodyEOF(r) \/ BodyFails(r)
    \/ \E r \in Reqs, k \in Keys, b \in BOOLEAN : Begin(r, k, b)
    \/ \E c \in Conns :
          \/ Age(c)
          \/ \E k \in Kinds : ServerHead(c, k)
          \/ \E parts \in {<<"end">>, <<"end", "extra">>} : ServerEnd(c, parts)
          \/ ServerCloses(c)

Next ==
    \/ \E r \in Reqs : Step(r)
    \/ \E c \in Conns : Background(c)
    \/ Environment

Spec == Init /\ [][Next]_vars

\* Every step of a request is bounded in time: defaultOpTimeout ends a read or
\* a write on a connection without a deadline, the dial timeout ends a dial.
\* Callers close the bodies they are handed.
FairSpec == Spec /\ \A r \in Reqs : WF_vars(Step(r))

-----------------------------------------------------------------------------
(* Properties.                                                             *)

\* r owns connection c.
Owns(r, c) == pc[r] \in Owning /\ conn[r] = c

\* "A leased conn stays owned by one request": a connection is in one place
\* only, with one request, in the pool, or with a closeAll that will close
\* it, so neither another request nor CloseIdleConnections touches a request
\* in flight.
OnePlace ==
    /\ \A r, q \in Reqs, c \in Conns : Owns(r, c) /\ Owns(q, c) => r = q
    /\ \A r \in Reqs, c \in Conns : Owns(r, c) => c \notin idle \cup dropped
    /\ idle \cap dropped = {}

\* No connection is lost: one that has not been closed is owned by a request,
\* idle in the pool, or about to be closed by closeAll.  put, evictOldest and
\* poolBody.Close each pass the duty to close on.  Nor is one miscounted: the
\* counter the cap is enforced with agrees with the pool after every get, put,
\* eviction and closeAll.
NoConnectionLost ==
    /\ \A c \in Conns : ckey[c] # None /\ ~broken[c] =>
          c \in idle \cup dropped \/ \E r \in Reqs : Owns(r, c)
    /\ total = Cardinality(idle)

\* Who holds c, as ConnPool sees it: what closeAll has taken out is as good as
\* closed.
Holder(c) ==
    IF ckey[c] = None THEN "fresh"
    ELSE IF c \in idle THEN "idle"
    ELSE IF \E r \in Reqs : Owns(r, c) THEN CHOOSE r \in Reqs : Owns(r, c)
    ELSE "discarded"

Pool == INSTANCE ConnPool WITH
            Users <- Reqs, Connections <- Conns, Homes <- Keys,
            PerHome <- MaxPerHost, InAll <- MaxTotal, Nowhere <- None,
            holder <- [c \in Conns |-> Holder(c)], home <- ckey, wants <- key

\* connPool, lease, recycle and poolBody.Close implement the abstract pool:
\* whatever requests, watchers, servers and CloseIdleConnections do meanwhile,
\* a connection goes to one request at a time and only to one for its key, a
\* discarded one never comes back, and "idle connections are capped per host
\* and in total".
PoolImplemented == Pool!PoolSpec

\* The response a request is handed is the server's answer to that request,
\* and not what an earlier request left on the connection.
ResponseIsOwn == \A r \in Reqs : got[r] \in {None, r}

\* A request that cannot be rebuilt reaches a server at most once, any other
\* at most twice.
SentOnceUnlessReplayable ==
    \A r \in Reqs : sends[r] <= (IF replay[r] THEN 2 ELSE 1)

\* "Never retry once any response byte has been read": what was answered is
\* not sent again.
NoResendAfterAnswer ==
    [][\A r \in answered : sends'[r] = sends[r]]_vars

\* RoundTrip and the body it returned come to an end, whatever the servers do.
RequestsEnd == \A r \in Reqs : pc[r] = "lease" ~> pc[r] = "done"

\* "Closing the body ... stops the watcher so it does not outlive the
\* request": a connection is not closed under a request that is not
\* cancelled, unless the request does it.
CancelIsOwn ==
    [][\A r \in Reqs :
          /\ pc[r] \in Owning
          /\ pc'[r] = pc[r]
          /\ ~broken[conn[r]]
          /\ broken'[conn[r]]
          => r \in cancelled]_vars

=============================================================================
