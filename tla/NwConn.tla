------------------------------- MODULE NwConn -------------------------------
(***************************************************************************)
(* The Network.framework connection of package https: the C bridge         *)
(* tls_darwin_nw.c and nwConn, its net.Conn (dial_darwin_nw.go).           *)
(*                                                                         *)
(* A native call starts an operation of the framework and waits on a       *)
(* semaphore, with a timeout; the operation's block runs later, on the     *)
(* connection's serial queue, perhaps after the caller has left.  The      *)
(* block and the caller share the semaphore, the __block variables and,    *)
(* for a receive, the caller's buffer.  Every access to one of these is a  *)
(* step of its own.                                                        *)
(*                                                                         *)
(* The bytes of the stream are numbered; got is what Reads returned.       *)
(*                                                                         *)
(* External: the framework.  It runs blocks one at a time, answers receives*)
(* in their order, and ends everything after nw_connection_cancel.         *)
(***************************************************************************)
EXTENDS Naturals, Sequences, SequencesExt

CONSTANTS
    Callers,    \* goroutines that use the connection
    Custom,     \* the Config has trust anchors, or trusts these only
    MaxOps,     \* bound: native operations that are started
    MaxStream,  \* bound: bytes the peer sends
    MaxLen,     \* bound: size of a caller's buffer
    MaxOver     \* bytes a delivery may hold beyond the maximum asked for

ASSUME NwCustom == Custom \in BOOLEAN
ASSUME NwBounds == {MaxOps, MaxStream, MaxLen, MaxOver} \subseteq Nat

Ops == 1 .. MaxOps

\* Handler invocations and completions that the queue can be running.
StateHandler == 0

\* A semaphore with the count of sides that still hold it.
NewSem == [count |-> 0, owners |-> 2, freed |-> FALSE]

\* A block operation: what its completion was given, what it left behind.
\* side: how far the completion is; claim: "none" undecided, "caller" or "block".
NoOp == [kind |-> "none", len |-> 0, sem |-> NewSem, claim |-> "none", side |-> "none",
         content |-> <<>>, copied |-> <<>>, spill |-> <<>>,
         error |-> FALSE, complete |-> FALSE, lost |-> FALSE]

VARIABLES
    dial,      \* https_nw_dial: "new", "wait", "timedOut", "settled", "ok", "failed"
    ready,     \* its semaphore
    settled,   \* "none" or the state the handler settled the handshake with
    framework, \* nw_connection's state
    handler,   \* the invocation the state handler is in: [at, state]
    verify,    \* the verify block: "none", "running", "accepted", "rejected"
    anchors,   \* the trust anchors: held by "go", by the "conn", or "freed"
    mu,        \* nwConn.mu: {} or {the goroutine in a native call}
    pc,        \* pc[g]: [at, call, op] of goroutine g
    handle,    \* nwConn.handle is not 0
    pending,   \* the bytes behind pending_off
    nwEof,       \* c->eof
    ops,       \* the operations started
    queue,     \* the block that runs on c->queue: {} or {its number}
    receives,  \* receives the framework has not answered, in order
    sends,     \* sends likewise
    stream,    \* bytes of the stream the framework has handed out
    got        \* the bytes Reads have returned

dialVars == <<dial, ready, settled, framework, handler, verify, anchors>>
goVars == <<mu, pc, handle, pending, nwEof>>
opVars == <<ops, queue, receives, sends, stream>>
nwVars == <<dialVars, goVars, opVars, got>>

Idle == [at |-> "idle", call |-> "none", op |-> 0]

NwInit ==
    /\ dial = "new"
    /\ ready = NewSem
    /\ settled = "none"
    /\ framework = "setup"
    /\ handler = [at |-> "none", state |-> "none"]
    /\ verify = "none"
    /\ anchors = IF Custom THEN "go" ELSE "none"
    /\ mu = {}
    /\ pc = [g \in Callers |-> Idle]
    /\ handle = FALSE
    /\ pending = <<>>
    /\ nwEof = FALSE
    /\ ops = [o \in Ops |-> NoOp]
    /\ queue = {}
    /\ receives = <<>>
    /\ sends = <<>>
    /\ stream = 0
    /\ got = <<>>

-----------------------------------------------------------------------------
(* Semaphores.                                                             *)

Signalled(s) == [s EXCEPT !.count = @ + 1]
Waited(s) == [s EXCEPT !.count = @ - 1]

\* Mutant of Dropped: the caller's side releases the semaphore whoever is left.
DroppedAtOnce(s) == [s EXCEPT !.owners = @ - 1, !.freed = TRUE]

\* __sync_sub_and_fetch of the owners; the last one releases.
Dropped(s) == [s EXCEPT !.owners = @ - 1, !.freed = s.owners = 1]

-----------------------------------------------------------------------------
(* https_nw_dial.                                                          *)

Dial ==
    /\ dial = "new"
    /\ dial' = "wait"
    /\ framework' = "preparing"
    /\ UNCHANGED <<ready, settled, handler, verify, anchors, goVars, opVars, got>>

\* The verify block, on a global queue: it reads the anchors it has captured.
VerifyStarts ==
    /\ framework = "preparing"
    /\ verify = "none"
    /\ anchors # "none"
    /\ verify' = "running"
    /\ UNCHANGED <<dial, ready, settled, framework, handler, anchors, goVars, opVars, got>>

VerifyEnds(verdict) ==
    /\ verify = "running"
    /\ verify' = verdict
    /\ UNCHANGED <<dial, ready, settled, framework, handler, anchors, goVars, opVars, got>>

\* What the framework can go to, cancelled being terminal.  A rejected
\* certificate makes it wait; a connection is ready when it is verified.
Changes(s) ==
    \/ s = "ready" /\ framework = "preparing"
                   /\ (anchors # "none" => verify = "accepted")
    \/ s = "waiting" /\ framework = "preparing" /\ verify # "running"
    \/ s = "preparing" /\ framework = "waiting"
    \/ s = "failed" /\ framework \in {"preparing", "waiting", "ready"}
    \/ s = "cancelled" /\ framework = "cancelling"

\* Mutant of StateChanges: the cancelled state is one of those ignored.
StateChangesButCancelled(s) ==
    /\ queue = {}
    /\ Changes(s)
    /\ framework' = s
    /\ IF s \in {"preparing", "cancelled"}
       THEN UNCHANGED <<queue, handler>>
       ELSE /\ queue' = {StateHandler}
            /\ handler' = [at |-> "claim", state |-> s]
    /\ UNCHANGED <<dial, ready, settled, verify, anchors, goVars, ops, receives, sends,
                   stream, got>>

\* The state-changed handler: it does nothing for a state that settles nothing.
StateChanges(s) ==
    /\ queue = {}
    /\ Changes(s)
    /\ framework' = s
    /\ IF s = "preparing"
       THEN UNCHANGED <<queue, handler>>
       ELSE /\ queue' = {StateHandler}
            /\ handler' = [at |-> "claim", state |-> s]
    /\ UNCHANGED <<dial, ready, settled, verify, anchors, goVars, ops, receives, sends,
                   stream, got>>

\* Mutant of HandlerClaims: every invocation settles the outcome again.
HandlerClaimsAgain ==
    /\ handler.at = "claim"
    /\ settled' = handler.state
    /\ handler' = [handler EXCEPT !.at = "signal"]
    /\ UNCHANGED <<dial, ready, framework, verify, anchors, goVars, opVars, got>>

\* The compare-and-swap of settled, and the outcome with it: the caller reads
\* it after the signal only.
HandlerClaims ==
    /\ handler.at = "claim"
    /\ IF settled = "none"
       THEN /\ settled' = handler.state
            /\ handler' = [handler EXCEPT !.at = "signal"]
            /\ UNCHANGED queue
       ELSE /\ handler' = [at |-> "none", state |-> "none"]
            /\ queue' = {}
            /\ UNCHANGED settled
    /\ UNCHANGED <<dial, ready, framework, verify, anchors, goVars, ops, receives, sends,
                   stream, got>>

HandlerSignals ==
    /\ handler.at = "signal"
    /\ ready' = Signalled(ready)
    /\ handler' = [handler EXCEPT !.at = "drop"]
    /\ UNCHANGED <<dial, settled, framework, verify, anchors, goVars, opVars, got>>

HandlerDrops ==
    /\ handler.at = "drop"
    /\ ready' = Dropped(ready)
    /\ handler' = [at |-> "none", state |-> "none"]
    /\ queue' = {}
    /\ UNCHANGED <<dial, settled, framework, verify, anchors, goVars, ops, receives, sends,
                   stream, got>>

DialWakes ==
    /\ dial = "wait"
    /\ ready.count > 0
    /\ ready' = Waited(ready)
    /\ dial' = "settled"
    /\ UNCHANGED <<settled, framework, handler, verify, anchors, goVars, opVars, got>>

DialTimesOut ==
    /\ dial = "wait"
    /\ ready.count = 0
    /\ dial' = "timedOut"
    /\ UNCHANGED <<ready, settled, framework, handler, verify, anchors, goVars, opVars, got>>

\* The rest of the call: its side of the semaphore, and the handle with the
\* anchors, or the cancelled connection and the anchors back to Go, which
\* frees them.
DialReturns ==
    /\ dial \in {"settled", "timedOut"}
    /\ ready' = Dropped(ready)
    /\ LET ok == dial = "settled" /\ settled = "ready"
       IN  /\ dial' = IF ok THEN "ok" ELSE "failed"
           /\ handle' = ok
           /\ framework' = IF ok THEN framework ELSE "cancelling"
           /\ anchors' = CASE anchors = "none" -> "none"
                           [] ok -> "conn"
                           [] OTHER -> "freed"
    /\ UNCHANGED <<settled, handler, verify, mu, pc, pending, nwEof, opVars, got>>

-----------------------------------------------------------------------------
(* nwConn: one mutex around every method.                                  *)

Calls(g, call) ==
    /\ dial = "ok"
    /\ pc[g] = Idle
    /\ pc' = [pc EXCEPT ![g] = [at |-> "lock", call |-> call, op |-> 0]]
    /\ UNCHANGED <<dialVars, mu, handle, pending, nwEof, opVars, got>>

\* Goroutine g has the mutex at the start of a call that is one step.
Enters(g, call) == pc[g].at = "lock" /\ pc[g].call = call /\ mu = {}
Leaves(g) == pc' = [pc EXCEPT ![g] = Idle]

\* SetDeadline, SetReadDeadline and SetWriteDeadline wait for the mutex, too.
\* What they set decides only when a call times out, which may be any time.
SetsDeadline(g) ==
    /\ Enters(g, "setDeadline")
    /\ Leaves(g)
    /\ UNCHANGED <<dialVars, mu, handle, pending, nwEof, opVars, got>>

\* A Read or Write finds the connection closed, or its deadline passed.
FailsAtOnce(g) ==
    /\ Enters(g, "read") \/ Enters(g, "write")
    /\ Leaves(g)
    /\ UNCHANGED <<dialVars, mu, handle, pending, nwEof, opVars, got>>

\* Mutant of Close: it does not wait for the call in progress.
CloseUnlocked(g) ==
    /\ pc[g].at = "lock" /\ pc[g].call = "close"
    /\ IF handle
       THEN /\ framework' = "cancelling"
            /\ anchors' = IF anchors = "conn" THEN "freed" ELSE anchors
            /\ pending' = <<>>
            /\ handle' = FALSE
       ELSE UNCHANGED <<framework, anchors, pending, handle>>
    /\ Leaves(g)
    /\ UNCHANGED <<dial, ready, settled, handler, verify, mu, nwEof, opVars, got>>

\* Close with https_nw_close.
Close(g) ==
    /\ Enters(g, "close")
    /\ IF handle
       THEN /\ framework' = "cancelling"
            /\ anchors' = IF anchors = "conn" THEN "freed" ELSE anchors
            /\ pending' = <<>>
            /\ handle' = FALSE
       ELSE UNCHANGED <<framework, anchors, pending, handle>>
    /\ Leaves(g)
    /\ UNCHANGED <<dial, ready, settled, handler, verify, mu, nwEof, opVars, got>>

-----------------------------------------------------------------------------
(* https_nw_recv and https_nw_send: the caller.                            *)

\* The operation a call would start.
Started == {o \in Ops : ops[o].kind # "none"}
NextOp == CHOOSE o \in Ops : o \notin Started /\ \A p \in Ops \ Started : o <= p

\* Leftovers of an oversized delivery go first.
RecvPending(g, len) ==
    /\ Enters(g, "read")
    /\ handle
    /\ pending # <<>>
    /\ LET take == IF len < Len(pending) THEN len ELSE Len(pending)
       IN  /\ got' = got \o SubSeq(pending, 1, take)
           /\ pending' = SubSeq(pending, take + 1, Len(pending))
    /\ Leaves(g)
    /\ UNCHANGED <<dialVars, mu, handle, nwEof, opVars>>

RecvEOF(g) ==
    /\ Enters(g, "read")
    /\ handle
    /\ pending = <<>>
    /\ nwEof
    /\ Leaves(g)
    /\ UNCHANGED <<dialVars, mu, handle, pending, nwEof, opVars, got>>

Starts(g, kind, len) ==
    /\ Started # Ops
    /\ ops' = [ops EXCEPT ![NextOp] = [NoOp EXCEPT !.kind = kind, !.len = len]]
    /\ mu' = {g}
    /\ pc' = [pc EXCEPT ![g].at = "wait", ![g].op = NextOp]

RecvStarts(g, len) ==
    /\ Enters(g, "read")
    /\ handle
    /\ pending = <<>>
    /\ ~nwEof
    /\ Starts(g, "recv", len)
    /\ receives' = Append(receives, NextOp)
    /\ UNCHANGED <<dialVars, handle, pending, nwEof, queue, sends, stream, got>>

SendStarts(g) ==
    /\ Enters(g, "write")
    /\ handle
    /\ Starts(g, "send", 1)
    /\ sends' = Append(sends, NextOp)
    /\ UNCHANGED <<dialVars, handle, pending, nwEof, queue, receives, stream, got>>

\* The caller of g's operation moves on; the operation becomes o.
Moves(g, at) == pc' = [pc EXCEPT ![g].at = at]
Sets(g, o) == ops' = [ops EXCEPT ![pc[g].op] = o]
Mine(g) == ops[pc[g].op]

Wakes(g) ==
    /\ pc[g].at \in {"wait", "waitForever"}
    /\ Mine(g).sem.count > 0
    /\ Sets(g, [Mine(g) EXCEPT !.sem = Waited(@)])
    /\ Moves(g, "drop")
    /\ UNCHANGED <<dialVars, mu, handle, pending, nwEof, queue, receives, sends,
                   stream, got>>

\* The timeout: the deadline, or defaultOpTimeout.
TimesOut(g) ==
    /\ pc[g].at = "wait"
    /\ Mine(g).sem.count = 0
    /\ Moves(g, IF Mine(g).kind = "recv" THEN "claim" ELSE "leave")
    /\ UNCHANGED <<dialVars, mu, handle, pending, nwEof, opVars, got>>

\* Mutant of RecvClaims: the timed-out caller leaves without asking.
RecvLeaves(g) ==
    /\ pc[g].at = "claim"
    /\ Moves(g, "leave")
    /\ UNCHANGED <<dialVars, mu, handle, pending, nwEof, opVars, got>>

\* The caller's compare-and-swap of claim; it stays when the block was first.
RecvClaims(g) ==
    /\ pc[g].at = "claim"
    /\ IF Mine(g).claim = "none"
       THEN Sets(g, [Mine(g) EXCEPT !.claim = "caller"]) /\ Moves(g, "leave")
       ELSE Moves(g, "waitForever") /\ UNCHANGED ops
    /\ UNCHANGED <<dialVars, mu, handle, pending, nwEof, queue, receives, sends,
                   stream, got>>

\* The timed-out call returns.
ReturnsTimeout(g) ==
    /\ pc[g].at = "leave"
    /\ Sets(g, [Mine(g) EXCEPT !.sem = Dropped(@), !.lost = TRUE])
    /\ mu' = {}
    /\ Leaves(g)
    /\ UNCHANGED <<dialVars, handle, pending, nwEof, queue, receives, sends,
                   stream, got>>

\* Mutant of Returns: the overflow of a delivery is not kept.
ReturnsWithoutSpill(g) ==
    /\ pc[g].at = "drop"
    /\ Sets(g, [Mine(g) EXCEPT !.sem = Dropped(@), !.lost = Mine(g).error])
    /\ IF Mine(g).error \/ Mine(g).kind = "send"
       THEN UNCHANGED <<nwEof, pending, got>>
       ELSE /\ nwEof' = (nwEof \/ Mine(g).complete)
            /\ got' = got \o Mine(g).copied
            /\ UNCHANGED pending
    /\ mu' = {}
    /\ Leaves(g)
    /\ UNCHANGED <<dialVars, handle, queue, receives, sends, stream>>

\* The call returns what the block left; a receive with an error returns none
\* of its bytes.
Returns(g) ==
    /\ pc[g].at = "drop"
    /\ Sets(g, [Mine(g) EXCEPT !.sem = Dropped(@), !.lost = Mine(g).error \/ @])
    /\ IF Mine(g).error \/ Mine(g).kind = "send"
       THEN UNCHANGED <<nwEof, pending, got>>
       ELSE /\ nwEof' = (nwEof \/ Mine(g).complete)
            /\ got' = got \o Mine(g).copied
            /\ pending' = Mine(g).spill
    /\ mu' = {}
    /\ Leaves(g)
    /\ UNCHANGED <<dialVars, handle, queue, receives, sends, stream>>

-----------------------------------------------------------------------------
(* The blocks, on the queue of the connection.                             *)

Gone == framework \in {"failed", "cancelling", "cancelled"}

\* The framework answers the oldest receive with n bytes, an error, the end of
\* the stream, or several of these.
Delivers(n, error, complete) ==
    LET o == Head(receives)
    IN  /\ queue = {}
        /\ receives # <<>>
        /\ n <= ops[o].len + MaxOver
        /\ stream + n <= MaxStream
        /\ Gone => n = 0 /\ error
        /\ complete => stream + n = MaxStream
        /\ n > 0 \/ error \/ complete
        /\ ops' = [ops EXCEPT ![o] = [@ EXCEPT !.side = "claim", !.error = error,
                                     !.complete = complete,
                                     !.content = [i \in 1 .. n |-> stream + i]]]
        /\ stream' = stream + n
        /\ receives' = Tail(receives)
        /\ queue' = {o}
        /\ UNCHANGED <<dialVars, goVars, sends, got>>

\* The framework has sent, or failed to send, the oldest content.
Sent(error) ==
    LET o == Head(sends)
    IN  /\ queue = {}
        /\ sends # <<>>
        /\ Gone => error
        /\ ops' = [ops EXCEPT ![o] = [@ EXCEPT !.side = "signal", !.error = error]]
        /\ sends' = Tail(sends)
        /\ queue' = {o}
        /\ UNCHANGED <<dialVars, goVars, receives, stream, got>>

\* A step of block o.
BlockStep(o, from, new) ==
    /\ ops[o].side = from
    /\ ops' = [ops EXCEPT ![o] = new]
    /\ UNCHANGED <<dialVars, goVars, receives, sends, stream, got>>

\* The compare-and-swap of claim; a block that lost drops its content.
BlockClaims(o) ==
    /\ BlockStep(o, "claim",
                 IF ops[o].claim = "none"
                 THEN [ops[o] EXCEPT !.claim = "block", !.side = "copy"]
                 ELSE [ops[o] EXCEPT !.side = "signal"])
    /\ UNCHANGED queue

\* Into the caller's buffer, and what does not fit into a spill, if there is
\* memory for it.
BlockCopies(o, memory) ==
    LET take == IF ops[o].len < Len(ops[o].content) THEN ops[o].len ELSE Len(ops[o].content)
        rest == SubSeq(ops[o].content, take + 1, Len(ops[o].content))
    IN  /\ BlockStep(o, "copy",
                     [ops[o] EXCEPT !.side = "signal",
                                    !.copied = SubSeq(ops[o].content, 1, take),
                                    !.spill = IF memory THEN rest ELSE <<>>,
                                    !.lost = rest # <<>> /\ ~memory])
        /\ UNCHANGED queue

\* Mutant of BlockSignals: a block without content leaves without a signal.
BlockSignalsContent(o) ==
    /\ BlockStep(o, "signal",
                 [ops[o] EXCEPT !.sem = IF ops[o].content = <<>> THEN @ ELSE Signalled(@),
                                !.side = "drop"])
    /\ UNCHANGED queue

BlockSignals(o) ==
    /\ BlockStep(o, "signal", [ops[o] EXCEPT !.sem = Signalled(@), !.side = "drop"])
    /\ UNCHANGED queue

BlockDrops(o) ==
    /\ BlockStep(o, "drop", [ops[o] EXCEPT !.sem = Dropped(@), !.side = "done"])
    /\ queue' = {}

-----------------------------------------------------------------------------
NwCalls == {"read", "write", "close", "setDeadline"}

DialStep == Dial \/ DialWakes \/ DialTimesOut \/ DialReturns

HandlerStep == HandlerClaims \/ HandlerSignals \/ HandlerDrops

\* A goroutine with a call in progress.
CallerStep(g) ==
    \/ SetsDeadline(g)
    \/ FailsAtOnce(g)
    \/ \E len \in 1 .. MaxLen : RecvPending(g, len) \/ RecvStarts(g, len)
    \/ RecvEOF(g)
    \/ SendStarts(g)
    \/ Close(g)
    \/ Wakes(g)
    \/ TimesOut(g)
    \/ RecvClaims(g)
    \/ ReturnsTimeout(g)
    \/ Returns(g)

BlockRuns(o) ==
    \/ BlockClaims(o)
    \/ \E memory \in BOOLEAN : BlockCopies(o, memory)
    \/ BlockSignals(o)
    \/ BlockDrops(o)

FrameworkStep ==
    \/ VerifyStarts
    \/ \E verdict \in {"accepted", "rejected"} : VerifyEnds(verdict)
    \/ \E s \in {"ready", "waiting", "preparing", "failed", "cancelled"} : StateChanges(s)
    \/ \E n \in 0 .. MaxLen + MaxOver, error, complete \in BOOLEAN :
          Delivers(n, error, complete)
    \/ \E error \in BOOLEAN : Sent(error)

NwNext ==
    \/ DialStep
    \/ HandlerStep
    \/ \E g \in Callers, call \in NwCalls : Calls(g, call)
    \/ \E g \in Callers : CallerStep(g)
    \/ \E o \in Ops : BlockRuns(o)
    \/ FrameworkStep

NwSpec == NwInit /\ [][NwNext]_nwVars

\* The steps that come without the peer: the end of a cancelled connection,
\* and the answers to its operations.
CancelEnds == framework = "cancelling" /\ StateChanges("cancelled")
GoneAnswers == Gone /\ (Delivers(0, TRUE, FALSE) \/ Sent(TRUE))

-----------------------------------------------------------------------------
(* Properties.                                                             *)

\* "Whichever side finishes last releases": a semaphore is released exactly
\* when both the call and its block are through with it, so neither a late
\* block nor a late caller touches a released one, and none is leaked, whether
\* the call timed out before, during or after its block.
SemaphoreLive ==
    /\ ready.freed <=> /\ dial \in {"ok", "failed"}
                       /\ settled # "none"
                       /\ handler.at \notin {"signal", "drop"}
    /\ \A o \in Started :
          ops[o].sem.freed <=> ops[o].side = "done" /\ \A g \in Callers : pc[g].op # o

\* A completion copies into the caller's buffer only while that call is in
\* progress, however the copy races the timeout ("the caller only returns
\* HTTPS_NW_ERR_TIMEOUT after winning" the claim), and the https_nw_conn of
\* that call has not been freed.
BufferIsCallers ==
    /\ \A o \in Started : ops[o].side = "copy" => \E g \in Callers : pc[g].op = o
    /\ \A g \in Callers : pc[g].op # 0 => handle

\* Reads return the bytes of the stream in order, and a byte the framework
\* handed over is returned, waits in pending or in the call in progress, or
\* was handed to a receive that did not succeed (it timed out, failed, or had
\* no memory for an overflow): no successful Read skips a byte.
NoSilentLoss ==
    /\ \A i, j \in DOMAIN got : i < j => got[i] < got[j]
    /\ handle => \A b \in 1 .. stream :
          \/ b \in ToSet(got) \cup ToSet(pending)
          \/ \E o \in Started : /\ b \in ToSet(ops[o].content)
                                /\ ops[o].lost \/ ops[o].claim = "caller"
                                               \/ \E g \in Callers : pc[g].op = o

\* A native call never blocks for good, whatever the peer does, and neither
\* does a call that waits for the mutex behind it.
NwCallsEnd == \A g \in Callers : pc[g].at # "idle" ~> pc[g].at = "idle"

\* A dial that failed, or a connection that was closed, leaves no semaphore
\* behind, the ones of operations that were abandoned included.
NwAllReleased ==
    (dial = "failed" \/ (dial = "ok" /\ ~handle)) ~>
        (ready.freed /\ \A o \in Started : ops[o].sem.freed)

=============================================================================
