---------------------------- MODULE MCNativeConns ----------------------------
(* Model checking the native TLS connections of package https.  The build   *)
(* tags compile one of three backends into a program: Network.framework,    *)
(* Schannel or mbedTLS.  Init chooses it, and the others stay unused.       *)
EXTENDS NwConn, Schannel, MbedConn

VARIABLE backend

\* A wire of records of a kind and a number of plaintext bytes.
Wire(recs) ==
    LET upto(i) == FoldLeft(LAMBDA n, r : n + r[2], 0, SubSeq(recs, 1, i))
    IN  [i \in DOMAIN recs |-> [kind |-> recs[i][1], from |-> upto(i - 1), upto |-> upto(i)]]

\* A certificate of the system's roots, and a peer that has little to say.
SystemTrust == [skip |-> FALSE, caOnly |-> FALSE, castore |-> "null", root |-> "system"]
ShortWire == Wire(<< <<"done", 0>>, <<"data", 1>> >>)

\* A record larger than the caller's buffer and an empty one before the close;
\* a renegotiation with data in its own record, of two messages; a request for
\* a client certificate, in the handshake and in a renegotiation; a record
\* that no buffer holds, after the handshake and within it; a record that
\* cannot be decrypted.
Wires == {
    Wire(<< <<"done", 0>>, <<"data", 3>>, <<"data", 0>>, <<"close", 0>> >>),
    Wire(<< <<"done", 0>>, <<"data", 1>>, <<"reneg", 2>>, <<"more", 0>>, <<"done", 0>>, <<"data", 1>> >>),
    Wire(<< <<"done", 0>>, <<"reneg", 1>>, <<"cred", 0>>, <<"done", 0>>, <<"data", 1>> >>),
    Wire(<< <<"done", 0>>, <<"huge", 0>>, <<"huge", 0>>, <<"huge", 0>> >>),
    Wire(<< <<"huge", 0>>, <<"huge", 0>>, <<"huge", 0>> >>),
    Wire(<< <<"done", 0>>, <<"data", 1>>, <<"more", 0>> >>),
    Wire(<< <<"cred", 0>>, <<"more", 0>>, <<"done", 0>>, <<"data", 2>>, <<"data", 1>> >>)}

\* Every trust decision on a short stream, every stream with one trust, and
\* writes of up to two records on a short stream.
Quick == [trust |-> SystemTrust, wire |-> ShortWire, writes |-> 0]
MCCases ==
    [trust : Trusts, wire : {ShortWire}, writes : {0}]
        \cup [trust : {SystemTrust}, wire : Wires, writes : {0}]
        \cup {[Quick EXCEPT !.writes = 4]}

Init ==
    /\ backend \in {"nw", "schannel", "mbedtls"}
    /\ NwInit /\ ScInit /\ MbInit
    /\ backend # "schannel" => Quick = [trust |-> trust, wire |-> wire, writes |-> writes]

Next ==
    \/ backend = "nw" /\ NwNext /\ UNCHANGED <<backend, scVars, mbVars>>
    \/ backend = "schannel" /\ ScNext /\ UNCHANGED <<backend, nwVars, mbVars>>
    \/ backend = "mbedtls" /\ MbNext /\ UNCHANGED <<backend, nwVars, scVars>>

vars == <<backend, nwVars, scVars, mbVars>>

\* Of Network.framework: goroutines run, the queue runs its blocks, timers
\* fire, and a cancelled connection ends.  Nothing is assumed of the peer.
Nw(A) == backend = "nw" /\ A
NwFairness ==
    /\ WF_nwVars(Nw(DialStep))
    /\ WF_nwVars(Nw(HandlerStep))
    /\ \A g \in Callers : WF_nwVars(Nw(CallerStep(g)))
    /\ \A o \in Ops : WF_nwVars(Nw(BlockRuns(o)))
    /\ WF_nwVars(Nw(CancelEnds))
    /\ WF_nwVars(Nw(GoneAnswers))

FairSpec == Init /\ [][Next]_vars /\ NwFairness

-----------------------------------------------------------------------------
\* Reads of either record-based backend are those of a byte stream: timeouts
\* in the middle of a record, records in parts, buffers that fill up and
\* renegotiations change nothing of the bytes, their order and their end.
ReadsAreStream == ScReadsStream /\ MbReadsStream

\* What Writes report is what the peer gets, for a Write that fails half-way
\* as well: whole records, none twice, none that is not reported unless the
\* record was cut short or mbedTLS keeps it for a retry.
WritesReported == ScWritesReported /\ MbWritesExact

\* No call and no completion uses the memory of a connection that a Close, a
\* timeout or both have given back meanwhile.
NoUseAfterClose == BufferIsCallers /\ MbSessionLive

=============================================================================
