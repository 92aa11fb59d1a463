---------------------------- MODULE MCClientEnds -----------------------------
(* Model checking that the calls of the client side end: of the Device that  *)
(* TinyGo's net drives, and of the Transport.  A program uses either; Init   *)
(* chooses it, and the other one stays unused.                               *)
EXTENDS HttpsTransport

CONSTANTS Procs, Fds, Socks, BufLen, EarlyShare

VARIABLES
    side,   \* whose calls are looked at
    kernel, phase, sockets, proto, private, tls, session, readMu, writeMu,
    dpc, num, cur, sent, res

Dev == INSTANCE NetdevDevice WITH pc <- dpc

devVars == <<kernel, phase, sockets, proto, private, tls, session, readMu, writeMu,
             dpc, num, cur, sent, res>>
MCVars == <<side, vars, devVars>>

MCInit == side \in {"device", "transport"} /\ Init /\ Dev!Init

MCNext ==
    \/ side = "transport" /\ Next /\ UNCHANGED <<side, devVars>>
    \/ side = "device" /\ Dev!Next /\ UNCHANGED <<side, vars>>

\* The fairness of HttpsTransport!FairSpec and of NetdevDevice!FairSpec.
MCFairSpec ==
    /\ MCInit /\ [][MCNext]_MCVars
    /\ \A r \in Reqs : WF_vars(side = "transport" /\ Step(r))
    /\ \A p \in Procs : WF_devVars(side = "device" /\ Dev!Bounded(p) /\ dpc[p] # "tlsReading")

-----------------------------------------------------------------------------
\* Close of a socket returns although it waits for operations inside the TLS
\* stack; see NetdevDevice.
CloseCompletes == Dev!CloseCompletes

\* A Send is not stalled by a Recv that is blocked; see NetdevDevice.
SendNotStalledByRecv == Dev!SendNotStalledByRecv

=============================================================================
