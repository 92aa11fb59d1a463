---------------------------- MODULE NetdevDevice ----------------------------
(***************************************************************************)
(* The host socket driver of package netdev (device.go): the Device with   *)
(* its table d.sockets from descriptor numbers to *socket, the per-socket  *)
(* locks, and the operations as sequences of steps that other goroutines   *)
(* interleave with.                                                        *)
(*                                                                         *)
(* External state: the kernel's descriptor table (kernel), which reuses a  *)
(* number as soon as close(2) released it, and the table of TLS sessions   *)
(* of the backend (session).  A member of Socks stands both for a *socket  *)
(* and for the kernel socket it was made for; it is used once, so the size *)
(* of Socks bounds the number of sockets a behaviour creates.              *)
(*                                                                         *)
(* Left out: addresses (Bind, LocalAddr, the laddr and raddr fields) and   *)
(* socket options, which no property here tells apart.                     *)
(***************************************************************************)
EXTENDS Naturals

CONSTANTS
    Procs,      \* goroutines calling the driver
    Fds,        \* descriptor numbers the kernel hands out
    Socks,      \* identities of sockets
    BufLen,     \* bytes in the buffer of one Send
    EarlyShare, \* may goroutines share a socket before Connect or Listen returned?
    None        \* nil, an unused number, an unlocked mutex

ASSUME BufLenAssumption == BufLen \in Nat \ {0}
ASSUME EarlyShareAssumption == EarlyShare \in BOOLEAN

Protocols == {"tcp", "udp", "tls"}

ASSUME NoneAssumption == None \notin Socks \cup Procs \cup Protocols

\* The point an operation has reached: the step it takes next.
Labels == {"idle", "register", "listen", "connect", "connected", "handshake",
           "store", "accept", "acceptErr", "acceptReg", "send", "lockWrite", "tlsSend",
           "tlsWriting", "recv", "lockRead", "tlsRecv", "tlsReading",
           "closeRead", "closeWrite", "closeTLS", "closeFd"}

\* What the last operation of a goroutine returned ("none" while one runs):
\* "short" is a Send that wrote less than its buffer and reports no error.
Outcomes == {"none", "ok", "short", "invalid", "unsupported", "closed",
             "errno", "eof"}

VARIABLES
    kernel,   \* kernel[fd]: the kernel socket the number names
    phase,    \* phase[s]: what the kernel socket is set up for
    sockets,  \* d.sockets: the table of the Device
    proto,    \* proto[s]: socket.protocol, None before the socket exists
    private,  \* private[s]: the only goroutine that knows the number yet
    tls,      \* tls[s]: socket.tls # 0
    session,  \* session[s]: the TLS session in the backend's table
    readMu,   \* readMu[s]: who holds socket.readMu
    writeMu,  \* writeMu[s]: who holds socket.writeMu
    pc,       \* pc[p]: the next step of goroutine p
    num,      \* num[p]: the number p's operation uses as s.fd
    cur,      \* cur[p]: the *socket p's operation looked up or made
    sent,     \* sent[p]: bytes already written by p's Send
    res       \* res[p]: the error class p's last operation returned

vars == <<kernel, phase, sockets, proto, private, tls, session, readMu,
          writeMu, pc, num, cur, sent, res>>

TypeOK ==
    /\ kernel \in [Fds -> Socks \cup {None}]
    /\ phase \in [Socks -> {"new", "listening", "connected"}]
    /\ sockets \in [Fds -> Socks \cup {None}]
    /\ proto \in [Socks -> Protocols \cup {None}]
    /\ private \in [Socks -> Procs \cup {None}]
    /\ tls \in [Socks -> BOOLEAN]
    /\ session \in [Socks -> {"none", "live", "freed"}]
    /\ readMu \in [Socks -> Procs \cup {None}]
    /\ writeMu \in [Socks -> Procs \cup {None}]
    /\ pc \in [Procs -> Labels]
    /\ num \in [Procs -> Fds \cup {None}]
    /\ cur \in [Procs -> Socks \cup {None}]
    /\ sent \in [Procs -> 0 .. BufLen]
    /\ res \in [Procs -> Outcomes]

Init ==
    /\ kernel = [fd \in Fds |-> None]
    /\ phase = [s \in Socks |-> "new"]
    /\ sockets = [fd \in Fds |-> None]
    /\ proto = [s \in Socks |-> None]
    /\ private = [s \in Socks |-> None]
    /\ tls = [s \in Socks |-> FALSE]
    /\ session = [s \in Socks |-> "none"]
    /\ readMu = [s \in Socks |-> None]
    /\ writeMu = [s \in Socks |-> None]
    /\ pc = [p \in Procs |-> "idle"]
    /\ num = [p \in Procs |-> None]
    /\ cur = [p \in Procs |-> None]
    /\ sent = [p \in Procs |-> 0]
    /\ res = [p \in Procs |-> "none"]

-----------------------------------------------------------------------------
(* Calling conventions.  TinyGo's net hands a socket on to other goroutines *)
(* only when Connect, Listen or Accept returned; with EarlyShare callers   *)
(* use the Device directly and share the number at once.                   *)

\* d.get(fd) finds a socket whose number p knows.
Found(p, fd) ==
    /\ sockets[fd] # None
    /\ EarlyShare \/ private[sockets[fd]] \in {None, p}

\* p sets up the socket it made.
SetUp(p, fd) ==
    /\ Found(p, fd)
    /\ phase[sockets[fd]] = "new"

\* The socket is set up for the operations of phase ph.
Ready(p, fd, ph) ==
    /\ Found(p, fd)
    /\ private[sockets[fd]] = None
    /\ phase[sockets[fd]] = ph

\* Operation of p starts on the socket in the table under fd, at label l.
Enter(p, fd, l) ==
    /\ pc[p] = "idle"
    /\ pc' = [pc EXCEPT ![p] = l]
    /\ num' = [num EXCEPT ![p] = fd]
    /\ cur' = [cur EXCEPT ![p] = sockets[fd]]
    /\ res' = [res EXCEPT ![p] = "none"]

\* p's operation returns with the outcome o.
Return(p, o) ==
    /\ pc' = [pc EXCEPT ![p] = "idle"]
    /\ num' = [num EXCEPT ![p] = None]
    /\ cur' = [cur EXCEPT ![p] = None]
    /\ sent' = [sent EXCEPT ![p] = 0]
    /\ res' = [res EXCEPT ![p] = o]

Goto(p, l) == pc' = [pc EXCEPT ![p] = l]

\* d.get(fd) finds nothing: every operation then returns ErrInvalidSocketFd.
CallInvalid(p, fd) ==
    /\ pc[p] = "idle"
    /\ sockets[fd] = None
    /\ Return(p, "invalid")
    /\ UNCHANGED <<kernel, phase, sockets, proto, private, tls, session,
                   readMu, writeMu>>

-----------------------------------------------------------------------------
(* Socket: create a kernel socket, then enter it in the table.             *)

\* sysSocket succeeds: the kernel picks a number that names nothing.
SysSocket(p, s, fd, pr) ==
    /\ pc[p] = "idle"
    /\ proto[s] = None
    /\ kernel[fd] = None
    /\ kernel' = [kernel EXCEPT ![fd] = s]
    /\ proto' = [proto EXCEPT ![s] = pr]
    /\ pc' = [pc EXCEPT ![p] = "register"]
    /\ num' = [num EXCEPT ![p] = fd]
    /\ cur' = [cur EXCEPT ![p] = s]
    /\ res' = [res EXCEPT ![p] = "none"]
    /\ UNCHANGED <<phase, sockets, private, tls, session, readMu, writeMu,
                   sent>>

\* The insert under d.mu; the number is returned to p alone.
SocketRegister(p) ==
    /\ pc[p] = "register"
    /\ sockets' = [sockets EXCEPT ![num[p]] = cur[p]]
    /\ private' = [private EXCEPT ![cur[p]] = p]
    /\ Return(p, "ok")
    /\ UNCHANGED <<kernel, phase, proto, tls, session, readMu, writeMu>>

-----------------------------------------------------------------------------
(* Listen and Connect make a socket ready for others to use.               *)

ListenGet(p, fd) ==
    /\ SetUp(p, fd)
    /\ Enter(p, fd, "listen")
    /\ UNCHANGED <<kernel, phase, sockets, proto, private, tls, session,
                   readMu, writeMu, sent>>

\* listen(2) acts on whatever the number names by now.
SysListen(p) ==
    /\ pc[p] = "listen"
    /\ kernel[num[p]] # None
    /\ proto[kernel[num[p]]] # "udp"
    /\ phase' = [phase EXCEPT ![kernel[num[p]]] = "listening"]
    /\ private' = [private EXCEPT ![cur[p]] = None]
    /\ Return(p, "ok")
    /\ UNCHANGED <<kernel, sockets, proto, tls, session, readMu, writeMu>>

ConnectGet(p, fd) ==
    /\ SetUp(p, fd)
    /\ Enter(p, fd, "connect")
    /\ UNCHANGED <<kernel, phase, sockets, proto, private, tls, session,
                   readMu, writeMu, sent>>

\* connect(2) on whatever the number names; one already set up is EISCONN.
SysConnect(p) ==
    /\ pc[p] = "connect"
    /\ kernel[num[p]] # None
    /\ phase[kernel[num[p]]] = "new"
    /\ phase' = [phase EXCEPT ![kernel[num[p]]] = "connected"]
    /\ Goto(p, IF proto[cur[p]] = "tls" THEN "handshake" ELSE "connected")
    /\ UNCHANGED <<kernel, sockets, proto, private, tls, session, readMu, writeMu,
                   num, cur, sent, res>>

\* Connect of a plain socket returns.
Connected(p) ==
    /\ pc[p] = "connected"
    /\ private' = [private EXCEPT ![cur[p]] = None]
    /\ Return(p, "ok")
    /\ UNCHANGED <<kernel, phase, sockets, proto, tls, session, readMu, writeMu>>

\* sysTLSConnect: the handshake over s.fd, bounded by handshakeTimeout, enters
\* a session in the backend's table.
SysTLSConnect(p) ==
    /\ pc[p] = "handshake"
    /\ kernel[num[p]] = cur[p]
    /\ session' = [session EXCEPT ![cur[p]] = "live"]
    /\ Goto(p, "store")
    /\ UNCHANGED <<kernel, phase, sockets, proto, private, tls, readMu, writeMu,
                   num, cur, sent, res>>

\* sysListen, sysConnect or sysTLSConnect fails.
SetupFails(p) ==
    /\ pc[p] \in {"listen", "connect", "handshake"}
    /\ Return(p, "errno")
    /\ UNCHANGED <<kernel, phase, sockets, proto, private, tls, session, readMu,
                   writeMu>>

\* s.tls = tls, under no lock, and the return of Connect.
ConnectStore(p) ==
    /\ pc[p] = "store"
    /\ tls' = [tls EXCEPT ![cur[p]] = TRUE]
    /\ private' = [private EXCEPT ![cur[p]] = None]
    /\ Return(p, "ok")
    /\ UNCHANGED <<kernel, phase, sockets, proto, session, readMu, writeMu>>

-----------------------------------------------------------------------------
(* Accept.                                                                 *)

AcceptGet(p, fd) ==
    /\ Ready(p, fd, "listening")
    /\ Enter(p, fd, "accept")
    /\ UNCHANGED <<kernel, phase, sockets, proto, private, tls, session,
                   readMu, writeMu, sent>>

\* Accept on a datagram socket.
AcceptUnsupported(p, fd) ==
    /\ pc[p] = "idle"
    /\ Found(p, fd)
    /\ proto[sockets[fd]] = "udp"
    /\ Return(p, "unsupported")
    /\ UNCHANGED <<kernel, phase, sockets, proto, private, tls, session,
                   readMu, writeMu>>

\* Mutant of SysAccept: the connection is kept under the listener's number.
SysAcceptListenerNumber(p, s, fd) ==
    /\ pc[p] = "accept"
    /\ kernel[num[p]] # None
    /\ phase[kernel[num[p]]] = "listening"
    /\ proto[s] = None
    /\ kernel[fd] = None
    /\ kernel' = [kernel EXCEPT ![fd] = s]
    /\ proto' = [proto EXCEPT ![s] = "tcp"]
    /\ phase' = [phase EXCEPT ![s] = "connected"]
    /\ cur' = [cur EXCEPT ![p] = s]
    /\ Goto(p, "acceptReg")
    /\ UNCHANGED <<num, sockets, private, tls, session, readMu, writeMu, sent,
                   res>>

\* accept(2) returns a connection s of the listener the number names, under
\* the new number fd.
SysAccept(p, s, fd) ==
    /\ pc[p] = "accept"
    /\ kernel[num[p]] # None
    /\ phase[kernel[num[p]]] = "listening"
    /\ proto[s] = None
    /\ kernel[fd] = None
    /\ kernel' = [kernel EXCEPT ![fd] = s]
    /\ proto' = [proto EXCEPT ![s] = "tcp"]
    /\ phase' = [phase EXCEPT ![s] = "connected"]
    /\ num' = [num EXCEPT ![p] = fd]
    /\ cur' = [cur EXCEPT ![p] = s]
    /\ Goto(p, "acceptReg")
    /\ UNCHANGED <<sockets, private, tls, session, readMu, writeMu, sent, res>>

AcceptRegister(p) ==
    /\ pc[p] = "acceptReg"
    /\ sockets' = [sockets EXCEPT ![num[p]] = cur[p]]
    /\ Return(p, "ok")
    /\ UNCHANGED <<kernel, phase, proto, private, tls, session, readMu,
                   writeMu>>

\* accept(2) fails: a connection that went away, or a listener closed under it.
SysAcceptFails(p) ==
    /\ pc[p] = "accept"
    /\ Goto(p, "acceptErr")
    /\ UNCHANGED <<kernel, phase, sockets, proto, private, tls, session,
                   readMu, writeMu, num, cur, sent, res>>

\* Mutant of AcceptError: every failure is taken for a close.
AcceptErrorIsClose(p) ==
    /\ pc[p] = "acceptErr"
    /\ Return(p, "closed")
    /\ UNCHANGED <<kernel, phase, sockets, proto, private, tls, session,
                   readMu, writeMu>>

\* "If the listener is gone from the table, the close is what ended the
\* accept": the number is looked up again, whatever it names now.
AcceptError(p) ==
    /\ pc[p] = "acceptErr"
    /\ Return(p, IF sockets[num[p]] = None THEN "closed" ELSE "errno")
    /\ UNCHANGED <<kernel, phase, sockets, proto, private, tls, session,
                   readMu, writeMu>>

-----------------------------------------------------------------------------
(* Send.  waitWrite changes no state; its timeout is one of the errors.    *)

SendGet(p, fd) ==
    /\ Ready(p, fd, "connected")
    /\ Enter(p, fd, IF proto[sockets[fd]] = "tls" THEN "lockWrite" ELSE "send")
    /\ UNCHANGED <<kernel, phase, sockets, proto, private, tls, session,
                   readMu, writeMu, sent>>

\* A round of the plain loop that leaves some of the buffer: n bytes go to
\* whatever the number names.
SysSend(p, n) ==
    /\ pc[p] = "send"
    /\ kernel[num[p]] # None
    /\ sent[p] + n < BufLen
    /\ sent' = [sent EXCEPT ![p] = @ + n]
    /\ UNCHANGED <<kernel, phase, sockets, proto, private, tls, session,
                   readMu, writeMu, pc, num, cur, res>>

\* The round that writes the rest.
SysSendRest(p) ==
    /\ pc[p] = "send"
    /\ kernel[num[p]] # None
    /\ Return(p, "ok")
    /\ UNCHANGED <<kernel, phase, sockets, proto, private, tls, session,
                   readMu, writeMu>>

\* A timeout of waitWrite, an error of write(2) or a count of 0.
SendFails(p) ==
    /\ pc[p] \in {"send", "lockWrite"}
    /\ Return(p, "errno")
    /\ UNCHANGED <<kernel, phase, sockets, proto, private, tls, session,
                   readMu, writeMu>>

\* Mutant of SendLock: one lock for both directions.
SendLockBoth(p) ==
    /\ pc[p] = "lockWrite"
    /\ writeMu[cur[p]] = None
    /\ readMu[cur[p]] = None
    /\ writeMu' = [writeMu EXCEPT ![cur[p]] = p]
    /\ Goto(p, "tlsSend")
    /\ UNCHANGED <<kernel, phase, sockets, proto, private, tls, session,
                   readMu, num, cur, sent, res>>

SendLock(p) ==
    /\ pc[p] = "lockWrite"
    /\ writeMu[cur[p]] = None
    /\ writeMu' = [writeMu EXCEPT ![cur[p]] = p]
    /\ Goto(p, "tlsSend")
    /\ UNCHANGED <<kernel, phase, sockets, proto, private, tls, session,
                   readMu, num, cur, sent, res>>

\* The handle s.tls names a session of the backend's table.
HasSession(s) == tls[s] /\ session[s] = "live"

\* sysTLSSend finds its session.
SysTLSSend(p) ==
    /\ pc[p] = "tlsSend"
    /\ HasSession(cur[p])
    /\ Goto(p, "tlsWriting")
    /\ UNCHANGED <<kernel, phase, sockets, proto, private, tls, session, readMu,
                   writeMu, num, cur, sent, res>>

\* A handle that names none is no error: the call returns (0, nil).
SendNoSession(p) ==
    /\ pc[p] = "tlsSend"
    /\ ~HasSession(cur[p])
    /\ writeMu' = [writeMu EXCEPT ![cur[p]] = None]
    /\ Return(p, "short")
    /\ UNCHANGED <<kernel, phase, sockets, proto, private, tls, session,
                   readMu>>

\* The session's Write returns: all of the buffer, or an error (tlsOpTimeout
\* bounds the call).
TLSWritten(p) ==
    /\ pc[p] = "tlsWriting"
    /\ writeMu' = [writeMu EXCEPT ![cur[p]] = None]
    /\ \E o \in {"ok", "errno"} : Return(p, o)
    /\ UNCHANGED <<kernel, phase, sockets, proto, private, tls, session,
                   readMu>>

-----------------------------------------------------------------------------
(* Recv.                                                                   *)

RecvGet(p, fd) ==
    /\ Ready(p, fd, "connected")
    /\ Enter(p, fd, IF proto[sockets[fd]] = "tls" THEN "lockRead" ELSE "recv")
    /\ UNCHANGED <<kernel, phase, sockets, proto, private, tls, session,
                   readMu, writeMu, sent>>

\* read(2) on whatever the number names.
SysRecv(p) ==
    /\ pc[p] = "recv"
    /\ kernel[num[p]] # None
    /\ Return(p, "ok")
    /\ UNCHANGED <<kernel, phase, sockets, proto, private, tls, session,
                   readMu, writeMu>>

\* A count of 0 is the end of a stream; a datagram may be empty.
RecvEOF(p) ==
    /\ pc[p] = "recv"
    /\ kernel[num[p]] # None
    /\ proto[cur[p]] # "udp"
    /\ Return(p, "eof")
    /\ UNCHANGED <<kernel, phase, sockets, proto, private, tls, session,
                   readMu, writeMu>>

RecvFails(p) ==
    /\ pc[p] \in {"recv", "lockRead"}
    /\ Return(p, "errno")
    /\ UNCHANGED <<kernel, phase, sockets, proto, private, tls, session,
                   readMu, writeMu>>

RecvLock(p) ==
    /\ pc[p] = "lockRead"
    /\ readMu[cur[p]] = None
    /\ readMu' = [readMu EXCEPT ![cur[p]] = p]
    /\ Goto(p, "tlsRecv")
    /\ UNCHANGED <<kernel, phase, sockets, proto, private, tls, session,
                   writeMu, num, cur, sent, res>>

SysTLSRecv(p) ==
    /\ pc[p] = "tlsRecv"
    /\ HasSession(cur[p])
    /\ Goto(p, "tlsReading")
    /\ UNCHANGED <<kernel, phase, sockets, proto, private, tls, session, readMu,
                   writeMu, num, cur, sent, res>>

\* A handle that names no session reads 0 bytes, which Recv turns into EOF.
RecvNoSession(p) ==
    /\ pc[p] = "tlsRecv"
    /\ ~HasSession(cur[p])
    /\ readMu' = [readMu EXCEPT ![cur[p]] = None]
    /\ Return(p, "eof")
    /\ UNCHANGED <<kernel, phase, sockets, proto, private, tls, session,
                   writeMu>>

\* Mutant of TLSRead: the path of an error forgets to unlock.
TLSReadKeepsLock(p) ==
    /\ pc[p] = "tlsReading"
    /\ \/ readMu' = [readMu EXCEPT ![cur[p]] = None] /\ Return(p, "ok")
       \/ UNCHANGED readMu /\ Return(p, "errno")
    /\ UNCHANGED <<kernel, phase, sockets, proto, private, tls, session,
                   writeMu>>

TLSRead(p) ==
    /\ pc[p] = "tlsReading"
    /\ readMu' = [readMu EXCEPT ![cur[p]] = None]
    /\ \E o \in {"ok", "errno", "eof"} : Return(p, o)
    /\ UNCHANGED <<kernel, phase, sockets, proto, private, tls, session,
                   writeMu>>

-----------------------------------------------------------------------------
(* Close: take the entry out of the table, wait for both I/O locks, free   *)
(* the session, and only then give the number back to the kernel.          *)

\* Mutant of CloseDelete: the entry stays in the table.
CloseKeepsEntry(p, fd) ==
    /\ Found(p, fd)
    /\ Enter(p, fd, "closeRead")
    /\ UNCHANGED <<kernel, phase, sockets, proto, private, tls, session, readMu,
                   writeMu, sent>>

CloseDelete(p, fd) ==
    /\ Found(p, fd)
    /\ Enter(p, fd, "closeRead")
    /\ sockets' = [sockets EXCEPT ![fd] = None]
    /\ UNCHANGED <<kernel, phase, proto, private, tls, session, readMu,
                   writeMu, sent>>

CloseLockRead(p) ==
    /\ pc[p] = "closeRead"
    /\ readMu[cur[p]] = None
    /\ readMu' = [readMu EXCEPT ![cur[p]] = p]
    /\ Goto(p, "closeWrite")
    /\ UNCHANGED <<kernel, phase, sockets, proto, private, tls, session,
                   writeMu, num, cur, sent, res>>

\* Mutant of CloseLockWrite: Close does not wait for a Send.
CloseIgnoresWrite(p) ==
    /\ pc[p] = "closeWrite"
    /\ Goto(p, "closeTLS")
    /\ UNCHANGED <<kernel, phase, sockets, proto, private, tls, session,
                   readMu, writeMu, num, cur, sent, res>>

CloseLockWrite(p) ==
    /\ pc[p] = "closeWrite"
    /\ writeMu[cur[p]] = None
    /\ writeMu' = [writeMu EXCEPT ![cur[p]] = p]
    /\ Goto(p, "closeTLS")
    /\ UNCHANGED <<kernel, phase, sockets, proto, private, tls, session,
                   readMu, num, cur, sent, res>>

\* Mutant of CloseSession: s.tls is cleared, the session is not released.
CloseForgetsSession(p) ==
    /\ pc[p] = "closeTLS"
    /\ tls' = [tls EXCEPT ![cur[p]] = FALSE]
    /\ readMu' = [readMu EXCEPT ![cur[p]] = None]
    /\ writeMu' = [writeMu EXCEPT ![cur[p]] = None]
    /\ Goto(p, "closeFd")
    /\ UNCHANGED <<kernel, phase, sockets, proto, private, session, num, cur, sent,
                   res>>

\* The section under both I/O locks and s.mu, sysTLSClose included.
CloseSession(p) ==
    /\ pc[p] = "closeTLS"
    /\ session' = [session EXCEPT ![cur[p]] = IF tls[cur[p]] THEN "freed" ELSE @]
    /\ tls' = [tls EXCEPT ![cur[p]] = FALSE]
    /\ readMu' = [readMu EXCEPT ![cur[p]] = None]
    /\ writeMu' = [writeMu EXCEPT ![cur[p]] = None]
    /\ Goto(p, "closeFd")
    /\ UNCHANGED <<kernel, phase, sockets, proto, private, num, cur, sent, res>>

\* sysClose: whatever the number names is closed and the number is free.
SysClose(p) ==
    /\ pc[p] = "closeFd"
    /\ Return(p, IF kernel[num[p]] = None THEN "errno" ELSE "ok")
    /\ kernel' = [kernel EXCEPT ![num[p]] = None]
    /\ UNCHANGED <<phase, sockets, proto, private, tls, session, readMu,
                   writeMu>>

-----------------------------------------------------------------------------
Calls(p) ==
    \/ \E fd \in Fds :
          \/ CallInvalid(p, fd)
          \/ ListenGet(p, fd)
          \/ ConnectGet(p, fd)
          \/ AcceptGet(p, fd)
          \/ AcceptUnsupported(p, fd)
          \/ SendGet(p, fd)
          \/ RecvGet(p, fd)
          \/ CloseDelete(p, fd)
    \/ \E s \in Socks, fd \in Fds, pr \in Protocols : SysSocket(p, s, fd, pr)

\* The steps of p that nothing outside the process can hold up for ever.
Bounded(p) ==
    \/ SocketRegister(p)
    \/ SysListen(p)
    \/ SysConnect(p)
    \/ Connected(p)
    \/ SysTLSConnect(p)
    \/ SetupFails(p)
    \/ ConnectStore(p)
    \/ AcceptRegister(p)
    \/ AcceptError(p)
    \/ SendLock(p)
    \/ SysTLSSend(p)
    \/ SendNoSession(p)
    \/ TLSWritten(p)
    \/ RecvLock(p)
    \/ SysTLSRecv(p)
    \/ RecvNoSession(p)
    \/ TLSRead(p)
    \/ CloseLockRead(p)
    \/ CloseLockWrite(p)
    \/ CloseSession(p)
    \/ SysClose(p)

\* The steps a silent peer can keep waiting.
Blocking(p) ==
    \/ \E s \in Socks, fd \in Fds : SysAccept(p, s, fd)
    \/ SysAcceptFails(p)
    \/ \E n \in 1 .. BufLen : SysSend(p, n)
    \/ SysSendRest(p)
    \/ SendFails(p)
    \/ SysRecv(p)
    \/ RecvEOF(p)
    \/ RecvFails(p)

Next == \E p \in Procs : Calls(p) \/ Bounded(p) \/ Blocking(p)

Spec == Init /\ [][Next]_vars

\* A goroutine that can take a step of its own takes one.  Blocking steps get
\* no fairness, and neither has a TLS read: a peer may stay silent.
FairSpec ==
    Spec /\ \A p \in Procs : WF_vars(Bounded(p) /\ pc[p] # "tlsReading")

-----------------------------------------------------------------------------
(* Properties.                                                             *)

\* The labels of a Send on a TLS socket.
Sending == {"lockWrite", "tlsSend", "tlsWriting"}

\* The labels of a Close that took its entry out of the table.
Closing == {"closeRead", "closeWrite", "closeTLS", "closeFd"}

\* What d.sockets says of a number is true of the kernel: the number still
\* names the kernel socket that the entry was made for.  Every operation
\* starts from this lookup (Device.get), and numbers are reused.
TableNamesOwnSocket ==
    \A fd \in Fds : sockets[fd] # None => kernel[fd] = sockets[fd]

\* Device.Close gives back the number of the socket it closes, never one the
\* kernel has handed to another socket meanwhile, however many goroutines
\* close the same socket.
CloseClosesOwnSocket ==
    \A p \in Procs : pc[p] \in Closing => kernel[num[p]] = cur[p]

\* "The TLS session is never freed under an operation still using it": while
\* a goroutine is inside the TLS stack its session is live and the number
\* underneath the session still names its own kernel socket.
TLSOperationSafe ==
    \A p \in Procs : pc[p] \in {"tlsWriting", "tlsReading"} =>
        session[cur[p]] = "live" /\ kernel[num[p]] = cur[p]

\* A TLS session does not outlive its socket: when Close has returned the
\* number to the kernel, the session made by Connect has been released.
NoSessionLeak ==
    \A s \in Socks : session[s] = "live" => \E fd \in Fds : kernel[fd] = s

\* "`Device.Send` returns `len(buf)` or an error, never a short count with a
\* nil error".
SendWritesWholeBuffer == \A p \in Procs : res[p] # "short"

\* Close returns, although it waits for the I/O locks of operations that may
\* be blocked in the TLS stack, provided that those return: tlsOpTimeout ends
\* every TLS read, and no new one finds the socket once the entry is gone.
CloseCompletes ==
    (\A p \in Procs : []<>(pc[p] # "tlsReading"))
        => \A p \in Procs : pc[p] \in Closing ~> pc[p] = "idle"

\* "A Recv blocked inside the TLS stack must not stall a concurrent Send":
\* once no other Send competes for the lock, Send gets it and returns even if
\* the reader never does, and even if a Close waits for that reader.
SendNotStalledByRecv ==
    \A p \in Procs :
        <>[](\A q \in Procs \ {p} : pc[q] \notin Sending)
            => (pc[p] \in Sending ~> pc[p] = "idle")

\* "If the listener is gone from the table, the close is what ended the
\* accept": an Accept that reports ErrClosed, on which servers stop, had its
\* listener closed, and not merely another socket of the same number.
ClosedMeansClosed ==
    [][\A p \in Procs :
          pc[p] = "acceptErr" /\ pc'[p] = "idle" /\ res'[p] = "closed" =>
              \A fd \in Fds : sockets[fd] # cur[p]]_vars

\* The number an operation looked up names the operation's own socket for as
\* long as that socket is open, whatever is closed and opened around it.  Send,
\* Recv, Accept, Connect and Listen use s.fd under no lock, and after a Close
\* of their own socket nothing holds the number for them.
NumberIsOwnUntilClosed ==
    \A p \in Procs : pc[p] # "idle" =>
        kernel[num[p]] = cur[p] \/ \A fd \in Fds : kernel[fd] # cur[p]

=============================================================================
