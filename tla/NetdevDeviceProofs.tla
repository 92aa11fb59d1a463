------------------------- MODULE NetdevDeviceProofs -------------------------
(***************************************************************************)
(* Proofs about NetdevDevice, for any number of goroutines, descriptor     *)
(* numbers and sockets.                                                    *)
(***************************************************************************)
EXTENDS NetdevDevice, TLAPS

-----------------------------------------------------------------------------
(* Types.                                                                  *)

\* A running operation has a number and a *socket.
BusyHasSocket ==
    \A p \in Procs : pc[p] # "idle" => num[p] \in Fds /\ cur[p] \in Socks

\* The type invariant with what its induction needs.
TypeInv == TypeOK /\ BusyHasSocket

\* The Device starts with an empty table and nobody inside an operation.
LEMMA InitTypeInv == Init => TypeInv
BY BufLenAssumption DEF Init, TypeInv, TypeOK, BusyHasSocket, Labels, Outcomes

\* Every step of every operation keeps the types.
LEMMA NextTypeInv == TypeInv /\ [Next]_vars => TypeInv'
<1> SUFFICES ASSUME TypeInv, [Next]_vars
             PROVE  TypeInv'
  OBVIOUS
<1> USE NoneAssumption, BufLenAssumption DEF TypeInv, TypeOK, BusyHasSocket
<1>1. CASE UNCHANGED vars
  BY <1>1 DEF vars
<1>2. ASSUME NEW p \in Procs, Calls(p)
      PROVE  TypeInv'
  <2>1. ASSUME NEW fd \in Fds, CallInvalid(p, fd)
        PROVE  TypeInv'
    BY <2>1 DEF CallInvalid, Return, Labels, Outcomes
  <2>2. ASSUME NEW fd \in Fds, ListenGet(p, fd)
        PROVE  TypeInv'
    BY <2>2 DEF ListenGet, SetUp, Enter, Found, Labels, Outcomes
  <2>3. ASSUME NEW fd \in Fds, ConnectGet(p, fd)
        PROVE  TypeInv'
    BY <2>3 DEF ConnectGet, SetUp, Enter, Found, Labels, Outcomes
  <2>4. ASSUME NEW fd \in Fds, AcceptGet(p, fd)
        PROVE  TypeInv'
    BY <2>4 DEF AcceptGet, Ready, Enter, Found, Labels, Outcomes
  <2>5. ASSUME NEW fd \in Fds, AcceptUnsupported(p, fd)
        PROVE  TypeInv'
    BY <2>5 DEF AcceptUnsupported, Found, Return, Labels, Outcomes
  <2>6. ASSUME NEW fd \in Fds, SendGet(p, fd)
        PROVE  TypeInv'
    BY <2>6 DEF SendGet, Ready, Enter, Found, Labels, Outcomes
  <2>7. ASSUME NEW fd \in Fds, RecvGet(p, fd)
        PROVE  TypeInv'
    BY <2>7 DEF RecvGet, Ready, Enter, Found, Labels, Outcomes
  <2>8. ASSUME NEW fd \in Fds, CloseDelete(p, fd)
        PROVE  TypeInv'
    BY <2>8 DEF CloseDelete, Found, Enter, Labels, Outcomes
  <2>9. ASSUME NEW s \in Socks, NEW fd \in Fds, NEW pr \in Protocols,
               SysSocket(p, s, fd, pr)
        PROVE  TypeInv'
    BY <2>9 DEF SysSocket, Labels, Outcomes
  <2> QED BY <1>2, <2>1, <2>2, <2>3, <2>4, <2>5, <2>6, <2>7, <2>8, <2>9 DEF
    Calls
<1>3. ASSUME NEW p \in Procs, Bounded(p)
      PROVE  TypeInv'
  <2>1. CASE SocketRegister(p)
    BY <2>1 DEF SocketRegister, Return, Labels, Outcomes
  <2>2. CASE SysListen(p)
    BY <2>2 DEF SysListen, Return, Labels, Outcomes
  <2>3. CASE SysConnect(p)
    BY <2>3 DEF SysConnect, Goto, Labels, Outcomes
  <2>4. CASE Connected(p)
    BY <2>4 DEF Connected, Return, Labels, Outcomes
  <2>5. CASE SysTLSConnect(p)
    BY <2>5 DEF SysTLSConnect, Goto, Labels, Outcomes
  <2>6. CASE SetupFails(p)
    BY <2>6 DEF SetupFails, Return, Labels, Outcomes
  <2>7. CASE ConnectStore(p)
    BY <2>7 DEF ConnectStore, Return, Labels, Outcomes
  <2>8. CASE AcceptRegister(p)
    BY <2>8 DEF AcceptRegister, Return, Labels, Outcomes
  <2>9. CASE AcceptError(p)
    BY <2>9 DEF AcceptError, Return, Labels, Outcomes
  <2>10. CASE SendLock(p)
    BY <2>10 DEF SendLock, Goto, Labels, Outcomes
  <2>11. CASE SysTLSSend(p)
    BY <2>11 DEF SysTLSSend, Goto, HasSession, Labels, Outcomes
  <2>12. CASE SendNoSession(p)
    BY <2>12 DEF SendNoSession, Return, HasSession, Labels, Outcomes
  <2>13. CASE TLSWritten(p)
    BY <2>13 DEF TLSWritten, Return, Labels, Outcomes
  <2>14. CASE RecvLock(p)
    BY <2>14 DEF RecvLock, Goto, Labels, Outcomes
  <2>15. CASE SysTLSRecv(p)
    BY <2>15 DEF SysTLSRecv, Goto, HasSession, Labels, Outcomes
  <2>16. CASE RecvNoSession(p)
    BY <2>16 DEF RecvNoSession, Return, HasSession, Labels, Outcomes
  <2>17. CASE TLSRead(p)
    BY <2>17 DEF TLSRead, Return, Labels, Outcomes
  <2>18. CASE CloseLockRead(p)
    BY <2>18 DEF CloseLockRead, Goto, Labels, Outcomes
  <2>19. CASE CloseLockWrite(p)
    BY <2>19 DEF CloseLockWrite, Goto, Labels, Outcomes
  <2>20. CASE CloseSession(p)
    BY <2>20 DEF CloseSession, Goto, Labels, Outcomes
  <2>21. CASE SysClose(p)
    BY <2>21 DEF SysClose, Return, Labels, Outcomes
  <2> QED BY <1>3, <2>1, <2>2, <2>3, <2>4, <2>5, <2>6, <2>7, <2>8, <2>9,
    <2>10, <2>11, <2>12, <2>13, <2>14, <2>15, <2>16, <2>17, <2>18, <2>19,
    <2>20, <2>21 DEF Bounded
<1>4. ASSUME NEW p \in Procs, Blocking(p)
      PROVE  TypeInv'
  <2>1. ASSUME NEW s \in Socks, NEW fd \in Fds, SysAccept(p, s, fd)
        PROVE  TypeInv'
    BY <2>1 DEF SysAccept, Goto, Labels, Outcomes, Protocols
  <2>2. ASSUME NEW n \in 1 .. BufLen, SysSend(p, n)
        PROVE  TypeInv'
    BY <2>2 DEF SysSend, Labels, Outcomes
  <2>3. CASE SysSendRest(p)
    BY <2>3 DEF SysSendRest, Return, Labels, Outcomes
  <2>4. CASE SysAcceptFails(p)
    BY <2>4 DEF SysAcceptFails, Goto, Labels, Outcomes
  <2>5. CASE SendFails(p)
    BY <2>5 DEF SendFails, Return, Labels, Outcomes
  <2>6. CASE SysRecv(p)
    BY <2>6 DEF SysRecv, Return, Labels, Outcomes
  <2>7. CASE RecvEOF(p)
    BY <2>7 DEF RecvEOF, Return, Labels, Outcomes
  <2>8. CASE RecvFails(p)
    BY <2>8 DEF RecvFails, Return, Labels, Outcomes
  <2> QED BY <1>4, <2>1, <2>2, <2>3, <2>4, <2>5, <2>6, <2>7, <2>8 DEF Blocking
<1> QED BY <1>1, <1>2, <1>3, <1>4 DEF Next

\* Type correctness of the Device, the kernel's table and the operations.
THEOREM TypeCorrect == Spec => []TypeOK
<1>1. Spec => []TypeInv
  BY InitTypeInv, NextTypeInv, PTL DEF Spec
<1>2. TypeInv => TypeOK
  BY DEF TypeInv
<1> QED BY <1>1, <1>2, PTL

-----------------------------------------------------------------------------
(* Descriptor numbers.  Close deletes the entry before it returns the      *)
(* number, Socket and Accept enter it after they got it: in between, the   *)
(* operation alone answers for a number that the kernel has in use and the *)
(* table does not show.                                                    *)

Holders == Closing \cup {"register", "acceptReg"}

\* The number of such an operation names its socket and is not in the table.
HolderOwnsNumber ==
    \A p \in Procs : pc[p] \in Holders =>
        kernel[num[p]] = cur[p] /\ sockets[num[p]] = None

\* No two of them answer for the same number.
HoldersApart ==
    \A p, q \in Procs : pc[p] \in Holders /\ pc[q] \in Holders /\ p # q =>
        num[p] # num[q]

\* The inductive invariant of the table.
NumberInv == TableNamesOwnSocket /\ HolderOwnsNumber /\ HoldersApart

\* Nothing is open at the start.
LEMMA InitNumberInv == Init => NumberInv
BY DEF Init, NumberInv, TableNamesOwnSocket, HolderOwnsNumber, HoldersApart,
       Holders, Closing

\* No step breaks the agreement of table, kernel and operations.
LEMMA NextNumberInv == TypeInv /\ NumberInv /\ [Next]_vars => NumberInv'
<1> SUFFICES ASSUME TypeInv, NumberInv, [Next]_vars
             PROVE  NumberInv'
  OBVIOUS
<1> USE NoneAssumption
    DEF TypeInv, TypeOK, BusyHasSocket, NumberInv, TableNamesOwnSocket,
        HolderOwnsNumber, HoldersApart, Holders, Closing
<1>1. CASE UNCHANGED vars
  BY <1>1 DEF vars
<1>2. ASSUME NEW p \in Procs, Calls(p)
      PROVE  NumberInv'
  <2>1. ASSUME NEW fd \in Fds, CallInvalid(p, fd)
        PROVE  NumberInv'
    BY <2>1 DEF CallInvalid, Return
  <2>2. ASSUME NEW fd \in Fds, ListenGet(p, fd)
        PROVE  NumberInv'
    BY <2>2 DEF ListenGet, SetUp, Enter, Found
  <2>3. ASSUME NEW fd \in Fds, ConnectGet(p, fd)
        PROVE  NumberInv'
    BY <2>3 DEF ConnectGet, SetUp, Enter, Found
  <2>4. ASSUME NEW fd \in Fds, AcceptGet(p, fd)
        PROVE  NumberInv'
    BY <2>4 DEF AcceptGet, Ready, Enter, Found
  <2>5. ASSUME NEW fd \in Fds, AcceptUnsupported(p, fd)
        PROVE  NumberInv'
    BY <2>5 DEF AcceptUnsupported, Found, Return
  <2>6. ASSUME NEW fd \in Fds, SendGet(p, fd)
        PROVE  NumberInv'
    BY <2>6 DEF SendGet, Ready, Enter, Found
  <2>7. ASSUME NEW fd \in Fds, RecvGet(p, fd)
        PROVE  NumberInv'
    BY <2>7 DEF RecvGet, Ready, Enter, Found
  <2>8. ASSUME NEW fd \in Fds, CloseDelete(p, fd)
        PROVE  NumberInv'
    BY <2>8 DEF CloseDelete, Found, Enter
  <2>9. ASSUME NEW s \in Socks, NEW fd \in Fds, NEW pr \in Protocols,
               SysSocket(p, s, fd, pr)
        PROVE  NumberInv'
    BY <2>9 DEF SysSocket
  <2> QED BY <1>2, <2>1, <2>2, <2>3, <2>4, <2>5, <2>6, <2>7, <2>8, <2>9 DEF
    Calls
<1>3. ASSUME NEW p \in Procs, Bounded(p)
      PROVE  NumberInv'
  <2>1. CASE SocketRegister(p)
    BY <2>1 DEF SocketRegister, Return
  <2>2. CASE SysListen(p)
    BY <2>2 DEF SysListen, Return
  <2>3. CASE SysConnect(p)
    BY <2>3 DEF SysConnect, Goto
  <2>4. CASE Connected(p)
    BY <2>4 DEF Connected, Return
  <2>5. CASE SysTLSConnect(p)
    BY <2>5 DEF SysTLSConnect, Goto
  <2>6. CASE SetupFails(p)
    BY <2>6 DEF SetupFails, Return
  <2>7. CASE ConnectStore(p)
    BY <2>7 DEF ConnectStore, Return
  <2>8. CASE AcceptRegister(p)
    BY <2>8 DEF AcceptRegister, Return
  <2>9. CASE AcceptError(p)
    BY <2>9 DEF AcceptError, Return
  <2>10. CASE SendLock(p)
    BY <2>10 DEF SendLock, Goto
  <2>11. CASE SysTLSSend(p)
    BY <2>11 DEF SysTLSSend, Goto, HasSession
  <2>12. CASE SendNoSession(p)
    BY <2>12 DEF SendNoSession, Return, HasSession
  <2>13. CASE TLSWritten(p)
    BY <2>13 DEF TLSWritten, Return
  <2>14. CASE RecvLock(p)
    BY <2>14 DEF RecvLock, Goto
  <2>15. CASE SysTLSRecv(p)
    BY <2>15 DEF SysTLSRecv, Goto, HasSession
  <2>16. CASE RecvNoSession(p)
    BY <2>16 DEF RecvNoSession, Return, HasSession
  <2>17. CASE TLSRead(p)
    BY <2>17 DEF TLSRead, Return
  <2>18. CASE CloseLockRead(p)
    BY <2>18 DEF CloseLockRead, Goto
  <2>19. CASE CloseLockWrite(p)
    BY <2>19 DEF CloseLockWrite, Goto
  <2>20. CASE CloseSession(p)
    BY <2>20 DEF CloseSession, Goto
  <2>21. CASE SysClose(p)
    BY <2>21 DEF SysClose, Return
  <2> QED BY <1>3, <2>1, <2>2, <2>3, <2>4, <2>5, <2>6, <2>7, <2>8, <2>9,
    <2>10, <2>11, <2>12, <2>13, <2>14, <2>15, <2>16, <2>17, <2>18, <2>19,
    <2>20, <2>21 DEF Bounded
<1>4. ASSUME NEW p \in Procs, Blocking(p)
      PROVE  NumberInv'
  <2>1. ASSUME NEW s \in Socks, NEW fd \in Fds, SysAccept(p, s, fd)
        PROVE  NumberInv'
    BY <2>1 DEF SysAccept, Goto
  <2>2. ASSUME NEW n \in 1 .. BufLen, SysSend(p, n)
        PROVE  NumberInv'
    BY <2>2 DEF SysSend
  <2>3. CASE SysSendRest(p)
    BY <2>3 DEF SysSendRest, Return
  <2>4. CASE SysAcceptFails(p)
    BY <2>4 DEF SysAcceptFails, Goto
  <2>5. CASE SendFails(p)
    BY <2>5 DEF SendFails, Return
  <2>6. CASE SysRecv(p)
    BY <2>6 DEF SysRecv, Return
  <2>7. CASE RecvEOF(p)
    BY <2>7 DEF RecvEOF, Return
  <2>8. CASE RecvFails(p)
    BY <2>8 DEF RecvFails, Return
  <2> QED BY <1>4, <2>1, <2>2, <2>3, <2>4, <2>5, <2>6, <2>7, <2>8 DEF Blocking
<1> QED BY <1>1, <1>2, <1>3, <1>4 DEF Next

\* The invariant holds throughout.
LEMMA NumbersAgree == Spec => [](TypeInv /\ NumberInv)
BY InitTypeInv, NextTypeInv, InitNumberInv, NextNumberInv, PTL DEF Spec

\* A lookup in d.sockets never leads to a number that the kernel has given to
\* somebody else, for any number of goroutines and however they interleave.
THEOREM TableIsTrue == Spec => []TableNamesOwnSocket
<1>1. NumberInv => TableNamesOwnSocket
  BY DEF NumberInv
<1> QED BY <1>1, NumbersAgree, PTL

\* Close returns to the kernel the number of its own socket and no other.
THEOREM CloseIsOwn == Spec => []CloseClosesOwnSocket
<1>1. NumberInv => CloseClosesOwnSocket
  BY DEF NumberInv, HolderOwnsNumber, CloseClosesOwnSocket, Holders
<1> QED BY <1>1, NumbersAgree, PTL

-----------------------------------------------------------------------------
(* Identities.  A socket is open under at most one number, and a running   *)
(* operation either uses that number or has a socket that is closed.       *)

OpenOnce ==
    \A f, g \in Fds : kernel[f] # None /\ kernel[f] = kernel[g] => f = g

\* A socket that is open or in use has been created.
UsedExists ==
    /\ \A fd \in Fds : kernel[fd] # None => proto[kernel[fd]] # None
    /\ \A p \in Procs : pc[p] # "idle" => proto[cur[p]] # None

NumberOfSocket ==
    \A p \in Procs, fd \in Fds : pc[p] # "idle" /\ kernel[fd] = cur[p] => fd = num[p]

IdentityInv == OpenOnce /\ UsedExists /\ NumberOfSocket

\* Nothing is open or in use at the start.
LEMMA InitIdentityInv == Init => IdentityInv
BY DEF Init, IdentityInv, OpenOnce, UsedExists, NumberOfSocket

\* The kernel opens a new socket under a free number only.
LEMMA NextIdentityInv ==
    TypeInv /\ NumberInv /\ IdentityInv /\ [Next]_vars => IdentityInv'
<1> SUFFICES ASSUME TypeInv, NumberInv, IdentityInv, [Next]_vars
             PROVE  IdentityInv'
  OBVIOUS
<1> USE NoneAssumption
    DEF TypeInv, TypeOK, BusyHasSocket, NumberInv, TableNamesOwnSocket,
        IdentityInv, OpenOnce, UsedExists, NumberOfSocket
<1>1. CASE UNCHANGED vars
  BY <1>1 DEF vars
<1>2. ASSUME NEW p \in Procs, Calls(p)
      PROVE  IdentityInv'
  <2>1. ASSUME NEW fd \in Fds, CallInvalid(p, fd)
        PROVE  IdentityInv'
    BY <2>1 DEF CallInvalid, Return
  <2>2. ASSUME NEW fd \in Fds, ListenGet(p, fd)
        PROVE  IdentityInv'
    BY <2>2 DEF ListenGet, SetUp, Enter, Found
  <2>3. ASSUME NEW fd \in Fds, ConnectGet(p, fd)
        PROVE  IdentityInv'
    BY <2>3 DEF ConnectGet, SetUp, Enter, Found
  <2>4. ASSUME NEW fd \in Fds, AcceptGet(p, fd)
        PROVE  IdentityInv'
    BY <2>4 DEF AcceptGet, Ready, Enter, Found
  <2>5. ASSUME NEW fd \in Fds, AcceptUnsupported(p, fd)
        PROVE  IdentityInv'
    BY <2>5 DEF AcceptUnsupported, Found, Return
  <2>6. ASSUME NEW fd \in Fds, SendGet(p, fd)
        PROVE  IdentityInv'
    BY <2>6 DEF SendGet, Ready, Enter, Found
  <2>7. ASSUME NEW fd \in Fds, RecvGet(p, fd)
        PROVE  IdentityInv'
    BY <2>7 DEF RecvGet, Ready, Enter, Found
  <2>8. ASSUME NEW fd \in Fds, CloseDelete(p, fd)
        PROVE  IdentityInv'
    BY <2>8 DEF CloseDelete, Found, Enter
  <2>9. ASSUME NEW s \in Socks, NEW fd \in Fds, NEW pr \in Protocols,
               SysSocket(p, s, fd, pr)
        PROVE  IdentityInv'
    BY <2>9 DEF SysSocket
  <2> QED BY <1>2, <2>1, <2>2, <2>3, <2>4, <2>5, <2>6, <2>7, <2>8, <2>9 DEF
    Calls
<1>3. ASSUME NEW p \in Procs, Bounded(p)
      PROVE  IdentityInv'
  <2>1. CASE SocketRegister(p)
    BY <2>1 DEF SocketRegister, Return
  <2>2. CASE SysListen(p)
    BY <2>2 DEF SysListen, Return
  <2>3. CASE SysConnect(p)
    BY <2>3 DEF SysConnect, Goto
  <2>4. CASE Connected(p)
    BY <2>4 DEF Connected, Return
  <2>5. CASE SysTLSConnect(p)
    BY <2>5 DEF SysTLSConnect, Goto
  <2>6. CASE SetupFails(p)
    BY <2>6 DEF SetupFails, Return
  <2>7. CASE ConnectStore(p)
    BY <2>7 DEF ConnectStore, Return
  <2>8. CASE AcceptRegister(p)
    BY <2>8 DEF AcceptRegister, Return
  <2>9. CASE AcceptError(p)
    BY <2>9 DEF AcceptError, Return
  <2>10. CASE SendLock(p)
    BY <2>10 DEF SendLock, Goto
  <2>11. CASE SysTLSSend(p)
    BY <2>11 DEF SysTLSSend, Goto, HasSession
  <2>12. CASE SendNoSession(p)
    BY <2>12 DEF SendNoSession, Return, HasSession
  <2>13. CASE TLSWritten(p)
    BY <2>13 DEF TLSWritten, Return
  <2>14. CASE RecvLock(p)
    BY <2>14 DEF RecvLock, Goto
  <2>15. CASE SysTLSRecv(p)
    BY <2>15 DEF SysTLSRecv, Goto, HasSession
  <2>16. CASE RecvNoSession(p)
    BY <2>16 DEF RecvNoSession, Return, HasSession
  <2>17. CASE TLSRead(p)
    BY <2>17 DEF TLSRead, Return
  <2>18. CASE CloseLockRead(p)
    BY <2>18 DEF CloseLockRead, Goto
  <2>19. CASE CloseLockWrite(p)
    BY <2>19 DEF CloseLockWrite, Goto
  <2>20. CASE CloseSession(p)
    BY <2>20 DEF CloseSession, Goto
  <2>21. CASE SysClose(p)
    BY <2>21 DEF SysClose, Return
  <2> QED BY <1>3, <2>1, <2>2, <2>3, <2>4, <2>5, <2>6, <2>7, <2>8, <2>9,
    <2>10, <2>11, <2>12, <2>13, <2>14, <2>15, <2>16, <2>17, <2>18, <2>19,
    <2>20, <2>21 DEF Bounded
<1>4. ASSUME NEW p \in Procs, Blocking(p)
      PROVE  IdentityInv'
  <2>1. ASSUME NEW s \in Socks, NEW fd \in Fds, SysAccept(p, s, fd)
        PROVE  IdentityInv'
    BY <2>1 DEF SysAccept, Goto, Protocols
  <2>2. ASSUME NEW n \in 1 .. BufLen, SysSend(p, n)
        PROVE  IdentityInv'
    BY <2>2 DEF SysSend
  <2>3. CASE SysSendRest(p)
    BY <2>3 DEF SysSendRest, Return
  <2>4. CASE SysAcceptFails(p)
    BY <2>4 DEF SysAcceptFails, Goto
  <2>5. CASE SendFails(p)
    BY <2>5 DEF SendFails, Return
  <2>6. CASE SysRecv(p)
    BY <2>6 DEF SysRecv, Return
  <2>7. CASE RecvEOF(p)
    BY <2>7 DEF RecvEOF, Return
  <2>8. CASE RecvFails(p)
    BY <2>8 DEF RecvFails, Return
  <2> QED BY <1>4, <2>1, <2>2, <2>3, <2>4, <2>5, <2>6, <2>7, <2>8 DEF Blocking
<1> QED BY <1>1, <1>2, <1>3, <1>4 DEF Next

\* The invariant holds throughout.
LEMMA IdentitiesAgree == Spec => [](TypeInv /\ NumberInv /\ IdentityInv)
BY InitTypeInv, NextTypeInv, InitNumberInv, NextNumberInv, InitIdentityInv,
   NextIdentityInv, PTL DEF Spec

\* The number an operation holds names its own socket or that socket is closed.
THEOREM NumbersStay == Spec => []NumberIsOwnUntilClosed
<1>1. TypeInv /\ IdentityInv => NumberIsOwnUntilClosed
  BY DEF TypeInv, BusyHasSocket, IdentityInv, NumberOfSocket, NumberIsOwnUntilClosed
<1> QED BY <1>1, IdentitiesAgree, PTL

\* What an Accept that failed does next is AcceptError, and nobody else does it.
LEMMA AcceptErrorAlone ==
    ASSUME TypeInv, Next, NEW p \in Procs, pc[p] = "acceptErr", pc'[p] = "idle"
    PROVE  AcceptError(p)
<1> USE DEF TypeInv, TypeOK
<1>1. PICK q \in Procs : Calls(q) \/ Bounded(q) \/ Blocking(q)
  BY DEF Next
<1>2. CASE Calls(q)
  BY <1>2
  DEF Calls, CallInvalid, ListenGet, ConnectGet, AcceptGet, AcceptUnsupported,
      SendGet, RecvGet, CloseDelete, SysSocket, Enter, Return
<1>3. CASE Bounded(q)
  BY <1>3
  DEF Bounded, SocketRegister, SysListen, SysConnect, Connected, SysTLSConnect,
      SetupFails, ConnectStore, AcceptRegister, AcceptError, SendLock, SysTLSSend,
      SendNoSession, TLSWritten, RecvLock, SysTLSRecv, RecvNoSession, TLSRead,
      CloseLockRead, CloseLockWrite, CloseSession, SysClose, Goto, Return
<1>4. CASE Blocking(q)
  BY <1>4
  DEF Blocking, SysAccept, SysAcceptFails, SysSend, SysSendRest, SendFails,
      SysRecv, RecvEOF, RecvFails, Goto, Return
<1> QED BY <1>1, <1>2, <1>3, <1>4

\* An Accept that answers ErrClosed has lost its listener: a lookup that finds
\* nothing under the number means that the listener is nowhere in the table.
THEOREM ErrClosedIsTrue == Spec => ClosedMeansClosed
<1> DEFINE Told(p) == pc[p] = "acceptErr" /\ pc'[p] = "idle" /\ res'[p] = "closed"
<1> DEFINE Gone(p) == \A fd \in Fds : sockets[fd] # cur[p]
<1>1. ASSUME TypeInv, NumberInv, IdentityInv, [Next]_vars, NEW p \in Procs, Told(p)
      PROVE  Gone(p)
  <2>1. AcceptError(p)
    BY <1>1, AcceptErrorAlone DEF vars
  <2>2. sockets[num[p]] = None
    BY <1>1, <2>1 DEF AcceptError, Return, TypeInv, TypeOK
  <2>3. ASSUME NEW fd \in Fds, sockets[fd] = cur[p]
        PROVE  fd = num[p] /\ cur[p] # None
    BY <1>1, <2>3, NoneAssumption
    DEF TypeInv, BusyHasSocket, NumberInv, TableNamesOwnSocket, IdentityInv,
        NumberOfSocket
  <2> QED BY <2>2, <2>3
<1>2. TypeInv /\ NumberInv /\ IdentityInv /\ [Next]_vars
          => [\A p \in Procs : Told(p) => Gone(p)]_vars
  BY <1>1
<1> QED BY <1>2, IdentitiesAgree, PTL DEF Spec, ClosedMeansClosed

-----------------------------------------------------------------------------
(* Setting up.  Unless a socket is shared early, the goroutine that made   *)
(* it is alone with it until Listen or Connect returned: Close cannot come *)
(* in between.                                                             *)

\* Connect and Listen work on a private socket that stays in the table.
SetupIsPrivate ==
    \A p \in Procs :
        pc[p] \in {"listen", "connect", "connected", "handshake", "store"} =>
            private[cur[p]] = p /\ sockets[num[p]] = cur[p]

\* A socket nobody has set up is known to its maker alone.
NewIsPrivate ==
    \A fd \in Fds : sockets[fd] # None /\ phase[sockets[fd]] = "new" =>
        private[sockets[fd]] # None

\* The kernel socket is set up before the handshake and before Accept's insert.
SetupComesFirst ==
    \A p \in Procs : pc[p] \in {"connected", "handshake", "store", "acceptReg"} =>
        phase[cur[p]] # "new"

SetupInv == SetupIsPrivate /\ NewIsPrivate /\ SetupComesFirst

\* The table is empty at the start.
LEMMA InitSetupInv == Init => SetupInv
BY DEF Init, SetupInv, SetupIsPrivate, NewIsPrivate, SetupComesFirst

\* Without early sharing nobody else reaches a socket that is being set up.
LEMMA NextSetupInv ==
    ASSUME ~EarlyShare
    PROVE  TypeInv /\ NumberInv /\ IdentityInv /\ SetupInv /\ [Next]_vars => SetupInv'
<1> SUFFICES ASSUME TypeInv, NumberInv, IdentityInv, SetupInv, [Next]_vars
             PROVE  SetupInv'
  OBVIOUS
<1> USE NoneAssumption, ~EarlyShare
    DEF TypeInv, TypeOK, BusyHasSocket, NumberInv, TableNamesOwnSocket,
        HolderOwnsNumber, Holders, Closing, IdentityInv, OpenOnce, UsedExists,
        SetupInv, SetupIsPrivate, NewIsPrivate, SetupComesFirst
<1>1. CASE UNCHANGED vars
  BY <1>1 DEF vars
<1>2. ASSUME NEW p \in Procs, Calls(p)
      PROVE  SetupInv'
  <2>1. ASSUME NEW fd \in Fds, CallInvalid(p, fd)
        PROVE  SetupInv'
    BY <2>1 DEF CallInvalid, Return
  <2>2. ASSUME NEW fd \in Fds, ListenGet(p, fd)
        PROVE  SetupInv'
    BY <2>2 DEF ListenGet, SetUp, Enter, Found
  <2>3. ASSUME NEW fd \in Fds, ConnectGet(p, fd)
        PROVE  SetupInv'
    BY <2>3 DEF ConnectGet, SetUp, Enter, Found
  <2>4. ASSUME NEW fd \in Fds, AcceptGet(p, fd)
        PROVE  SetupInv'
    BY <2>4 DEF AcceptGet, Ready, Enter, Found
  <2>5. ASSUME NEW fd \in Fds, AcceptUnsupported(p, fd)
        PROVE  SetupInv'
    BY <2>5 DEF AcceptUnsupported, Found, Return
  <2>6. ASSUME NEW fd \in Fds, SendGet(p, fd)
        PROVE  SetupInv'
    BY <2>6 DEF SendGet, Ready, Enter, Found
  <2>7. ASSUME NEW fd \in Fds, RecvGet(p, fd)
        PROVE  SetupInv'
    BY <2>7 DEF RecvGet, Ready, Enter, Found
  <2>8. ASSUME NEW fd \in Fds, CloseDelete(p, fd)
        PROVE  SetupInv'
    BY <2>8 DEF CloseDelete, Found, Enter
  <2>9. ASSUME NEW s \in Socks, NEW fd \in Fds, NEW pr \in Protocols,
               SysSocket(p, s, fd, pr)
        PROVE  SetupInv'
    BY <2>9 DEF SysSocket
  <2> QED BY <1>2, <2>1, <2>2, <2>3, <2>4, <2>5, <2>6, <2>7, <2>8, <2>9 DEF
    Calls
<1>3. ASSUME NEW p \in Procs, Bounded(p)
      PROVE  SetupInv'
  <2>1. CASE SocketRegister(p)
    BY <2>1 DEF SocketRegister, Return
  <2>2. CASE SysListen(p)
    BY <2>2 DEF SysListen, Return
  <2>3. CASE SysConnect(p)
    BY <2>3 DEF SysConnect, Goto
  <2>4. CASE Connected(p)
    BY <2>4 DEF Connected, Return
  <2>5. CASE SysTLSConnect(p)
    BY <2>5 DEF SysTLSConnect, Goto
  <2>6. CASE SetupFails(p)
    BY <2>6 DEF SetupFails, Return
  <2>7. CASE ConnectStore(p)
    BY <2>7 DEF ConnectStore, Return
  <2>8. CASE AcceptRegister(p)
    BY <2>8 DEF AcceptRegister, Return
  <2>9. CASE AcceptError(p)
    BY <2>9 DEF AcceptError, Return
  <2>10. CASE SendLock(p)
    BY <2>10 DEF SendLock, Goto
  <2>11. CASE SysTLSSend(p)
    BY <2>11 DEF SysTLSSend, Goto, HasSession
  <2>12. CASE SendNoSession(p)
    BY <2>12 DEF SendNoSession, Return, HasSession
  <2>13. CASE TLSWritten(p)
    BY <2>13 DEF TLSWritten, Return
  <2>14. CASE RecvLock(p)
    BY <2>14 DEF RecvLock, Goto
  <2>15. CASE SysTLSRecv(p)
    BY <2>15 DEF SysTLSRecv, Goto, HasSession
  <2>16. CASE RecvNoSession(p)
    BY <2>16 DEF RecvNoSession, Return, HasSession
  <2>17. CASE TLSRead(p)
    BY <2>17 DEF TLSRead, Return
  <2>18. CASE CloseLockRead(p)
    BY <2>18 DEF CloseLockRead, Goto
  <2>19. CASE CloseLockWrite(p)
    BY <2>19 DEF CloseLockWrite, Goto
  <2>20. CASE CloseSession(p)
    BY <2>20 DEF CloseSession, Goto
  <2>21. CASE SysClose(p)
    BY <2>21 DEF SysClose, Return
  <2> QED BY <1>3, <2>1, <2>2, <2>3, <2>4, <2>5, <2>6, <2>7, <2>8, <2>9,
    <2>10, <2>11, <2>12, <2>13, <2>14, <2>15, <2>16, <2>17, <2>18, <2>19,
    <2>20, <2>21 DEF Bounded
<1>4. ASSUME NEW p \in Procs, Blocking(p)
      PROVE  SetupInv'
  <2>1. ASSUME NEW s \in Socks, NEW fd \in Fds, SysAccept(p, s, fd)
        PROVE  SetupInv'
    BY <2>1 DEF SysAccept, Goto
  <2>2. ASSUME NEW n \in 1 .. BufLen, SysSend(p, n)
        PROVE  SetupInv'
    BY <2>2 DEF SysSend
  <2>3. CASE SysSendRest(p)
    BY <2>3 DEF SysSendRest, Return
  <2>4. CASE SysAcceptFails(p)
    BY <2>4 DEF SysAcceptFails, Goto
  <2>5. CASE SendFails(p)
    BY <2>5 DEF SendFails, Return
  <2>6. CASE SysRecv(p)
    BY <2>6 DEF SysRecv, Return
  <2>7. CASE RecvEOF(p)
    BY <2>7 DEF RecvEOF, Return
  <2>8. CASE RecvFails(p)
    BY <2>8 DEF RecvFails, Return
  <2> QED BY <1>4, <2>1, <2>2, <2>3, <2>4, <2>5, <2>6, <2>7, <2>8 DEF Blocking
<1> QED BY <1>1, <1>2, <1>3, <1>4 DEF Next

-----------------------------------------------------------------------------
(* TLS sessions and the I/O locks.                                         *)

\* Who is at these points holds the lock.
LocksHeld ==
    \A p \in Procs :
        /\ pc[p] \in {"tlsSend", "tlsWriting", "closeTLS"} => writeMu[cur[p]] = p
        /\ pc[p] \in {"tlsRecv", "tlsReading", "closeWrite", "closeTLS"} =>
               readMu[cur[p]] = p

\* Inside the TLS stack: s.tls is set, the session live, the number still ours.
InsideTLS ==
    \A p \in Procs : pc[p] \in {"tlsWriting", "tlsReading"} =>
        tls[cur[p]] /\ session[cur[p]] = "live" /\ kernel[num[p]] = cur[p]

\* Close has cleared s.tls before it gives the number back.
ClosedIsCleared == \A p \in Procs : pc[p] = "closeFd" => ~tls[cur[p]]

\* A socket with a session is open.
TLSIsOpen == \A s \in Socks : tls[s] => \E fd \in Fds : kernel[fd] = s

\* A live session is known to its socket, or Connect is about to store it.
LiveIsKnown ==
    \A s \in Socks : session[s] = "live" =>
        tls[s] \/ \E p \in Procs : pc[p] = "store" /\ cur[p] = s

SessionInv ==
    LocksHeld /\ InsideTLS /\ ClosedIsCleared /\ TLSIsOpen /\ LiveIsKnown

\* There are no sessions at the start.
LEMMA InitSessionInv == Init => SessionInv
BY DEF Init, SessionInv, LocksHeld, InsideTLS, ClosedIsCleared, TLSIsOpen,
       LiveIsKnown

\* No step frees a session that is in use, or forgets one.
LEMMA NextSessionInv ==
    TypeInv /\ NumberInv /\ IdentityInv /\ SetupInv /\ SessionInv /\ [Next]_vars
        => SessionInv'
<1> SUFFICES ASSUME TypeInv, NumberInv, IdentityInv, SetupInv, SessionInv, [Next]_vars
             PROVE  SessionInv'
  OBVIOUS
<1> USE NoneAssumption
    DEF TypeInv, TypeOK, BusyHasSocket, NumberInv, TableNamesOwnSocket,
        HolderOwnsNumber, HoldersApart, Holders, Closing, IdentityInv, OpenOnce,
        NumberOfSocket, SetupInv, SetupIsPrivate, SessionInv, LocksHeld,
        InsideTLS, ClosedIsCleared, TLSIsOpen, LiveIsKnown
<1>1. CASE UNCHANGED vars
  BY <1>1 DEF vars
<1>2. ASSUME NEW p \in Procs, Calls(p)
      PROVE  SessionInv'
  <2>1. ASSUME NEW fd \in Fds, CallInvalid(p, fd)
        PROVE  SessionInv'
    BY <2>1 DEF CallInvalid, Return
  <2>2. ASSUME NEW fd \in Fds, ListenGet(p, fd)
        PROVE  SessionInv'
    BY <2>2 DEF ListenGet, SetUp, Enter, Found
  <2>3. ASSUME NEW fd \in Fds, ConnectGet(p, fd)
        PROVE  SessionInv'
    BY <2>3 DEF ConnectGet, SetUp, Enter, Found
  <2>4. ASSUME NEW fd \in Fds, AcceptGet(p, fd)
        PROVE  SessionInv'
    BY <2>4 DEF AcceptGet, Ready, Enter, Found
  <2>5. ASSUME NEW fd \in Fds, AcceptUnsupported(p, fd)
        PROVE  SessionInv'
    BY <2>5 DEF AcceptUnsupported, Found, Return
  <2>6. ASSUME NEW fd \in Fds, SendGet(p, fd)
        PROVE  SessionInv'
    BY <2>6 DEF SendGet, Ready, Enter, Found
  <2>7. ASSUME NEW fd \in Fds, RecvGet(p, fd)
        PROVE  SessionInv'
    BY <2>7 DEF RecvGet, Ready, Enter, Found
  <2>8. ASSUME NEW fd \in Fds, CloseDelete(p, fd)
        PROVE  SessionInv'
    BY <2>8 DEF CloseDelete, Found, Enter
  <2>9. ASSUME NEW s \in Socks, NEW fd \in Fds, NEW pr \in Protocols,
               SysSocket(p, s, fd, pr)
        PROVE  SessionInv'
    BY <2>9 DEF SysSocket
  <2> QED BY <1>2, <2>1, <2>2, <2>3, <2>4, <2>5, <2>6, <2>7, <2>8, <2>9 DEF
    Calls
<1>3. ASSUME NEW p \in Procs, Bounded(p)
      PROVE  SessionInv'
  <2>1. CASE SocketRegister(p)
    BY <2>1 DEF SocketRegister, Return
  <2>2. CASE SysListen(p)
    BY <2>2 DEF SysListen, Return
  <2>3. CASE SysConnect(p)
    BY <2>3 DEF SysConnect, Goto
  <2>4. CASE Connected(p)
    BY <2>4 DEF Connected, Return
  <2>5. CASE SysTLSConnect(p)
    BY <2>5 DEF SysTLSConnect, Goto
  <2>6. CASE SetupFails(p)
    BY <2>6 DEF SetupFails, Return
  <2>7. CASE ConnectStore(p)
    BY <2>7 DEF ConnectStore, Return
  <2>8. CASE AcceptRegister(p)
    BY <2>8 DEF AcceptRegister, Return
  <2>9. CASE AcceptError(p)
    BY <2>9 DEF AcceptError, Return
  <2>10. CASE SendLock(p)
    BY <2>10 DEF SendLock, Goto
  <2>11. CASE SysTLSSend(p)
    BY <2>11 DEF SysTLSSend, Goto, HasSession
  <2>12. CASE SendNoSession(p)
    BY <2>12 DEF SendNoSession, Return, HasSession
  <2>13. CASE TLSWritten(p)
    BY <2>13 DEF TLSWritten, Return
  <2>14. CASE RecvLock(p)
    BY <2>14 DEF RecvLock, Goto
  <2>15. CASE SysTLSRecv(p)
    BY <2>15 DEF SysTLSRecv, Goto, HasSession
  <2>16. CASE RecvNoSession(p)
    BY <2>16 DEF RecvNoSession, Return, HasSession
  <2>17. CASE TLSRead(p)
    BY <2>17 DEF TLSRead, Return
  <2>18. CASE CloseLockRead(p)
    BY <2>18 DEF CloseLockRead, Goto
  <2>19. CASE CloseLockWrite(p)
    BY <2>19 DEF CloseLockWrite, Goto
  <2>20. CASE CloseSession(p)
    BY <2>20 DEF CloseSession, Goto
  <2>21. CASE SysClose(p)
    BY <2>21 DEF SysClose, Return
  <2> QED BY <1>3, <2>1, <2>2, <2>3, <2>4, <2>5, <2>6, <2>7, <2>8, <2>9,
    <2>10, <2>11, <2>12, <2>13, <2>14, <2>15, <2>16, <2>17, <2>18, <2>19,
    <2>20, <2>21 DEF Bounded
<1>4. ASSUME NEW p \in Procs, Blocking(p)
      PROVE  SessionInv'
  <2>1. ASSUME NEW s \in Socks, NEW fd \in Fds, SysAccept(p, s, fd)
        PROVE  SessionInv'
    BY <2>1 DEF SysAccept, Goto
  <2>2. ASSUME NEW n \in 1 .. BufLen, SysSend(p, n)
        PROVE  SessionInv'
    BY <2>2 DEF SysSend
  <2>3. CASE SysSendRest(p)
    BY <2>3 DEF SysSendRest, Return
  <2>4. CASE SysAcceptFails(p)
    BY <2>4 DEF SysAcceptFails, Goto
  <2>5. CASE SendFails(p)
    BY <2>5 DEF SendFails, Return
  <2>6. CASE SysRecv(p)
    BY <2>6 DEF SysRecv, Return
  <2>7. CASE RecvEOF(p)
    BY <2>7 DEF RecvEOF, Return
  <2>8. CASE RecvFails(p)
    BY <2>8 DEF RecvFails, Return
  <2> QED BY <1>4, <2>1, <2>2, <2>3, <2>4, <2>5, <2>6, <2>7, <2>8 DEF Blocking
<1> QED BY <1>1, <1>2, <1>3, <1>4 DEF Next

\* All of it holds throughout.
LEMMA SessionsAgree ==
    ASSUME ~EarlyShare
    PROVE  Spec => [](TypeInv /\ NumberInv /\ IdentityInv /\ SetupInv /\ SessionInv)
BY InitTypeInv, NextTypeInv, InitNumberInv, NextNumberInv, InitIdentityInv,
   NextIdentityInv, InitSetupInv, NextSetupInv, InitSessionInv, NextSessionInv, PTL
   DEF Spec

\* Close, with its two locks, never frees a session or gives away a number
\* under a Send or Recv inside the TLS stack.
THEOREM TLSIsSafe ==
    ASSUME ~EarlyShare
    PROVE  Spec => []TLSOperationSafe
<1>1. SessionInv => TLSOperationSafe
  BY DEF SessionInv, InsideTLS, TLSOperationSafe
<1> QED BY <1>1, SessionsAgree, PTL

\* The session Connect made is released before its socket's number is.
THEOREM SessionsReleased ==
    ASSUME ~EarlyShare
    PROVE  Spec => []NoSessionLeak
<1>1. TypeInv /\ NumberInv /\ SetupInv /\ SessionInv => NoSessionLeak
  BY NoneAssumption
  DEF TypeInv, BusyHasSocket, NumberInv, TableNamesOwnSocket, SetupInv, SetupIsPrivate,
      SessionInv, TLSIsOpen, LiveIsKnown, NoSessionLeak
<1> QED BY <1>1, SessionsAgree, PTL

=============================================================================
