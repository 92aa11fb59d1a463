---------------------------- MODULE NwConnProofs ----------------------------
(***************************************************************************)
(* Proofs about the Network.framework connection (NwConn), for any number  *)
(* of goroutines, operations and bytes.                                    *)
(***************************************************************************)
EXTENDS NwConn, WellFoundedInduction, TLAPS

Sems == [count : Nat, owners : 0 .. 2, freed : BOOLEAN]

OpStates == [kind : {"none", "recv", "send"}, len : Nat, sem : Sems,
             claim : {"none", "caller", "block"},
             side : {"none", "claim", "copy", "signal", "drop", "done"},
             content : Seq(Nat), copied : Seq(Nat), spill : Seq(Nat),
             error : BOOLEAN, complete : BOOLEAN, lost : BOOLEAN]

InCall == {"wait", "waitForever", "claim", "leave", "drop"}

NwStates == {"setup", "preparing", "ready", "waiting", "failed", "cancelling", "cancelled"}

DialTypes ==
    /\ dial \in {"new", "wait", "timedOut", "settled", "ok", "failed"}
    /\ ready \in Sems
    /\ settled \in NwStates \cup {"none"}
    /\ framework \in NwStates
    /\ handler \in [at : {"none", "claim", "signal", "drop"}, state : NwStates \cup {"none"}]

Places == [at : {"idle", "lock"} \cup InCall, call : NwCalls \cup {"none"},
           op : {0} \cup Ops]

GoTypes ==
    /\ mu \in SUBSET Callers
    /\ pc \in [Callers -> Places]
    /\ handle \in BOOLEAN
    /\ pending \in Seq(Nat)
    /\ nwEof \in BOOLEAN

OpTypes ==
    /\ ops \in [Ops -> OpStates]
    /\ queue \in SUBSET ({StateHandler} \cup Ops)
    /\ receives \in Seq(Ops)
    /\ sends \in Seq(Ops)
    /\ stream \in Nat
    /\ got \in Seq(Nat)

NwTypeOK == DialTypes /\ GoTypes /\ OpTypes

-----------------------------------------------------------------------------
Running == {"claim", "copy", "signal", "drop"}

\* The queue runs one block at a time: the state handler or a completion.
QueueInv ==
    /\ \A x, y \in queue : x = y
    /\ handler.at # "none" <=> StateHandler \in queue
    /\ \A o \in Ops : ops[o].side \in Running <=> o \in queue

\* The semaphore of the dial has an owner on each side that is not through.
ReadyInv ==
    /\ handler.at = "claim" => handler.state \in NwStates
    /\ handler.at \in {"signal", "drop"} => settled # "none"
    /\ ready.owners = (IF dial \in {"ok", "failed"} THEN 0 ELSE 1)
                    + (IF settled # "none" /\ handler.at \notin {"signal", "drop"} THEN 0 ELSE 1)
    /\ ready.freed <=> ready.owners = 0

\* The mutex is held by the one goroutine that is in a native call, which has
\* a connection that is open; before the dial is over there is no call.
MutexInv ==
    /\ \A g \in Callers : g \in mu <=> pc[g].op # 0
    /\ \A g \in Callers : pc[g].op # 0 <=> pc[g].at \in InCall
    /\ \A g, h \in mu : g = h
    /\ \A g \in mu : handle /\ ops[pc[g].op].kind # "none"
    /\ handle => dial = "ok"

BeforeInv ==
    dial # "ok" => /\ \A o \in Ops : ops[o] = NoOp
                   /\ \A g \in Callers : pc[g] = Idle
                   /\ receives = <<>> /\ sends = <<>>
                   /\ stream = 0 /\ pending = <<>> /\ got = <<>>

\* The framework has each operation at most once, before its completion.
Waiting(s, kind) ==
    /\ \A i \in DOMAIN s : ops[s[i]].kind = kind /\ ops[s[i]].side = "none"
    /\ \A i, j \in DOMAIN s : s[i] = s[j] => i = j
FrameworkInv == Waiting(receives, "recv") /\ Waiting(sends, "send")

Called(o) == \E g \in Callers : pc[g].op = o

\* The owners of an operation's semaphore are its caller and its block.
OwnersInv ==
    \A o \in Ops : ops[o].kind # "none" =>
        /\ ops[o].sem.owners = (IF Called(o) THEN 1 ELSE 0)
                             + (IF ops[o].side = "done" THEN 0 ELSE 1)
        /\ ops[o].sem.freed <=> ops[o].sem.owners = 0

\* Who got the claim, and what follows for the other side.
ClaimInv ==
    /\ \A o \in Ops :
        /\ ops[o].kind = "none" => ops[o] = NoOp
        /\ ops[o].sem.count > 0 => ops[o].side \in {"drop", "done"}
        /\ ops[o].side \in {"claim", "copy"} => ops[o].kind = "recv"
        /\ ops[o].side = "copy" => ops[o].claim = "block"
        /\ ops[o].claim = "block" => ops[o].side \in {"copy", "signal", "drop", "done"}
        /\ ops[o].kind = "recv" /\ ~Called(o) =>
              ops[o].side \in {"drop", "done"} \/ ops[o].claim = "caller"
    /\ \A g \in mu :
        /\ pc[g].at = "drop" => Mine(g).side \in {"drop", "done"}
        /\ pc[g].at = "leave" => Mine(g).kind = "send" \/ Mine(g).claim = "caller"
        /\ pc[g].at \in {"claim", "waitForever"} => Mine(g).kind = "recv"

-----------------------------------------------------------------------------
Increasing(s) == \A i, j \in DOMAIN s : i < j => s[i] < s[j]
Below(s, t) == \A i \in DOMAIN s, j \in DOMAIN t : s[i] < t[j]
UpTo(s, n) == \A i \in DOMAIN s : s[i] <= n

\* What has been read, what is left over and what a call will return follow
\* each other in the order of the stream.
OrderInv ==
    /\ Increasing(got) /\ Increasing(pending) /\ Below(got, pending)
    /\ UpTo(got, stream) /\ UpTo(pending, stream)
    /\ \A o \in Ops :
        /\ Increasing(ops[o].content) /\ UpTo(ops[o].content, stream)
        /\ Increasing(ops[o].copied) /\ UpTo(ops[o].copied, stream)
        /\ Increasing(ops[o].spill) /\ UpTo(ops[o].spill, stream)
        /\ Below(ops[o].copied, ops[o].spill)
        /\ Called(o) => /\ Below(got, ops[o].content)
                        /\ Below(got, ops[o].copied)
                        /\ Below(got, ops[o].spill)

\* The bytes handed to an operation, and where they are.
BytesInv ==
    /\ \A o \in Ops :
        /\ ops[o].side = "none" => ops[o].content = <<>>
        /\ ops[o].kind = "recv" /\ Called(o) => pending = <<>>
        /\ /\ ops[o].side \in {"signal", "drop", "done"}
           /\ ops[o].claim # "caller"
           /\ ops[o].kind = "recv"
           /\ ~ops[o].lost
           => ToSet(ops[o].content) \subseteq ToSet(ops[o].copied) \cup ToSet(ops[o].spill)
        /\ ops[o].kind = "send" => ops[o].content = <<>>

NwInv == /\ NwTypeOK /\ QueueInv /\ ReadyInv /\ MutexInv /\ BeforeInv /\ FrameworkInv
         /\ OwnersInv /\ ClaimInv /\ OrderInv /\ BytesInv /\ NoSilentLoss

-----------------------------------------------------------------------------
(* The records of the model.                                               *)

\* A side that is through drops its ownership; the last one releases.
LEMMA DroppedSem ==
    ASSUME NEW s \in Sems, s.owners > 0
    PROVE  /\ Dropped(s) \in Sems
           /\ Dropped(s).owners = s.owners - 1
           /\ Dropped(s).freed <=> s.owners = 1
           /\ Dropped(s).count = s.count
<1>1. PICK n \in 0 .. 2 : n = s.owners - 1
  BY DEF Sems
<1>2. CASE s.owners = 1
  <2>1. Dropped(s) = [s EXCEPT !.owners = n, !.freed = TRUE]
    BY <1>1, <1>2 DEF Dropped
  <2> QED BY <1>1, <1>2, <2>1 DEF Sems
<1>3. CASE s.owners # 1
  <2>1. Dropped(s) = [s EXCEPT !.owners = n, !.freed = FALSE]
    BY <1>1, <1>3 DEF Dropped
  <2> QED BY <1>1, <1>3, <2>1 DEF Sems
<1> QED BY <1>2, <1>3

\* A signal, and the wait that it ends, count; they leave the owners alone.
LEMMA CountedSem ==
    ASSUME NEW s \in Sems
    PROVE  /\ /\ Signalled(s) \in Sems
              /\ Signalled(s).owners = s.owners
              /\ Signalled(s).freed = s.freed
           /\ s.count > 0 => /\ Waited(s) \in Sems
                             /\ Waited(s).owners = s.owners
                             /\ Waited(s).freed = s.freed
BY DEF Sems, Signalled, Waited

\* An operation that was not started, and one that was.
LEMMA NewOp ==
    ASSUME NEW kind \in {"recv", "send"}, NEW len \in Nat
    PROVE  /\ NoOp \in OpStates
           /\ [NoOp EXCEPT !.kind = kind, !.len = len] \in OpStates
<1>1. NoOp \in OpStates
  BY DEF OpStates, NoOp, NewSem, Sems
<1> QED BY <1>1 DEF OpStates

\* Same bytes, same kind.
SameBytes(q, r) ==
    /\ q.kind = r.kind
    /\ q.content = r.content /\ q.copied = r.copied /\ q.spill = r.spill

\* The updates that a caller or a block makes of an operation.
LEMMA OpUpdates ==
    ASSUME NEW r \in OpStates, NEW s \in Sems, NEW lost \in BOOLEAN
    PROVE  /\ LET q == [r EXCEPT !.sem = s]
              IN  /\ q \in OpStates /\ SameBytes(q, r) /\ q.sem = s
                  /\ q.claim = r.claim /\ q.side = r.side /\ q.lost = r.lost
           /\ LET q == [r EXCEPT !.sem = s, !.lost = lost]
              IN  /\ q \in OpStates /\ SameBytes(q, r) /\ q.sem = s
                  /\ q.claim = r.claim /\ q.side = r.side /\ q.lost = lost
           /\ LET q == [r EXCEPT !.claim = "caller"]
              IN  /\ q \in OpStates /\ SameBytes(q, r) /\ q.sem = r.sem
                  /\ q.claim = "caller" /\ q.side = r.side /\ q.lost = r.lost
           /\ LET q == [r EXCEPT !.claim = "block", !.side = "copy"]
              IN  /\ q \in OpStates /\ SameBytes(q, r) /\ q.sem = r.sem
                  /\ q.claim = "block" /\ q.side = "copy" /\ q.lost = r.lost
           /\ LET q == [r EXCEPT !.side = "signal"]
              IN  /\ q \in OpStates /\ SameBytes(q, r) /\ q.sem = r.sem
                  /\ q.claim = r.claim /\ q.side = "signal" /\ q.lost = r.lost
           /\ LET q == [r EXCEPT !.sem = s, !.side = "drop"]
              IN  /\ q \in OpStates /\ SameBytes(q, r) /\ q.sem = s
                  /\ q.claim = r.claim /\ q.side = "drop" /\ q.lost = r.lost
           /\ LET q == [r EXCEPT !.sem = s, !.side = "done"]
              IN  /\ q \in OpStates /\ SameBytes(q, r) /\ q.sem = s
                  /\ q.claim = r.claim /\ q.side = "done" /\ q.lost = r.lost
           /\ LET q == [r EXCEPT !.side = "signal", !.error = lost]
              IN  /\ q \in OpStates /\ SameBytes(q, r) /\ q.sem = r.sem
                  /\ q.claim = r.claim /\ q.side = "signal" /\ q.lost = r.lost
BY DEF OpStates, SameBytes

\* Every set of naturals that has an element has a least one.
LEMMA LeastNatural ==
    ASSUME NEW T \in SUBSET Nat, T # {}
    PROVE  \E x \in T : \A y \in T : x <= y
<1>1. PICK x \in T : \A y \in T : <<y, x>> \notin OpToRel(<, Nat)
  BY NatLessThanWellFounded, WFMin
<1>2. ASSUME NEW y \in T PROVE x <= y
  <2>1. ~(y < x)
    BY <1>1 DEF OpToRel
  <2> QED
    BY <2>1
<1> QED
  BY <1>2

\* A sequence cut in two.
LEMMA SplitSeq ==
    ASSUME NEW s \in Seq(Nat), NEW m \in 0 .. Len(s)
    PROVE  LET a == SubSeq(s, 1, m)
               b == SubSeq(s, m + 1, Len(s))
           IN  /\ a \in Seq(Nat) /\ b \in Seq(Nat)
               /\ Len(a) = m /\ Len(b) = Len(s) - m
               /\ \A i \in 1 .. m : a[i] = s[i]
               /\ \A i \in 1 .. Len(s) - m : b[i] = s[m + i]
OBVIOUS

\* Its parts have its elements, in its order.
LEMMA SplitParts ==
    ASSUME NEW s \in Seq(Nat), NEW m \in 0 .. Len(s)
    PROVE  LET a == SubSeq(s, 1, m)
               b == SubSeq(s, m + 1, Len(s))
           IN  /\ Increasing(s) => Increasing(a) /\ Increasing(b) /\ Below(a, b)
               /\ \A n \in Nat : UpTo(s, n) => UpTo(a, n) /\ UpTo(b, n)
               /\ \A t \in Seq(Nat) : Below(t, s) => Below(t, a) /\ Below(t, b)
               /\ ToSet(s) = ToSet(a) \cup ToSet(b)
<1> DEFINE a == SubSeq(s, 1, m)
           b == SubSeq(s, m + 1, Len(s))
<1>1. /\ DOMAIN s = 1 .. Len(s) /\ DOMAIN a = 1 .. m /\ DOMAIN b = 1 .. Len(s) - m
      /\ \A i \in 1 .. m : a[i] = s[i] /\ i \in 1 .. Len(s)
      /\ \A i \in 1 .. Len(s) - m : b[i] = s[m + i] /\ m + i \in 1 .. Len(s)
      /\ m \in Nat /\ Len(s) \in Nat
  BY SplitSeq
<1> HIDE DEF a, b
<1>2. Increasing(s) => Increasing(a) /\ Increasing(b) /\ Below(a, b)
  <2>1. Increasing(s) => Increasing(a)
    BY <1>1 DEF Increasing
  <2>2. Increasing(s) => Increasing(b)
    <3> SUFFICES ASSUME Increasing(s), NEW i \in DOMAIN b, NEW k \in DOMAIN b, i < k
                 PROVE  b[i] < b[k]
      BY DEF Increasing
    <3>1. m + i \in DOMAIN s /\ m + k \in DOMAIN s /\ m + i < m + k
      BY <1>1
    <3>2. s[m + i] < s[m + k]
      BY <3>1 DEF Increasing
    <3> QED BY <1>1, <3>2
  <2>3. Increasing(s) => Below(a, b)
    <3> SUFFICES ASSUME Increasing(s), NEW i \in DOMAIN a, NEW k \in DOMAIN b
                 PROVE  a[i] < b[k]
      BY DEF Below
    <3>1. i \in DOMAIN s /\ m + k \in DOMAIN s /\ i < m + k
      BY <1>1
    <3>2. s[i] < s[m + k]
      BY <3>1 DEF Increasing
    <3> QED BY <1>1, <3>2
  <2> QED BY <2>1, <2>2, <2>3
<1>3. \A n \in Nat : UpTo(s, n) => UpTo(a, n) /\ UpTo(b, n)
  BY <1>1 DEF UpTo
<1>4. \A t \in Seq(Nat) : Below(t, s) => Below(t, a) /\ Below(t, b)
  BY <1>1 DEF Below
<1>5. ToSet(s) = ToSet(a) \cup ToSet(b)
  <2>1. ToSet(s) \subseteq ToSet(a) \cup ToSet(b)
    <3> SUFFICES ASSUME NEW i \in 1 .. Len(s) PROVE s[i] \in ToSet(a) \cup ToSet(b)
      BY <1>1 DEF ToSet
    <3>1. CASE i <= m
      <4>1. i \in DOMAIN a
        BY <1>1, <3>1
      <4>2. a[i] = s[i]
        BY <1>1, <4>1
      <4> QED BY <4>1, <4>2 DEF ToSet
    <3>2. CASE i > m
      <4>1. i - m \in 1 .. Len(s) - m /\ m + (i - m) = i
        BY <1>1, <3>2
      <4>2. b[i - m] = s[i]
        BY <1>1, <4>1
      <4> QED BY <1>1, <4>1, <4>2 DEF ToSet
    <3> QED BY <1>1, <3>1, <3>2
  <2>2. ToSet(a) \subseteq ToSet(s)
    BY <1>1 DEF ToSet
  <2>3. ToSet(b) \subseteq ToSet(s)
    BY <1>1 DEF ToSet
  <2> QED BY <2>1, <2>2, <2>3
<1> QED BY <1>2, <1>3, <1>4, <1>5 DEF a, b

\* One sequence after another.
LEMMA JoinParts ==
    ASSUME NEW s \in Seq(Nat), NEW t \in Seq(Nat)
    PROVE  /\ s \o t \in Seq(Nat)
           /\ Increasing(s) /\ Increasing(t) /\ Below(s, t) => Increasing(s \o t)
           /\ \A n \in Nat : UpTo(s, n) /\ UpTo(t, n) => UpTo(s \o t, n)
           /\ \A u \in Seq(Nat) : Below(s, u) /\ Below(t, u) => Below(s \o t, u)
           /\ ToSet(s \o t) = ToSet(s) \cup ToSet(t)
<1> DEFINE j == s \o t
<1>1. /\ DOMAIN s = 1 .. Len(s) /\ DOMAIN t = 1 .. Len(t) /\ DOMAIN j = 1 .. Len(s) + Len(t)
      /\ \A i \in 1 .. Len(s) : j[i] = s[i] /\ i \in 1 .. Len(s) + Len(t)
      /\ \A i \in 1 .. Len(t) : j[Len(s) + i] = t[i] /\ Len(s) + i \in 1 .. Len(s) + Len(t)
      /\ Len(s) \in Nat /\ Len(t) \in Nat /\ j \in Seq(Nat)
  OBVIOUS
<1>2. \A i \in DOMAIN j : \/ i \in DOMAIN s /\ j[i] = s[i]
                          \/ /\ i - Len(s) \in DOMAIN t /\ j[i] = t[i - Len(s)]
                             /\ i > Len(s)
  <2> TAKE i \in DOMAIN j
  <2>1. CASE i <= Len(s)
    BY <1>1, <2>1
  <2>2. CASE i > Len(s)
    <3>1. i - Len(s) \in 1 .. Len(t) /\ Len(s) + (i - Len(s)) = i
      BY <1>1, <2>2
    <3> QED BY <1>1, <2>2, <3>1
  <2> QED BY <1>1, <2>1, <2>2
<1> HIDE DEF j
<1>3. Increasing(s) /\ Increasing(t) /\ Below(s, t) => Increasing(j)
  <2> SUFFICES ASSUME Increasing(s), Increasing(t), Below(s, t),
                      NEW i \in DOMAIN j, NEW k \in DOMAIN j, i < k
               PROVE  j[i] < j[k]
    BY DEF Increasing
  <2>0. i \in Nat /\ k \in Nat
    BY <1>1
  <2>1. CASE i \in DOMAIN s /\ j[i] = s[i]
    <3>1. CASE k \in DOMAIN s /\ j[k] = s[k]
      BY <2>1, <3>1 DEF Increasing
    <3>2. CASE k - Len(s) \in DOMAIN t /\ j[k] = t[k - Len(s)]
      BY <2>1, <3>2 DEF Below
    <3> QED BY <1>2, <3>1, <3>2
  <2>2. CASE i - Len(s) \in DOMAIN t /\ j[i] = t[i - Len(s)] /\ i > Len(s)
    <3>1. k > Len(s) /\ k \notin DOMAIN s
      BY <1>1, <2>0, <2>2
    <3>2. k - Len(s) \in DOMAIN t /\ j[k] = t[k - Len(s)]
      BY <1>2, <3>1
    <3>3. i - Len(s) < k - Len(s)
      BY <1>1, <2>0
    <3> QED BY <2>2, <3>2, <3>3 DEF Increasing
  <2> QED BY <1>2, <2>1, <2>2
<1>4. \A n \in Nat : UpTo(s, n) /\ UpTo(t, n) => UpTo(j, n)
  BY <1>1, <1>2 DEF UpTo
<1>5. \A u \in Seq(Nat) : Below(s, u) /\ Below(t, u) => Below(j, u)
  BY <1>1, <1>2 DEF Below
<1>6. ToSet(j) = ToSet(s) \cup ToSet(t)
  <2>1. ToSet(j) \subseteq ToSet(s) \cup ToSet(t)
    BY <1>2 DEF ToSet
  <2>2. ToSet(s) \subseteq ToSet(j)
    BY <1>1 DEF ToSet
  <2>3. ToSet(t) \subseteq ToSet(j)
    BY <1>1 DEF ToSet
  <2> QED BY <2>1, <2>2, <2>3
<1> QED BY <1>1, <1>3, <1>4, <1>5, <1>6 DEF j

-----------------------------------------------------------------------------
(* Frames: what a step that leaves some variables alone preserves.         *)

OpsKept == \A g \in Callers : pc'[g].op = pc[g].op

\* Whether an operation has a caller depends on the op of the goroutines only.
LEMMA CalledKept ==
    ASSUME OpsKept PROVE \A o : Called(o)' <=> Called(o)
BY DEF OpsKept, Called

\* Each part of the invariant depends on some of the variables only.  The types
\* of the dial,
LEMMA DialTypesFrame ==
    ASSUME DialTypes, UNCHANGED <<dial, ready, settled, framework, handler>> PROVE DialTypes'
BY DEF DialTypes

\* those of the goroutines,
LEMMA GoTypesFrame ==
    ASSUME GoTypes, UNCHANGED <<mu, pc, handle, pending, nwEof>> PROVE GoTypes'
BY DEF GoTypes

\* those of the operations,
LEMMA OpTypesFrame ==
    ASSUME OpTypes, UNCHANGED <<ops, queue, receives, sends, stream, got>> PROVE OpTypes'
BY DEF OpTypes

\* the queue,
LEMMA QueueFrame ==
    ASSUME QueueInv, UNCHANGED <<queue, handler, ops>> PROVE QueueInv'
BY DEF QueueInv

\* the semaphore of the dial,
LEMMA ReadyFrame ==
    ASSUME ReadyInv, UNCHANGED <<handler, settled, ready, dial>> PROVE ReadyInv'
BY DEF ReadyInv

\* the mutex,
LEMMA MutexFrame ==
    ASSUME MutexInv, UNCHANGED <<mu, pc, handle, ops, dial>> PROVE MutexInv'
BY DEF MutexInv

\* the time before the dial is over,
LEMMA BeforeFrame ==
    ASSUME BeforeInv, UNCHANGED <<dial, ops, pc, receives, sends, stream, pending, got>>
    PROVE  BeforeInv'
BY DEF BeforeInv

\* what waits in the framework,
LEMMA FrameworkFrame ==
    ASSUME FrameworkInv, UNCHANGED <<receives, sends, ops>> PROVE FrameworkInv'
BY DEF FrameworkInv, Waiting

\* the owners of the semaphores,
LEMMA OwnersFrame ==
    ASSUME OwnersInv, UNCHANGED <<ops>>, OpsKept PROVE OwnersInv'
BY DEF OwnersInv, Called, OpsKept

\* the claims,
LEMMA ClaimFrame ==
    ASSUME ClaimInv, UNCHANGED <<ops, pc, mu>> PROVE ClaimInv'
BY DEF ClaimInv, Called, Mine

\* the order of the bytes,
LEMMA OrderFrame ==
    ASSUME OrderInv, UNCHANGED <<got, pending, stream, ops>>, OpsKept PROVE OrderInv'
BY DEF OrderInv, Increasing, Below, UpTo, Called, OpsKept

\* the bytes of the operations,
LEMMA BytesFrame ==
    ASSUME BytesInv, UNCHANGED <<ops, pending>>, OpsKept PROVE BytesInv'
BY DEF BytesInv, Called, OpsKept

\* and the account of all bytes.
LEMMA NoSilentLossFrame ==
    ASSUME NoSilentLoss, UNCHANGED <<got, handle, stream, pending, ops>>, OpsKept
    PROVE  NoSilentLoss'
BY DEF NoSilentLoss, Started, OpsKept

\* No goroutine moves.
LEMMA PcKept ==
    ASSUME UNCHANGED pc PROVE OpsKept
BY DEF OpsKept

\* Steps of the dial, of the verify block and of the state handler leave the
\* calls and their operations alone.
LEMMA CallsFrame ==
    ASSUME NwInv, UNCHANGED <<mu, pc, pending, nwEof, ops, receives, sends, stream, got>>
    PROVE  /\ FrameworkInv' /\ OwnersInv' /\ ClaimInv' /\ OrderInv' /\ BytesInv'
           /\ UNCHANGED handle => GoTypes' /\ NoSilentLoss'
           /\ UNCHANGED <<handle, dial>> => MutexInv' /\ BeforeInv'
           /\ UNCHANGED queue => OpTypes'
           /\ UNCHANGED <<queue, handler>> => QueueInv'
<1>1. FrameworkInv' /\ ClaimInv'
  BY FrameworkFrame, ClaimFrame DEF NwInv
<1>2. OwnersInv' /\ OrderInv' /\ BytesInv'
  BY PcKept, OwnersFrame, OrderFrame, BytesFrame DEF NwInv
<1>3. UNCHANGED handle => GoTypes' /\ NoSilentLoss'
  BY PcKept, GoTypesFrame, NoSilentLossFrame DEF NwInv, NwTypeOK
<1>4. UNCHANGED <<handle, dial>> => MutexInv' /\ BeforeInv'
  BY MutexFrame, BeforeFrame DEF NwInv
<1>5. UNCHANGED queue => OpTypes'
  BY OpTypesFrame DEF NwInv, NwTypeOK
<1>6. UNCHANGED <<queue, handler>> => QueueInv'
  BY QueueFrame DEF NwInv
<1> QED BY <1>1, <1>2, <1>3, <1>4, <1>5, <1>6

\* Until the dial is over nobody has the handle.
LEMMA DialFrame ==
    ASSUME NwInv, dial \notin {"ok", "failed"}, dial' # "ok",
           UNCHANGED <<goVars, opVars, got, handler>>
    PROVE  /\ GoTypes' /\ OpTypes' /\ QueueInv' /\ MutexInv' /\ BeforeInv' /\ FrameworkInv'
           /\ OwnersInv' /\ ClaimInv' /\ OrderInv' /\ BytesInv' /\ NoSilentLoss'
<1> USE DEF goVars, opVars
<1>1. MutexInv'
  BY DEF NwInv, MutexInv
<1>2. BeforeInv'
  BY DEF NwInv, BeforeInv
<1> QED BY <1>1, <1>2, CallsFrame

\* Dial preserves the invariant.
LEMMA DialBegins ==
    ASSUME NwInv, Dial PROVE NwInv'
<1> USE DEF Dial
<1>1. DialTypes'
  BY DEF NwInv, NwTypeOK, DialTypes, NwStates
<1>2. ReadyInv'
  BY DEF NwInv, ReadyInv
<1> QED BY <1>1, <1>2, DialFrame DEF NwInv, NwTypeOK

\* DialTimesOut preserves the invariant.
LEMMA DialTimingOut ==
    ASSUME NwInv, DialTimesOut PROVE NwInv'
<1> USE DEF DialTimesOut
<1>1. DialTypes'
  BY DEF NwInv, NwTypeOK, DialTypes
<1>2. ReadyInv'
  BY DEF NwInv, ReadyInv
<1> QED BY <1>1, <1>2, DialFrame DEF NwInv, NwTypeOK

\* DialWakes preserves the invariant.
LEMMA DialWaking ==
    ASSUME NwInv, DialWakes PROVE NwInv'
<1> USE DEF DialWakes
<1>1. /\ ready' \in Sems
      /\ ready'.owners = ready.owners
      /\ ready'.freed = ready.freed
  BY CountedSem DEF NwInv, NwTypeOK, DialTypes
<1>2. DialTypes'
  BY <1>1 DEF NwInv, NwTypeOK, DialTypes
<1>3. ReadyInv'
  BY <1>1 DEF NwInv, ReadyInv
<1> QED BY <1>2, <1>3, DialFrame DEF NwInv, NwTypeOK

\* The handle comes into being before there is a call or a byte.
LEMMA DialReturning ==
    ASSUME NwInv, DialReturns PROVE NwInv'
<1>1. /\ dial \in {"settled", "timedOut"}
      /\ ready' = Dropped(ready)
      /\ dial' \in {"ok", "failed"}
      /\ handle' = (dial' = "ok")
      /\ framework' \in {framework, "cancelling"}
      /\ UNCHANGED <<settled, handler, mu, pc, pending, nwEof, opVars, got>>
  BY DEF DialReturns
<1>2. dial # "ok" /\ dial \notin {"ok", "failed"}
  BY <1>1
<1>3. ready.owners > 0
  <2>1. ready.owners = 1 + (IF settled # "none" /\ handler.at \notin {"signal", "drop"}
                            THEN 0 ELSE 1)
    BY <1>2 DEF NwInv, ReadyInv
  <2> QED BY <2>1
<1>4. /\ ready' \in Sems
      /\ ready'.owners = ready.owners - 1
      /\ ready'.freed <=> ready.owners = 1
  BY <1>1, <1>3, DroppedSem DEF NwInv, NwTypeOK, DialTypes
<1>5. DialTypes'
  BY <1>1, <1>4 DEF NwInv, NwTypeOK, DialTypes, NwStates
<1>6. ReadyInv'
  BY <1>1, <1>2, <1>4 DEF NwInv, ReadyInv
<1>7. GoTypes'
  BY <1>1 DEF NwInv, NwTypeOK, GoTypes
<1>8. \A g \in Callers : pc[g] = Idle
  BY <1>2 DEF NwInv, BeforeInv
<1>9. mu = {}
  BY <1>8 DEF NwInv, NwTypeOK, GoTypes, MutexInv, Idle
<1>10. MutexInv'
  BY <1>1, <1>8, <1>9 DEF NwInv, MutexInv, Idle
<1>11. BeforeInv'
  BY <1>1, <1>2 DEF NwInv, BeforeInv, opVars
<1>12. NoSilentLoss'
  BY <1>1, <1>2 DEF NwInv, BeforeInv, NoSilentLoss, opVars
<1>13. OpTypes' /\ QueueInv' /\ FrameworkInv' /\ OwnersInv' /\ ClaimInv' /\ OrderInv' /\ BytesInv'
  BY <1>1, CallsFrame DEF opVars
<1> QED BY <1>5, <1>6, <1>7, <1>10, <1>11, <1>12, <1>13 DEF NwInv, NwTypeOK

\* The verify block preserves the invariant.
LEMMA Verifying ==
    ASSUME NwInv, VerifyStarts \/ \E verdict : VerifyEnds(verdict) PROVE NwInv'
<1>1. UNCHANGED <<dial, ready, settled, framework, handler, goVars, opVars, got>>
  BY DEF VerifyStarts, VerifyEnds
<1>2. DialTypes' /\ ReadyInv'
  BY <1>1, DialTypesFrame, ReadyFrame DEF NwInv, NwTypeOK
<1> QED BY <1>1, <1>2, CallsFrame DEF NwInv, NwTypeOK, goVars, opVars

-----------------------------------------------------------------------------
(* The state handler.                                                      *)

\* An invocation of the state handler begins on an idle queue.
LEMMA StateChanging ==
    ASSUME NwInv, NEW s \in {"ready", "waiting", "preparing", "failed", "cancelled"},
           StateChanges(s)
    PROVE  NwInv'
<1>1. /\ queue = {} /\ framework' = s
      /\ \/ UNCHANGED <<queue, handler>>
         \/ queue' = {StateHandler} /\ handler' = [at |-> "claim", state |-> s]
      /\ UNCHANGED <<dial, ready, settled, goVars, ops, receives, sends, stream, got>>
  BY DEF StateChanges
<1>2. handler.at = "none"
  BY <1>1 DEF NwInv, QueueInv
<1>3. DialTypes'
  BY <1>1 DEF NwInv, NwTypeOK, DialTypes, NwStates
<1>4. ReadyInv'
  BY <1>1, <1>2 DEF NwInv, ReadyInv, NwStates
<1>5. OpTypes'
  BY <1>1 DEF NwInv, NwTypeOK, OpTypes
<1>6. QueueInv'
  BY <1>1, <1>2 DEF NwInv, QueueInv, StateHandler, Ops
<1> QED BY <1>1, <1>3, <1>4, <1>5, <1>6, CallsFrame DEF NwInv, NwTypeOK, goVars

\* The first invocation settles the dial, a later one leaves at once.
LEMMA HandlerClaiming ==
    ASSUME NwInv, HandlerClaims PROVE NwInv'
<1>1. /\ handler.at = "claim" /\ handler.state \in NwStates
      /\ StateHandler \in queue /\ \A x \in queue : x = StateHandler
  BY DEF HandlerClaims, NwInv, ReadyInv, QueueInv
<1>2. UNCHANGED <<dial, ready, framework, goVars, ops, receives, sends, stream, got>>
  BY DEF HandlerClaims
<1>3. CASE settled = "none"
  <2>1. /\ settled' = handler.state /\ handler' = [handler EXCEPT !.at = "signal"]
        /\ UNCHANGED queue
    BY <1>3 DEF HandlerClaims
  <2>2. handler' = [at |-> "signal", state |-> handler.state]
    BY <2>1 DEF NwInv, NwTypeOK, DialTypes
  <2>3. DialTypes'
    BY <1>1, <1>2, <2>1, <2>2 DEF NwInv, NwTypeOK, DialTypes
  <2>4. ReadyInv'
    BY <1>1, <1>2, <1>3, <2>1, <2>2 DEF NwInv, ReadyInv, NwStates
  <2>5. QueueInv'
    BY <1>1, <1>2, <2>1, <2>2 DEF NwInv, QueueInv
  <2> QED BY <1>2, <2>1, <2>3, <2>4, <2>5, CallsFrame DEF NwInv, NwTypeOK, goVars
<1>4. CASE settled # "none"
  <2>1. handler' = [at |-> "none", state |-> "none"] /\ queue' = {} /\ UNCHANGED settled
    BY <1>4 DEF HandlerClaims
  <2>2. DialTypes'
    BY <1>1, <1>2, <2>1 DEF NwInv, NwTypeOK, DialTypes
  <2>3. ReadyInv'
    BY <1>1, <1>2, <1>4, <2>1 DEF NwInv, ReadyInv
  <2>4. QueueInv'
    BY <1>1, <1>2, <2>1 DEF NwInv, QueueInv, StateHandler, Ops
  <2>5. OpTypes'
    BY <1>2, <2>1 DEF NwInv, NwTypeOK, OpTypes
  <2> QED BY <1>2, <2>2, <2>3, <2>4, <2>5, CallsFrame DEF NwInv, NwTypeOK, goVars
<1> QED BY <1>3, <1>4

\* HandlerSignals preserves the invariant.
LEMMA HandlerSignalling ==
    ASSUME NwInv, HandlerSignals PROVE NwInv'
<1>1. /\ handler.at = "signal"
      /\ ready' = Signalled(ready)
      /\ handler' = [at |-> "drop", state |-> handler.state]
      /\ UNCHANGED <<dial, settled, framework, goVars, opVars, got>>
  BY DEF HandlerSignals, NwInv, NwTypeOK, DialTypes
<1>2. /\ ready' \in Sems
      /\ ready'.owners = ready.owners
      /\ ready'.freed = ready.freed
  BY <1>1, CountedSem DEF NwInv, NwTypeOK, DialTypes
<1>3. DialTypes'
  BY <1>1, <1>2 DEF NwInv, NwTypeOK, DialTypes
<1>4. ReadyInv'
  BY <1>1, <1>2 DEF NwInv, ReadyInv
<1>5. QueueInv'
  BY <1>1 DEF NwInv, QueueInv, opVars
<1> QED BY <1>1, <1>3, <1>4, <1>5, CallsFrame DEF NwInv, NwTypeOK, goVars, opVars

\* The handler gives up its side of the semaphore once.
LEMMA HandlerDropping ==
    ASSUME NwInv, HandlerDrops PROVE NwInv'
<1>1. /\ handler.at = "drop"
      /\ ready' = Dropped(ready)
      /\ handler' = [at |-> "none", state |-> "none"]
      /\ queue' = {}
      /\ UNCHANGED <<dial, settled, framework, goVars, ops, receives, sends, stream, got>>
  BY DEF HandlerDrops
<1>2. settled # "none" /\ StateHandler \in queue /\ \A x \in queue : x = StateHandler
  BY <1>1 DEF NwInv, ReadyInv, QueueInv
<1>3. ready.owners > 0
  <2>1. ready.owners = (IF dial \in {"ok", "failed"} THEN 0 ELSE 1) + 1
    BY <1>1 DEF NwInv, ReadyInv
  <2> QED BY <2>1
<1>4. /\ ready' \in Sems
      /\ ready'.owners = ready.owners - 1
      /\ ready'.freed <=> ready.owners = 1
  BY <1>1, <1>3, DroppedSem DEF NwInv, NwTypeOK, DialTypes
<1>5. DialTypes'
  BY <1>1, <1>4 DEF NwInv, NwTypeOK, DialTypes
<1>6. ReadyInv'
  BY <1>1, <1>2, <1>4 DEF NwInv, ReadyInv
<1>7. QueueInv'
  BY <1>1, <1>2 DEF NwInv, QueueInv, StateHandler, Ops
<1>8. OpTypes'
  BY <1>1 DEF NwInv, NwTypeOK, OpTypes
<1> QED BY <1>1, <1>5, <1>6, <1>7, <1>8, CallsFrame DEF NwInv, NwTypeOK, goVars

-----------------------------------------------------------------------------
(* The callers.                                                            *)

\* A goroutine in a native call is the only one, and has an operation that
\* was started, on a connection that is open.
LEMMA InCallFacts ==
    ASSUME NwInv, NEW g \in Callers, pc[g].at \in InCall
    PROVE  /\ pc[g].op \in Ops /\ pc[g].op # 0 /\ Called(pc[g].op)
           /\ g \in mu /\ mu = {g}
           /\ handle /\ dial = "ok"
           /\ ops[pc[g].op] \in OpStates /\ ops[pc[g].op].kind # "none"
           /\ \A h \in Callers : h # g => pc[h].op = 0 /\ pc[h].at \notin InCall
           /\ \A o \in Ops : Called(o) <=> o = pc[g].op
<1>1. pc[g].op # 0 /\ pc[g].op \in Ops
  BY DEF NwInv, NwTypeOK, GoTypes, Places, MutexInv
<1>2. g \in mu
  BY <1>1 DEF NwInv, MutexInv
<1>3. mu = {g}
  BY <1>2 DEF NwInv, MutexInv
<1>4. handle /\ dial = "ok" /\ ops[pc[g].op].kind # "none"
  BY <1>2 DEF NwInv, MutexInv
<1>5. ops[pc[g].op] \in OpStates
  BY <1>1 DEF NwInv, NwTypeOK, OpTypes
<1>6. \A h \in Callers : h # g => pc[h].op = 0 /\ pc[h].at \notin InCall
  BY <1>3 DEF NwInv, MutexInv
<1>7. 0 \notin Ops
  BY DEF Ops
<1>8. \A o \in Ops : Called(o) <=> o = pc[g].op
  BY <1>6, <1>7 DEF Called
<1> QED BY <1>1, <1>2, <1>3, <1>4, <1>5, <1>6, <1>8

\* While nobody has the mutex there is no call.
LEMMA NobodyCalls ==
    ASSUME NwInv, mu = {}
    PROVE  /\ \A g \in Callers : pc[g].op = 0 /\ pc[g].at \notin InCall
           /\ \A o \in Ops : ~Called(o)
<1>1. \A g \in Callers : pc[g].op = 0 /\ pc[g].at \notin InCall
  BY DEF NwInv, MutexInv
<1>2. 0 \notin Ops
  BY DEF Ops
<1> QED BY <1>1, <1>2 DEF Called

\* A goroutine that moves outside of native calls changes nothing else.
LEMMA OutsideFrame ==
    ASSUME NwInv, dial = "ok", NEW g \in Callers, pc[g].at \notin InCall,
           NEW at \in {"idle", "lock"}, NEW call \in NwCalls \cup {"none"},
           pc' = [pc EXCEPT ![g] = [at |-> at, call |-> call, op |-> 0]],
           UNCHANGED <<dial, ready, settled, handler, mu, nwEof, opVars>>
    PROVE  /\ OpsKept /\ pc' \in [Callers -> Places]
           /\ UNCHANGED framework => DialTypes'
           /\ UNCHANGED got => OpTypes'
           /\ UNCHANGED <<pending, handle>> => GoTypes'
           /\ UNCHANGED handle => MutexInv'
           /\ QueueInv' /\ ReadyInv' /\ BeforeInv' /\ FrameworkInv' /\ OwnersInv' /\ ClaimInv'
<1> USE DEF opVars
<1>1. pc[g].op = 0 /\ pc[g].at \in {"idle", "lock"}
  BY DEF NwInv, MutexInv, NwTypeOK, GoTypes, Places
<1>2. /\ pc' \in [Callers -> Places]
      /\ pc'[g].at = at /\ pc'[g].op = 0
      /\ \A h \in Callers : h # g => pc'[h] = pc[h]
  BY DEF NwInv, NwTypeOK, GoTypes, Places
<1>3. OpsKept
  BY <1>1, <1>2 DEF OpsKept
<1>4. UNCHANGED framework => DialTypes'
  BY DialTypesFrame DEF NwInv, NwTypeOK
<1>5. UNCHANGED got => OpTypes'
  BY OpTypesFrame DEF NwInv, NwTypeOK
<1>6. UNCHANGED <<pending, handle>> => GoTypes'
  BY <1>2 DEF NwInv, NwTypeOK, GoTypes
<1>7. UNCHANGED handle => MutexInv'
  BY <1>1, <1>2 DEF NwInv, MutexInv, InCall
<1>8. QueueInv' /\ ReadyInv' /\ FrameworkInv' /\ OwnersInv'
  BY <1>3, QueueFrame, ReadyFrame, FrameworkFrame, OwnersFrame DEF NwInv
<1>9. BeforeInv'
  BY DEF BeforeInv
<1>10. ClaimInv'
  <2>1. \A o : Called(o)' <=> Called(o)
    BY <1>3, CalledKept
  <2>2. \A h \in mu : h \in Callers /\ h # g
    BY <1>1 DEF NwInv, NwTypeOK, GoTypes, MutexInv
  <2> QED BY <1>2, <2>1, <2>2 DEF NwInv, ClaimInv, Mine
<1> QED BY <1>2, <1>3, <1>4, <1>5, <1>6, <1>7, <1>8, <1>9, <1>10

\* Calls, and the calls that do nothing native.
LEMMA OutsideStep ==
    ASSUME NwInv, NEW g \in Callers,
           \/ \E call \in NwCalls : Calls(g, call)
           \/ SetsDeadline(g) \/ FailsAtOnce(g) \/ RecvEOF(g)
    PROVE  NwInv'
<1>1. dial = "ok" /\ pc[g].at \notin InCall
  <2>1. pc[g].at \in {"idle", "lock"}
    BY DEF Calls, SetsDeadline, FailsAtOnce, RecvEOF, Enters, Idle
  <2>2. dial = "ok"
    BY DEF Calls, SetsDeadline, FailsAtOnce, RecvEOF, Enters, NwInv, BeforeInv, Idle
  <2> QED BY <2>1, <2>2 DEF InCall
<1>2. PICK at \in {"idle", "lock"}, call \in NwCalls \cup {"none"} :
         pc' = [pc EXCEPT ![g] = [at |-> at, call |-> call, op |-> 0]]
  BY DEF Calls, SetsDeadline, FailsAtOnce, RecvEOF, Leaves, Idle
<1>3. UNCHANGED <<dialVars, mu, handle, pending, nwEof, opVars, got>>
  BY DEF Calls, SetsDeadline, FailsAtOnce, RecvEOF
<1>4. /\ OpsKept /\ NwTypeOK' /\ MutexInv'
      /\ QueueInv' /\ ReadyInv' /\ BeforeInv' /\ FrameworkInv' /\ OwnersInv' /\ ClaimInv'
  BY <1>1, <1>2, <1>3, OutsideFrame DEF dialVars, NwTypeOK
<1>5. OrderInv' /\ BytesInv' /\ NoSilentLoss'
  BY <1>3, <1>4, OrderFrame, BytesFrame, NoSilentLossFrame DEF NwInv, opVars
<1> QED BY <1>4, <1>5 DEF NwInv

\* A Close has the mutex, so there is no call.
LEMMA Closing ==
    ASSUME NwInv, NEW g \in Callers, Close(g) PROVE NwInv'
<1>1. /\ pc[g].at = "lock" /\ mu = {}
      /\ pc' = [pc EXCEPT ![g] = [at |-> "idle", call |-> "none", op |-> 0]]
      /\ framework' \in {framework, "cancelling"}
      /\ \/ pending' = <<>> /\ handle' = FALSE
         \/ UNCHANGED <<pending, handle>>
      /\ UNCHANGED <<dial, ready, settled, handler, mu, nwEof, opVars, got>>
  BY DEF Close, Enters, Leaves, Idle
<1>2. dial = "ok" /\ pc[g].at \notin InCall
  BY <1>1 DEF NwInv, BeforeInv, Idle, InCall
<1>3. /\ OpsKept /\ OpTypes' /\ pc' \in [Callers -> Places]
      /\ UNCHANGED handle => MutexInv'
      /\ QueueInv' /\ ReadyInv' /\ BeforeInv' /\ FrameworkInv' /\ OwnersInv' /\ ClaimInv'
  BY <1>1, <1>2, OutsideFrame
<1>4. DialTypes'
  BY <1>1 DEF NwInv, NwTypeOK, DialTypes, NwStates
<1>5. GoTypes'
  <2>0. pending' = <<>> \/ pending' = pending
    BY <1>1, Zenon
  <2>1. pending' \in Seq(Nat)
    <3>1. pending \in Seq(Nat) /\ <<>> \in Seq(Nat)
      BY DEF NwInv, NwTypeOK, GoTypes
    <3> QED BY <2>0, <3>1
  <2>2. handle' \in BOOLEAN
    BY <1>1, Zenon DEF NwInv, NwTypeOK, GoTypes
  <2> QED BY <1>1, <1>3, <2>1, <2>2 DEF NwInv, NwTypeOK, GoTypes
<1>6. MutexInv'
  BY <1>1, <1>2, <1>3 DEF NwInv, NwTypeOK, GoTypes, MutexInv, InCall
<1>7. OrderInv'
  <2>1. \A o : Called(o)' <=> Called(o)
    BY <1>3, CalledKept
  <2> QED BY <1>1, <2>1 DEF NwInv, OrderInv, Increasing, Below, UpTo, opVars
<1>8. BytesInv'
  <2>1. \A o \in Ops : ~Called(o)
    BY <1>1, NobodyCalls
  <2>2. \A o : Called(o)' <=> Called(o)
    BY <1>3, CalledKept
  <2> QED BY <1>1, <2>1, <2>2 DEF NwInv, BytesInv, opVars
<1>9. NoSilentLoss'
  <2>1. CASE handle' = FALSE
    BY <1>1, <2>1 DEF NwInv, NoSilentLoss
  <2>2. CASE UNCHANGED <<pending, handle>>
    BY <1>1, <1>3, <2>2, NoSilentLossFrame DEF NwInv, opVars
  <2> QED BY <1>1, <2>1, <2>2
<1> QED BY <1>3, <1>4, <1>5, <1>6, <1>7, <1>8, <1>9 DEF NwInv, NwTypeOK


-----------------------------------------------------------------------------
(* An operation changes, and keeps its kind and its bytes.                 *)

\* The parts of the invariant that a step of an operation p, to n, preserves.
LEMMA OpFrame ==
    ASSUME NwInv, NEW p \in Ops, NEW n \in OpStates, ops' = [ops EXCEPT ![p] = n],
           dial = "ok", n.kind = ops[p].kind, n.side = "none" <=> ops[p].side = "none",
           UNCHANGED <<dialVars, handle, receives, sends>>
    PROVE  /\ ops' \in [Ops -> OpStates] /\ ops'[p] = n
           /\ \A q \in Ops : q # p => ops'[q] = ops[q]
           /\ \A q \in Ops : ops'[q].kind = ops[q].kind
           /\ DialTypes' /\ ReadyInv' /\ BeforeInv' /\ FrameworkInv'
           /\ /\ OpsKept /\ UNCHANGED mu
              /\ \A g \in Callers : pc'[g].at \in InCall <=> pc[g].at \in InCall
              => MutexInv'
<1>1. /\ ops' \in [Ops -> OpStates] /\ ops'[p] = n
      /\ \A q \in Ops : q # p => ops'[q] = ops[q]
      /\ \A q \in Ops : ops'[q].kind = ops[q].kind
  BY DEF NwInv, NwTypeOK, OpTypes
<1>2. DialTypes' /\ ReadyInv'
  BY DialTypesFrame, ReadyFrame DEF NwInv, NwTypeOK, dialVars
<1>3. BeforeInv'
  BY DEF BeforeInv, dialVars
<1>4. FrameworkInv'
  <2>1. /\ \A i \in DOMAIN receives : receives[i] \in Ops
        /\ \A i \in DOMAIN sends : sends[i] \in Ops
    BY DEF NwInv, NwTypeOK, OpTypes
  <2>2. \A q \in Ops : ops[q].side = "none" => ops'[q].side = "none"
    BY <1>1
  <2> QED BY <1>1, <2>1, <2>2 DEF NwInv, FrameworkInv, Waiting
<1>5. /\ OpsKept /\ UNCHANGED mu
      /\ \A g \in Callers : pc'[g].at \in InCall <=> pc[g].at \in InCall
      => MutexInv'
  <2> SUFFICES ASSUME OpsKept, UNCHANGED mu,
                      \A g \in Callers : pc'[g].at \in InCall <=> pc[g].at \in InCall
               PROVE  MutexInv'
    OBVIOUS
  <2>1. \A g \in mu : g \in Callers /\ pc[g].op \in Ops
    BY DEF NwInv, NwTypeOK, GoTypes, Places, MutexInv
  <2> QED BY <1>1, <2>1 DEF NwInv, MutexInv, OpsKept, dialVars
<1> QED BY <1>1, <1>2, <1>3, <1>4, <1>5

\* Nothing of the bytes changes, and no call begins.
LEMMA DataFrame ==
    ASSUME NwInv, NEW p \in Ops, NEW n \in OpStates, ops' = [ops EXCEPT ![p] = n],
           SameBytes(n, ops[p]), \A o \in Ops : Called(o)' => Called(o),
           UNCHANGED <<got, pending, stream>>
    PROVE  OrderInv'
<1>1. \A o \in Ops : SameBytes(ops'[o], ops[o])
  BY DEF NwInv, NwTypeOK, OpTypes, SameBytes
<1> QED BY <1>1 DEF NwInv, OrderInv, SameBytes, Increasing, Below, UpTo

\* A caller moves within its call: it times out, claims or wakes.
LEMMA Moving ==
    ASSUME NwInv, NEW g \in Callers, pc[g].at \in InCall, NEW at \in InCall, NEW n \in OpStates,
           pc' = [pc EXCEPT ![g].at = at], ops' = [ops EXCEPT ![pc[g].op] = n],
           SameBytes(n, Mine(g)), n.side = Mine(g).side, n.lost = Mine(g).lost,
           n.claim = Mine(g).claim \/ (Mine(g).claim = "none" /\ n.claim = "caller"),
           n.sem.owners = Mine(g).sem.owners, n.sem.freed = Mine(g).sem.freed,
           n.sem.count > 0 => Mine(g).sem.count > 0,
           at = "drop" => n.side \in {"drop", "done"},
           at = "leave" => n.kind = "send" \/ n.claim = "caller",
           at \in {"claim", "waitForever"} => n.kind = "recv",
           UNCHANGED <<dialVars, mu, handle, pending, nwEof, queue, receives, sends, stream, got>>
    PROVE  NwInv'
<1>0. PICK p \in Ops : p = pc[g].op
  BY InCallFacts
<1>1. /\ p \in Ops /\ g \in mu /\ mu = {g} /\ dial = "ok" /\ handle /\ Called(p)
      /\ ops[p] \in OpStates /\ ops[p].kind # "none"
  BY <1>0, InCallFacts
<1>2. n.kind = ops[p].kind /\ Mine(g) = ops[p]
  BY <1>0 DEF SameBytes, Mine
<1>3. /\ pc' \in [Callers -> Places]
      /\ pc'[g].at = at /\ pc'[g].op = p
      /\ \A h \in Callers : h # g => pc'[h] = pc[h]
  BY <1>0 DEF NwInv, NwTypeOK, GoTypes, Places
<1>4. OpsKept
  BY <1>3 DEF OpsKept
<1>5. \A o : Called(o)' <=> Called(o)
  BY <1>4, CalledKept
<1>6. \A h \in Callers : pc'[h].at \in InCall <=> pc[h].at \in InCall
  BY <1>3
<1>7. /\ ops' \in [Ops -> OpStates] /\ ops'[p] = n
      /\ \A q \in Ops : q # p => ops'[q] = ops[q]
      /\ DialTypes' /\ ReadyInv' /\ BeforeInv' /\ FrameworkInv' /\ MutexInv'
  BY <1>0, <1>1, <1>2, <1>4, <1>6, OpFrame
<1>8. GoTypes'
  BY <1>3 DEF NwInv, NwTypeOK, GoTypes
<1>9. OpTypes'
  BY <1>7 DEF NwInv, NwTypeOK, OpTypes
<1>10. QueueInv'
  BY <1>1, <1>2, <1>7 DEF NwInv, QueueInv, dialVars
<1>11. OwnersInv'
  BY <1>1, <1>2, <1>5, <1>7 DEF NwInv, OwnersInv
<1>12. ClaimInv'
  <2>1. \A o \in Ops : o # p =>
          /\ ops'[o].kind = "none" => ops'[o] = NoOp
          /\ ops'[o].sem.count > 0 => ops'[o].side \in {"drop", "done"}
          /\ ops'[o].side \in {"claim", "copy"} => ops'[o].kind = "recv"
          /\ ops'[o].side = "copy" => ops'[o].claim = "block"
          /\ ops'[o].claim = "block" => ops'[o].side \in {"copy", "signal", "drop", "done"}
          /\ ops'[o].kind = "recv" /\ ~Called(o)' =>
                ops'[o].side \in {"drop", "done"} \/ ops'[o].claim = "caller"
    BY <1>5, <1>7 DEF NwInv, ClaimInv
  <2>2. /\ n.kind # "none"
        /\ n.sem.count > 0 => n.side \in {"drop", "done"}
        /\ n.side \in {"claim", "copy"} => n.kind = "recv"
        /\ n.side = "copy" => n.claim = "block"
        /\ n.claim = "block" => n.side \in {"copy", "signal", "drop", "done"}
        /\ Called(p)'
    BY <1>1, <1>2, <1>5 DEF NwInv, ClaimInv
  <2>3. mu' = {g} /\ Mine(g)' = n /\ pc'[g].at = at
    BY <1>1, <1>3, <1>7 DEF Mine
  <2> QED BY <1>7, <2>1, <2>2, <2>3 DEF ClaimInv
<1>13. OrderInv'
  BY <1>0, <1>1, <1>2, <1>5, DataFrame
<1>14. BytesInv'
  BY <1>1, <1>2, <1>5, <1>7 DEF NwInv, BytesInv, SameBytes
<1>15. NoSilentLoss'
  <2>1. \A o \in Ops : /\ ops'[o].content = ops[o].content /\ ops'[o].kind = ops[o].kind
                       /\ ops[o].lost => ops'[o].lost
                       /\ ops[o].claim = "caller" => ops'[o].claim = "caller"
    BY <1>2, <1>7 DEF SameBytes
  <2> QED BY <1>4, <2>1 DEF NwInv, NoSilentLoss, Started, OpsKept
<1> QED BY <1>7, <1>8, <1>9, <1>10, <1>11, <1>12, <1>13, <1>14, <1>15 DEF NwInv, NwTypeOK

\* A timeout, a claim and a wake-up are such moves.
LEMMA MovingCaller ==
    ASSUME NwInv, NEW g \in Callers, TimesOut(g) \/ RecvClaims(g) \/ Wakes(g) PROVE NwInv'
<1>1. pc[g].at \in InCall /\ pc[g].at # "leave"
  BY DEF TimesOut, RecvClaims, Wakes, InCall
<1>2. /\ pc[g].op \in Ops /\ Mine(g) \in OpStates /\ Mine(g).kind # "none"
      /\ ops = [ops EXCEPT ![pc[g].op] = Mine(g)] /\ g \in mu
  BY <1>1, InCallFacts DEF Mine, NwInv, NwTypeOK, OpTypes
<1>3. UNCHANGED <<dialVars, mu, handle, pending, nwEof, queue, receives, sends, stream, got>>
  BY DEF TimesOut, RecvClaims, Wakes, opVars
<1>4. SameBytes(Mine(g), Mine(g))
  BY DEF SameBytes
<1>5. CASE TimesOut(g)
  <2>1. PICK at \in {"claim", "leave"} :
           /\ pc' = [pc EXCEPT ![g].at = at] /\ UNCHANGED ops
           /\ at = "claim" <=> Mine(g).kind = "recv"
    BY <1>5 DEF TimesOut, Moves, opVars
  <2>2. at = "leave" => Mine(g).kind = "send"
    BY <1>2, <2>1 DEF OpStates
  <2> QED BY <1>1, <1>2, <1>3, <1>4, <2>1, <2>2, Moving DEF InCall
<1>6. CASE RecvClaims(g) /\ Mine(g).claim = "none"
  <2>1. PICK n : n = [Mine(g) EXCEPT !.claim = "caller"]
    OBVIOUS
  <2>2. ops' = [ops EXCEPT ![pc[g].op] = n] /\ pc' = [pc EXCEPT ![g].at = "leave"]
    BY <1>6, <2>1 DEF RecvClaims, Sets, Moves
  <2>3. PICK s \in Sems : TRUE
    BY <1>2 DEF OpStates
  <2>4. /\ n \in OpStates /\ SameBytes(n, Mine(g)) /\ n.sem = Mine(g).sem
        /\ n.claim = "caller" /\ n.side = Mine(g).side /\ n.lost = Mine(g).lost
    BY <1>2, <2>1, <2>3, OpUpdates
  <2> QED BY <1>1, <1>2, <1>3, <1>6, <2>2, <2>4, Moving DEF InCall
<1>7. CASE RecvClaims(g) /\ Mine(g).claim # "none"
  <2>1. pc[g].at = "claim" /\ pc' = [pc EXCEPT ![g].at = "waitForever"] /\ UNCHANGED ops
    BY <1>7 DEF RecvClaims, Moves
  <2>2. Mine(g).kind = "recv"
    BY <1>2, <2>1 DEF NwInv, ClaimInv
  <2> QED BY <1>1, <1>2, <1>3, <1>4, <2>1, <2>2, Moving DEF InCall
<1>8. CASE Wakes(g)
  <2>1. PICK n : n = [Mine(g) EXCEPT !.sem = Waited(Mine(g).sem)]
    OBVIOUS
  <2>2. /\ ops' = [ops EXCEPT ![pc[g].op] = n] /\ pc' = [pc EXCEPT ![g].at = "drop"]
        /\ Mine(g).sem.count > 0
    BY <1>8, <2>1 DEF Wakes, Sets, Moves
  <2>3. Mine(g).sem \in Sems
    BY <1>2 DEF OpStates
  <2>4. /\ Waited(Mine(g).sem) \in Sems
        /\ Waited(Mine(g).sem).owners = Mine(g).sem.owners
        /\ Waited(Mine(g).sem).freed = Mine(g).sem.freed
    BY <2>2, <2>3, CountedSem
  <2>5. /\ n \in OpStates /\ SameBytes(n, Mine(g)) /\ n.sem = Waited(Mine(g).sem)
        /\ n.claim = Mine(g).claim /\ n.side = Mine(g).side /\ n.lost = Mine(g).lost
    <3>1. PICK s \in Sems : s = Waited(Mine(g).sem)
      BY <2>4
    <3>2. PICK r \in OpStates : r = Mine(g)
      BY <1>2
    <3>3. n = [r EXCEPT !.sem = s]
      BY <2>1, <3>1, <3>2
    <3> QED BY <3>1, <3>2, <3>3 DEF OpStates, SameBytes
  <2>6. n.side \in {"drop", "done"}
    BY <1>2, <2>2, <2>5 DEF NwInv, ClaimInv, Mine
  <2> QED BY <1>1, <1>2, <1>3, <2>2, <2>4, <2>5, <2>6, Moving DEF InCall
<1> QED BY <1>5, <1>6, <1>7, <1>8

-----------------------------------------------------------------------------
(* The blocks.                                                             *)

\* An operation that the framework answered was started.
LEMMA AnsweredFacts ==
    ASSUME NwInv, NEW o \in Ops, ops[o].side # "none"
    PROVE  ops[o] \in OpStates /\ ops[o].kind # "none" /\ dial = "ok"
<1>1. NoOp.side = "none"
  BY DEF NoOp
<1> QED BY <1>1 DEF NwInv, ClaimInv, BeforeInv, NwTypeOK, OpTypes

\* A block o that runs moves to n.
LEMMA BlockMoving ==
    ASSUME NwInv, NEW o \in Ops, NEW n \in OpStates, ops[o].side \in Running,
           ops' = [ops EXCEPT ![o] = n], n.kind = ops[o].kind,
           n.claim = ops[o].claim \/ (ops[o].claim = "none" /\ n.claim = "block"),
           \/ /\ n.side \in Running /\ UNCHANGED queue
              /\ n.sem.owners = ops[o].sem.owners /\ n.sem.freed = ops[o].sem.freed
           \/ /\ n.side = "done" /\ queue' = {}
              /\ n.sem.owners = ops[o].sem.owners - 1
              /\ n.sem.freed <=> ops[o].sem.owners = 1,
           ops[o].side = "drop" => n.side = "done",
           n.sem.count > 0 => n.side \in {"drop", "done"},
           n.side \in {"claim", "copy"} => n.kind = "recv",
           n.side = "copy" => n.claim = "block",
           n.claim = "block" => n.side \in {"copy", "signal", "drop", "done"},
           UNCHANGED <<dialVars, goVars, receives, sends, stream, got>>
    PROVE  /\ NwTypeOK' /\ QueueInv' /\ ReadyInv' /\ MutexInv' /\ BeforeInv' /\ FrameworkInv'
           /\ OwnersInv' /\ ClaimInv'
           /\ ops'[o] = n /\ (\A q \in Ops : q # o => ops'[q] = ops[q])
           /\ \A q : Called(q)' <=> Called(q)
<1>1. /\ ops[o] \in OpStates /\ ops[o].kind # "none" /\ dial = "ok"
      /\ ops[o].side # "none" /\ n.side # "none"
  BY AnsweredFacts DEF Running
<1>2. UNCHANGED <<mu, pc, handle, pending, nwEof>>
  BY DEF goVars
<1>3. OpsKept
  BY <1>2, PcKept
<1>4. \A q : Called(q)' <=> Called(q)
  BY <1>3, CalledKept
<1>5. /\ ops' \in [Ops -> OpStates] /\ ops'[o] = n
      /\ \A q \in Ops : q # o => ops'[q] = ops[q]
      /\ DialTypes' /\ ReadyInv' /\ BeforeInv' /\ FrameworkInv' /\ MutexInv'
  BY <1>1, <1>2, <1>3, OpFrame
<1>6. GoTypes'
  BY <1>2, GoTypesFrame DEF NwInv, NwTypeOK
<1>7. OpTypes'
  BY <1>5 DEF NwInv, NwTypeOK, OpTypes
<1>8. QueueInv'
  <2>1. o \in queue /\ \A x \in queue : x = o
    BY DEF NwInv, QueueInv
  <2>2. o # StateHandler
    BY DEF Ops, StateHandler
  <2>3. handler.at = "none" /\ UNCHANGED handler
    BY <2>1, <2>2 DEF NwInv, QueueInv, dialVars
  <2>4. CASE n.side \in Running /\ UNCHANGED queue
    BY <1>5, <2>1, <2>3, <2>4 DEF NwInv, QueueInv
  <2>5. CASE n.side = "done" /\ queue' = {}
    BY <1>5, <2>1, <2>3, <2>5 DEF NwInv, QueueInv, Running
  <2> QED BY <2>4, <2>5
<1>9. OwnersInv'
  <2>1. \A q \in Ops : q # o /\ ops'[q].kind # "none" =>
          /\ ops'[q].sem.owners = (IF Called(q)' THEN 1 ELSE 0)
                               + (IF ops'[q].side = "done" THEN 0 ELSE 1)
          /\ ops'[q].sem.freed <=> ops'[q].sem.owners = 0
    BY <1>4, <1>5 DEF NwInv, OwnersInv
  <2>2. /\ ops[o].sem.owners = (IF Called(o) THEN 1 ELSE 0) + 1
        /\ ops[o].sem.freed <=> ops[o].sem.owners = 0
    BY <1>1 DEF NwInv, OwnersInv, Running
  <2>3. /\ n.sem.owners = (IF Called(o) THEN 1 ELSE 0) + (IF n.side = "done" THEN 0 ELSE 1)
        /\ n.sem.freed <=> n.sem.owners = 0
    BY <2>2 DEF Running
  <2> QED BY <1>4, <1>5, <2>1, <2>3 DEF OwnersInv
<1>10. ClaimInv'
  <2>1. \A q \in Ops : q # o =>
          /\ ops'[q].kind = "none" => ops'[q] = NoOp
          /\ ops'[q].sem.count > 0 => ops'[q].side \in {"drop", "done"}
          /\ ops'[q].side \in {"claim", "copy"} => ops'[q].kind = "recv"
          /\ ops'[q].side = "copy" => ops'[q].claim = "block"
          /\ ops'[q].claim = "block" => ops'[q].side \in {"copy", "signal", "drop", "done"}
          /\ ops'[q].kind = "recv" /\ ~Called(q)' =>
                ops'[q].side \in {"drop", "done"} \/ ops'[q].claim = "caller"
    BY <1>4, <1>5 DEF NwInv, ClaimInv
  <2>2. n.kind = "recv" /\ ~Called(o) => n.side \in {"drop", "done"} \/ n.claim = "caller"
    BY <1>1 DEF NwInv, ClaimInv, Running
  <2>3. \A g \in mu : /\ pc'[g].at = "drop" => Mine(g)'.side \in {"drop", "done"}
                      /\ pc'[g].at = "leave" => Mine(g)'.kind = "send" \/ Mine(g)'.claim = "caller"
                      /\ pc'[g].at \in {"claim", "waitForever"} => Mine(g)'.kind = "recv"
    <3> TAKE g \in mu
    <3>1. pc[g].op \in Ops
      BY DEF NwInv, NwTypeOK, GoTypes, Places, MutexInv
    <3>2. CASE pc[g].op = o
      BY <1>2, <1>5, <3>2 DEF NwInv, ClaimInv, Mine, Running
    <3>3. CASE pc[g].op # o
      BY <1>2, <1>5, <3>1, <3>3 DEF NwInv, ClaimInv, Mine
    <3> QED BY <3>2, <3>3
  <2> QED BY <1>1, <1>2, <1>4, <1>5, <2>1, <2>2, <2>3 DEF ClaimInv
<1> QED BY <1>4, <1>5, <1>6, <1>7, <1>8, <1>9, <1>10 DEF NwTypeOK

\* A block that claims, signals or drops has nothing to do with the bytes.
LEMMA BlockSameBytes ==
    ASSUME NwInv, NEW o \in Ops, NEW n \in OpStates, ops' = [ops EXCEPT ![o] = n],
           SameBytes(n, ops[o]), n.lost = ops[o].lost, ops[o].side \in Running,
           n.claim = ops[o].claim \/ (ops[o].claim = "none" /\ n.claim = "block"),
           \/ ops[o].side = "claim" /\ n.side = "copy"
           \/ ops[o].side = "claim" /\ n.claim = "caller"
           \/ ops[o].side \in {"signal", "drop"},
           n.side # "none",
           UNCHANGED <<goVars, stream, got>>
    PROVE  OrderInv' /\ BytesInv' /\ NoSilentLoss'
<1>1. UNCHANGED <<mu, pc, handle, pending, nwEof>>
  BY DEF goVars
<1>2. \A q : Called(q)' <=> Called(q)
  BY <1>1 DEF Called
<1>3. OrderInv'
  BY <1>1, <1>2, DataFrame
<1>4. ops'[o] = n /\ \A q \in Ops : q # o => ops'[q] = ops[q]
  BY DEF NwInv, NwTypeOK, OpTypes
<1>5. BytesInv'
  <2>1. \A q \in Ops : ops'[q].content = ops[q].content /\ ops'[q].copied = ops[q].copied
                       /\ ops'[q].spill = ops[q].spill /\ ops'[q].kind = ops[q].kind
                       /\ ops'[q].lost = ops[q].lost
    BY <1>4 DEF SameBytes
  <2>2. \A q \in Ops : /\ ops'[q].side = "none" => ops[q].side = "none"
                       /\ ops'[q].side \in {"signal", "drop", "done"} /\ ops'[q].claim # "caller"
                          => ops[q].side \in {"signal", "drop", "done"} /\ ops[q].claim # "caller"
    <3>1. ops[o].side # "none"
      BY DEF Running
    <3>2. n.side \in {"signal", "drop", "done"} /\ n.claim # "caller"
             => ops[o].side \in {"signal", "drop", "done"} /\ ops[o].claim # "caller"
      OBVIOUS
    <3> QED BY <1>4, <3>1, <3>2
  <2> QED BY <1>1, <1>2, <2>1, <2>2 DEF NwInv, BytesInv
<1>6. NoSilentLoss'
  <2>1. \A q \in Ops : /\ ops'[q].content = ops[q].content /\ ops'[q].kind = ops[q].kind
                       /\ ops[q].lost => ops'[q].lost
                       /\ ops[q].claim = "caller" => ops'[q].claim = "caller"
    BY <1>4 DEF SameBytes
  <2> QED BY <1>1, <2>1 DEF NwInv, NoSilentLoss, Started
<1> QED BY <1>3, <1>5, <1>6

\* A block finds the claim free, or its caller has it and has left or leaves.
LEMMA BlockClaiming ==
    ASSUME NwInv, NEW o \in Ops, BlockClaims(o) PROVE NwInv'
<1>1. /\ ops[o].side = "claim" /\ ops[o].side \in Running
      /\ UNCHANGED <<dialVars, goVars, receives, sends, stream, got, queue>>
  BY DEF BlockClaims, BlockStep, Running
<1>2. ops[o] \in OpStates /\ ops[o].kind = "recv" /\ ops[o].claim # "block" /\ ~(ops[o].sem.count > 0)
  BY <1>1, AnsweredFacts DEF NwInv, ClaimInv
<1>3. CASE ops[o].claim = "none"
  <2>1. PICK n : n = [ops[o] EXCEPT !.claim = "block", !.side = "copy"]
    OBVIOUS
  <2>2. ops' = [ops EXCEPT ![o] = n]
    BY <1>3, <2>1 DEF BlockClaims, BlockStep
  <2>3. /\ n \in OpStates /\ SameBytes(n, ops[o]) /\ n.sem = ops[o].sem
        /\ n.claim = "block" /\ n.side = "copy" /\ n.lost = ops[o].lost
    BY <1>2, <2>1 DEF OpStates, SameBytes
  <2>4. n.kind = ops[o].kind
    BY <2>3 DEF SameBytes
  <2>5. OrderInv' /\ BytesInv' /\ NoSilentLoss'
    BY <1>1, <1>3, <2>2, <2>3, BlockSameBytes
  <2>6. /\ NwTypeOK' /\ QueueInv' /\ ReadyInv' /\ MutexInv' /\ BeforeInv' /\ FrameworkInv'
        /\ OwnersInv' /\ ClaimInv'
    BY <1>1, <1>2, <1>3, <2>2, <2>3, <2>4, BlockMoving DEF Running
  <2> QED BY <2>5, <2>6 DEF NwInv
<1>4. CASE ops[o].claim # "none"
  <2>0. ops[o].claim = "caller"
    BY <1>2, <1>4 DEF OpStates
  <2>1. PICK n : n = [ops[o] EXCEPT !.side = "signal"]
    OBVIOUS
  <2>2. ops' = [ops EXCEPT ![o] = n]
    BY <1>4, <2>1 DEF BlockClaims, BlockStep
  <2>3. /\ n \in OpStates /\ SameBytes(n, ops[o]) /\ n.sem = ops[o].sem
        /\ n.claim = ops[o].claim /\ n.side = "signal" /\ n.lost = ops[o].lost
    BY <1>2, <2>1 DEF OpStates, SameBytes
  <2>4. n.kind = ops[o].kind
    BY <2>3 DEF SameBytes
  <2>5. OrderInv' /\ BytesInv' /\ NoSilentLoss'
    BY <1>1, <2>0, <2>2, <2>3, BlockSameBytes
  <2>6. /\ NwTypeOK' /\ QueueInv' /\ ReadyInv' /\ MutexInv' /\ BeforeInv' /\ FrameworkInv'
        /\ OwnersInv' /\ ClaimInv'
    BY <1>1, <1>2, <2>0, <2>2, <2>3, <2>4, BlockMoving DEF Running
  <2> QED BY <2>5, <2>6 DEF NwInv
<1> QED BY <1>3, <1>4

\* BlockSignals preserves the invariant.
LEMMA BlockSignalling ==
    ASSUME NwInv, NEW o \in Ops, BlockSignals(o) PROVE NwInv'
<1>1. /\ ops[o].side = "signal" /\ ops[o].side \in Running
      /\ UNCHANGED <<dialVars, goVars, receives, sends, stream, got, queue>>
  BY DEF BlockSignals, BlockStep, Running
<1>2. ops[o] \in OpStates /\ ops[o].sem \in Sems
  BY <1>1, AnsweredFacts DEF OpStates
<1>3. PICK s \in Sems : /\ s = Signalled(ops[o].sem)
                        /\ s.owners = ops[o].sem.owners /\ s.freed = ops[o].sem.freed
  BY <1>2, CountedSem
<1>4. PICK n : n = [ops[o] EXCEPT !.sem = s, !.side = "drop"]
  OBVIOUS
<1>5. ops' = [ops EXCEPT ![o] = n]
  BY <1>3, <1>4 DEF BlockSignals, BlockStep
<1>6. /\ n \in OpStates /\ SameBytes(n, ops[o]) /\ n.sem = s
      /\ n.claim = ops[o].claim /\ n.side = "drop" /\ n.lost = ops[o].lost
  BY <1>2, <1>4 DEF OpStates, SameBytes
<1>7. n.kind = ops[o].kind
  BY <1>6 DEF SameBytes
<1>8. OrderInv' /\ BytesInv' /\ NoSilentLoss'
  BY <1>1, <1>5, <1>6, BlockSameBytes
<1>9. /\ NwTypeOK' /\ QueueInv' /\ ReadyInv' /\ MutexInv' /\ BeforeInv' /\ FrameworkInv'
      /\ OwnersInv' /\ ClaimInv'
  BY <1>1, <1>3, <1>5, <1>6, <1>7, BlockMoving DEF Running
<1> QED BY <1>8, <1>9 DEF NwInv

\* The block gives up its side of the semaphore once.
LEMMA BlockDropping ==
    ASSUME NwInv, NEW o \in Ops, BlockDrops(o) PROVE NwInv'
<1>1. /\ ops[o].side = "drop" /\ ops[o].side \in Running /\ queue' = {}
      /\ UNCHANGED <<dialVars, goVars, receives, sends, stream, got>>
  BY DEF BlockDrops, BlockStep, Running
<1>2. ops[o] \in OpStates /\ ops[o].sem \in Sems /\ ops[o].sem.owners > 0
  <2>1. ops[o] \in OpStates /\ ops[o].kind # "none"
    BY <1>1, AnsweredFacts
  <2>2. ops[o].sem.owners = (IF Called(o) THEN 1 ELSE 0) + 1
    BY <1>1, <2>1 DEF NwInv, OwnersInv
  <2> QED BY <2>1, <2>2 DEF OpStates
<1>3. PICK s \in Sems : /\ s = Dropped(ops[o].sem) /\ s.owners = ops[o].sem.owners - 1
                        /\ s.freed <=> ops[o].sem.owners = 1
  BY <1>2, DroppedSem
<1>4. PICK n : n = [ops[o] EXCEPT !.sem = s, !.side = "done"]
  OBVIOUS
<1>5. ops' = [ops EXCEPT ![o] = n]
  BY <1>3, <1>4 DEF BlockDrops, BlockStep
<1>6. /\ n \in OpStates /\ SameBytes(n, ops[o]) /\ n.sem = s
      /\ n.claim = ops[o].claim /\ n.side = "done" /\ n.lost = ops[o].lost
  BY <1>2, <1>4 DEF OpStates, SameBytes
<1>7. n.kind = ops[o].kind
  BY <1>6 DEF SameBytes
<1>8. OrderInv' /\ BytesInv' /\ NoSilentLoss'
  BY <1>1, <1>5, <1>6, BlockSameBytes
<1>9. /\ NwTypeOK' /\ QueueInv' /\ ReadyInv' /\ MutexInv' /\ BeforeInv' /\ FrameworkInv'
      /\ OwnersInv' /\ ClaimInv'
  BY <1>1, <1>3, <1>5, <1>6, <1>7, BlockMoving DEF Running
<1> QED BY <1>8, <1>9 DEF NwInv

\* The copy: its caller is there, and the content is cut in two.
LEMMA BlockCopying ==
    ASSUME NwInv, NEW o \in Ops, NEW memory \in BOOLEAN, BlockCopies(o, memory) PROVE NwInv'
<1>1. /\ ops[o].side = "copy" /\ ops[o].side \in Running
      /\ UNCHANGED <<dialVars, goVars, receives, sends, stream, got, queue>>
  BY DEF BlockCopies, BlockStep, Running
<1>2. /\ ops[o] \in OpStates /\ ops[o].kind = "recv" /\ ops[o].claim = "block"
      /\ ~(ops[o].sem.count > 0) /\ Called(o)
  BY <1>1, AnsweredFacts DEF NwInv, ClaimInv
<1>3. PICK c \in Seq(Nat) : c = ops[o].content
  BY <1>2 DEF OpStates
<1>4. PICK m \in 0 .. Len(c) :
         m = IF ops[o].len < Len(ops[o].content) THEN ops[o].len ELSE Len(ops[o].content)
  <2>1. ops[o].len \in Nat /\ Len(c) \in Nat
    BY <1>2, <1>3 DEF OpStates
  <2> QED BY <1>3, <2>1
<1>5. PICK a \in Seq(Nat), b \in Seq(Nat) : a = SubSeq(c, 1, m) /\ b = SubSeq(c, m + 1, Len(c))
  BY SplitSeq
<1>6. PICK spill \in Seq(Nat) : /\ spill = IF memory THEN b ELSE <<>>
                                /\ spill = b \/ spill = <<>>
  <2>1. <<>> \in Seq(Nat) /\ b \in Seq(Nat)
    OBVIOUS
  <2>2. CASE memory
    BY <2>1, <2>2
  <2>3. CASE ~memory
    BY <2>1, <2>3
  <2> QED BY <2>2, <2>3
<1>7. PICK lost \in BOOLEAN : lost = (b # <<>> /\ ~memory)
  OBVIOUS
<1>8. PICK n : n = [ops[o] EXCEPT !.side = "signal", !.copied = a, !.spill = spill, !.lost = lost]
  OBVIOUS
<1>9. ops' = [ops EXCEPT ![o] = n]
  BY <1>3, <1>4, <1>5, <1>6, <1>7, <1>8 DEF BlockCopies, BlockStep
<1>10. /\ n \in OpStates /\ n.kind = ops[o].kind /\ n.sem = ops[o].sem
       /\ n.claim = ops[o].claim /\ n.side = "signal" /\ n.lost = lost
       /\ n.content = c /\ n.copied = a /\ n.spill = spill
  BY <1>2, <1>3, <1>8 DEF OpStates
<1>11. /\ NwTypeOK' /\ QueueInv' /\ ReadyInv' /\ MutexInv' /\ BeforeInv' /\ FrameworkInv'
       /\ OwnersInv' /\ ClaimInv'
       /\ ops'[o] = n /\ (\A q \in Ops : q # o => ops'[q] = ops[q])
       /\ \A q : Called(q)' <=> Called(q)
  BY <1>1, <1>2, <1>9, <1>10, BlockMoving DEF Running
<1>12. UNCHANGED <<pc, handle, pending, stream, got>>
  BY <1>1 DEF goVars
<1>13. stream \in Nat /\ got \in Seq(Nat)
  BY DEF NwInv, NwTypeOK, OpTypes
<1>14. OrderInv'
  <2>1. Increasing(c) /\ UpTo(c, stream) /\ Below(got, c)
    BY <1>2, <1>3 DEF NwInv, OrderInv
  <2>2. /\ Increasing(a) /\ Increasing(b) /\ Below(a, b)
        /\ UpTo(a, stream) /\ UpTo(b, stream) /\ Below(got, a) /\ Below(got, b)
    BY <1>5, <1>13, <2>1, SplitParts
  <2>3. /\ Increasing(<<>>) /\ Below(a, <<>>) /\ UpTo(<<>>, stream) /\ Below(got, <<>>)
    BY DEF Increasing, Below, UpTo
  <2>4. /\ Increasing(spill) /\ Below(a, spill) /\ UpTo(spill, stream) /\ Below(got, spill)
    BY <1>6, <2>2, <2>3
  <2>5. /\ Increasing(got) /\ Increasing(pending) /\ Below(got, pending)
        /\ UpTo(got, stream) /\ UpTo(pending, stream)
    BY DEF NwInv, OrderInv
  <2>6. \A q \in Ops : q # o =>
        /\ Increasing(ops'[q].content) /\ UpTo(ops'[q].content, stream)
        /\ Increasing(ops'[q].copied) /\ UpTo(ops'[q].copied, stream)
        /\ Increasing(ops'[q].spill) /\ UpTo(ops'[q].spill, stream)
        /\ Below(ops'[q].copied, ops'[q].spill)
        /\ Called(q)' => /\ Below(got, ops'[q].content)
                         /\ Below(got, ops'[q].copied)
                         /\ Below(got, ops'[q].spill)
    BY <1>11 DEF NwInv, OrderInv
  <2> QED BY <1>10, <1>11, <1>12, <2>1, <2>2, <2>4, <2>5, <2>6
          DEF OrderInv, Increasing, Below, UpTo
<1>15. BytesInv'
  <2>1. ~lost => ToSet(c) \subseteq ToSet(a) \cup ToSet(spill)
    <3>1. ~lost => spill = b
      BY <1>6, <1>7
    <3>2. ToSet(c) = ToSet(a) \cup ToSet(b)
      BY <1>5, SplitParts
    <3> QED BY <3>1, <3>2
  <2>2. pending = <<>>
    BY <1>2 DEF NwInv, BytesInv
  <2>3. \A q \in Ops : q # o =>
        /\ ops'[q].side = "none" => ops'[q].content = <<>>
        /\ ops'[q].kind = "recv" /\ Called(q)' => pending' = <<>>
        /\ /\ ops'[q].side \in {"signal", "drop", "done"}
           /\ ops'[q].claim # "caller"
           /\ ops'[q].kind = "recv"
           /\ ~ops'[q].lost
           => ToSet(ops'[q].content) \subseteq ToSet(ops'[q].copied) \cup ToSet(ops'[q].spill)
        /\ ops'[q].kind = "send" => ops'[q].content = <<>>
    BY <1>11, <1>12 DEF NwInv, BytesInv
  <2> QED BY <1>2, <1>10, <1>11, <1>12, <2>1, <2>2, <2>3 DEF BytesInv
<1>16. NoSilentLoss'
  <2>1. \A q \in Ops : /\ ops'[q].content = ops[q].content /\ ops'[q].kind = ops[q].kind
                       /\ ops[q].lost => ops'[q].lost \/ q = o
                       /\ ops[q].claim = "caller" => ops'[q].claim = "caller"
    BY <1>3, <1>10, <1>11
  <2>2. \E g \in Callers : pc[g].op = o
    BY <1>2 DEF Called
  <2>3. /\ \A i, j \in DOMAIN got : i < j => got[i] < got[j]
        /\ handle => \A b1 \in 1 .. stream :
              \/ b1 \in ToSet(got) \cup ToSet(pending)
              \/ \E q \in Ops : /\ ops[q].kind # "none" /\ b1 \in ToSet(ops[q].content)
                                /\ ops[q].lost \/ ops[q].claim = "caller"
                                               \/ \E g \in Callers : pc[g].op = q
    BY DEF NwInv, NoSilentLoss, Started
  <2>4. handle => \A b1 \in 1 .. stream :
              \/ b1 \in ToSet(got) \cup ToSet(pending)
              \/ \E q \in Ops : /\ ops'[q].kind # "none" /\ b1 \in ToSet(ops'[q].content)
                                /\ ops'[q].lost \/ ops'[q].claim = "caller"
                                                \/ \E g \in Callers : pc[g].op = q
    <3> SUFFICES ASSUME handle, NEW b1 \in 1 .. stream,
                        b1 \notin ToSet(got) \cup ToSet(pending)
                 PROVE  \E q \in Ops : /\ ops'[q].kind # "none" /\ b1 \in ToSet(ops'[q].content)
                                       /\ ops'[q].lost \/ ops'[q].claim = "caller"
                                                       \/ \E g \in Callers : pc[g].op = q
      OBVIOUS
    <3>1. PICK q \in Ops : /\ ops[q].kind # "none" /\ b1 \in ToSet(ops[q].content)
                           /\ ops[q].lost \/ ops[q].claim = "caller"
                                          \/ \E g \in Callers : pc[g].op = q
      BY <2>3
    <3>2. ops'[q].kind # "none" /\ b1 \in ToSet(ops'[q].content)
      BY <2>1, <3>1
    <3>3. CASE q = o
      BY <2>2, <3>2, <3>3
    <3>4. CASE q # o
      BY <1>11, <3>1, <3>4
    <3> QED BY <3>3, <3>4
  <2> QED BY <1>12, <2>3, <2>4 DEF NoSilentLoss, Started
<1> QED BY <1>11, <1>14, <1>15, <1>16 DEF NwInv

-----------------------------------------------------------------------------
(* The framework answers.                                                  *)

\* The oldest of the waiting operations, and the rest.
LEMMA OldestWaits ==
    ASSUME NwInv, NEW s \in Seq(Ops), NEW kind, Waiting(s, kind), s # <<>>
    PROVE  /\ Head(s) \in Ops /\ Tail(s) \in Seq(Ops)
           /\ ops[Head(s)].kind = kind /\ ops[Head(s)].side = "none"
           /\ \A i \in DOMAIN Tail(s) : Tail(s)[i] = s[i + 1] /\ i + 1 \in DOMAIN s
           /\ \A i \in DOMAIN Tail(s) : Tail(s)[i] # Head(s)
<1>1. /\ Head(s) = s[1] /\ 1 \in DOMAIN s /\ Head(s) \in Ops /\ Tail(s) \in Seq(Ops)
      /\ \A i \in DOMAIN Tail(s) : Tail(s)[i] = s[i + 1] /\ i + 1 \in DOMAIN s /\ i + 1 # 1
  OBVIOUS
<1> QED BY <1>1 DEF Waiting

\* The framework answers operation o, which becomes n, and its block runs.
LEMMA Answering ==
    ASSUME NwInv, NEW o \in Ops, NEW n \in OpStates, ops' = [ops EXCEPT ![o] = n],
           queue = {}, queue' = {o}, ops[o].side = "none", ops[o].kind # "none",
           n.kind = ops[o].kind, n.sem = ops[o].sem, n.claim = ops[o].claim,
           n.side = IF ops[o].kind = "recv" THEN "claim" ELSE "signal",
           n.copied = ops[o].copied, n.spill = ops[o].spill, n.lost = ops[o].lost,
           UNCHANGED <<dialVars, goVars, got>>
    PROVE  /\ DialTypes' /\ GoTypes' /\ QueueInv' /\ ReadyInv' /\ MutexInv' /\ BeforeInv'
           /\ OwnersInv' /\ ClaimInv'
           /\ ops' \in [Ops -> OpStates]
           /\ ops'[o] = n /\ (\A q \in Ops : q # o => ops'[q] = ops[q])
           /\ \A q : Called(q)' <=> Called(q)
           /\ dial = "ok"
<1>1. /\ ops' \in [Ops -> OpStates] /\ ops'[o] = n
      /\ \A q \in Ops : q # o => ops'[q] = ops[q]
      /\ ops[o] \in OpStates
  BY DEF NwInv, NwTypeOK, OpTypes
<1>2. UNCHANGED <<mu, pc, handle, pending, nwEof>> /\ UNCHANGED <<dial, handler>>
  BY DEF goVars, dialVars
<1>3. dial = "ok"
  <2>1. NoOp.kind = "none"
    BY DEF NoOp
  <2> QED BY <2>1 DEF NwInv, BeforeInv
<1>4. OpsKept
  BY <1>2, PcKept
<1>5. \A q : Called(q)' <=> Called(q)
  BY <1>4, CalledKept
<1>6. DialTypes' /\ GoTypes' /\ ReadyInv'
  BY <1>2, DialTypesFrame, GoTypesFrame, ReadyFrame DEF NwInv, NwTypeOK, dialVars
<1>7. n.side \in {"claim", "signal"} /\ n.side \in Running
  BY DEF Running
<1>8. QueueInv'
  <2>1. o # StateHandler
    BY DEF Ops, StateHandler
  <2> QED BY <1>1, <1>2, <1>7, <2>1 DEF NwInv, QueueInv
<1>9. MutexInv'
  <2>1. \A g \in mu : pc[g].op \in Ops
    BY DEF NwInv, NwTypeOK, GoTypes, Places, MutexInv
  <2>2. \A q \in Ops : ops'[q].kind = ops[q].kind
    BY <1>1
  <2> QED BY <1>2, <2>1, <2>2 DEF NwInv, MutexInv
<1>10. BeforeInv'
  BY <1>2, <1>3 DEF BeforeInv
<1>11. OwnersInv'
  BY <1>1, <1>5, <1>7 DEF NwInv, OwnersInv
<1>12. ClaimInv'
  <2>1. \A q \in Ops : q # o =>
          /\ ops'[q].kind = "none" => ops'[q] = NoOp
          /\ ops'[q].sem.count > 0 => ops'[q].side \in {"drop", "done"}
          /\ ops'[q].side \in {"claim", "copy"} => ops'[q].kind = "recv"
          /\ ops'[q].side = "copy" => ops'[q].claim = "block"
          /\ ops'[q].claim = "block" => ops'[q].side \in {"copy", "signal", "drop", "done"}
          /\ ops'[q].kind = "recv" /\ ~Called(q)' =>
                ops'[q].side \in {"drop", "done"} \/ ops'[q].claim = "caller"
    BY <1>1, <1>5 DEF NwInv, ClaimInv
  <2>2. /\ ~(n.sem.count > 0) /\ n.claim # "block"
        /\ n.kind = "recv" /\ ~Called(o) => n.claim = "caller"
    BY DEF NwInv, ClaimInv
  <2>3. \A g \in mu : /\ pc'[g].at = "drop" => Mine(g)'.side \in {"drop", "done"}
                      /\ pc'[g].at = "leave" => Mine(g)'.kind = "send" \/ Mine(g)'.claim = "caller"
                      /\ pc'[g].at \in {"claim", "waitForever"} => Mine(g)'.kind = "recv"
    <3> TAKE g \in mu
    <3>1. pc[g].op \in Ops
      BY DEF NwInv, NwTypeOK, GoTypes, Places, MutexInv
    <3>2. CASE pc[g].op = o
      BY <1>1, <1>2, <3>2 DEF NwInv, ClaimInv, Mine
    <3>3. CASE pc[g].op # o
      BY <1>1, <1>2, <3>1, <3>3 DEF NwInv, ClaimInv, Mine
    <3> QED BY <3>2, <3>3
  <2>4. n.side = "claim" => n.kind = "recv"
    OBVIOUS
  <2> QED BY <1>1, <1>2, <1>5, <1>7, <2>1, <2>2, <2>3, <2>4 DEF ClaimInv
<1> QED BY <1>1, <1>3, <1>5, <1>6, <1>8, <1>9, <1>10, <1>11, <1>12

\* The answer to a send.
LEMMA Sending ==
    ASSUME NwInv, NEW error \in BOOLEAN, Sent(error) PROVE NwInv'
<1>1. PICK o : o = Head(sends)
  OBVIOUS
<1>2. /\ queue = {} /\ sends # <<>> /\ sends' = Tail(sends) /\ queue' = {o}
      /\ UNCHANGED <<dialVars, goVars, receives, stream, got>>
  BY <1>1 DEF Sent
<1>3. sends \in Seq(Ops) /\ Waiting(sends, "send")
  BY DEF NwInv, NwTypeOK, OpTypes, FrameworkInv
<1>4. /\ o \in Ops /\ Tail(sends) \in Seq(Ops)
      /\ ops[o].kind = "send" /\ ops[o].side = "none"
      /\ \A i \in DOMAIN Tail(sends) : Tail(sends)[i] = sends[i + 1] /\ i + 1 \in DOMAIN sends
      /\ \A i \in DOMAIN Tail(sends) : Tail(sends)[i] # o
  BY <1>1, <1>2, <1>3, OldestWaits
<1>5. ops[o] \in OpStates
  BY <1>4 DEF NwInv, NwTypeOK, OpTypes
<1>6. PICK n : n = [ops[o] EXCEPT !.side = "signal", !.error = error]
  OBVIOUS
<1>7. ops' = [ops EXCEPT ![o] = n]
  BY <1>1, <1>6 DEF Sent
<1>8. /\ n \in OpStates /\ SameBytes(n, ops[o]) /\ n.sem = ops[o].sem
      /\ n.claim = ops[o].claim /\ n.side = "signal" /\ n.lost = ops[o].lost
  BY <1>5, <1>6 DEF OpStates, SameBytes
<1>9. /\ DialTypes' /\ GoTypes' /\ QueueInv' /\ ReadyInv' /\ MutexInv' /\ BeforeInv'
      /\ OwnersInv' /\ ClaimInv'
      /\ ops' \in [Ops -> OpStates]
      /\ ops'[o] = n /\ (\A q \in Ops : q # o => ops'[q] = ops[q])
      /\ \A q : Called(q)' <=> Called(q)
  BY <1>2, <1>4, <1>7, <1>8, Answering DEF SameBytes
<1>10. OpTypes'
  BY <1>2, <1>4, <1>9 DEF NwInv, NwTypeOK, OpTypes
<1>11. UNCHANGED <<pc, handle, pending, stream, got>>
  BY <1>2 DEF goVars
<1>12. OrderInv'
  BY <1>4, <1>7, <1>8, <1>9, <1>11, DataFrame
<1>13. \A q \in Ops : /\ SameBytes(ops'[q], ops[q]) /\ ops'[q].lost = ops[q].lost
                      /\ ops'[q].claim = ops[q].claim
                      /\ ops'[q].kind # "send" => ops'[q].side = ops[q].side
  BY <1>4, <1>8, <1>9 DEF SameBytes
<1>14. BytesInv'
  <2>1. \A q \in Ops : ops[q].kind = "send" => ops[q].content = <<>>
    BY DEF NwInv, BytesInv
  <2>2. \A q \in Ops : ops'[q].side = "none" => ops'[q].content = <<>>
    BY <1>8, <1>9 DEF NwInv, BytesInv
  <2> QED BY <1>9, <1>11, <1>13, <2>1, <2>2 DEF NwInv, BytesInv, SameBytes
<1>15. NoSilentLoss'
  BY <1>11, <1>13 DEF NwInv, NoSilentLoss, Started, SameBytes
<1>16. FrameworkInv'
  <2>1. Waiting(sends, "send")'
    BY <1>2, <1>3, <1>4, <1>9 DEF Waiting, NwInv, NwTypeOK, OpTypes
  <2>2. Waiting(receives, "recv")'
    <3>1. \A i \in DOMAIN receives : receives[i] \in Ops /\ receives[i] # o
      BY <1>4 DEF NwInv, NwTypeOK, OpTypes, FrameworkInv, Waiting
    <3> QED BY <1>2, <1>9, <3>1 DEF NwInv, FrameworkInv, Waiting
  <2> QED BY <2>1, <2>2 DEF FrameworkInv
<1> QED BY <1>9, <1>10, <1>12, <1>14, <1>15, <1>16 DEF NwInv, NwTypeOK

\* The next bytes of the stream.
LEMMA NextBytes ==
    ASSUME NEW from \in Nat, NEW k \in Nat
    PROVE  LET c == [i \in 1 .. k |-> from + i]
           IN  /\ c \in Seq(Nat) /\ Increasing(c) /\ UpTo(c, from + k)
               /\ \A t \in Seq(Nat) : UpTo(t, from) => Below(t, c) /\ UpTo(t, from + k)
               /\ \A b \in 1 .. from + k : b > from => b \in ToSet(c)
<1> DEFINE c == [i \in 1 .. k |-> from + i]
<1>1. c \in Seq(Nat) /\ DOMAIN c = 1 .. k /\ \A i \in 1 .. k : c[i] = from + i
  OBVIOUS
<1> HIDE DEF c
<1>2. Increasing(c) /\ UpTo(c, from + k)
  BY <1>1 DEF Increasing, UpTo
<1>3. \A t \in Seq(Nat) : UpTo(t, from) => Below(t, c) /\ UpTo(t, from + k)
  <2> SUFFICES ASSUME NEW t \in Seq(Nat), UpTo(t, from) PROVE Below(t, c) /\ UpTo(t, from + k)
    OBVIOUS
  <2>1. \A i \in DOMAIN t : t[i] \in Nat /\ t[i] <= from
    BY DEF UpTo
  <2> QED BY <1>1, <2>1 DEF Below, UpTo
<1>4. \A b \in 1 .. from + k : b > from => b \in ToSet(c)
  <2> SUFFICES ASSUME NEW b \in 1 .. from + k, b > from PROVE b \in ToSet(c)
    OBVIOUS
  <2>1. b - from \in 1 .. k /\ from + (b - from) = b
    OBVIOUS
  <2>2. c[b - from] = b
    BY <1>1, <2>1
  <2> QED BY <1>1, <2>1, <2>2 DEF ToSet
<1> QED BY <1>1, <1>2, <1>3, <1>4 DEF c

\* A delivery goes to an operation that has had none; if its caller has left,
\* the caller has the claim.
LEMMA Delivering ==
    ASSUME NwInv, NEW k \in Nat, NEW error \in BOOLEAN, NEW complete \in BOOLEAN,
           Delivers(k, error, complete)
    PROVE  NwInv'
<1>1. PICK o : o = Head(receives)
  OBVIOUS
<1>2. /\ queue = {} /\ receives # <<>> /\ receives' = Tail(receives) /\ queue' = {o}
      /\ stream' = stream + k
      /\ UNCHANGED <<dialVars, goVars, sends, got>>
  BY <1>1 DEF Delivers
<1>3. receives \in Seq(Ops) /\ Waiting(receives, "recv")
  BY DEF NwInv, NwTypeOK, OpTypes, FrameworkInv
<1>4. /\ o \in Ops /\ Tail(receives) \in Seq(Ops)
      /\ ops[o].kind = "recv" /\ ops[o].side = "none"
      /\ \A i \in DOMAIN Tail(receives) : Tail(receives)[i] = receives[i + 1]
                                          /\ i + 1 \in DOMAIN receives
      /\ \A i \in DOMAIN Tail(receives) : Tail(receives)[i] # o
  BY <1>1, <1>2, <1>3, OldestWaits
<1>5. ops[o] \in OpStates /\ stream \in Nat /\ stream' \in Nat /\ got \in Seq(Nat)
      /\ pending \in Seq(Nat)
  BY <1>2, <1>4 DEF NwInv, NwTypeOK, OpTypes, GoTypes
<1>6. PICK c \in Seq(Nat) :
         /\ c = [i \in 1 .. k |-> stream + i] /\ Increasing(c) /\ UpTo(c, stream')
         /\ \A t \in Seq(Nat) : UpTo(t, stream) => Below(t, c) /\ UpTo(t, stream')
         /\ \A b \in 1 .. stream' : b > stream => b \in ToSet(c)
  BY <1>2, <1>5, NextBytes
<1>7. PICK n : n = [ops[o] EXCEPT !.side = "claim", !.error = error, !.complete = complete,
                                  !.content = c]
  OBVIOUS
<1>8. ops' = [ops EXCEPT ![o] = n]
  BY <1>1, <1>6, <1>7 DEF Delivers
<1>9. /\ n \in OpStates /\ n.kind = ops[o].kind /\ n.sem = ops[o].sem
      /\ n.claim = ops[o].claim /\ n.side = "claim" /\ n.lost = ops[o].lost
      /\ n.content = c /\ n.copied = ops[o].copied /\ n.spill = ops[o].spill
  BY <1>5, <1>7 DEF OpStates
<1>10. /\ DialTypes' /\ GoTypes' /\ QueueInv' /\ ReadyInv' /\ MutexInv' /\ BeforeInv'
       /\ OwnersInv' /\ ClaimInv'
       /\ ops' \in [Ops -> OpStates]
       /\ ops'[o] = n /\ (\A q \in Ops : q # o => ops'[q] = ops[q])
       /\ \A q : Called(q)' <=> Called(q)
  BY <1>2, <1>4, <1>8, <1>9, Answering
<1>11. OpTypes'
  BY <1>2, <1>4, <1>5, <1>10 DEF NwInv, NwTypeOK, OpTypes
<1>12. UNCHANGED <<pc, handle, pending, got>>
  BY <1>2 DEF goVars
<1>13. FrameworkInv'
  <2>1. Waiting(receives, "recv")'
    BY <1>2, <1>3, <1>4, <1>10 DEF Waiting, NwInv, NwTypeOK, OpTypes
  <2>2. Waiting(sends, "send")'
    <3>1. \A i \in DOMAIN sends : sends[i] \in Ops /\ sends[i] # o
      BY <1>4 DEF NwInv, NwTypeOK, OpTypes, FrameworkInv, Waiting
    <3> QED BY <1>2, <1>10, <3>1 DEF NwInv, FrameworkInv, Waiting
  <2> QED BY <2>1, <2>2 DEF FrameworkInv
<1>14. OrderInv'
  <2>1. /\ Increasing(got) /\ Increasing(pending) /\ Below(got, pending)
        /\ UpTo(got, stream') /\ UpTo(pending, stream') /\ Below(got, c)
    BY <1>5, <1>6 DEF NwInv, OrderInv
  <2>2. \A q \in Ops : /\ ops'[q].copied = ops[q].copied /\ ops'[q].spill = ops[q].spill
                       /\ q # o => ops'[q].content = ops[q].content
                       /\ ops[q].content \in Seq(Nat)
                       /\ ops[q].copied \in Seq(Nat) /\ ops[q].spill \in Seq(Nat)
    BY <1>9, <1>10 DEF NwInv, NwTypeOK, OpTypes, OpStates
  <2>3. \A q \in Ops :
        /\ Increasing(ops[q].copied) /\ UpTo(ops[q].copied, stream')
        /\ Increasing(ops[q].spill) /\ UpTo(ops[q].spill, stream')
        /\ Below(ops[q].copied, ops[q].spill)
        /\ Called(q)' => Below(got, ops[q].copied) /\ Below(got, ops[q].spill)
    BY <1>6, <1>10, <2>2 DEF NwInv, OrderInv
  <2>4. \A q \in Ops : q # o => /\ Increasing(ops[q].content) /\ UpTo(ops[q].content, stream')
                                /\ Called(q)' => Below(got, ops[q].content)
    BY <1>6, <1>10, <2>2 DEF NwInv, OrderInv
  <2>5. \A q \in Ops :
        /\ Increasing(ops'[q].content) /\ UpTo(ops'[q].content, stream')
        /\ Increasing(ops'[q].copied) /\ UpTo(ops'[q].copied, stream')
        /\ Increasing(ops'[q].spill) /\ UpTo(ops'[q].spill, stream')
        /\ Below(ops'[q].copied, ops'[q].spill)
        /\ Called(q)' => /\ Below(got, ops'[q].content)
                         /\ Below(got, ops'[q].copied)
                         /\ Below(got, ops'[q].spill)
    BY <1>6, <1>9, <1>10, <2>1, <2>2, <2>3, <2>4
  <2> QED BY <1>12, <2>1, <2>5 DEF OrderInv, Increasing, Below, UpTo
<1>15. BytesInv'
  <2>1. \A q \in Ops : q # o =>
        /\ ops'[q].side = "none" => ops'[q].content = <<>>
        /\ ops'[q].kind = "recv" /\ Called(q)' => pending' = <<>>
        /\ /\ ops'[q].side \in {"signal", "drop", "done"}
           /\ ops'[q].claim # "caller"
           /\ ops'[q].kind = "recv"
           /\ ~ops'[q].lost
           => ToSet(ops'[q].content) \subseteq ToSet(ops'[q].copied) \cup ToSet(ops'[q].spill)
        /\ ops'[q].kind = "send" => ops'[q].content = <<>>
    BY <1>10, <1>12 DEF NwInv, BytesInv
  <2>2. Called(o) => pending = <<>>
    BY <1>4 DEF NwInv, BytesInv
  <2> QED BY <1>4, <1>9, <1>10, <1>12, <2>1, <2>2 DEF BytesInv
<1>16. NoSilentLoss'
  <2>1. /\ \A i, j \in DOMAIN got : i < j => got[i] < got[j]
        /\ handle => \A b \in 1 .. stream :
              \/ b \in ToSet(got) \cup ToSet(pending)
              \/ \E q \in Ops : /\ ops[q].kind # "none" /\ b \in ToSet(ops[q].content)
                                /\ ops[q].lost \/ ops[q].claim = "caller"
                                               \/ \E g \in Callers : pc[g].op = q
    BY DEF NwInv, NoSilentLoss, Started
  <2>2. ToSet(ops[o].content) = {}
    BY <1>4 DEF NwInv, BytesInv, ToSet
  <2>3. n.claim = "caller" \/ \E g \in Callers : pc[g].op = o
    BY <1>4, <1>9 DEF NwInv, ClaimInv, Called
  <2>4. handle => \A b \in 1 .. stream' :
              \/ b \in ToSet(got) \cup ToSet(pending)
              \/ \E q \in Ops : /\ ops'[q].kind # "none" /\ b \in ToSet(ops'[q].content)
                                /\ ops'[q].lost \/ ops'[q].claim = "caller"
                                                \/ \E g \in Callers : pc[g].op = q
    <3> SUFFICES ASSUME handle, NEW b \in 1 .. stream',
                        b \notin ToSet(got) \cup ToSet(pending)
                 PROVE  \E q \in Ops : /\ ops'[q].kind # "none" /\ b \in ToSet(ops'[q].content)
                                       /\ ops'[q].lost \/ ops'[q].claim = "caller"
                                                       \/ \E g \in Callers : pc[g].op = q
      OBVIOUS
    <3>1. CASE b > stream
      <4>1. b \in ToSet(ops'[o].content)
        BY <1>6, <1>9, <1>10, <3>1
      <4>2. ops'[o].kind # "none"
        BY <1>4, <1>9, <1>10
      <4>3. ops'[o].claim = "caller" \/ \E g \in Callers : pc[g].op = o
        BY <1>10, <2>3
      <4> QED BY <1>4, <4>1, <4>2, <4>3
    <3>2. CASE ~(b > stream)
      <4>1. b \in 1 .. stream
        BY <1>2, <1>5, <3>2
      <4>2. PICK q \in Ops : /\ ops[q].kind # "none" /\ b \in ToSet(ops[q].content)
                             /\ ops[q].lost \/ ops[q].claim = "caller"
                                            \/ \E g \in Callers : pc[g].op = q
        BY <2>1, <4>1
      <4>3. q # o
        BY <2>2, <4>2
      <4> QED BY <1>10, <4>2, <4>3
    <3> QED BY <3>1, <3>2
  <2> QED BY <1>12, <2>1, <2>4 DEF NoSilentLoss, Started
<1> QED BY <1>10, <1>11, <1>13, <1>14, <1>15, <1>16 DEF NwInv, NwTypeOK

-----------------------------------------------------------------------------
(* Calls begin and end.                                                    *)

\* The operation that a call starts is one that was not started.
LEMMA NextIsFree ==
    ASSUME Started # Ops PROVE NextOp \in Ops /\ NextOp \notin Started
<1>1. Ops \ Started # {}
  BY DEF Started
<1>2. PICK o \in Ops \ Started : \A p \in Ops \ Started : o <= p
  <2>1. Ops \ Started \subseteq Nat
    BY DEF Ops
  <2> QED BY <1>1, <2>1, LeastNatural
<1>3. \E p \in Ops : p \notin Started /\ \A q \in Ops \ Started : p <= q
  BY <1>2
<1> QED BY <1>3, Zenon DEF NextOp

\* A call starts the operation p, which the framework gets as the last one.
LEMMA Starting ==
    ASSUME NwInv, NEW g \in Callers, NEW kind \in {"recv", "send"}, NEW len \in Nat,
           pc[g].at = "lock", mu = {}, handle, kind = "recv" => pending = <<>>,
           Starts(g, kind, len),
           \/ kind = "recv" /\ receives' = Append(receives, NextOp) /\ UNCHANGED sends
           \/ kind = "send" /\ sends' = Append(sends, NextOp) /\ UNCHANGED receives,
           UNCHANGED <<dialVars, handle, pending, nwEof, queue, stream, got>>
    PROVE  NwInv'
<1>1. PICK p \in Ops : p = NextOp /\ p \notin Started
  BY NextIsFree DEF Starts
<1>2. ops[p].kind = "none" /\ ops[p] = NoOp
  BY <1>1 DEF Started, NwInv, ClaimInv
<1>3. PICK n \in OpStates : n = [NoOp EXCEPT !.kind = kind, !.len = len]
  BY NewOp
<1>4. /\ n.kind = kind /\ n.sem = NewSem /\ n.claim = "none" /\ n.side = "none" /\ n.lost = FALSE
      /\ n.content = <<>> /\ n.copied = <<>> /\ n.spill = <<>>
  BY <1>3 DEF NoOp
<1>5. /\ ops' = [ops EXCEPT ![p] = n] /\ mu' = {g}
      /\ pc' = [pc EXCEPT ![g].at = "wait", ![g].op = p]
  BY <1>1, <1>3 DEF Starts
<1>6. /\ ops' \in [Ops -> OpStates] /\ ops'[p] = n
      /\ \A q \in Ops : q # p => ops'[q] = ops[q]
  BY <1>5 DEF NwInv, NwTypeOK, OpTypes
<1>7. /\ pc' \in [Callers -> Places]
      /\ pc'[g].at = "wait" /\ pc'[g].op = p
      /\ \A h \in Callers : h # g => pc'[h] = pc[h]
  BY <1>5 DEF NwInv, NwTypeOK, GoTypes, Places, InCall
<1>8. /\ \A h \in Callers : pc[h].op = 0 /\ pc[h].at \notin InCall
      /\ \A q \in Ops : ~Called(q)
  BY NobodyCalls
<1>9. \A q \in Ops : Called(q)' <=> q = p
  BY <1>7, <1>8 DEF Called, Ops
<1>10. p # 0 /\ dial = "ok" /\ UNCHANGED <<dial, handler>>
  BY DEF Ops, NwInv, MutexInv, dialVars
<1>11. DialTypes' /\ ReadyInv'
  BY DialTypesFrame, ReadyFrame DEF NwInv, NwTypeOK, dialVars
<1>12. GoTypes'
  BY <1>5, <1>7 DEF NwInv, NwTypeOK, GoTypes
<1>13. OpTypes'
  <2>1. receives' \in Seq(Ops) /\ sends' \in Seq(Ops)
    <3>1. receives \in Seq(Ops) /\ sends \in Seq(Ops)
      BY DEF NwInv, NwTypeOK, OpTypes
    <3>2. Append(receives, p) \in Seq(Ops) /\ Append(sends, p) \in Seq(Ops)
      BY <3>1
    <3> QED BY <1>1, <3>1, <3>2
  <2> QED BY <1>6, <2>1 DEF NwInv, NwTypeOK, OpTypes
<1>14. QueueInv'
  <2>1. ops[p].side = "none" /\ n.side = "none"
    BY <1>2, <1>4 DEF NoOp
  <2> QED BY <1>6, <1>10, <2>1 DEF NwInv, QueueInv, Running
<1>15. MutexInv'
  BY <1>4, <1>5, <1>6, <1>7, <1>8, <1>10 DEF NwInv, NwTypeOK, GoTypes, MutexInv, InCall
<1>16. BeforeInv'
  BY <1>10 DEF BeforeInv
<1>17. FrameworkInv'
  <2>1. /\ \A i \in DOMAIN receives : receives[i] \in Ops /\ receives[i] # p
        /\ \A i \in DOMAIN sends : sends[i] \in Ops /\ sends[i] # p
    BY <1>2 DEF NwInv, NwTypeOK, OpTypes, FrameworkInv, Waiting
  <2>2. /\ \A i \in DOMAIN receives : ops'[receives[i]] = ops[receives[i]]
        /\ \A i \in DOMAIN sends : ops'[sends[i]] = ops[sends[i]]
    BY <1>6, <2>1
  <2>3. ASSUME NEW s \in Seq(Ops), NEW k, k = kind, Waiting(s, k),
               \A i \in DOMAIN s : s[i] # p /\ ops'[s[i]] = ops[s[i]]
        PROVE  LET t == Append(s, p)
               IN  /\ \A i \in DOMAIN t : ops'[t[i]].kind = k /\ ops'[t[i]].side = "none"
                   /\ \A i, j \in DOMAIN t : t[i] = t[j] => i = j
    <3> DEFINE t == Append(s, p)
    <3>1. /\ DOMAIN t = 1 .. Len(s) + 1 /\ DOMAIN s = 1 .. Len(s) /\ Len(s) \in Nat
          /\ t[Len(s) + 1] = p /\ \A i \in 1 .. Len(s) : t[i] = s[i]
      OBVIOUS
    <3> HIDE DEF t
    <3>2. \A i \in DOMAIN t : i = Len(s) + 1 \/ i \in DOMAIN s
      BY <3>1
    <3>3. \A i \in DOMAIN t : ops'[t[i]].kind = k /\ ops'[t[i]].side = "none"
      <4> TAKE i \in DOMAIN t
      <4>1. CASE i = Len(s) + 1
        BY <1>4, <1>6, <2>3, <3>1, <4>1
      <4>2. CASE i \in DOMAIN s
        <5>1. t[i] = s[i]
          BY <3>1, <4>2
        <5> QED BY <2>3, <4>2, <5>1 DEF Waiting
      <4> QED BY <3>2, <4>1, <4>2
    <3>4. \A i, j \in DOMAIN t : t[i] = t[j] => i = j
      BY <2>3, <3>1, <3>2 DEF Waiting
    <3> QED BY <3>3, <3>4 DEF t
  <2>4. receives \in Seq(Ops) /\ sends \in Seq(Ops)
    BY DEF NwInv, NwTypeOK, OpTypes
  <2>5. Waiting(receives, "recv") /\ Waiting(sends, "send")
    BY DEF NwInv, FrameworkInv
  <2>6. CASE kind = "recv"
    <3>1. receives' = Append(receives, p) /\ sends' = sends
      BY <1>1, <2>6
    <3>2. Waiting(receives, "recv")'
      BY <2>1, <2>2, <2>3, <2>4, <2>5, <2>6, <3>1 DEF Waiting
    <3>3. Waiting(sends, "send")'
      BY <2>2, <2>5, <3>1 DEF Waiting
    <3> QED BY <3>2, <3>3 DEF FrameworkInv
  <2>7. CASE kind = "send"
    <3>1. sends' = Append(sends, p) /\ receives' = receives
      BY <1>1, <2>7
    <3>2. Waiting(sends, "send")'
      BY <2>1, <2>2, <2>3, <2>4, <2>5, <2>7, <3>1 DEF Waiting
    <3>3. Waiting(receives, "recv")'
      BY <2>2, <2>5, <3>1 DEF Waiting
    <3> QED BY <3>2, <3>3 DEF FrameworkInv
  <2> QED BY <2>6, <2>7
<1>18. OwnersInv'
  <2>1. n.sem.owners = 2 /\ n.sem.freed = FALSE
    BY <1>4 DEF NewSem
  <2> QED BY <1>4, <1>6, <1>8, <1>9, <2>1 DEF NwInv, OwnersInv
<1>19. ClaimInv'
  <2>1. \A q \in Ops : q # p =>
          /\ ops'[q].kind = "none" => ops'[q] = NoOp
          /\ ops'[q].sem.count > 0 => ops'[q].side \in {"drop", "done"}
          /\ ops'[q].side \in {"claim", "copy"} => ops'[q].kind = "recv"
          /\ ops'[q].side = "copy" => ops'[q].claim = "block"
          /\ ops'[q].claim = "block" => ops'[q].side \in {"copy", "signal", "drop", "done"}
          /\ ops'[q].kind = "recv" /\ ~Called(q)' =>
                ops'[q].side \in {"drop", "done"} \/ ops'[q].claim = "caller"
    BY <1>6, <1>8 DEF NwInv, ClaimInv
  <2>2. ~(n.sem.count > 0)
    BY <1>4 DEF NewSem
  <2> QED BY <1>4, <1>5, <1>6, <1>7, <1>9, <2>1, <2>2 DEF ClaimInv
<1>20. OrderInv'
  <2>1. \A q \in Ops : q # p =>
        /\ Increasing(ops'[q].content) /\ UpTo(ops'[q].content, stream)
        /\ Increasing(ops'[q].copied) /\ UpTo(ops'[q].copied, stream)
        /\ Increasing(ops'[q].spill) /\ UpTo(ops'[q].spill, stream)
        /\ Below(ops'[q].copied, ops'[q].spill)
    BY <1>6 DEF NwInv, OrderInv
  <2>2. /\ Increasing(<<>>) /\ UpTo(<<>>, stream) /\ Below(<<>>, <<>>) /\ Below(got, <<>>)
    BY DEF Increasing, Below, UpTo
  <2>3. /\ Increasing(got) /\ Increasing(pending) /\ Below(got, pending)
        /\ UpTo(got, stream) /\ UpTo(pending, stream)
    BY DEF NwInv, OrderInv
  <2> QED BY <1>4, <1>6, <1>9, <2>1, <2>2, <2>3 DEF OrderInv, Increasing, Below, UpTo
<1>21. BytesInv'
  <2>1. \A q \in Ops : q # p =>
        /\ ops'[q].side = "none" => ops'[q].content = <<>>
        /\ /\ ops'[q].side \in {"signal", "drop", "done"}
           /\ ops'[q].claim # "caller"
           /\ ops'[q].kind = "recv"
           /\ ~ops'[q].lost
           => ToSet(ops'[q].content) \subseteq ToSet(ops'[q].copied) \cup ToSet(ops'[q].spill)
        /\ ops'[q].kind = "send" => ops'[q].content = <<>>
    BY <1>6 DEF NwInv, BytesInv
  <2> QED BY <1>4, <1>6, <1>9, <2>1 DEF BytesInv
<1>22. NoSilentLoss'
  <2>1. \A q \in Ops : ops[q].kind # "none" => ops'[q] = ops[q]
    BY <1>2, <1>6
  <2>2. \A q \in Ops : ~\E h \in Callers : pc[h].op = q
    BY <1>8 DEF Called
  <2> QED BY <2>1, <2>2 DEF NwInv, NoSilentLoss, Started
<1> QED BY <1>11, <1>12, <1>13, <1>14, <1>15, <1>16, <1>17, <1>18, <1>19, <1>20, <1>21, <1>22
        DEF NwInv, NwTypeOK

\* A receive and a send are started so.
LEMMA StartingCall ==
    ASSUME NwInv, NEW g \in Callers,
           SendStarts(g) \/ \E len \in 1 .. MaxLen : RecvStarts(g, len)
    PROVE  NwInv'
<1>1. CASE SendStarts(g)
  <2>1. 1 \in Nat /\ "send" \in {"recv", "send"}
    OBVIOUS
  <2> QED BY <1>1, <2>1, Starting DEF SendStarts, Enters
<1>2. ASSUME NEW len \in 1 .. MaxLen, RecvStarts(g, len) PROVE NwInv'
  <2>1. len \in Nat /\ "recv" \in {"recv", "send"}
    OBVIOUS
  <2> QED BY <1>2, <2>1, Starting DEF RecvStarts, Enters
<1> QED BY <1>1, <1>2

\* Leftovers are cut in two, too.
LEMMA ReceivingPending ==
    ASSUME NwInv, NEW g \in Callers, NEW len \in Nat, RecvPending(g, len) PROVE NwInv'
<1>1. PICK m : m = IF len < Len(pending) THEN len ELSE Len(pending)
  OBVIOUS
<1>2. PICK a, b : a = SubSeq(pending, 1, m) /\ b = SubSeq(pending, m + 1, Len(pending))
  OBVIOUS
<1>3. /\ pc[g].at = "lock" /\ mu = {} /\ handle
      /\ got' = got \o a /\ pending' = b
      /\ pc' = [pc EXCEPT ![g] = [at |-> "idle", call |-> "none", op |-> 0]]
      /\ UNCHANGED <<dialVars, mu, handle, nwEof, opVars>>
  BY <1>1, <1>2 DEF RecvPending, Enters, Leaves, Idle
<1>4. /\ pending \in Seq(Nat) /\ got \in Seq(Nat) /\ stream \in Nat
      /\ Len(pending) \in Nat /\ m \in 0 .. Len(pending)
  BY <1>1 DEF NwInv, NwTypeOK, GoTypes, OpTypes
<1>5. a \in Seq(Nat) /\ b \in Seq(Nat)
  BY <1>2, <1>4, SplitSeq
<1>6. dial = "ok" /\ pc[g].at \notin InCall
  BY <1>3 DEF NwInv, MutexInv, InCall
<1>7. /\ OpsKept /\ DialTypes' /\ MutexInv' /\ pc' \in [Callers -> Places]
      /\ QueueInv' /\ ReadyInv' /\ BeforeInv' /\ FrameworkInv' /\ OwnersInv' /\ ClaimInv'
  BY <1>3, <1>6, OutsideFrame DEF dialVars
<1>8. GoTypes'
  BY <1>3, <1>5, <1>7 DEF NwInv, NwTypeOK, GoTypes
<1>9. UNCHANGED <<ops, queue, receives, sends, stream>>
  BY <1>3 DEF opVars
<1>10. OpTypes'
  BY <1>3, <1>4, <1>5, <1>9, JoinParts DEF NwInv, NwTypeOK, OpTypes
<1>11. \A o \in Ops : ~Called(o) /\ ~Called(o)'
  BY <1>3, <1>7, NobodyCalls, CalledKept
<1>12. /\ Increasing(got) /\ Increasing(pending) /\ Below(got, pending)
       /\ UpTo(got, stream) /\ UpTo(pending, stream)
  BY DEF NwInv, OrderInv
<1>13. /\ Increasing(a) /\ Increasing(b) /\ Below(a, b) /\ UpTo(a, stream) /\ UpTo(b, stream)
       /\ Below(got, a) /\ Below(got, b) /\ ToSet(pending) = ToSet(a) \cup ToSet(b)
  BY <1>2, <1>4, <1>12, SplitParts
<1>14. /\ Increasing(got') /\ UpTo(got', stream) /\ Below(got', b)
       /\ ToSet(got') = ToSet(got) \cup ToSet(a)
  BY <1>3, <1>4, <1>5, <1>12, <1>13, JoinParts
<1>15. OrderInv'
  <2>1. \A q \in Ops :
        /\ Increasing(ops[q].content) /\ UpTo(ops[q].content, stream)
        /\ Increasing(ops[q].copied) /\ UpTo(ops[q].copied, stream)
        /\ Increasing(ops[q].spill) /\ UpTo(ops[q].spill, stream)
        /\ Below(ops[q].copied, ops[q].spill)
    BY DEF NwInv, OrderInv
  <2> QED BY <1>3, <1>9, <1>11, <1>13, <1>14, <2>1 DEF OrderInv, Increasing, Below, UpTo
<1>16. BytesInv'
  BY <1>9, <1>11 DEF NwInv, BytesInv
<1>17. NoSilentLoss'
  <2>1. /\ handle' => \A x \in 1 .. stream :
              \/ x \in ToSet(got') \cup ToSet(pending')
              \/ \E o \in Started : /\ x \in ToSet(ops[o].content)
                                    /\ ops[o].lost \/ ops[o].claim = "caller"
                                                   \/ \E h \in Callers : pc'[h].op = o
    BY <1>3, <1>7, <1>13, <1>14 DEF NwInv, NoSilentLoss, OpsKept
  <2>2. Started' = Started
    BY <1>9 DEF Started
  <2> QED BY <1>9, <1>14, <2>1, <2>2 DEF NoSilentLoss, Increasing
<1> QED BY <1>7, <1>8, <1>10, <1>15, <1>16, <1>17 DEF NwInv, NwTypeOK

\* A call ends: its side of the semaphore is dropped, and the mutex is free.
\* The parts of the invariant that do not depend on the bytes.
LEMMA Ending ==
    ASSUME NwInv, NEW g \in Callers, pc[g].at \in {"leave", "drop"}, NEW n \in OpStates,
           ops' = [ops EXCEPT ![pc[g].op] = n], SameBytes(n, Mine(g)),
           n.sem = Dropped(Mine(g).sem), n.claim = Mine(g).claim, n.side = Mine(g).side,
           mu' = {}, pc' = [pc EXCEPT ![g] = Idle], pending' \in Seq(Nat), nwEof' \in BOOLEAN,
           got' \in Seq(Nat),
           UNCHANGED <<dialVars, handle, queue, receives, sends, stream>>
    PROVE  /\ NwTypeOK' /\ QueueInv' /\ ReadyInv' /\ MutexInv' /\ BeforeInv' /\ FrameworkInv'
           /\ OwnersInv' /\ ClaimInv'
           /\ \A o \in Ops : ~Called(o)'
<1>1. PICK p \in Ops : p = pc[g].op
  BY InCallFacts DEF InCall
<1>2. /\ mu = {g} /\ handle /\ dial = "ok" /\ ops[p] \in OpStates /\ ops[p].kind # "none"
      /\ \A h \in Callers : h # g => pc[h].op = 0 /\ pc[h].at \notin InCall
      /\ \A o \in Ops : Called(o) <=> o = p
  BY <1>1, InCallFacts DEF InCall
<1>3. /\ Mine(g) = ops[p] /\ n.kind = ops[p].kind /\ n.side = ops[p].side
      /\ ops' = [ops EXCEPT ![p] = n]
  BY <1>1 DEF Mine, SameBytes
<1>4. /\ ops' \in [Ops -> OpStates] /\ ops'[p] = n
      /\ \A q \in Ops : q # p => ops'[q] = ops[q]
      /\ \A q \in Ops : ops'[q].kind = ops[q].kind
      /\ DialTypes' /\ ReadyInv' /\ BeforeInv' /\ FrameworkInv'
  <2>1. n.side = "none" <=> ops[p].side = "none"
    BY <1>3
  <2>2. n.kind = ops[p].kind /\ ops' = [ops EXCEPT ![p] = n] /\ dial = "ok"
    BY <1>2, <1>3
  <2> QED BY <2>1, <2>2, OpFrame
<1>5. /\ pc' \in [Callers -> Places]
      /\ pc'[g] = Idle
      /\ \A h \in Callers : h # g => pc'[h] = pc[h]
  BY DEF NwInv, NwTypeOK, GoTypes, Places, Idle
<1>6. \A h \in Callers : pc'[h].op = 0 /\ pc'[h].at \notin InCall
  BY <1>2, <1>5 DEF Idle, InCall
<1>7. \A o \in Ops : ~Called(o)'
  BY <1>6 DEF Called, Ops
<1>8. NwTypeOK'
  BY <1>4, <1>5 DEF NwInv, NwTypeOK, GoTypes, OpTypes
<1>9. QueueInv'
  BY <1>3, <1>4 DEF NwInv, QueueInv, dialVars
<1>10. MutexInv'
  BY <1>6 DEF NwInv, MutexInv, dialVars
<1>11. OwnersInv'
  <2>1. /\ ops[p].sem.owners = 1 + (IF ops[p].side = "done" THEN 0 ELSE 1)
        /\ ops[p].sem.owners > 0 /\ ops[p].sem \in Sems
    <3>1. ops[p].sem.owners = 1 + (IF ops[p].side = "done" THEN 0 ELSE 1)
      BY <1>2 DEF NwInv, OwnersInv
    <3> QED BY <1>2, <3>1 DEF OpStates
  <2>2. /\ n.sem.owners = ops[p].sem.owners - 1
        /\ n.sem.freed <=> ops[p].sem.owners = 1
    BY <1>3, <2>1, DroppedSem
  <2>3. /\ n.sem.owners = 0 + (IF n.side = "done" THEN 0 ELSE 1)
        /\ n.sem.freed <=> n.sem.owners = 0
    BY <1>3, <2>1, <2>2
  <2>4. \A q \in Ops : q # p /\ ops'[q].kind # "none" =>
          /\ ops'[q].sem.owners = 0 + (IF ops'[q].side = "done" THEN 0 ELSE 1)
          /\ ops'[q].sem.freed <=> ops'[q].sem.owners = 0
    BY <1>2, <1>4 DEF NwInv, OwnersInv
  <2> QED BY <1>4, <1>7, <2>3, <2>4 DEF OwnersInv
<1>12. ClaimInv'
  <2>1. \A q \in Ops : q # p =>
          /\ ops'[q].kind = "none" => ops'[q] = NoOp
          /\ ops'[q].sem.count > 0 => ops'[q].side \in {"drop", "done"}
          /\ ops'[q].side \in {"claim", "copy"} => ops'[q].kind = "recv"
          /\ ops'[q].side = "copy" => ops'[q].claim = "block"
          /\ ops'[q].claim = "block" => ops'[q].side \in {"copy", "signal", "drop", "done"}
          /\ ops'[q].kind = "recv" =>
                ops'[q].side \in {"drop", "done"} \/ ops'[q].claim = "caller"
    BY <1>2, <1>4 DEF NwInv, ClaimInv
  <2>2. n.sem.count > 0 => n.side \in {"drop", "done"}
    <3>1. n.sem.count = ops[p].sem.count
      <4>1. ops[p].sem \in Sems /\ ops[p].sem.owners > 0
        <5>1. ops[p].sem.owners = 1 + (IF ops[p].side = "done" THEN 0 ELSE 1)
          BY <1>2 DEF NwInv, OwnersInv
        <5> QED BY <1>2, <5>1 DEF OpStates
      <4> QED BY <1>3, <4>1, DroppedSem
    <3> QED BY <1>3, <3>1 DEF NwInv, ClaimInv
  <2>3. n.kind = "recv" => n.side \in {"drop", "done"} \/ n.claim = "caller"
    BY <1>2, <1>3 DEF NwInv, ClaimInv
  <2>4. /\ n.kind # "none"
        /\ n.side \in {"claim", "copy"} => n.kind = "recv"
        /\ n.side = "copy" => n.claim = "block"
        /\ n.claim = "block" => n.side \in {"copy", "signal", "drop", "done"}
    BY <1>2, <1>3 DEF NwInv, ClaimInv
  <2> QED BY <1>4, <2>1, <2>2, <2>3, <2>4 DEF ClaimInv
<1> QED BY <1>4, <1>7, <1>8, <1>9, <1>10, <1>11, <1>12

\* What a call that ends has done with the bytes of its operation.
LEMMA EndingBytes ==
    ASSUME NwInv, NEW p \in Ops, NEW n \in OpStates, ops' = [ops EXCEPT ![p] = n],
           SameBytes(n, ops[p]), n.claim = ops[p].claim, n.side = ops[p].side,
           ops[p].lost => n.lost, \A o \in Ops : ~Called(o)',
           \A o \in Ops : Called(o) => o = p,
           UNCHANGED <<handle, stream>>,
           ToSet(got) \cup ToSet(pending) \subseteq ToSet(got') \cup ToSet(pending'),
           \/ n.lost \/ n.claim = "caller"
           \/ ToSet(n.content) \subseteq ToSet(got') \cup ToSet(pending'),
           Increasing(got')
    PROVE  BytesInv' /\ NoSilentLoss'
<1>1. ops'[p] = n /\ \A q \in Ops : q # p => ops'[q] = ops[q]
  BY DEF NwInv, NwTypeOK, OpTypes
<1>2. \A q \in Ops : ops'[q].content = ops[q].content /\ ops'[q].copied = ops[q].copied
                     /\ ops'[q].spill = ops[q].spill /\ ops'[q].kind = ops[q].kind
                     /\ ops'[q].claim = ops[q].claim /\ ops'[q].side = ops[q].side
  BY <1>1 DEF SameBytes
<1>3. \A q \in Ops : ops[q].lost => ops'[q].lost
  BY <1>1
<1>4. BytesInv'
  <2>1. \A q \in Ops :
        /\ ops'[q].side = "none" => ops'[q].content = <<>>
        /\ /\ ops'[q].side \in {"signal", "drop", "done"}
           /\ ops'[q].claim # "caller"
           /\ ops'[q].kind = "recv"
           /\ ~ops'[q].lost
           => ToSet(ops'[q].content) \subseteq ToSet(ops'[q].copied) \cup ToSet(ops'[q].spill)
        /\ ops'[q].kind = "send" => ops'[q].content = <<>>
    BY <1>2, <1>3 DEF NwInv, BytesInv
  <2> QED BY <2>1 DEF BytesInv
<1>5. handle => \A x \in 1 .. stream :
         \/ x \in ToSet(got') \cup ToSet(pending')
         \/ \E q \in Ops : /\ ops'[q].kind # "none" /\ x \in ToSet(ops'[q].content)
                           /\ ops'[q].lost \/ ops'[q].claim = "caller"
  <2> SUFFICES ASSUME handle, NEW x \in 1 .. stream,
                      x \notin ToSet(got') \cup ToSet(pending')
               PROVE  \E q \in Ops : /\ ops'[q].kind # "none" /\ x \in ToSet(ops'[q].content)
                                     /\ ops'[q].lost \/ ops'[q].claim = "caller"
    OBVIOUS
  <2>1. PICK q \in Ops : /\ ops[q].kind # "none" /\ x \in ToSet(ops[q].content)
                         /\ ops[q].lost \/ ops[q].claim = "caller" \/ Called(q)
    BY DEF NwInv, NoSilentLoss, Started, Called
  <2>2. ops'[q].kind # "none" /\ x \in ToSet(ops'[q].content)
    BY <1>2, <2>1
  <2>3. CASE Called(q)
    <3>1. q = p /\ x \in ToSet(n.content)
      BY <1>1, <2>2, <2>3
    <3>2. n.lost \/ n.claim = "caller"
      BY <3>1
    <3> QED BY <1>1, <2>2, <3>1, <3>2
  <2>4. CASE ~Called(q)
    BY <1>2, <1>3, <2>1, <2>2, <2>4
  <2> QED BY <2>3, <2>4
<1>6. NoSilentLoss'
  BY <1>5 DEF NoSilentLoss, Started, Increasing
<1> QED BY <1>4, <1>6

\* The bytes of a call that timed out go to the operation it abandons.
LEMMA TimeoutReturning ==
    ASSUME NwInv, NEW g \in Callers, ReturnsTimeout(g) PROVE NwInv'
<1>1. /\ pc[g].at = "leave" /\ mu' = {} /\ pc' = [pc EXCEPT ![g] = Idle]
      /\ UNCHANGED <<dialVars, handle, pending, nwEof, queue, receives, sends, stream, got>>
  BY DEF ReturnsTimeout, Leaves
<1>2. PICK p \in Ops : /\ p = pc[g].op /\ ops[p] \in OpStates /\ Mine(g) = ops[p]
                       /\ ops[p].kind # "none" /\ \A o \in Ops : Called(o) => o = p
  BY <1>1, InCallFacts DEF InCall, Mine
<1>3. ops[p].sem \in Sems /\ ops[p].sem.owners > 0
  <2>1. Called(p)
    BY <1>1, <1>2, InCallFacts DEF InCall
  <2>2. ops[p].sem.owners = 1 + (IF ops[p].side = "done" THEN 0 ELSE 1)
    BY <1>2, <2>1 DEF NwInv, OwnersInv
  <2> QED BY <1>2, <2>2 DEF OpStates
<1>4. PICK s \in Sems : s = Dropped(ops[p].sem)
  BY <1>3, DroppedSem
<1>5. PICK n : n = [ops[p] EXCEPT !.sem = s, !.lost = TRUE]
  OBVIOUS
<1>6. ops' = [ops EXCEPT ![p] = n]
  BY <1>2, <1>4, <1>5 DEF ReturnsTimeout, Sets
<1>7. /\ n \in OpStates /\ SameBytes(n, ops[p]) /\ n.sem = s
      /\ n.claim = ops[p].claim /\ n.side = ops[p].side /\ n.lost = TRUE
  BY <1>2, <1>5 DEF OpStates, SameBytes
<1>8. pending \in Seq(Nat) /\ nwEof \in BOOLEAN /\ got \in Seq(Nat)
  BY DEF NwInv, NwTypeOK, GoTypes, OpTypes
<1>9. /\ NwTypeOK' /\ QueueInv' /\ ReadyInv' /\ MutexInv' /\ BeforeInv' /\ FrameworkInv'
      /\ OwnersInv' /\ ClaimInv'
      /\ \A o \in Ops : ~Called(o)'
  BY <1>1, <1>2, <1>4, <1>6, <1>7, <1>8, Ending
<1>10. OrderInv'
  BY <1>1, <1>6, <1>7, <1>9, DataFrame
<1>11. Increasing(got')
  BY <1>1 DEF NwInv, OrderInv, Increasing
<1>12. BytesInv' /\ NoSilentLoss'
  BY <1>1, <1>2, <1>6, <1>7, <1>9, <1>11, EndingBytes
<1> QED BY <1>9, <1>10, <1>12 DEF NwInv

\* A call that succeeds returns its bytes or keeps them; one that fails does not.
LEMMA Returning ==
    ASSUME NwInv, NEW g \in Callers, Returns(g) PROVE NwInv'
<1>1. /\ pc[g].at = "drop" /\ mu' = {} /\ pc' = [pc EXCEPT ![g] = Idle]
      /\ UNCHANGED <<dialVars, handle, queue, receives, sends, stream>>
  BY DEF Returns, Leaves
<1>2. PICK p \in Ops : /\ p = pc[g].op /\ ops[p] \in OpStates /\ Mine(g) = ops[p] /\ Called(p)
                       /\ ops[p].kind # "none" /\ (\A o \in Ops : Called(o) => o = p) /\ g \in mu
  BY <1>1, InCallFacts DEF InCall, Mine
<1>3. ops[p].sem \in Sems /\ ops[p].sem.owners > 0
  <2>1. ops[p].sem.owners = 1 + (IF ops[p].side = "done" THEN 0 ELSE 1)
    BY <1>2 DEF NwInv, OwnersInv
  <2> QED BY <1>2, <2>1 DEF OpStates
<1>4. PICK s \in Sems : s = Dropped(ops[p].sem)
  BY <1>3, DroppedSem
<1>5. PICK lost \in BOOLEAN : lost = (ops[p].error \/ ops[p].lost)
  OBVIOUS
<1>6. PICK n : n = [ops[p] EXCEPT !.sem = s, !.lost = lost]
  OBVIOUS
<1>7. ops' = [ops EXCEPT ![p] = n]
  BY <1>2, <1>4, <1>5, <1>6 DEF Returns, Sets
<1>8. /\ n \in OpStates /\ SameBytes(n, ops[p]) /\ n.sem = s
      /\ n.claim = ops[p].claim /\ n.side = ops[p].side /\ n.lost = lost
  BY <1>2, <1>6 DEF OpStates, SameBytes
<1>9. /\ pending \in Seq(Nat) /\ nwEof \in BOOLEAN /\ got \in Seq(Nat) /\ stream \in Nat
      /\ ops[p].copied \in Seq(Nat) /\ ops[p].spill \in Seq(Nat)
      /\ ops[p].complete \in BOOLEAN /\ ops[p].error \in BOOLEAN /\ ops[p].lost \in BOOLEAN
  BY <1>2 DEF NwInv, NwTypeOK, GoTypes, OpTypes, OpStates
<1>10. Increasing(got)
  BY DEF NwInv, OrderInv
<1>11. CASE ops[p].error \/ ops[p].kind = "send"
  <2>1. UNCHANGED <<nwEof, pending, got>>
    BY <1>2, <1>11 DEF Returns
  <2>2. /\ NwTypeOK' /\ QueueInv' /\ ReadyInv' /\ MutexInv' /\ BeforeInv' /\ FrameworkInv'
        /\ OwnersInv' /\ ClaimInv'
        /\ \A o \in Ops : ~Called(o)'
    BY <1>1, <1>2, <1>4, <1>7, <1>8, <1>9, <2>1, Ending
  <2>3. OrderInv'
    BY <1>1, <1>7, <1>8, <2>1, <2>2, DataFrame
  <2>4. n.lost \/ ToSet(n.content) \subseteq ToSet(got') \cup ToSet(pending')
    <3>1. CASE ops[p].error
      BY <1>5, <1>8, <3>1
    <3>2. CASE ops[p].kind = "send"
      <4>1. n.content = <<>>
        BY <1>8, <3>2 DEF SameBytes, NwInv, BytesInv
      <4> QED BY <4>1 DEF ToSet
    <3> QED BY <1>11, <3>1, <3>2
  <2>5. ops[p].lost => n.lost
    BY <1>5, <1>8
  <2>6. Increasing(got') /\ UNCHANGED <<got, pending>>
    BY <1>10, <2>1 DEF Increasing
  <2>7. BytesInv' /\ NoSilentLoss'
    BY <1>1, <1>2, <1>7, <1>8, <2>2, <2>4, <2>5, <2>6, EndingBytes
  <2> QED BY <2>2, <2>3, <2>7 DEF NwInv
<1>12. CASE ~(ops[p].error \/ ops[p].kind = "send")
  <2>1. /\ nwEof' = (nwEof \/ ops[p].complete)
        /\ got' = got \o ops[p].copied
        /\ pending' = ops[p].spill
    BY <1>2, <1>12 DEF Returns
  <2>2. got' \in Seq(Nat) /\ pending' \in Seq(Nat) /\ nwEof' \in BOOLEAN
    BY <1>9, <2>1
  <2>3. /\ NwTypeOK' /\ QueueInv' /\ ReadyInv' /\ MutexInv' /\ BeforeInv' /\ FrameworkInv'
        /\ OwnersInv' /\ ClaimInv'
        /\ \A o \in Ops : ~Called(o)'
    BY <1>1, <1>2, <1>4, <1>7, <1>8, <2>2, Ending
  <2>4. ops[p].kind = "recv" /\ ops[p].side \in {"drop", "done"} /\ pending = <<>>
    <3>1. ops[p].kind = "recv"
      BY <1>2, <1>12 DEF OpStates
    <3>2. ops[p].side \in {"drop", "done"}
      BY <1>1, <1>2 DEF NwInv, ClaimInv
    <3>3. pending = <<>>
      BY <1>2, <3>1 DEF NwInv, BytesInv
    <3> QED BY <3>1, <3>2, <3>3
  <2>5. /\ Increasing(ops[p].copied) /\ UpTo(ops[p].copied, stream)
        /\ Increasing(ops[p].spill) /\ UpTo(ops[p].spill, stream)
        /\ Below(ops[p].copied, ops[p].spill) /\ UpTo(got, stream)
        /\ Below(got, ops[p].copied) /\ Below(got, ops[p].spill)
    BY <1>2 DEF NwInv, OrderInv
  <2>6. /\ Increasing(got') /\ UpTo(got', stream) /\ Below(got', pending')
        /\ Increasing(pending') /\ UpTo(pending', stream)
        /\ ToSet(got') = ToSet(got) \cup ToSet(ops[p].copied)
    BY <1>9, <1>10, <2>1, <2>5, JoinParts
  <2>7. OrderInv'
    <3>1. \A q \in Ops : SameBytes(ops'[q], ops[q])
      BY <1>7, <1>8 DEF NwInv, NwTypeOK, OpTypes, SameBytes
    <3>2. \A q \in Ops :
        /\ Increasing(ops[q].content) /\ UpTo(ops[q].content, stream)
        /\ Increasing(ops[q].copied) /\ UpTo(ops[q].copied, stream)
        /\ Increasing(ops[q].spill) /\ UpTo(ops[q].spill, stream)
        /\ Below(ops[q].copied, ops[q].spill)
      BY DEF NwInv, OrderInv
    <3> QED BY <1>1, <2>3, <2>6, <3>1, <3>2 DEF OrderInv, SameBytes, Increasing, Below, UpTo
  <2>8. \/ n.lost \/ n.claim = "caller"
        \/ ToSet(n.content) \subseteq ToSet(got') \cup ToSet(pending')
    <3>1. CASE ops[p].lost
      BY <1>5, <1>8, <3>1
    <3>2. CASE ~ops[p].lost /\ ops[p].claim # "caller"
      <4>1. ToSet(ops[p].content) \subseteq ToSet(ops[p].copied) \cup ToSet(ops[p].spill)
        BY <2>4, <3>2 DEF NwInv, BytesInv
      <4> QED BY <1>8, <2>1, <2>6, <4>1 DEF SameBytes
    <3> QED BY <1>8, <3>1, <3>2
  <2>9. ToSet(got) \cup ToSet(pending) \subseteq ToSet(got') \cup ToSet(pending')
    <3>1. ToSet(pending) = {}
      BY <2>4 DEF ToSet
    <3> QED BY <2>6, <3>1
  <2>10. ops[p].lost => n.lost
    BY <1>5, <1>8
  <2>11. BytesInv' /\ NoSilentLoss'
    BY <1>1, <1>2, <1>7, <1>8, <2>3, <2>6, <2>8, <2>9, <2>10, EndingBytes
  <2> QED BY <2>3, <2>7, <2>11 DEF NwInv
<1> QED BY <1>11, <1>12

-----------------------------------------------------------------------------
(* The theorems.                                                           *)

\* The invariant holds initially,
LEMMA NwInitInv ==
    ASSUME NwInit PROVE NwInv
<1> USE DEF NwInit
<1>1. NoOp \in OpStates /\ NewSem \in Sems
  BY DEF OpStates, Sems, NoOp, NewSem
<1>2. \A o \in Ops : ops[o] = NoOp
  OBVIOUS
<1>3. \A g \in Callers : pc[g] = Idle
  OBVIOUS
<1>4. \A o \in Ops : ~Called(o)
  BY <1>3 DEF Called, Idle, Ops
<1>5. NwTypeOK
  <2>1. Idle \in Places
    BY DEF Idle, Places
  <2>2. DialTypes
    BY <1>1 DEF DialTypes, NwStates
  <2>3. GoTypes
    <3>1. pc \in [Callers -> Places]
      BY <2>1
    <3>2. pending \in Seq(Nat) /\ mu \in SUBSET Callers
      OBVIOUS
    <3> QED BY <3>1, <3>2, Zenon DEF GoTypes
  <2>4. OpTypes
    BY <1>1 DEF OpTypes
  <2> QED BY <2>2, <2>3, <2>4 DEF NwTypeOK
<1>6. QueueInv /\ FrameworkInv
  BY <1>2 DEF QueueInv, FrameworkInv, Waiting, NoOp, Running
<1>7. ReadyInv
  BY DEF ReadyInv, NewSem
<1>8. MutexInv /\ BeforeInv
  BY <1>2, <1>3 DEF MutexInv, BeforeInv, Idle, InCall
<1>9. OwnersInv /\ ClaimInv
  BY <1>2, <1>4 DEF OwnersInv, ClaimInv, NoOp, NewSem
<1>10. OrderInv
  BY <1>2 DEF OrderInv, NoOp, Increasing, Below, UpTo
<1>11. BytesInv
  BY <1>2, <1>4 DEF BytesInv, NoOp
<1>12. NoSilentLoss
  BY DEF NoSilentLoss
<1> QED BY <1>5, <1>6, <1>7, <1>8, <1>9, <1>10, <1>11, <1>12 DEF NwInv

\* every step preserves it,
LEMMA NwNextInv ==
    ASSUME NwInv, [NwNext]_nwVars PROVE NwInv'
<1>1. CASE DialStep
  BY <1>1, DialBegins, DialWaking, DialTimingOut, DialReturning DEF DialStep
<1>2. CASE HandlerStep
  BY <1>2, HandlerClaiming, HandlerSignalling, HandlerDropping DEF HandlerStep
<1>3. ASSUME NEW g \in Callers, \E call \in NwCalls : Calls(g, call) PROVE NwInv'
  BY <1>3, OutsideStep
<1>4. ASSUME NEW g \in Callers, CallerStep(g) PROVE NwInv'
  <2>1. CASE SetsDeadline(g) \/ FailsAtOnce(g) \/ RecvEOF(g)
    BY <2>1, OutsideStep
  <2>2. ASSUME NEW len \in 1 .. MaxLen, RecvPending(g, len) PROVE NwInv'
    BY <2>2, ReceivingPending
  <2>3. CASE SendStarts(g) \/ \E len \in 1 .. MaxLen : RecvStarts(g, len)
    BY <2>3, StartingCall
  <2>4. CASE TimesOut(g) \/ RecvClaims(g) \/ Wakes(g)
    BY <2>4, MovingCaller
  <2> QED BY <1>4, <2>1, <2>2, <2>3, <2>4, Closing, TimeoutReturning, Returning DEF CallerStep
<1>5. ASSUME NEW o \in Ops, BlockRuns(o) PROVE NwInv'
  BY <1>5, BlockClaiming, BlockCopying, BlockSignalling, BlockDropping DEF BlockRuns
<1>6. CASE FrameworkStep
  <2>1. CASE VerifyStarts \/ \E verdict : VerifyEnds(verdict)
    BY <2>1, Verifying
  <2>2. ASSUME NEW s \in {"ready", "waiting", "preparing", "failed", "cancelled"},
               StateChanges(s)
        PROVE  NwInv'
    BY <2>2, StateChanging
  <2>3. ASSUME NEW k \in 0 .. MaxLen + MaxOver, NEW error \in BOOLEAN,
               NEW complete \in BOOLEAN, Delivers(k, error, complete)
        PROVE  NwInv'
    BY <2>3, Delivering
  <2>4. ASSUME NEW error \in BOOLEAN, Sent(error) PROVE NwInv'
    BY <2>4, Sending
  <2> QED BY <1>6, <2>1, <2>2, <2>3, <2>4 DEF FrameworkStep
<1>7. CASE UNCHANGED nwVars
  <2>1. UNCHANGED <<dial, ready, settled, framework, handler, goVars, opVars, got>>
    BY <1>7 DEF nwVars, dialVars
  <2>2. DialTypes' /\ ReadyInv'
    BY <2>1, DialTypesFrame, ReadyFrame DEF NwInv, NwTypeOK
  <2> QED BY <2>1, <2>2, CallsFrame DEF NwInv, NwTypeOK, goVars, opVars
<1> QED BY <1>1, <1>2, <1>3, <1>4, <1>5, <1>6, <1>7 DEF NwNext

\* and so it holds always.
LEMMA NwInvariant == NwSpec => []NwInv
<1>1. NwInit => NwInv
  BY NwInitInv
<1>2. NwInv /\ [NwNext]_nwVars => NwInv'
  BY NwNextInv
<1> QED BY <1>1, <1>2, PTL DEF NwSpec

\* The semaphores of the dial and of every operation are released exactly
\* when both sides are through with them ("Whichever side finishes last
\* releases", https_nw_dial, https_nw_recv and https_nw_send).
THEOREM NwSemaphoreLive == NwSpec => []SemaphoreLive
<1>1. NwInv => SemaphoreLive
  <2> SUFFICES ASSUME NwInv PROVE SemaphoreLive
    OBVIOUS
  <2>1. ready.freed <=> /\ dial \in {"ok", "failed"}
                        /\ settled # "none"
                        /\ handler.at \notin {"signal", "drop"}
    BY DEF NwInv, ReadyInv
  <2>2. \A o \in Started :
           ops[o].sem.freed <=> ops[o].side = "done" /\ \A g \in Callers : pc[g].op # o
    BY DEF NwInv, OwnersInv, Started, Called
  <2> QED BY <2>1, <2>2 DEF SemaphoreLive
<1> QED BY <1>1, NwInvariant, PTL

\* A completion copies into a buffer only while the call that owns it is in
\* progress, and a native call only uses a connection that no Close has freed
\* (the claim of https_nw_recv, and nwConn.mu).
THEOREM NwBufferIsCallers == NwSpec => []BufferIsCallers
<1>1. NwInv => BufferIsCallers
  <2> SUFFICES ASSUME NwInv PROVE BufferIsCallers
    OBVIOUS
  <2>1. \A o \in Ops : ops[o].side = "copy" => Called(o)
    BY DEF NwInv, ClaimInv
  <2>2. \A g \in Callers : pc[g].op # 0 => handle
    BY DEF NwInv, MutexInv
  <2> QED BY <2>1, <2>2 DEF BufferIsCallers, Started, Called
<1> QED BY <1>1, NwInvariant, PTL

\* Reads return the bytes in order, and no successful Read skips one: what was
\* handed over is returned, kept, or went to a receive that did not succeed
\* (https_nw_recv: pending, spill, the claim and the timeout).
THEOREM NwNoSilentLoss == NwSpec => []NoSilentLoss
<1>1. NwInv => NoSilentLoss
  BY DEF NwInv
<1> QED BY <1>1, NwInvariant, PTL

=============================================================================
