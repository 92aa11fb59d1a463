------------------------ MODULE HttpsTransportProofs ------------------------
(***************************************************************************)
(* Proofs about HttpsTransport, for any number of requests, connections    *)
(* and keys, and any limits of the pool.                                   *)
(***************************************************************************)
EXTENDS HttpsTransport, FiniteSetTheorems, WellFoundedInduction, TLAPS

\* The labels at which conn[r] is the connection of the attempt; at "judge" it
\* has been closed, and roundTrip still asks whether it was untouched.
Busy == Owning \cup {"judge"}

\* What OnePlace rests on: the connection of an attempt is with that request
\* only, and it is one of the request's own destination.
PlaceInv ==
    /\ \A r, q \in Reqs : pc[r] \in Busy /\ pc[q] \in Busy /\ conn[r] = conn[q] => r = q
    /\ \A r \in Reqs : pc[r] \in Busy =>
          /\ conn[r] \in Conns
          /\ conn[r] \notin idle
          /\ conn[r] \notin dropped
          /\ ckey[conn[r]] = key[r]
    /\ \A r \in Reqs : pc[r] = "judge" => broken[conn[r]]
    /\ \A r \in Reqs : pc[r] = "idle" <=> key[r] = None
    /\ \A c \in Conns : c \in idle => c \notin dropped
    /\ \A c \in Conns : c \in idle \/ c \in dropped => ckey[c] # None

\* The duty to close every connection is with someone.
DutyInv ==
    \A c \in Conns : ckey[c] # None /\ ~broken[c] =>
        c \in idle \/ c \in dropped \/ \E r \in Reqs : Owns(r, c)

\* The counter of the pool, and the order of the releases.
CountInv ==
    /\ IsFiniteSet(idle)
    /\ total = Cardinality(idle)
    /\ total <= MaxTotal
    /\ \A c \in Conns : idleSince[c] <= now

\* A server that began an answer has a request to answer.
ServerInv == \A c \in Conns : link[c].halfway => link[c].serving # <<>>

\* What ResponseIsOwn rests on, of a connection that is not closed: nothing is
\* under way on one that is idle or just leased; on the one that a request has
\* written to, the next head is that request's; and once the end of its body
\* was read the server has nothing left to answer.
Quiet(l) == l.serving = <<>> /\ ~l.halfway /\ l.stream = <<>>

Awaits(l, r) ==
    /\ l.halfway => l.serving = <<r>> /\ l.stream # <<>> /\ Tail(l.stream) = <<>>
    /\ ~l.halfway => l.serving = <<>> \/ (l.serving = <<r>> /\ l.stream = <<>>)
    /\ l.stream # <<>> => Head(l.stream).req = r

Within(l, r) ==
    /\ l.halfway => l.serving = <<r>> /\ l.stream = <<>>
    /\ ~l.halfway => l.serving = <<>>

Over(l) == l.serving = <<>> /\ ~l.halfway

LinkInv(r, l) ==
    /\ pc[r] \in {"exchange", "write", "put"} => Quiet(l)
    /\ pc[r] = "read" => Awaits(l, r)
    /\ pc[r] \in {"body", "drain"} /\ body[r] # "eof" => Within(l, r)
    /\ pc[r] \in {"body", "drain", "recycle"} /\ body[r] = "eof" => Over(l)

StreamInv ==
    /\ \A r \in Reqs : pc[r] \in Owning /\ ~broken[conn[r]] => LinkInv(r, link[conn[r]])
    /\ \A r \in Reqs : pc[r] \notin {"body", "recycle", "put"} => body[r] = "open"
    /\ \A c \in Conns : (c \in idle /\ ~broken[c]) \/ ckey[c] = None => Quiet(link[c])
    /\ \A r \in Reqs : got[r] \in {None, r}

\* What SentOnceUnlessReplayable and NoResendAfterAnswer rest on: a server got
\* the request once per attempt, and a byte of an answer bars another attempt.
Unsent == {"idle", "lease", "dial", "exchange", "write"}

SendInv ==
    \A r \in Reqs :
        /\ pc[r] \in Unsent => sends[r] <= attempt[r]
        /\ pc[r] \notin Unsent \cup {"done"} => sends[r] <= attempt[r] + 1
        /\ attempt[r] = 1 => replay[r]
        /\ pc[r] = "idle" => attempt[r] = 0
        /\ pc[r] = "done" => sends[r] <= (IF replay[r] THEN 2 ELSE 1)
        /\ r \in answered => pc[r] \notin Unsent
        /\ r \in answered /\ pc[r] \in {"read", "judge"} => nread[conn[r]]

-----------------------------------------------------------------------------
(* The operators of the pool.                                              *)

\* A set of naturals that is not empty has a least element.
LEMMA LeastNatural ==
    ASSUME NEW T \in SUBSET Nat, T # {}
    PROVE  \E x \in T : \A y \in T : x <= y
<1>1. PICK x \in T : \A y \in T : <<y, x>> \notin OpToRel(<, Nat)
  BY NatLessThanWellFounded, WFMin
<1>2. ASSUME NEW y \in T PROVE x <= y
  <2>1. ~(y < x)
    BY <1>1 DEF OpToRel
  <2> QED
    BY <2>1
<1> QED
  BY <1>2

\* get finds a newest entry among usable ones, if there are any.
LEMMA NewestIn ==
    ASSUME TypeOK, CountInv, NEW S \in SUBSET idle, S # {}
    PROVE  Newest(S) \in S
<1> DEFINE T == {now - idleSince[c] : c \in S}
<1>1. \A c \in S : idleSince[c] \in Nat /\ idleSince[c] <= now /\ now \in Nat
  BY DEF TypeOK, CountInv
<1>2. T \in SUBSET Nat /\ T # {}
  BY <1>1
<1>3. PICK x \in T : \A y \in T : x <= y
  BY <1>2, LeastNatural
<1>4. PICK c \in S : x = now - idleSince[c]
  BY <1>3
<1>5. ASSUME NEW d \in S PROVE idleSince[d] <= idleSince[c]
  <2>1. now - idleSince[c] <= now - idleSince[d]
    BY <1>3, <1>4
  <2> QED
    BY <2>1, <1>1
<1> QED
  BY <1>4, <1>5 DEF Newest

\* evictOldest finds an oldest entry of a pool that is not empty.
LEMMA OldestIn ==
    ASSUME TypeOK, idle # {}
    PROVE  Oldest \in idle
<1> DEFINE T == {idleSince[c] : c \in idle}
<1>1. T \in SUBSET Nat /\ T # {}
  BY DEF TypeOK
<1>2. PICK x \in T : \A y \in T : x <= y
  BY <1>1, LeastNatural
<1>3. PICK c \in idle : x = idleSince[c]
  BY <1>2
<1>4. \A d \in idle : idleSince[c] <= idleSince[d]
  BY <1>2, <1>3
<1> QED
  BY <1>4 DEF Oldest

\* The two outcomes of get: nothing usable, and the bucket is emptied, or the
\* connection c, after those of S were passed.
Miss(r) ==
    /\ conn' = [conn EXCEPT ![r] = None]
    /\ Goto(r, "dial")
    /\ Takes(Bucket(key[r]))
    /\ Close(Bucket(key[r]))

Hit(r, c, S) ==
    /\ c \in Bucket(key[r]) /\ c \notin S /\ ~broken[c]
    /\ conn' = [conn EXCEPT ![r] = c]
    /\ Goto(r, "exchange")
    /\ Takes(S \cup {c})
    /\ Close(S)

\* get is one or the other.
LEMMA LeaseCases ==
    ASSUME TypeOK, CountInv, NEW r \in Reqs, Lease(r)
    PROVE  Miss(r) \/ \E c \in Conns, S \in SUBSET Bucket(key[r]) : Hit(r, c, S)
<1> DEFINE U == Usable(key[r])
           P == Passed(key[r])
<1>1. CASE U = {}
  <2>1. P = Bucket(key[r]) /\ P \cup {} = P
    BY <1>1 DEF Passed
  <2> QED
    BY <1>1, <2>1 DEF Lease, Miss
<1>2. CASE U # {}
  <2>1. U \in SUBSET idle
    BY DEF Usable, Bucket
  <2>2. Newest(U) \in U
    BY <1>2, <2>1, NewestIn
  <2>3. P \in SUBSET Bucket(key[r]) /\ Newest(U) \notin P
    <3>1. P = {c \in Bucket(key[r]) : idleSince[c] > idleSince[Newest(U)]}
      BY <1>2 DEF Passed
    <3>2. idleSince[Newest(U)] \in Nat
      BY <2>1, <2>2 DEF TypeOK
    <3> QED
      BY <3>1, <3>2
  <2>4. Hit(r, Newest(U), P)
    BY <1>2, <2>2, <2>3 DEF Lease, Hit, Usable
  <2> QED
    BY <2>1, <2>2, <2>3, <2>4 DEF TypeOK
<1> QED
  BY <1>1, <1>2

\* What put evicts is in the pool, and at most one.
LEMMA EvictedIn ==
    ASSUME TypeOK, NEW c \in Conns, ~Refused(c)
    PROVE  /\ Evicted \in SUBSET idle
           /\ \/ Evicted = {} /\ ~(total >= MaxTotal)
              \/ \E d \in idle : Evicted = {d}
<1>1. CASE total >= MaxTotal
  <2>1. idle # {}
    BY <1>1 DEF Refused
  <2> QED
    BY <1>1, <2>1, OldestIn DEF Evicted
<1>2. CASE ~(total >= MaxTotal)
  BY <1>2 DEF Evicted
<1> QED
  BY <1>1, <1>2

\* Connections that leave the pool leave its counter right.
LEMMA TakesCount ==
    ASSUME TypeOK, CountInv, NEW S \in SUBSET idle, Takes(S)
    PROVE  CountInv' /\ total' \in Nat
<1>1. idle \cap S = S
  OBVIOUS
<1>2. IsFiniteSet(idle \ S) /\ Cardinality(idle \ S) = Cardinality(idle) - Cardinality(S)
  BY <1>1, FS_Difference DEF CountInv
<1>3. IsFiniteSet(S) /\ Cardinality(S) \in Nat /\ Cardinality(idle \ S) \in Nat
  BY <1>2, FS_Subset, FS_CardinalityType DEF CountInv
<1>4. total' = Cardinality(idle')
  BY <1>2, <1>3 DEF Takes, CountInv
<1>5. total' <= MaxTotal
  BY <1>2, <1>3, LimitsAssumption DEF Takes, CountInv, TypeOK
<1> QED
  BY <1>2, <1>3, <1>4, <1>5 DEF Takes, CountInv

\* So does the one that comes in.
LEMMA FilesCount ==
    ASSUME TypeOK, CountInv, NEW c \in Conns, c \notin idle, ~Refused(c), Files(c)
    PROVE  CountInv' /\ total' \in Nat
<1>1. Evicted \in SUBSET idle
  BY EvictedIn
<1> DEFINE rest == idle \ Evicted
<1>2. idle \cap Evicted = Evicted /\ c \notin rest
  BY <1>1
<1>3. IsFiniteSet(rest) /\ Cardinality(rest) = Cardinality(idle) - Cardinality(Evicted)
  BY <1>2, FS_Difference DEF CountInv
<1>4. Cardinality(rest) \in Nat
  BY <1>3, FS_CardinalityType
<1>5. IsFiniteSet(rest \cup {c}) /\ Cardinality(rest \cup {c}) = Cardinality(rest) + 1
  BY <1>2, <1>3, FS_AddElement
<1>6. /\ Cardinality(Evicted) \in Nat
      /\ total >= MaxTotal => Cardinality(Evicted) = 1
  BY EvictedIn, FS_EmptySet, FS_Singleton
<1>7. total' = Cardinality(rest) + 1
  BY <1>3, <1>4, <1>6 DEF Files, CountInv, TypeOK
<1>8. total' <= MaxTotal
  BY <1>3, <1>4, <1>6, <1>7, LimitsAssumption DEF CountInv, TypeOK
<1>9. \A d \in Conns : idleSince'[d] <= now'
  BY DEF Files, CountInv, TypeOK
<1> QED
  BY <1>4, <1>5, <1>7, <1>8, <1>9 DEF Files, CountInv

-----------------------------------------------------------------------------
(* Type correctness.                                                       *)

\* Nothing has been asked for.
LEMMA TypeInit == Init => TypeOK
BY DEF Init, TypeOK, Labels, Links, Silent, Items

\* pc.close() keeps the types.
LEMMA CloseType ==
    ASSUME TypeOK, NEW S, Close(S)
    PROVE  broken' \in [Conns -> BOOLEAN] /\ link' \in [Conns -> Links]
<1>1. Silent \in Links
  BY DEF Silent, Links
<1> QED
  BY <1>1 DEF TypeOK, Close

\* Reading takes one item off the connection of a busy request.
LEMMA ReadsType ==
    ASSUME TypeOK, PlaceInv, NEW r \in Reqs, pc[r] \in Busy
    PROVE  /\ link[conn[r]].stream # <<>> =>
                Head(link[conn[r]].stream) \in Items /\ Tail(link[conn[r]].stream) \in Seq(Items)
           /\ link[conn[r]].stream # <<>> /\ link' = [link EXCEPT ![conn[r]].stream = Tail(@)]
                => link' \in [Conns -> Links]
<1>1. conn[r] \in Conns
  BY DEF PlaceInv
<1>2. link[conn[r]] \in Links /\ link[conn[r]].stream \in Seq(Items)
  BY <1>1 DEF TypeOK, Links
<1>3. ASSUME link[conn[r]].stream # <<>>
      PROVE  Head(link[conn[r]].stream) \in Items /\ Tail(link[conn[r]].stream) \in Seq(Items)
  BY <1>2, <1>3
<1>4. ASSUME link[conn[r]].stream # <<>>,
             link' = [link EXCEPT ![conn[r]].stream = Tail(@)]
      PROVE  link' \in [Conns -> Links]
  <2>1. [link[conn[r]] EXCEPT !.stream = Tail(@)] \in Links
    BY <1>2, <1>3, <1>4 DEF Links
  <2> QED
    BY <1>1, <1>4, <2>1 DEF TypeOK
<1> QED
  BY <1>3, <1>4

\* What a server sends and has left to answer.
LEMMA ServerType ==
    ASSUME TypeOK, NEW c \in Conns, link[c].serving # <<>>, NEW k \in Kinds
    PROVE  /\ Item(Head(link[c].serving), "head", k) \in Items
           /\ Append(link[c].stream, Item(Head(link[c].serving), "head", k)) \in Seq(Items)
           /\ Tail(link[c].serving) \in Seq(Reqs)
           /\ \A parts \in {<<"end">>, <<"end", "extra">>} :
                 link[c].stream \o [i \in 1 .. Len(parts) |->
                    Item(Head(link[c].serving), parts[i], "framed")] \in Seq(Items)
<1>1. /\ Head(link[c].serving) \in Reqs
      /\ Tail(link[c].serving) \in Seq(Reqs)
      /\ link[c].stream \in Seq(Items)
  BY DEF TypeOK, Links
<1>2. \A p \in {"head", "end", "extra"}, j \in Kinds : Item(Head(link[c].serving), p, j) \in Items
  BY <1>1 DEF Item, Items
<1>3. ASSUME NEW parts \in {<<"end">>, <<"end", "extra">>}
      PROVE  [i \in 1 .. Len(parts) |-> Item(Head(link[c].serving), parts[i], "framed")]
                \in Seq(Items)
  <2>1. Len(parts) \in Nat /\ \A i \in 1 .. Len(parts) : parts[i] \in {"head", "end", "extra"}
    OBVIOUS
  <2> QED
    BY <1>2, <2>1 DEF Kinds
<1> QED
  BY <1>1, <1>2, <1>3

\* Every step keeps the types, one case per action; PlaceInv says that a busy
\* request has a connection.
LEMMA TypeStep == TypeOK /\ PlaceInv /\ CountInv /\ ServerInv /\ [Next]_vars => TypeOK'
<1> SUFFICES ASSUME TypeOK, PlaceInv, CountInv, ServerInv, [Next]_vars PROVE TypeOK'
  OBVIOUS
<1> USE DEF TypeOK, Labels, Owning, Busy, given, locals, pool, seen
<1>1. ASSUME NEW r \in Reqs, BodyRebuildFails(r) PROVE TypeOK'
  BY <1>1 DEF BodyRebuildFails, End, Goto
<1>2. ASSUME NEW r \in Reqs, LeaseNothing(r) PROVE TypeOK'
  BY <1>2 DEF LeaseNothing, Goto
<1>3. ASSUME NEW r \in Reqs, Lease(r) PROVE TypeOK'
  <2>1. CASE Miss(r)
    <3>1. broken' \in [Conns -> BOOLEAN] /\ link' \in [Conns -> Links]
      BY <2>1, CloseType DEF Miss
    <3>2. total' \in Nat
      BY <2>1, TakesCount DEF Miss, Bucket
    <3> QED
      BY <1>3, <2>1, <3>1, <3>2 DEF Lease, Miss, Takes, Goto
  <2>2. ASSUME NEW c \in Conns, NEW S \in SUBSET Bucket(key[r]), Hit(r, c, S) PROVE TypeOK'
    <3>1. broken' \in [Conns -> BOOLEAN] /\ link' \in [Conns -> Links]
      BY <2>2, CloseType DEF Hit
    <3>2. total' \in Nat
      BY <2>2, TakesCount DEF Hit, Bucket
    <3> QED
      BY <1>3, <2>2, <3>1, <3>2 DEF Lease, Hit, Takes, Goto
  <2> QED
    BY <1>3, <2>1, <2>2, LeaseCases
<1>4. ASSUME NEW r \in Reqs, NEW c \in Conns, DialOK(r, c) PROVE TypeOK'
  BY <1>4 DEF DialOK, Goto
<1>5. ASSUME NEW r \in Reqs, DialFails(r) PROVE TypeOK'
  BY <1>5 DEF DialFails, End, Goto
<1>6. ASSUME NEW r \in Reqs, Exchange(r) PROVE TypeOK'
  BY <1>6 DEF Exchange, Goto
<1>7. ASSUME NEW r \in Reqs, DeadlineFails(r) PROVE TypeOK'
  <2>1. broken' \in [Conns -> BOOLEAN] /\ link' \in [Conns -> Links]
    BY <1>7, CloseType DEF DeadlineFails
  <2> QED
    BY <1>7, <2>1 DEF DeadlineFails, Goto
<1>8. ASSUME NEW r \in Reqs, Write(r) PROVE TypeOK'
  <2>1. link' \in [Conns -> Links] /\ sends' \in [Reqs -> Nat]
    <3>1. CASE link[conn[r]].gone
      BY <1>8, <3>1 DEF Write
    <3>2. CASE ~link[conn[r]].gone
      <4>1. conn[r] \in Conns
        BY <1>8 DEF Write, PlaceInv
      <4>2. link[conn[r]] \in Links
        BY <4>1
      <4>3. [link[conn[r]] EXCEPT !.serving = Append(@, r)] \in Links
        <5>1. Append(link[conn[r]].serving, r) \in Seq(Reqs)
          BY <4>2 DEF Links
        <5> QED
          BY <4>2, <5>1 DEF Links
      <4>4. /\ link' = [link EXCEPT ![conn[r]].serving = Append(@, r)]
            /\ sends' = [sends EXCEPT ![r] = @ + 1]
        BY <1>8, <3>2 DEF Write
      <4>5. sends' \in [Reqs -> Nat]
        BY <4>4
      <4> QED
        BY <4>1, <4>3, <4>4, <4>5
    <3> QED
      BY <3>1, <3>2
  <2> QED
    BY <1>8, <2>1 DEF Write, Goto
<1>9. ASSUME NEW r \in Reqs, WriteFails(r) PROVE TypeOK'
  <2>1. broken' \in [Conns -> BOOLEAN] /\ link' \in [Conns -> Links]
    BY <1>9, CloseType DEF WriteFails, GiveUp
  <2>2. sends' \in [Reqs -> Nat]
    BY <1>9 DEF WriteFails
  <2>3. watch' \in [Reqs \X Conns -> {"off", "on", "stopped"}]
    BY <1>9 DEF WriteFails, GiveUp, Stop
  <2> QED
    BY <1>9, <2>1, <2>2, <2>3 DEF WriteFails, GiveUp, Goto
<1>10. ASSUME NEW r \in Reqs, ReadHead(r) PROVE TypeOK'
  <2>1. link' \in [Conns -> Links] /\ Head(link[conn[r]].stream) \in Items
    BY <1>10, ReadsType DEF ReadHead
  <2>2. got' \in [Reqs -> Reqs \cup {None}]
    BY <1>10, <2>1 DEF ReadHead, Items
  <2>3. reusable' \in [Reqs -> BOOLEAN]
    BY <1>10 DEF ReadHead, reusableResponse
  <2> QED
    BY <1>10, <2>1, <2>2, <2>3 DEF ReadHead, Goto
<1>11. ASSUME NEW r \in Reqs, ReadFails(r) PROVE TypeOK'
  <2>1. broken' \in [Conns -> BOOLEAN] /\ link' \in [Conns -> Links]
    BY <1>11, CloseType DEF ReadFails, GiveUp
  <2>2. watch' \in [Reqs \X Conns -> {"off", "on", "stopped"}]
    BY <1>11 DEF ReadFails, GiveUp, Stop
  <2> QED
    BY <1>11, <2>1, <2>2 DEF ReadFails, GiveUp, Goto
<1>12. ASSUME NEW r \in Reqs, Retry(r) PROVE TypeOK'
  BY <1>12 DEF Retry, Goto
<1>13. ASSUME NEW r \in Reqs, Fail(r) PROVE TypeOK'
  BY <1>13 DEF Fail, End, Goto
<1>14. ASSUME NEW r \in Reqs, BodyClose(r) PROVE TypeOK'
  BY <1>14 DEF BodyClose, Stop, Goto
<1>15. ASSUME NEW r \in Reqs, Drain(r) PROVE TypeOK'
  <2>1. link' \in [Conns -> Links]
    BY <1>15, ReadsType DEF Drain, ReadEnd
  <2> QED
    BY <1>15, <2>1 DEF Drain, ReadEnd, Goto
<1>16. ASSUME NEW r \in Reqs, RecycleKeeps(r) PROVE TypeOK'
  BY <1>16 DEF RecycleKeeps, Goto
<1>17. ASSUME NEW r \in Reqs, RecycleCloses(r) PROVE TypeOK'
  <2>1. broken' \in [Conns -> BOOLEAN] /\ link' \in [Conns -> Links]
    BY <1>17, CloseType DEF RecycleCloses
  <2> QED
    BY <1>17, <2>1 DEF RecycleCloses, End, Goto
<1>18. ASSUME NEW r \in Reqs, PutKeeps(r) PROVE TypeOK'
  <2>0. conn[r] \in Conns /\ conn[r] \notin idle
    BY <1>18 DEF PutKeeps, PlaceInv
  <2>1. broken' \in [Conns -> BOOLEAN] /\ link' \in [Conns -> Links]
    BY <1>18, CloseType DEF PutKeeps
  <2>2. total' \in Nat
    BY <1>18, <2>0, FilesCount DEF PutKeeps
  <2>3. idle' \subseteq Conns /\ idleSince' \in [Conns -> Nat] /\ now' \in Nat /\ aged' \subseteq Conns
    BY <1>18, <2>0 DEF PutKeeps, Files
  <2> QED
    BY <1>18, <2>1, <2>2, <2>3 DEF PutKeeps, End, Goto
<1>19. ASSUME NEW r \in Reqs, PutRefuses(r) PROVE TypeOK'
  <2>1. broken' \in [Conns -> BOOLEAN] /\ link' \in [Conns -> Links]
    BY <1>19, CloseType DEF PutRefuses
  <2> QED
    BY <1>19, <2>1 DEF PutRefuses, End, Goto
<1>20. ASSUME NEW c \in Conns, CloseDropped(c) PROVE TypeOK'
  <2>1. broken' \in [Conns -> BOOLEAN] /\ link' \in [Conns -> Links]
    BY <1>20, CloseType DEF CloseDropped
  <2> QED
    BY <1>20, <2>1 DEF CloseDropped
<1>21. ASSUME NEW r \in Reqs, NEW c \in Conns, WatchFires(r, c) PROVE TypeOK'
  <2>1. broken' \in [Conns -> BOOLEAN] /\ link' \in [Conns -> Links]
    BY <1>21, CloseType DEF WatchFires
  <2> QED
    BY <1>21, <2>1 DEF WatchFires
<1>22. ASSUME NEW r \in Reqs, NEW c \in Conns, WatchEnds(r, c) PROVE TypeOK'
  BY <1>22 DEF WatchEnds
<1>23. CASE CloseAll
  BY <1>23 DEF CloseAll
<1>24. ASSUME NEW r \in Reqs, Cancel(r) PROVE TypeOK'
  BY <1>24 DEF Cancel
<1>25. ASSUME NEW r \in Reqs, ReadSome(r) PROVE TypeOK'
  BY <1>25 DEF ReadSome
<1>26. ASSUME NEW r \in Reqs, BodyEOF(r) PROVE TypeOK'
  <2>1. link' \in [Conns -> Links]
    BY <1>26, ReadsType DEF BodyEOF, ReadEnd
  <2> QED
    BY <1>26, <2>1 DEF BodyEOF, ReadEnd
<1>27. ASSUME NEW r \in Reqs, BodyFails(r) PROVE TypeOK'
  BY <1>27 DEF BodyFails
<1>28. ASSUME NEW r \in Reqs, NEW k \in Keys, NEW b \in BOOLEAN, Begin(r, k, b) PROVE TypeOK'
  BY <1>28 DEF Begin, Goto
<1>29. ASSUME NEW c \in Conns, Age(c) PROVE TypeOK'
  BY <1>29 DEF Age
<1>30. ASSUME NEW c \in Conns, NEW k \in Kinds, ServerHead(c, k) PROVE TypeOK'
  <2>1. link[c] \in Links /\ link[c].serving # <<>>
    BY <1>30 DEF ServerHead
  <2>2. link' \in [Conns -> Links]
    BY <1>30, <2>1, ServerType DEF ServerHead, Server, Links
  <2> QED
    BY <1>30, <2>2 DEF ServerHead, Server
<1>31. ASSUME NEW c \in Conns, NEW parts \in {<<"end">>, <<"end", "extra">>}, ServerEnd(c, parts) PROVE TypeOK'
  <2>1. link[c] \in Links /\ link[c].serving # <<>>
    BY <1>31 DEF ServerEnd, ServerInv
  <2>2. link' \in [Conns -> Links]
    <3> DEFINE items == [i \in 1 .. Len(parts) |->
                           Item(Head(link[c].serving), parts[i], "framed")]
    <3>1. link[c].stream \o items \in Seq(Items) /\ Tail(link[c].serving) \in Seq(Reqs)
      BY <2>1, ServerType DEF Kinds
    <3>2. link' = [link EXCEPT ![c] = [link[c] EXCEPT !.halfway = FALSE,
                                          !.serving = Tail(@), !.stream = @ \o items]]
      BY <1>31 DEF ServerEnd, Server
    <3> HIDE DEF items
    <3>3. [link[c] EXCEPT !.halfway = FALSE, !.serving = Tail(@), !.stream = @ \o items]
             \in Links
      BY <2>1, <3>1 DEF Links
    <3> QED
      BY <3>2, <3>3
  <2> QED
    BY <1>31, <2>2 DEF ServerEnd, Server
<1>32. ASSUME NEW c \in Conns, ServerCloses(c) PROVE TypeOK'
  <2>1. link' \in [Conns -> Links]
    BY <1>32 DEF ServerCloses, Server, Links
  <2> QED
    BY <1>32, <2>1 DEF ServerCloses, Server
<1>33. CASE UNCHANGED vars
  BY <1>33 DEF vars, given, locals, pool, seen
<1> HIDE DEF TypeOK
<1> QED
  BY <1>1, <1>2, <1>3, <1>4, <1>5, <1>6, <1>7, <1>8, <1>9, <1>10, <1>11, <1>12,
     <1>13, <1>14, <1>15, <1>16, <1>17, <1>18, <1>19, <1>20, <1>21, <1>22, <1>23, <1>24,
     <1>25, <1>26, <1>27, <1>28, <1>29, <1>30, <1>31, <1>32, <1>33
     DEF Next, Step, Background, Environment

-----------------------------------------------------------------------------
(* Where a connection is.                                                  *)

\* No connection has been dialled.
LEMMA PlaceInit == Init => PlaceInv /\ DutyInv /\ CountInv /\ ServerInv
BY FS_EmptySet, LimitsAssumption
   DEF Init, PlaceInv, DutyInv, CountInv, ServerInv, Busy, Owning, Silent

\* What pc.close() leaves of the connections.
LEMMA Closes ==
    ASSUME TypeOK, NEW S, Close(S)
    PROVE  \A c \in Conns :
             /\ broken'[c] <=> broken[c] \/ c \in S
             /\ c \notin S => link'[c] = link[c]
             /\ c \in S => link'[c] = Silent
BY DEF TypeOK, Close

\* Every step leaves a connection in one place, one case per action.
LEMMA PlaceStep == TypeOK /\ PlaceInv /\ CountInv /\ [Next]_vars => PlaceInv'
<1> SUFFICES ASSUME TypeOK, PlaceInv, CountInv, [Next]_vars PROVE PlaceInv'
  OBVIOUS
<1> USE NoneAssumption DEF TypeOK, PlaceInv, Owning, Busy, given, locals, pool, seen
<1>1. ASSUME NEW r \in Reqs, BodyRebuildFails(r) PROVE PlaceInv'
  BY <1>1 DEF BodyRebuildFails, End, Goto
<1>2. ASSUME NEW r \in Reqs, LeaseNothing(r) PROVE PlaceInv'
  BY <1>2 DEF LeaseNothing, Goto
<1>3. ASSUME NEW r \in Reqs, Lease(r) PROVE PlaceInv'
  <2>1. CASE Miss(r)
    BY <1>3, <2>1 DEF Lease, Miss, Takes, Close, Goto, Bucket
  <2>2. ASSUME NEW c \in Conns, NEW S \in SUBSET Bucket(key[r]), Hit(r, c, S) PROVE PlaceInv'
    BY <1>3, <2>2 DEF Lease, Hit, Takes, Close, Goto, Bucket
  <2> QED
    BY <1>3, <2>1, <2>2, LeaseCases DEF TypeOK
<1>4. ASSUME NEW r \in Reqs, NEW c \in Conns, DialOK(r, c) PROVE PlaceInv'
  BY <1>4 DEF DialOK, Goto
<1>5. ASSUME NEW r \in Reqs, DialFails(r) PROVE PlaceInv'
  BY <1>5 DEF DialFails, End, Goto
<1>6. ASSUME NEW r \in Reqs, Exchange(r) PROVE PlaceInv'
  BY <1>6 DEF Exchange, Goto
<1>7. ASSUME NEW r \in Reqs, DeadlineFails(r) PROVE PlaceInv'
  <2>1. conn[r] \in Conns /\ Close({conn[r]})
    BY <1>7 DEF DeadlineFails
  <2>2. \A c \in Conns : broken'[c] <=> broken[c] \/ c = conn[r]
    BY <2>1, Closes
  <2> QED
    BY <1>7, <2>1, <2>2 DEF DeadlineFails, Goto
<1>8. ASSUME NEW r \in Reqs, Write(r) PROVE PlaceInv'
  BY <1>8 DEF Write, Goto
<1>9. ASSUME NEW r \in Reqs, WriteFails(r) PROVE PlaceInv'
  <2>1. conn[r] \in Conns /\ Close({conn[r]})
    BY <1>9 DEF WriteFails, GiveUp
  <2>2. \A c \in Conns : broken'[c] <=> broken[c] \/ c = conn[r]
    BY <2>1, Closes
  <2> QED
    BY <1>9, <2>1, <2>2 DEF WriteFails, GiveUp, Goto
<1>10. ASSUME NEW r \in Reqs, ReadHead(r) PROVE PlaceInv'
  BY <1>10 DEF ReadHead, Goto
<1>11. ASSUME NEW r \in Reqs, ReadFails(r) PROVE PlaceInv'
  <2>1. conn[r] \in Conns /\ Close({conn[r]})
    BY <1>11 DEF ReadFails, GiveUp
  <2>2. \A c \in Conns : broken'[c] <=> broken[c] \/ c = conn[r]
    BY <2>1, Closes
  <2> QED
    BY <1>11, <2>1, <2>2 DEF ReadFails, GiveUp, Goto
<1>12. ASSUME NEW r \in Reqs, Retry(r) PROVE PlaceInv'
  BY <1>12 DEF Retry, Goto
<1>13. ASSUME NEW r \in Reqs, Fail(r) PROVE PlaceInv'
  BY <1>13 DEF Fail, End, Goto
<1>14. ASSUME NEW r \in Reqs, BodyClose(r) PROVE PlaceInv'
  BY <1>14 DEF BodyClose, Stop, Goto
<1>15. ASSUME NEW r \in Reqs, Drain(r) PROVE PlaceInv'
  BY <1>15 DEF Drain, ReadEnd, Goto
<1>16. ASSUME NEW r \in Reqs, RecycleKeeps(r) PROVE PlaceInv'
  BY <1>16 DEF RecycleKeeps, Goto
<1>17. ASSUME NEW r \in Reqs, RecycleCloses(r) PROVE PlaceInv'
  BY <1>17 DEF RecycleCloses, End, Close, Goto
<1>18. ASSUME NEW r \in Reqs, PutKeeps(r) PROVE PlaceInv'
  BY <1>18 DEF PutKeeps, Files, End, Close, Goto
<1>19. ASSUME NEW r \in Reqs, PutRefuses(r) PROVE PlaceInv'
  BY <1>19 DEF PutRefuses, End, Close, Goto
<1>20. ASSUME NEW c \in Conns, CloseDropped(c) PROVE PlaceInv'
  BY <1>20 DEF CloseDropped, Close
<1>21. ASSUME NEW r \in Reqs, NEW c \in Conns, WatchFires(r, c) PROVE PlaceInv'
  BY <1>21 DEF WatchFires, Close
<1>22. ASSUME NEW r \in Reqs, NEW c \in Conns, WatchEnds(r, c) PROVE PlaceInv'
  BY <1>22 DEF WatchEnds
<1>23. CASE CloseAll
  BY <1>23 DEF CloseAll
<1>24. ASSUME NEW r \in Reqs, Cancel(r) PROVE PlaceInv'
  BY <1>24 DEF Cancel
<1>25. ASSUME NEW r \in Reqs, ReadSome(r) PROVE PlaceInv'
  BY <1>25 DEF ReadSome
<1>26. ASSUME NEW r \in Reqs, BodyEOF(r) PROVE PlaceInv'
  BY <1>26 DEF BodyEOF, ReadEnd
<1>27. ASSUME NEW r \in Reqs, BodyFails(r) PROVE PlaceInv'
  BY <1>27 DEF BodyFails
<1>28. ASSUME NEW r \in Reqs, NEW k \in Keys, NEW b \in BOOLEAN, Begin(r, k, b) PROVE PlaceInv'
  BY <1>28 DEF Begin, Goto
<1>29. ASSUME NEW c \in Conns, Age(c) PROVE PlaceInv'
  BY <1>29 DEF Age
<1>30. ASSUME NEW c \in Conns, NEW k \in Kinds, ServerHead(c, k) PROVE PlaceInv'
  BY <1>30 DEF ServerHead, Server
<1>31. ASSUME NEW c \in Conns, NEW parts \in {<<"end">>, <<"end", "extra">>}, ServerEnd(c, parts) PROVE PlaceInv'
  BY <1>31 DEF ServerEnd, Server
<1>32. ASSUME NEW c \in Conns, ServerCloses(c) PROVE PlaceInv'
  BY <1>32 DEF ServerCloses, Server
<1>33. CASE UNCHANGED vars
  BY <1>33 DEF vars, given, locals, pool, seen
<1> HIDE DEF PlaceInv
<1> QED
  BY <1>1, <1>2, <1>3, <1>4, <1>5, <1>6, <1>7, <1>8, <1>9, <1>10, <1>11, <1>12,
     <1>13, <1>14, <1>15, <1>16, <1>17, <1>18, <1>19, <1>20, <1>21, <1>22, <1>23, <1>24,
     <1>25, <1>26, <1>27, <1>28, <1>29, <1>30, <1>31, <1>32, <1>33
     DEF Next, Step, Background, Environment

\* Every step keeps the counter, one case per action.
LEMMA CountStep == TypeOK /\ PlaceInv /\ CountInv /\ [Next]_vars => CountInv'
<1> SUFFICES ASSUME TypeOK, PlaceInv, CountInv, [Next]_vars PROVE CountInv'
  OBVIOUS
<1> USE DEF pool
<1>1. ASSUME NEW r \in Reqs, BodyRebuildFails(r) PROVE CountInv'
  BY <1>1 DEF BodyRebuildFails, CountInv
<1>2. ASSUME NEW r \in Reqs, LeaseNothing(r) PROVE CountInv'
  BY <1>2 DEF LeaseNothing, CountInv
<1>3. ASSUME NEW r \in Reqs, Lease(r) PROVE CountInv'
  <2>1. CASE Miss(r)
    BY <2>1, TakesCount DEF Miss, Bucket
  <2>2. ASSUME NEW c \in Conns, NEW S \in SUBSET Bucket(key[r]), Hit(r, c, S) PROVE CountInv'
    BY <2>2, TakesCount DEF Hit, Bucket
  <2> QED
    BY <1>3, <2>1, <2>2, LeaseCases
<1>4. ASSUME NEW r \in Reqs, NEW c \in Conns, DialOK(r, c) PROVE CountInv'
  BY <1>4 DEF DialOK, CountInv
<1>5. ASSUME NEW r \in Reqs, DialFails(r) PROVE CountInv'
  BY <1>5 DEF DialFails, CountInv
<1>6. ASSUME NEW r \in Reqs, Exchange(r) PROVE CountInv'
  BY <1>6 DEF Exchange, CountInv
<1>7. ASSUME NEW r \in Reqs, DeadlineFails(r) PROVE CountInv'
  BY <1>7 DEF DeadlineFails, CountInv
<1>8. ASSUME NEW r \in Reqs, Write(r) PROVE CountInv'
  BY <1>8 DEF Write, CountInv
<1>9. ASSUME NEW r \in Reqs, WriteFails(r) PROVE CountInv'
  BY <1>9 DEF WriteFails, GiveUp, CountInv
<1>10. ASSUME NEW r \in Reqs, ReadHead(r) PROVE CountInv'
  BY <1>10 DEF ReadHead, CountInv
<1>11. ASSUME NEW r \in Reqs, ReadFails(r) PROVE CountInv'
  BY <1>11 DEF ReadFails, GiveUp, CountInv
<1>12. ASSUME NEW r \in Reqs, Retry(r) PROVE CountInv'
  BY <1>12 DEF Retry, CountInv
<1>13. ASSUME NEW r \in Reqs, Fail(r) PROVE CountInv'
  BY <1>13 DEF Fail, CountInv
<1>14. ASSUME NEW r \in Reqs, BodyClose(r) PROVE CountInv'
  BY <1>14 DEF BodyClose, CountInv
<1>15. ASSUME NEW r \in Reqs, Drain(r) PROVE CountInv'
  BY <1>15 DEF Drain, CountInv
<1>16. ASSUME NEW r \in Reqs, RecycleKeeps(r) PROVE CountInv'
  BY <1>16 DEF RecycleKeeps, CountInv
<1>17. ASSUME NEW r \in Reqs, RecycleCloses(r) PROVE CountInv'
  BY <1>17 DEF RecycleCloses, CountInv
<1>18. ASSUME NEW r \in Reqs, PutKeeps(r) PROVE CountInv'
  <2>1. conn[r] \in Conns /\ conn[r] \notin idle
    BY <1>18 DEF PutKeeps, PlaceInv, Busy, Owning
  <2> QED
    BY <1>18, <2>1, FilesCount DEF PutKeeps
<1>19. ASSUME NEW r \in Reqs, PutRefuses(r) PROVE CountInv'
  BY <1>19 DEF PutRefuses, CountInv
<1>20. ASSUME NEW c \in Conns, CloseDropped(c) PROVE CountInv'
  BY <1>20 DEF CloseDropped, CountInv
<1>21. ASSUME NEW r \in Reqs, NEW c \in Conns, WatchFires(r, c) PROVE CountInv'
  BY <1>21 DEF WatchFires, CountInv
<1>22. ASSUME NEW r \in Reqs, NEW c \in Conns, WatchEnds(r, c) PROVE CountInv'
  BY <1>22 DEF WatchEnds, CountInv
<1>23. CASE CloseAll
  BY <1>23, FS_EmptySet, LimitsAssumption DEF CloseAll, CountInv
<1>24. ASSUME NEW r \in Reqs, Cancel(r) PROVE CountInv'
  BY <1>24 DEF Cancel, CountInv
<1>25. ASSUME NEW r \in Reqs, ReadSome(r) PROVE CountInv'
  BY <1>25 DEF ReadSome, CountInv
<1>26. ASSUME NEW r \in Reqs, BodyEOF(r) PROVE CountInv'
  BY <1>26 DEF BodyEOF, CountInv
<1>27. ASSUME NEW r \in Reqs, BodyFails(r) PROVE CountInv'
  BY <1>27 DEF BodyFails, CountInv
<1>28. ASSUME NEW r \in Reqs, NEW k \in Keys, NEW b \in BOOLEAN, Begin(r, k, b) PROVE CountInv'
  BY <1>28 DEF Begin, CountInv
<1>29. ASSUME NEW c \in Conns, Age(c) PROVE CountInv'
  BY <1>29 DEF Age, CountInv
<1>30. ASSUME NEW c \in Conns, NEW k \in Kinds, ServerHead(c, k) PROVE CountInv'
  BY <1>30 DEF ServerHead, Server, CountInv
<1>31. ASSUME NEW c \in Conns, NEW parts \in {<<"end">>, <<"end", "extra">>}, ServerEnd(c, parts) PROVE CountInv'
  BY <1>31 DEF ServerEnd, Server, CountInv
<1>32. ASSUME NEW c \in Conns, ServerCloses(c) PROVE CountInv'
  BY <1>32 DEF ServerCloses, Server, CountInv
<1>33. CASE UNCHANGED vars
  BY <1>33 DEF vars, CountInv
<1> QED
  BY <1>1, <1>2, <1>3, <1>4, <1>5, <1>6, <1>7, <1>8, <1>9, <1>10, <1>11, <1>12,
     <1>13, <1>14, <1>15, <1>16, <1>17, <1>18, <1>19, <1>20, <1>21, <1>22, <1>23, <1>24,
     <1>25, <1>26, <1>27, <1>28, <1>29, <1>30, <1>31, <1>32, <1>33
     DEF Next, Step, Background, Environment

\* A sequence that got an element is not empty.
LEMMA AppendNotEmpty ==
    ASSUME NEW T, NEW s \in Seq(T), NEW x \in T
    PROVE  Append(s, x) # <<>>
<1>1. Len(Append(s, x)) = Len(s) + 1 /\ Len(s) \in Nat
  OBVIOUS
<1>2. Len(<<>>) = 0
  OBVIOUS
<1> QED
  BY <1>1, <1>2

\* A connection that is closed has no server at work.
LEMMA ClosesServer ==
    ASSUME TypeOK, ServerInv, NEW S, Close(S)
    PROVE  ServerInv'
<1>1. ASSUME NEW c \in Conns PROVE link'[c].halfway => link'[c].serving # <<>>
  <2>1. CASE c \in S
    BY <2>1, Closes DEF Silent
  <2>2. CASE c \notin S
    BY <2>2, Closes DEF ServerInv
  <2> QED
    BY <2>1, <2>2
<1> QED
  BY <1>1 DEF ServerInv

\* Every step keeps what the servers are at, one case per action.
LEMMA ServerStep == TypeOK /\ PlaceInv /\ ServerInv /\ [Next]_vars => ServerInv'
<1> SUFFICES ASSUME TypeOK, PlaceInv, ServerInv, [Next]_vars PROVE ServerInv'
  OBVIOUS
<1> USE DEF TypeOK, Links, ServerInv
<1>1. ASSUME NEW r \in Reqs, BodyRebuildFails(r) PROVE ServerInv'
  BY <1>1 DEF BodyRebuildFails, End, Goto
<1>2. ASSUME NEW r \in Reqs, LeaseNothing(r) PROVE ServerInv'
  BY <1>2 DEF LeaseNothing, Goto
<1>3. ASSUME NEW r \in Reqs, Lease(r) PROVE ServerInv'
  BY <1>3, ClosesServer DEF Lease
<1>4. ASSUME NEW r \in Reqs, NEW c \in Conns, DialOK(r, c) PROVE ServerInv'
  BY <1>4 DEF DialOK, Goto
<1>5. ASSUME NEW r \in Reqs, DialFails(r) PROVE ServerInv'
  BY <1>5 DEF DialFails, End, Goto
<1>6. ASSUME NEW r \in Reqs, Exchange(r) PROVE ServerInv'
  BY <1>6 DEF Exchange, Goto
<1>7. ASSUME NEW r \in Reqs, DeadlineFails(r) PROVE ServerInv'
  BY <1>7, ClosesServer DEF DeadlineFails
<1>8. ASSUME NEW r \in Reqs, Write(r) PROVE ServerInv'
  <2>1. CASE link[conn[r]].gone
    BY <1>8, <2>1 DEF Write
  <2>2. CASE ~link[conn[r]].gone
    <3>1. link' = [link EXCEPT ![conn[r]].serving = Append(@, r)]
      BY <1>8, <2>2 DEF Write
    <3>2. ASSUME NEW c \in Conns PROVE link'[c].halfway => link'[c].serving # <<>>
      <4>1. CASE c = conn[r]
        <5>1. link[c].serving \in Seq(Reqs)
          OBVIOUS
        <5>2. Append(link[c].serving, r) # <<>>
          BY <5>1, AppendNotEmpty
        <5> QED
          BY <3>1, <4>1, <5>2
      <4>2. CASE c # conn[r]
        BY <3>1, <4>2
      <4> QED
        BY <4>1, <4>2
    <3> QED
      BY <3>2
  <2> QED
    BY <2>1, <2>2
<1>9. ASSUME NEW r \in Reqs, WriteFails(r) PROVE ServerInv'
  BY <1>9, ClosesServer DEF WriteFails, GiveUp
<1>10. ASSUME NEW r \in Reqs, ReadHead(r) PROVE ServerInv'
  BY <1>10 DEF ReadHead, Goto
<1>11. ASSUME NEW r \in Reqs, ReadFails(r) PROVE ServerInv'
  BY <1>11, ClosesServer DEF ReadFails, GiveUp
<1>12. ASSUME NEW r \in Reqs, Retry(r) PROVE ServerInv'
  BY <1>12 DEF Retry, Goto
<1>13. ASSUME NEW r \in Reqs, Fail(r) PROVE ServerInv'
  BY <1>13 DEF Fail, End, Goto
<1>14. ASSUME NEW r \in Reqs, BodyClose(r) PROVE ServerInv'
  BY <1>14 DEF BodyClose, Stop, Goto
<1>15. ASSUME NEW r \in Reqs, Drain(r) PROVE ServerInv'
  <2>1. CASE ReadEnd(r)
    BY <2>1 DEF ReadEnd
  <2>2. CASE UNCHANGED link
    BY <2>2
  <2> QED
    BY <1>15, <2>1, <2>2 DEF Drain
<1>16. ASSUME NEW r \in Reqs, RecycleKeeps(r) PROVE ServerInv'
  BY <1>16 DEF RecycleKeeps, Goto
<1>17. ASSUME NEW r \in Reqs, RecycleCloses(r) PROVE ServerInv'
  BY <1>17, ClosesServer DEF RecycleCloses
<1>18. ASSUME NEW r \in Reqs, PutKeeps(r) PROVE ServerInv'
  BY <1>18, ClosesServer DEF PutKeeps
<1>19. ASSUME NEW r \in Reqs, PutRefuses(r) PROVE ServerInv'
  BY <1>19, ClosesServer DEF PutRefuses
<1>20. ASSUME NEW c \in Conns, CloseDropped(c) PROVE ServerInv'
  BY <1>20, ClosesServer DEF CloseDropped
<1>21. ASSUME NEW r \in Reqs, NEW c \in Conns, WatchFires(r, c) PROVE ServerInv'
  BY <1>21, ClosesServer DEF WatchFires
<1>22. ASSUME NEW r \in Reqs, NEW c \in Conns, WatchEnds(r, c) PROVE ServerInv'
  BY <1>22 DEF WatchEnds
<1>23. CASE CloseAll
  BY <1>23 DEF CloseAll
<1>24. ASSUME NEW r \in Reqs, Cancel(r) PROVE ServerInv'
  BY <1>24 DEF Cancel
<1>25. ASSUME NEW r \in Reqs, ReadSome(r) PROVE ServerInv'
  BY <1>25 DEF ReadSome
<1>26. ASSUME NEW r \in Reqs, BodyEOF(r) PROVE ServerInv'
  BY <1>26 DEF BodyEOF, ReadEnd
<1>27. ASSUME NEW r \in Reqs, BodyFails(r) PROVE ServerInv'
  BY <1>27 DEF BodyFails
<1>28. ASSUME NEW r \in Reqs, NEW k \in Keys, NEW b \in BOOLEAN, Begin(r, k, b) PROVE ServerInv'
  BY <1>28 DEF Begin, Goto
<1>29. ASSUME NEW c \in Conns, Age(c) PROVE ServerInv'
  BY <1>29 DEF Age
<1>30. ASSUME NEW c \in Conns, NEW k \in Kinds, ServerHead(c, k) PROVE ServerInv'
  BY <1>30 DEF ServerHead, Server
<1>31. ASSUME NEW c \in Conns, NEW parts \in {<<"end">>, <<"end", "extra">>}, ServerEnd(c, parts) PROVE ServerInv'
  BY <1>31 DEF ServerEnd, Server
<1>32. ASSUME NEW c \in Conns, ServerCloses(c) PROVE ServerInv'
  BY <1>32 DEF ServerCloses, Server
<1>33. CASE UNCHANGED vars
  BY <1>33 DEF vars, given, locals, pool, seen
<1> HIDE DEF ServerInv
<1> QED
  BY <1>1, <1>2, <1>3, <1>4, <1>5, <1>6, <1>7, <1>8, <1>9, <1>10, <1>11, <1>12,
     <1>13, <1>14, <1>15, <1>16, <1>17, <1>18, <1>19, <1>20, <1>21, <1>22, <1>23, <1>24,
     <1>25, <1>26, <1>27, <1>28, <1>29, <1>30, <1>31, <1>32, <1>33
     DEF Next, Step, Background, Environment

\* Every step passes the duty to close on, one case per action.
LEMMA DutyStep == TypeOK /\ PlaceInv /\ CountInv /\ DutyInv /\ [Next]_vars => DutyInv'
<1> SUFFICES ASSUME TypeOK, PlaceInv, CountInv, DutyInv, [Next]_vars PROVE DutyInv'
  OBVIOUS
<1> USE NoneAssumption DEF TypeOK, DutyInv, Owns, Owning, given, locals, pool, seen
<1>1. ASSUME NEW r \in Reqs, BodyRebuildFails(r) PROVE DutyInv'
  BY <1>1 DEF BodyRebuildFails, End, Goto
<1>2. ASSUME NEW r \in Reqs, LeaseNothing(r) PROVE DutyInv'
  BY <1>2 DEF LeaseNothing, Goto
<1>3. ASSUME NEW r \in Reqs, Lease(r) PROVE DutyInv'
  <2>1. CASE Miss(r)
    BY <1>3, <2>1 DEF Lease, Miss, Takes, Close, Goto, Bucket
  <2>2. ASSUME NEW c \in Conns, NEW S \in SUBSET Bucket(key[r]), Hit(r, c, S) PROVE DutyInv'
    <3>1. Owns(r, c)'
      BY <1>3, <2>2 DEF Lease, Hit, Goto
    <3>2. ASSUME NEW d \in Conns, d # c, ckey'[d] # None, ~broken'[d]
          PROVE  d \in idle' \/ d \in dropped' \/ \E q \in Reqs : Owns(q, d)'
      <4>1. ckey[d] # None /\ ~broken[d] /\ d \notin S
        BY <1>3, <2>2, <3>2 DEF Lease, Hit, Close
      <4>2. \A q \in Reqs : Owns(q, d) => Owns(q, d)'
        BY <1>3, <2>2 DEF Lease, Hit, Goto
      <4>3. d \in idle => d \in idle'
        BY <2>2, <3>2, <4>1 DEF Hit, Takes
      <4> QED
        BY <1>3, <4>1, <4>2, <4>3 DEF Lease
    <3> QED
      BY <3>1, <3>2
  <2> QED
    BY <1>3, <2>1, <2>2, LeaseCases
<1>4. ASSUME NEW r \in Reqs, NEW c \in Conns, DialOK(r, c) PROVE DutyInv'
  BY <1>4 DEF DialOK, Goto
<1>5. ASSUME NEW r \in Reqs, DialFails(r) PROVE DutyInv'
  BY <1>5 DEF DialFails, End, Goto
<1>6. ASSUME NEW r \in Reqs, Exchange(r) PROVE DutyInv'
  BY <1>6 DEF Exchange, Goto
<1>7. ASSUME NEW r \in Reqs, DeadlineFails(r) PROVE DutyInv'
  BY <1>7 DEF DeadlineFails, Close, Goto
<1>8. ASSUME NEW r \in Reqs, Write(r) PROVE DutyInv'
  BY <1>8 DEF Write, Goto
<1>9. ASSUME NEW r \in Reqs, WriteFails(r) PROVE DutyInv'
  BY <1>9 DEF WriteFails, GiveUp, Stop, Close, Goto
<1>10. ASSUME NEW r \in Reqs, ReadHead(r) PROVE DutyInv'
  BY <1>10 DEF ReadHead, Goto
<1>11. ASSUME NEW r \in Reqs, ReadFails(r) PROVE DutyInv'
  BY <1>11 DEF ReadFails, GiveUp, Stop, Close, Goto
<1>12. ASSUME NEW r \in Reqs, Retry(r) PROVE DutyInv'
  BY <1>12 DEF Retry, Goto
<1>13. ASSUME NEW r \in Reqs, Fail(r) PROVE DutyInv'
  BY <1>13 DEF Fail, End, Goto
<1>14. ASSUME NEW r \in Reqs, BodyClose(r) PROVE DutyInv'
  BY <1>14 DEF BodyClose, Stop, Goto
<1>15. ASSUME NEW r \in Reqs, Drain(r) PROVE DutyInv'
  BY <1>15 DEF Drain, ReadEnd, Goto
<1>16. ASSUME NEW r \in Reqs, RecycleKeeps(r) PROVE DutyInv'
  BY <1>16 DEF RecycleKeeps, Goto
<1>17. ASSUME NEW r \in Reqs, RecycleCloses(r) PROVE DutyInv'
  BY <1>17 DEF RecycleCloses, End, Close, Goto
<1>18. ASSUME NEW r \in Reqs, PutKeeps(r) PROVE DutyInv'
  BY <1>18 DEF PutKeeps, Files, End, Close, Goto
<1>19. ASSUME NEW r \in Reqs, PutRefuses(r) PROVE DutyInv'
  BY <1>19 DEF PutRefuses, End, Close, Goto
<1>20. ASSUME NEW c \in Conns, CloseDropped(c) PROVE DutyInv'
  BY <1>20 DEF CloseDropped, Close
<1>21. ASSUME NEW r \in Reqs, NEW c \in Conns, WatchFires(r, c) PROVE DutyInv'
  BY <1>21 DEF WatchFires, Close
<1>22. ASSUME NEW r \in Reqs, NEW c \in Conns, WatchEnds(r, c) PROVE DutyInv'
  BY <1>22 DEF WatchEnds
<1>23. CASE CloseAll
  BY <1>23 DEF CloseAll
<1>24. ASSUME NEW r \in Reqs, Cancel(r) PROVE DutyInv'
  BY <1>24 DEF Cancel
<1>25. ASSUME NEW r \in Reqs, ReadSome(r) PROVE DutyInv'
  BY <1>25 DEF ReadSome
<1>26. ASSUME NEW r \in Reqs, BodyEOF(r) PROVE DutyInv'
  BY <1>26 DEF BodyEOF, ReadEnd
<1>27. ASSUME NEW r \in Reqs, BodyFails(r) PROVE DutyInv'
  BY <1>27 DEF BodyFails
<1>28. ASSUME NEW r \in Reqs, NEW k \in Keys, NEW b \in BOOLEAN, Begin(r, k, b) PROVE DutyInv'
  BY <1>28 DEF Begin, Goto
<1>29. ASSUME NEW c \in Conns, Age(c) PROVE DutyInv'
  BY <1>29 DEF Age
<1>30. ASSUME NEW c \in Conns, NEW k \in Kinds, ServerHead(c, k) PROVE DutyInv'
  BY <1>30 DEF ServerHead, Server
<1>31. ASSUME NEW c \in Conns, NEW parts \in {<<"end">>, <<"end", "extra">>}, ServerEnd(c, parts) PROVE DutyInv'
  BY <1>31 DEF ServerEnd, Server
<1>32. ASSUME NEW c \in Conns, ServerCloses(c) PROVE DutyInv'
  BY <1>32 DEF ServerCloses, Server
<1>33. CASE UNCHANGED vars
  BY <1>33 DEF vars, given, locals, pool, seen
<1> HIDE DEF DutyInv
<1> QED
  BY <1>1, <1>2, <1>3, <1>4, <1>5, <1>6, <1>7, <1>8, <1>9, <1>10, <1>11, <1>12,
     <1>13, <1>14, <1>15, <1>16, <1>17, <1>18, <1>19, <1>20, <1>21, <1>22, <1>23, <1>24,
     <1>25, <1>26, <1>27, <1>28, <1>29, <1>30, <1>31, <1>32, <1>33
     DEF Next, Step, Background, Environment

-----------------------------------------------------------------------------
(* How often a request is sent.                                            *)

\* Nothing was sent.
LEMMA SendInit == Init => SendInv
BY DEF Init, SendInv, Unsent

\* Every step keeps the count of sends, one case per action.
LEMMA SendStep == TypeOK /\ PlaceInv /\ SendInv /\ [Next]_vars => SendInv'
<1> SUFFICES ASSUME TypeOK, PlaceInv, SendInv, [Next]_vars PROVE SendInv'
  OBVIOUS
<1> USE DEF TypeOK, SendInv, Unsent, given, locals, pool, seen
<1>1. ASSUME NEW r \in Reqs, BodyRebuildFails(r) PROVE SendInv'
  BY <1>1 DEF BodyRebuildFails, End, Goto
<1>2. ASSUME NEW r \in Reqs, LeaseNothing(r) PROVE SendInv'
  BY <1>2 DEF LeaseNothing, Goto
<1>3. ASSUME NEW r \in Reqs, Lease(r) PROVE SendInv'
  <2>1. pc' = [pc EXCEPT ![r] = "dial"] \/ pc' = [pc EXCEPT ![r] = "exchange"]
    BY <1>3 DEF Lease, Goto
  <2>2. UNCHANGED <<attempt, sends, replay, answered, nread>>
    BY <1>3 DEF Lease
  <2>3. pc[r] = "lease" /\ r \notin answered
    BY <1>3 DEF Lease
  <2>4. ASSUME NEW q \in Reqs, q # r, q \in answered, pc'[q] \in {"read", "judge"}
        PROVE  nread'[conn'[q]]
    BY <1>3, <2>1, <2>2, <2>4 DEF Lease
  <2> QED
    BY <2>1, <2>2, <2>3, <2>4
<1>4. ASSUME NEW r \in Reqs, NEW c \in Conns, DialOK(r, c) PROVE SendInv'
  BY <1>4 DEF DialOK, Goto
<1>5. ASSUME NEW r \in Reqs, DialFails(r) PROVE SendInv'
  BY <1>5 DEF DialFails, End, Goto
<1>6. ASSUME NEW r \in Reqs, Exchange(r) PROVE SendInv'
  BY <1>6 DEF Exchange, PlaceInv, Busy, Owning, Goto
<1>7. ASSUME NEW r \in Reqs, DeadlineFails(r) PROVE SendInv'
  BY <1>7 DEF DeadlineFails, PlaceInv, Busy, Owning, Goto
<1>8. ASSUME NEW r \in Reqs, Write(r) PROVE SendInv'
  BY <1>8 DEF Write, Goto
<1>9. ASSUME NEW r \in Reqs, WriteFails(r) PROVE SendInv'
  BY <1>9 DEF WriteFails, GiveUp, Stop, Close, Goto
<1>10. ASSUME NEW r \in Reqs, ReadHead(r) PROVE SendInv'
  BY <1>10 DEF ReadHead, Goto
<1>11. ASSUME NEW r \in Reqs, ReadFails(r) PROVE SendInv'
  BY <1>11 DEF ReadFails, GiveUp, Stop, Close, Goto
<1>12. ASSUME NEW r \in Reqs, Retry(r) PROVE SendInv'
  BY <1>12 DEF Retry, MayRetry, Goto
<1>13. ASSUME NEW r \in Reqs, Fail(r) PROVE SendInv'
  BY <1>13 DEF Fail, End, Goto
<1>14. ASSUME NEW r \in Reqs, BodyClose(r) PROVE SendInv'
  BY <1>14 DEF BodyClose, Stop, Goto
<1>15. ASSUME NEW r \in Reqs, Drain(r) PROVE SendInv'
  BY <1>15 DEF Drain, ReadEnd, Goto
<1>16. ASSUME NEW r \in Reqs, RecycleKeeps(r) PROVE SendInv'
  BY <1>16 DEF RecycleKeeps, Goto
<1>17. ASSUME NEW r \in Reqs, RecycleCloses(r) PROVE SendInv'
  BY <1>17 DEF RecycleCloses, End, Close, Goto
<1>18. ASSUME NEW r \in Reqs, PutKeeps(r) PROVE SendInv'
  BY <1>18 DEF PutKeeps, Files, End, Close, Goto
<1>19. ASSUME NEW r \in Reqs, PutRefuses(r) PROVE SendInv'
  BY <1>19 DEF PutRefuses, End, Close, Goto
<1>20. ASSUME NEW c \in Conns, CloseDropped(c) PROVE SendInv'
  BY <1>20 DEF CloseDropped, Close
<1>21. ASSUME NEW r \in Reqs, NEW c \in Conns, WatchFires(r, c) PROVE SendInv'
  BY <1>21 DEF WatchFires, Close
<1>22. ASSUME NEW r \in Reqs, NEW c \in Conns, WatchEnds(r, c) PROVE SendInv'
  BY <1>22 DEF WatchEnds
<1>23. CASE CloseAll
  BY <1>23 DEF CloseAll
<1>24. ASSUME NEW r \in Reqs, Cancel(r) PROVE SendInv'
  BY <1>24 DEF Cancel
<1>25. ASSUME NEW r \in Reqs, ReadSome(r) PROVE SendInv'
  BY <1>25 DEF ReadSome, PlaceInv, Busy, Owning, Goto
<1>26. ASSUME NEW r \in Reqs, BodyEOF(r) PROVE SendInv'
  BY <1>26 DEF BodyEOF, ReadEnd
<1>27. ASSUME NEW r \in Reqs, BodyFails(r) PROVE SendInv'
  BY <1>27 DEF BodyFails
<1>28. ASSUME NEW r \in Reqs, NEW k \in Keys, NEW b \in BOOLEAN, Begin(r, k, b) PROVE SendInv'
  BY <1>28 DEF Begin, Goto
<1>29. ASSUME NEW c \in Conns, Age(c) PROVE SendInv'
  BY <1>29 DEF Age
<1>30. ASSUME NEW c \in Conns, NEW k \in Kinds, ServerHead(c, k) PROVE SendInv'
  BY <1>30 DEF ServerHead, Server
<1>31. ASSUME NEW c \in Conns, NEW parts \in {<<"end">>, <<"end", "extra">>}, ServerEnd(c, parts) PROVE SendInv'
  BY <1>31 DEF ServerEnd, Server
<1>32. ASSUME NEW c \in Conns, ServerCloses(c) PROVE SendInv'
  BY <1>32 DEF ServerCloses, Server
<1>33. CASE UNCHANGED vars
  BY <1>33 DEF vars, given, locals, pool, seen
<1> HIDE DEF SendInv
<1> QED
  BY <1>1, <1>2, <1>3, <1>4, <1>5, <1>6, <1>7, <1>8, <1>9, <1>10, <1>11, <1>12,
     <1>13, <1>14, <1>15, <1>16, <1>17, <1>18, <1>19, <1>20, <1>21, <1>22, <1>23, <1>24,
     <1>25, <1>26, <1>27, <1>28, <1>29, <1>30, <1>31, <1>32, <1>33
     DEF Next, Step, Background, Environment

-----------------------------------------------------------------------------
(* What is on a connection.                                                *)

\* Nothing is on a connection that was not dialled.
LEMMA StreamInit == Init => StreamInv
BY DEF Init, StreamInv, Quiet, Silent, Owning

\* A step of the server on c is seen by the owner of c only.
LEMMA ServerFrame ==
    ASSUME TypeOK, PlaceInv, StreamInv, NEW c \in Conns, NEW l, Server(c, l),
           ckey[c] # None, ~broken[c], c \in idle => Quiet(l),
           \A r \in Reqs : Owns(r, c) => LinkInv(r, l)
    PROVE  StreamInv'
<1>1. /\ \A d \in Conns : link'[d] = IF d = c THEN l ELSE link[d]
      /\ UNCHANGED <<pc, conn, body, got, idle, broken, ckey, nread>>
  BY DEF Server, TypeOK, locals, pool, seen
<1>2. ASSUME NEW r \in Reqs, pc[r] \in Owning, ~broken[conn[r]]
      PROVE  LinkInv(r, link'[conn[r]])
  <2>1. conn[r] \in Conns
    BY <1>2 DEF PlaceInv, Busy
  <2>2. CASE conn[r] = c
    BY <1>1, <1>2, <2>2 DEF Owns
  <2>3. CASE conn[r] # c
    BY <1>1, <1>2, <2>1, <2>3 DEF StreamInv
  <2> QED
    BY <2>2, <2>3
<1>3. ASSUME NEW d \in Conns, (d \in idle /\ ~broken[d]) \/ ckey[d] = None
      PROVE  Quiet(link'[d])
  BY <1>1, <1>3 DEF StreamInv
<1> QED
  BY <1>1, <1>2, <1>3 DEF StreamInv, LinkInv

\* So is a read or a write of the owner of a connection.
LEMMA OwnerFrame ==
    ASSUME TypeOK, PlaceInv, StreamInv, NEW r \in Reqs, pc[r] \in Owning,
           UNCHANGED <<conn, ckey, broken, idle>>,
           \A d \in Conns : d # conn[r] => link'[d] = link[d],
           \A q \in Reqs : q # r => pc'[q] = pc[q] /\ body'[q] = body[q] /\ got'[q] = got[q],
           ~broken[conn[r]] => LinkInv(r, link[conn[r]])',
           pc'[r] \notin {"body", "recycle", "put"} => body'[r] = "open",
           got'[r] \in {None, r}
    PROVE  StreamInv'
<1>0. conn[r] \in Conns /\ conn[r] \notin idle /\ ckey[conn[r]] # None
  BY NoneAssumption DEF PlaceInv, Busy, Owning, TypeOK
<1>1. ASSUME NEW q \in Reqs, pc'[q] \in Owning, ~broken[conn[q]]
      PROVE  LinkInv(q, link[conn[q]])'
  <2>1. CASE q = r
    BY <1>1, <2>1
  <2>2. CASE q # r
    <3>1. conn[q] \in Conns /\ conn[q] # conn[r]
      BY <1>1, <2>2 DEF PlaceInv, Busy
    <3>2. link'[conn[q]] = link[conn[q]] /\ LinkInv(q, link[conn[q]])
      BY <1>1, <2>2, <3>1 DEF StreamInv
    <3> QED
      BY <2>2, <3>2 DEF LinkInv
  <2> QED
    BY <2>1, <2>2
<1>2. ASSUME NEW d \in Conns, (d \in idle /\ ~broken[d]) \/ ckey[d] = None
      PROVE  Quiet(link'[d])
  BY <1>0, <1>2 DEF StreamInv
<1> QED
  BY <1>1, <1>2 DEF StreamInv

\* Closing connections leaves the others as they are.
LEMMA CloseFrame ==
    ASSUME TypeOK, PlaceInv, StreamInv, NEW S, Close(S), UNCHANGED <<ckey, got>>,
           \A c \in Conns : c \in idle' /\ ~broken[c] => Quiet(link[c]),
           \A q \in Reqs : pc'[q] \in Owning =>
              pc'[q] = pc[q] /\ body'[q] = body[q] /\ conn'[q] = conn[q],
           \A q \in Reqs : pc'[q] \notin {"body", "recycle", "put"} => body'[q] = "open"
    PROVE  StreamInv'
<1>1. Quiet(Silent)
  BY DEF Quiet, Silent
<1>2. ASSUME NEW c \in Conns, ~broken'[c] PROVE ~broken[c] /\ link'[c] = link[c]
  BY <1>2, Closes
<1>3. ASSUME NEW c \in Conns PROVE link'[c] = link[c] \/ link'[c] = Silent
  BY Closes
<1>4. ASSUME NEW q \in Reqs, pc'[q] \in Owning, ~broken'[conn'[q]]
      PROVE  LinkInv(q, link[conn[q]])'
  <2>1. /\ pc'[q] = pc[q] /\ body'[q] = body[q] /\ conn'[q] = conn[q]
        /\ conn[q] \in Conns
    BY <1>4 DEF PlaceInv, Busy
  <2>2. ~broken[conn[q]] /\ link'[conn[q]] = link[conn[q]]
    BY <1>2, <1>4, <2>1
  <2>3. LinkInv(q, link[conn[q]])
    BY <1>4, <2>1, <2>2 DEF StreamInv
  <2> QED
    BY <2>1, <2>2, <2>3 DEF LinkInv
<1>5. ASSUME NEW c \in Conns, (c \in idle' /\ ~broken'[c]) \/ ckey[c] = None
      PROVE  Quiet(link'[c])
  BY <1>1, <1>2, <1>3, <1>5 DEF StreamInv
<1> QED
  BY <1>4, <1>5 DEF StreamInv

\* What a read takes off the connection of r.
LEMMA Reads ==
    ASSUME TypeOK, PlaceInv, NEW r \in Reqs, pc[r] \in Busy,
           link' = [link EXCEPT ![conn[r]].stream = Tail(@)]
    PROVE  /\ \A d \in Conns : d # conn[r] => link'[d] = link[d]
           /\ link'[conn[r]].stream = Tail(link[conn[r]].stream)
           /\ link'[conn[r]].serving = link[conn[r]].serving
           /\ link'[conn[r]].halfway = link[conn[r]].halfway
<1>1. conn[r] \in Conns
  BY DEF PlaceInv
<1>2. link[conn[r]] \in Links
  BY <1>1 DEF TypeOK
<1> QED
  BY <1>1, <1>2 DEF TypeOK, Links

\* A sequence of one element.
LEMMA Single ==
    ASSUME NEW x
    PROVE  <<x>> # <<>> /\ Tail(<<x>>) = <<>> /\ Head(<<x>>) = x
OBVIOUS

\* A concatenation begins with what the first sequence begins with.
LEMMA HeadConcat ==
    ASSUME NEW T, NEW s \in Seq(T), s # <<>>, NEW t \in Seq(T)
    PROVE  Head(s \o t) = Head(s)
OBVIOUS

\* What a server ends an answer with.
LEMMA ItemsType ==
    ASSUME NEW q \in Reqs, NEW parts \in {<<"end">>, <<"end", "extra">>}
    PROVE  [i \in 1 .. Len(parts) |-> Item(q, parts[i], "framed")] \in Seq(Items)
<1>1. Len(parts) \in Nat /\ \A i \in 1 .. Len(parts) : parts[i] \in {"head", "end", "extra"}
  OBVIOUS
<1>2. \A p \in {"head", "end", "extra"} : Item(q, p, "framed") \in Items
  BY DEF Item, Items, Kinds
<1> QED
  BY <1>1, <1>2

\* Once the end was read, the server has nothing left to answer.
LEMMA EndRead ==
    ASSUME TypeOK, PlaceInv, StreamInv, NEW r \in Reqs, pc[r] \in {"body", "drain"},
           body[r] = "open", ReadEnd(r)
    PROVE  Over(link'[conn[r]])
<1>1. link[conn[r]].stream # <<>> /\ ~broken[conn[r]]
  BY DEF ReadEnd
<1>2. Within(link[conn[r]], r)
  BY <1>1 DEF StreamInv, LinkInv, Owning
<1>3. /\ link'[conn[r]].serving = link[conn[r]].serving
      /\ link'[conn[r]].halfway = link[conn[r]].halfway
  BY Reads DEF ReadEnd, Busy, Owning
<1> QED
  BY <1>1, <1>2, <1>3 DEF Within, Over

\* Every step keeps what is on the connections, one case per action.
LEMMA StreamStep ==
    TypeOK /\ PlaceInv /\ CountInv /\ StreamInv /\ [Next]_vars => StreamInv'
<1> SUFFICES ASSUME TypeOK, PlaceInv, CountInv, StreamInv, [Next]_vars PROVE StreamInv'
  OBVIOUS
<1> USE NoneAssumption
    DEF TypeOK, PlaceInv, StreamInv, LinkInv, Busy, Owning, given, locals, pool, seen
<1>1. ASSUME NEW r \in Reqs, BodyRebuildFails(r) PROVE StreamInv'
  BY <1>1 DEF BodyRebuildFails, End, Goto
<1>2. ASSUME NEW r \in Reqs, LeaseNothing(r) PROVE StreamInv'
  BY <1>2 DEF LeaseNothing, Goto
<1>3. ASSUME NEW r \in Reqs, Lease(r) PROVE StreamInv'
  <2>1. CASE Miss(r)
    BY <1>3, <2>1 DEF Lease, Miss, Takes, Close, Goto, Bucket
  <2>2. ASSUME NEW c \in Conns, NEW S \in SUBSET Bucket(key[r]), Hit(r, c, S) PROVE StreamInv'
    BY <1>3, <2>2 DEF Lease, Hit, Takes, Close, Goto, Bucket
  <2> QED
    BY <1>3, <2>1, <2>2, LeaseCases
<1>4. ASSUME NEW r \in Reqs, NEW c \in Conns, DialOK(r, c) PROVE StreamInv'
  BY <1>4 DEF DialOK, Goto
<1>5. ASSUME NEW r \in Reqs, DialFails(r) PROVE StreamInv'
  BY <1>5 DEF DialFails, End, Goto
<1>6. ASSUME NEW r \in Reqs, Exchange(r) PROVE StreamInv'
  BY <1>6 DEF Exchange, Goto
<1>7. ASSUME NEW r \in Reqs, DeadlineFails(r) PROVE StreamInv'
  BY <1>7 DEF DeadlineFails, Close, Goto
<1>8. ASSUME NEW r \in Reqs, Write(r) PROVE StreamInv'
  <2> DEFINE c == conn[r]
  <2>1. c \in Conns /\ link[c] \in Links /\ Quiet(link[c])
    BY <1>8 DEF Write
  <2>2. CASE link[c].gone
    <3>1. Awaits(link[c], r)
      BY <2>1 DEF Awaits, Quiet
    <3> QED
      BY <1>8, <2>1, <2>2, <3>1 DEF Write, Goto
  <2>3. CASE ~link[c].gone
    <3>1. link' = [link EXCEPT ![c].serving = Append(@, r)]
      BY <1>8, <2>3 DEF Write
    <3>2. link'[c].serving = <<r>> /\ link'[c].halfway = link[c].halfway
                                  /\ link'[c].stream = link[c].stream
      <4>1. Append(link[c].serving, r) = <<r>>
        BY <2>1 DEF Quiet
      <4> QED
        BY <2>1, <3>1, <4>1 DEF Links
    <3>3. Awaits(link'[c], r)
      BY <2>1, <3>2 DEF Awaits, Quiet
    <3>4. \A d \in Conns : d # c => link'[d] = link[d]
      BY <2>1, <3>1
    <3>5. pc'[r] = "read" /\ \A q \in Reqs : q # r => pc'[q] = pc[q]
      BY <1>8 DEF Write, Goto
    <3>6. UNCHANGED <<conn, ckey, broken, idle, body, got>> /\ pc[r] = "write"
      BY <1>8 DEF Write
    <3>7. LinkInv(r, link[c])'
      BY <3>3, <3>5, <3>6
    <3>8. got'[r] \in {None, r} /\ body'[r] = "open"
      BY <3>6
    <3> HIDE DEF TypeOK, PlaceInv, StreamInv, LinkInv
    <3> QED
      BY <3>4, <3>5, <3>6, <3>7, <3>8, OwnerFrame DEF Owning
  <2> QED
    BY <2>2, <2>3
<1>9. ASSUME NEW r \in Reqs, WriteFails(r) PROVE StreamInv'
  BY <1>9 DEF WriteFails, GiveUp, Stop, Close, Goto
<1>10. ASSUME NEW r \in Reqs, ReadHead(r) PROVE StreamInv'
  <2> DEFINE c == conn[r]
  <2>1. c \in Conns /\ link[c] \in Links /\ Awaits(link[c], r) /\ link[c].stream # <<>>
    BY <1>10 DEF ReadHead
  <2>2. link' = [link EXCEPT ![c].stream = Tail(@)]
    BY <1>10 DEF ReadHead
  <2>3. /\ \A d \in Conns : d # c => link'[d] = link[d]
        /\ link'[c].stream = Tail(link[c].stream)
        /\ link'[c].serving = link[c].serving
        /\ link'[c].halfway = link[c].halfway
    BY <1>10, <2>2, Reads DEF ReadHead
  <2>4. Within(link'[c], r)
    BY <2>1, <2>3 DEF Awaits, Within
  <2>5. pc'[r] = "body" /\ \A q \in Reqs : q # r => pc'[q] = pc[q]
    BY <1>10 DEF ReadHead, Goto
  <2>6. UNCHANGED <<conn, ckey, broken, idle, body>> /\ pc[r] = "read" /\ body[r] = "open"
    BY <1>10 DEF ReadHead
  <2>7. got'[r] = r /\ \A q \in Reqs : q # r => got'[q] = got[q]
    BY <1>10, <2>1 DEF ReadHead, Awaits
  <2>8. LinkInv(r, link[c])'
    BY <2>4, <2>5, <2>6
  <2> QED
    BY <2>3, <2>5, <2>6, <2>7, <2>8, OwnerFrame
<1>11. ASSUME NEW r \in Reqs, ReadFails(r) PROVE StreamInv'
  BY <1>11 DEF ReadFails, GiveUp, Stop, Close, Goto
<1>12. ASSUME NEW r \in Reqs, Retry(r) PROVE StreamInv'
  BY <1>12 DEF Retry, Goto
<1>13. ASSUME NEW r \in Reqs, Fail(r) PROVE StreamInv'
  BY <1>13 DEF Fail, End, Goto
<1>14. ASSUME NEW r \in Reqs, BodyClose(r) PROVE StreamInv'
  BY <1>14 DEF BodyClose, Stop, Goto
<1>15. ASSUME NEW r \in Reqs, Drain(r) PROVE StreamInv'
  <2>1. CASE ReadEnd(r)
    <3>1. Over(link'[conn[r]]) /\ \A d \in Conns : d # conn[r] => link'[d] = link[d]
      BY <1>15, <2>1, EndRead, Reads DEF Drain, ReadEnd
    <3>2. /\ UNCHANGED <<conn, ckey, broken, idle, got>> /\ pc[r] = "drain"
          /\ pc'[r] = "recycle" /\ body'[r] = "eof"
          /\ \A q \in Reqs : q # r => pc'[q] = pc[q] /\ body'[q] = body[q]
      BY <1>15, <2>1 DEF Drain, ReadEnd, Goto
    <3>3. LinkInv(r, link[conn[r]])'
      BY <3>1, <3>2
    <3>4. got'[r] \in {None, r}
      BY <3>2
    <3> HIDE DEF TypeOK, PlaceInv, StreamInv, LinkInv
    <3> QED
      BY <3>1, <3>2, <3>3, <3>4, OwnerFrame DEF Owning
  <2>2. CASE body' = [body EXCEPT ![r] = "failed"] /\ UNCHANGED link
    BY <1>15, <2>2 DEF Drain, Goto
  <2> QED
    BY <1>15, <2>1, <2>2 DEF Drain
<1>16. ASSUME NEW r \in Reqs, RecycleKeeps(r) PROVE StreamInv'
  BY <1>16 DEF RecycleKeeps, Clean, Over, Quiet, Goto
<1>17. ASSUME NEW r \in Reqs, RecycleCloses(r) PROVE StreamInv'
  BY <1>17 DEF RecycleCloses, End, Close, Goto
<1>18. ASSUME NEW r \in Reqs, PutKeeps(r) PROVE StreamInv'
  <2>1. /\ Evicted \in SUBSET idle /\ conn[r] \in Conns
        /\ ~broken[conn[r]] => Quiet(link[conn[r]])
        /\ idle' = (idle \ Evicted) \cup {conn[r]} /\ UNCHANGED <<ckey, got>>
    BY <1>18, EvictedIn DEF PutKeeps, Files
  <2>2. pc'[r] = "done" /\ body'[r] = "open" /\ Close(Evicted)
    BY <1>18 DEF PutKeeps, End, Goto
  <2>3. ASSUME NEW q \in Reqs, q # r
        PROVE  pc'[q] = pc[q] /\ body'[q] = body[q] /\ conn'[q] = conn[q]
    BY <1>18, <2>3 DEF PutKeeps, End, Goto
  <2>4. \A c \in Conns : c \in idle' /\ ~broken[c] => Quiet(link[c])
    BY <2>1
  <2>5. \A q \in Reqs : pc'[q] \in Owning =>
           pc'[q] = pc[q] /\ body'[q] = body[q] /\ conn'[q] = conn[q]
    BY <2>2, <2>3
  <2>6. \A q \in Reqs : pc'[q] \notin {"body", "recycle", "put"} => body'[q] = "open"
    BY <2>2, <2>3
  <2> HIDE DEF TypeOK, PlaceInv, StreamInv, LinkInv
  <2> QED
    BY <2>1, <2>2, <2>4, <2>5, <2>6, CloseFrame
<1>19. ASSUME NEW r \in Reqs, PutRefuses(r) PROVE StreamInv'
  BY <1>19 DEF PutRefuses, End, Close, Goto
<1>20. ASSUME NEW c \in Conns, CloseDropped(c) PROVE StreamInv'
  BY <1>20 DEF CloseDropped, Close
<1>21. ASSUME NEW r \in Reqs, NEW c \in Conns, WatchFires(r, c) PROVE StreamInv'
  <2>1. UNCHANGED <<pc, conn, body, got, idle, ckey>> /\ Close({c})
    BY <1>21 DEF WatchFires
  <2>2. \A d \in Conns : d \in idle /\ ~broken[d] => Quiet(link[d])
    OBVIOUS
  <2>3. \A q \in Reqs : pc[q] \notin {"body", "recycle", "put"} => body[q] = "open"
    OBVIOUS
  <2> HIDE DEF TypeOK, PlaceInv, StreamInv, LinkInv
  <2> QED
    BY <2>1, <2>2, <2>3, CloseFrame
<1>22. ASSUME NEW r \in Reqs, NEW c \in Conns, WatchEnds(r, c) PROVE StreamInv'
  BY <1>22 DEF WatchEnds
<1>23. CASE CloseAll
  BY <1>23 DEF CloseAll
<1>24. ASSUME NEW r \in Reqs, Cancel(r) PROVE StreamInv'
  BY <1>24 DEF Cancel
<1>25. ASSUME NEW r \in Reqs, ReadSome(r) PROVE StreamInv'
  BY <1>25 DEF ReadSome
<1>26. ASSUME NEW r \in Reqs, BodyEOF(r) PROVE StreamInv'
  <2>1. Over(link'[conn[r]]) /\ \A d \in Conns : d # conn[r] => link'[d] = link[d]
    BY <1>26, EndRead, Reads DEF BodyEOF, ReadEnd
  <2>2. /\ UNCHANGED <<conn, ckey, broken, idle, got>> /\ pc[r] = "body"
        /\ pc'[r] = "body" /\ body'[r] = "eof"
        /\ \A q \in Reqs : q # r => pc'[q] = pc[q] /\ body'[q] = body[q]
    BY <1>26 DEF BodyEOF, ReadEnd, Goto
  <2>3. LinkInv(r, link[conn[r]])'
    BY <2>1, <2>2
  <2>4. got'[r] \in {None, r}
    BY <2>2
  <2> HIDE DEF TypeOK, PlaceInv, StreamInv, LinkInv
  <2> QED
    BY <2>1, <2>2, <2>3, <2>4, OwnerFrame DEF Owning
<1>27. ASSUME NEW r \in Reqs, BodyFails(r) PROVE StreamInv'
  BY <1>27 DEF BodyFails
<1>28. ASSUME NEW r \in Reqs, NEW k \in Keys, NEW b \in BOOLEAN, Begin(r, k, b) PROVE StreamInv'
  BY <1>28 DEF Begin, Goto
<1>29. ASSUME NEW c \in Conns, Age(c) PROVE StreamInv'
  BY <1>29 DEF Age
<1>30. ASSUME NEW c \in Conns, NEW k \in Kinds, ServerHead(c, k) PROVE StreamInv'
  <2> DEFINE item == Item(Head(link[c].serving), "head", k)
             l == [link[c] EXCEPT !.halfway = TRUE, !.stream = Append(@, item)]
  <2>1. /\ link[c] \in Links /\ link[c].serving # <<>> /\ ~link[c].halfway
        /\ ckey[c] # None /\ ~broken[c] /\ Server(c, l)
    BY <1>30 DEF ServerHead, Connected
  <2>2. /\ l.halfway /\ l.serving = link[c].serving
        /\ l.stream = Append(link[c].stream, item)
    BY <2>1 DEF Links
  <2>3. c \notin idle
    BY <2>1 DEF Quiet
  <2>4. ASSUME NEW r \in Reqs, Owns(r, c) PROVE LinkInv(r, l)
    <3>1. LinkInv(r, link[c])
      BY <2>1, <2>4 DEF Owns
    <3>2. ~Quiet(link[c]) /\ ~Within(link[c], r) /\ ~Over(link[c])
      BY <2>1 DEF Quiet, Within, Over
    <3>3. ASSUME pc[r] = "read" PROVE Awaits(l, r)
      <4>1. link[c].serving = <<r>> /\ link[c].stream = <<>>
        BY <2>1, <3>1, <3>3 DEF Awaits
      <4>2. l.stream = <<item>> /\ item.req = r
        BY <2>2, <4>1 DEF Item
      <4>3. l.stream # <<>> /\ Tail(l.stream) = <<>> /\ Head(l.stream) = item
        <5> HIDE DEF item, l
        <5> QED
          BY <4>2, Single
      <4> QED
        BY <2>2, <4>1, <4>2, <4>3 DEF Awaits
    <3> QED
      BY <3>1, <3>2, <3>3
  <2> HIDE DEF l, TypeOK, PlaceInv, StreamInv, LinkInv
  <2> QED
    BY <2>1, <2>3, <2>4, ServerFrame
<1>31. ASSUME NEW c \in Conns, NEW parts \in {<<"end">>, <<"end", "extra">>}, ServerEnd(c, parts) PROVE StreamInv'
  <2> DEFINE items == [i \in 1 .. Len(parts) |-> Item(Head(link[c].serving), parts[i], "framed")]
             l == [link[c] EXCEPT !.halfway = FALSE, !.serving = Tail(@), !.stream = @ \o items]
  <2>1. /\ link[c] \in Links /\ link[c].halfway
        /\ ckey[c] # None /\ ~broken[c] /\ Server(c, l)
    BY <1>31 DEF ServerEnd, Connected
  <2>2. /\ ~l.halfway /\ l.serving = Tail(link[c].serving)
        /\ l.stream = link[c].stream \o items
    BY <2>1 DEF Links
  <2>3. c \notin idle
    BY <2>1 DEF Quiet
  <2>4. ASSUME NEW r \in Reqs, Owns(r, c) PROVE LinkInv(r, l)
    <3>1. LinkInv(r, link[c])
      BY <2>1, <2>4 DEF Owns
    <3>2. ~Quiet(link[c]) /\ ~Over(link[c])
      BY <2>1 DEF Quiet, Over
    <3>3. ASSUME pc[r] = "read" PROVE Awaits(l, r)
      <4>1. /\ link[c].serving = <<r>> /\ link[c].stream # <<>>
            /\ Head(link[c].stream).req = r
        BY <2>1, <3>1, <3>3 DEF Awaits
      <4>2. l.serving = <<>>
        BY <2>2, <4>1
      <4>3. Head(l.stream) = Head(link[c].stream)
        <5>1. link[c].stream \in Seq(Items) /\ items \in Seq(Items)
          BY <2>1, <4>1, ItemsType DEF Links
        <5> HIDE DEF items
        <5> QED
          BY <2>2, <4>1, <5>1, HeadConcat
      <4> QED
        BY <2>2, <4>1, <4>2, <4>3 DEF Awaits
    <3>4. ASSUME Within(link[c], r) PROVE Within(l, r)
      <4>1. link[c].serving = <<r>>
        BY <2>1, <3>4 DEF Within
      <4>2. l.serving = <<>>
        BY <2>2, <4>1, Single
      <4> QED
        BY <2>2, <4>2 DEF Within
    <3> QED
      BY <3>1, <3>2, <3>3, <3>4
  <2> HIDE DEF l, TypeOK, PlaceInv, StreamInv, LinkInv
  <2> QED
    BY <2>1, <2>3, <2>4, ServerFrame
<1>32. ASSUME NEW c \in Conns, ServerCloses(c) PROVE StreamInv'
  <2> DEFINE l == [link[c] EXCEPT !.gone = TRUE]
  <2>1. link[c] \in Links /\ ckey[c] # None /\ ~broken[c] /\ Server(c, l)
    BY <1>32 DEF ServerCloses, Connected
  <2>2. l.halfway = link[c].halfway /\ l.serving = link[c].serving /\ l.stream = link[c].stream
    BY <2>1 DEF Links
  <2>3. c \in idle => Quiet(l)
    BY <2>1, <2>2 DEF Quiet
  <2>4. ASSUME NEW r \in Reqs, Owns(r, c) PROVE LinkInv(r, l)
    BY <2>1, <2>2, <2>4 DEF Owns, Quiet, Awaits, Within, Over
  <2> HIDE DEF l, TypeOK, PlaceInv, StreamInv, LinkInv
  <2> QED
    BY <2>1, <2>3, <2>4, ServerFrame
<1>33. CASE UNCHANGED vars
  BY <1>33 DEF vars, given, locals, pool, seen
<1> HIDE DEF StreamInv
<1> QED
  BY <1>1, <1>2, <1>3, <1>4, <1>5, <1>6, <1>7, <1>8, <1>9, <1>10, <1>11, <1>12,
     <1>13, <1>14, <1>15, <1>16, <1>17, <1>18, <1>19, <1>20, <1>21, <1>22, <1>23, <1>24,
     <1>25, <1>26, <1>27, <1>28, <1>29, <1>30, <1>31, <1>32, <1>33
     DEF Next, Step, Background, Environment

-----------------------------------------------------------------------------
(* The invariants and the properties they give.                            *)

\* The inductive invariant: OnePlace alone does not survive Exchange, Write or
\* PutKeeps, which need to know where the connection comes from.
TransportInv ==
    TypeOK /\ PlaceInv /\ DutyInv /\ CountInv /\ ServerInv /\ StreamInv /\ SendInv

\* It holds in every state.
LEMMA TransportInvHolds == Spec => []TransportInv
<1>1. Init => TransportInv
  BY TypeInit, PlaceInit, StreamInit, SendInit DEF TransportInv
<1>2. TransportInv /\ [Next]_vars => TransportInv'
  BY TypeStep, PlaceStep, DutyStep, CountStep, ServerStep, StreamStep, SendStep
     DEF TransportInv
<1> QED
  BY <1>1, <1>2, PTL DEF Spec

\* A variable of the transport has its type in every state, Head and Tail of a
\* stream and the counter of the pool included.
THEOREM TransportTypes == Spec => []TypeOK
<1>1. TransportInv => TypeOK
  BY DEF TransportInv
<1> QED
  BY <1>1, TransportInvHolds, PTL

\* A leased connection stays with one request: no other request, no entry of
\* the pool and no closeAll has it, for any number of requests.
THEOREM TransportOnePlace == Spec => []OnePlace
<1>1. TransportInv => OnePlace
  BY DEF TransportInv, PlaceInv, OnePlace, Owns, Busy, TypeOK
<1> QED
  BY <1>1, TransportInvHolds, PTL

\* put, evictOldest, get, closeAll and poolBody.Close each pass on the duty to
\* close a connection, and keep the counter of the pool right.
THEOREM TransportNoConnectionLost == Spec => []NoConnectionLost
<1>1. TransportInv => NoConnectionLost
  BY DEF TransportInv, DutyInv, CountInv, NoConnectionLost
<1> QED
  BY <1>1, TransportInvHolds, PTL

\* Reuse never hands a request the answer to another one: recycle takes a
\* connection back only when nothing is under way on it.
THEOREM TransportResponseIsOwn == Spec => []ResponseIsOwn
<1>1. TransportInv => ResponseIsOwn
  BY DEF TransportInv, StreamInv, ResponseIsOwn
<1> QED
  BY <1>1, TransportInvHolds, PTL

\* The single replay of roundTrip: a request reaches a server at most twice,
\* and only once if its body cannot be rebuilt.
THEOREM TransportSentOnce == Spec => []SentOnceUnlessReplayable
<1>1. TransportInv => SentOnceUnlessReplayable
  BY DEF TransportInv, TypeOK, SendInv, SentOnceUnlessReplayable
<1> QED
  BY <1>1, TransportInvHolds, PTL

\* A request of which a response byte was read is never sent again.
THEOREM TransportNoResend == Spec => NoResendAfterAnswer
<1>1. ASSUME TransportInv, [Next]_vars, NEW r \in answered PROVE sends'[r] = sends[r]
  <2>1. r \in Reqs /\ pc[r] \notin Unsent
    BY <1>1 DEF TransportInv, TypeOK, SendInv
  <2> USE DEF TransportInv, TypeOK, seen
  <2>2. ASSUME NEW q \in Reqs, BodyRebuildFails(q) PROVE sends'[r] = sends[r]
    BY <2>1, <2>2 DEF BodyRebuildFails
  <2>3. ASSUME NEW q \in Reqs, LeaseNothing(q) PROVE sends'[r] = sends[r]
    BY <2>1, <2>3 DEF LeaseNothing
  <2>4. ASSUME NEW q \in Reqs, Lease(q) PROVE sends'[r] = sends[r]
    BY <2>1, <2>4 DEF Lease
  <2>5. ASSUME NEW q \in Reqs, NEW c \in Conns, DialOK(q, c) PROVE sends'[r] = sends[r]
    BY <2>1, <2>5 DEF DialOK
  <2>6. ASSUME NEW q \in Reqs, DialFails(q) PROVE sends'[r] = sends[r]
    BY <2>1, <2>6 DEF DialFails
  <2>7. ASSUME NEW q \in Reqs, Exchange(q) PROVE sends'[r] = sends[r]
    BY <2>1, <2>7 DEF Exchange
  <2>8. ASSUME NEW q \in Reqs, DeadlineFails(q) PROVE sends'[r] = sends[r]
    BY <2>1, <2>8 DEF DeadlineFails
  <2>9. ASSUME NEW q \in Reqs, Write(q) PROVE sends'[r] = sends[r]
    <3>1. q # r
      BY <2>1, <2>9 DEF Write, Unsent
    <3>2. sends \in [Reqs -> Nat] /\ (sends' = sends \/ sends' = [sends EXCEPT ![q] = @ + 1])
      BY <1>1, <2>9 DEF Write
    <3> HIDE DEF TransportInv, TypeOK
    <3> QED
      BY <2>1, <3>1, <3>2
  <2>10. ASSUME NEW q \in Reqs, WriteFails(q) PROVE sends'[r] = sends[r]
    <3>1. q # r
      BY <2>1, <2>10 DEF WriteFails, Unsent
    <3>2. sends \in [Reqs -> Nat] /\ (sends' = sends \/ sends' = [sends EXCEPT ![q] = @ + 1])
      BY <1>1, <2>10 DEF WriteFails
    <3> HIDE DEF TransportInv, TypeOK
    <3> QED
      BY <2>1, <3>1, <3>2
  <2>11. ASSUME NEW q \in Reqs, ReadHead(q) PROVE sends'[r] = sends[r]
    BY <2>1, <2>11 DEF ReadHead
  <2>12. ASSUME NEW q \in Reqs, ReadFails(q) PROVE sends'[r] = sends[r]
    BY <2>1, <2>12 DEF ReadFails, GiveUp
  <2>13. ASSUME NEW q \in Reqs, Retry(q) PROVE sends'[r] = sends[r]
    BY <2>1, <2>13 DEF Retry
  <2>14. ASSUME NEW q \in Reqs, Fail(q) PROVE sends'[r] = sends[r]
    BY <2>1, <2>14 DEF Fail
  <2>15. ASSUME NEW q \in Reqs, BodyClose(q) PROVE sends'[r] = sends[r]
    BY <2>1, <2>15 DEF BodyClose
  <2>16. ASSUME NEW q \in Reqs, Drain(q) PROVE sends'[r] = sends[r]
    BY <2>1, <2>16 DEF Drain
  <2>17. ASSUME NEW q \in Reqs, RecycleKeeps(q) PROVE sends'[r] = sends[r]
    BY <2>1, <2>17 DEF RecycleKeeps
  <2>18. ASSUME NEW q \in Reqs, RecycleCloses(q) PROVE sends'[r] = sends[r]
    BY <2>1, <2>18 DEF RecycleCloses
  <2>19. ASSUME NEW q \in Reqs, PutKeeps(q) PROVE sends'[r] = sends[r]
    BY <2>1, <2>19 DEF PutKeeps
  <2>20. ASSUME NEW q \in Reqs, PutRefuses(q) PROVE sends'[r] = sends[r]
    BY <2>1, <2>20 DEF PutRefuses
  <2>21. ASSUME NEW c \in Conns, CloseDropped(c) PROVE sends'[r] = sends[r]
    BY <2>1, <2>21 DEF CloseDropped
  <2>22. ASSUME NEW q \in Reqs, NEW c \in Conns, WatchFires(q, c) PROVE sends'[r] = sends[r]
    BY <2>1, <2>22 DEF WatchFires
  <2>23. ASSUME NEW q \in Reqs, NEW c \in Conns, WatchEnds(q, c) PROVE sends'[r] = sends[r]
    BY <2>1, <2>23 DEF WatchEnds
  <2>24. CASE CloseAll
    BY <2>1, <2>24 DEF CloseAll
  <2>25. ASSUME NEW q \in Reqs, Cancel(q) PROVE sends'[r] = sends[r]
    BY <2>1, <2>25 DEF Cancel
  <2>26. ASSUME NEW q \in Reqs, ReadSome(q) PROVE sends'[r] = sends[r]
    BY <2>1, <2>26 DEF ReadSome
  <2>27. ASSUME NEW q \in Reqs, BodyEOF(q) PROVE sends'[r] = sends[r]
    BY <2>1, <2>27 DEF BodyEOF
  <2>28. ASSUME NEW q \in Reqs, BodyFails(q) PROVE sends'[r] = sends[r]
    BY <2>1, <2>28 DEF BodyFails
  <2>29. ASSUME NEW q \in Reqs, NEW k \in Keys, NEW b \in BOOLEAN, Begin(q, k, b) PROVE sends'[r] = sends[r]
    BY <2>1, <2>29 DEF Begin
  <2>30. ASSUME NEW c \in Conns, Age(c) PROVE sends'[r] = sends[r]
    BY <2>1, <2>30 DEF Age
  <2>31. ASSUME NEW c \in Conns, NEW k \in Kinds, ServerHead(c, k) PROVE sends'[r] = sends[r]
    BY <2>1, <2>31 DEF ServerHead, Server
  <2>32. ASSUME NEW c \in Conns, NEW parts \in {<<"end">>, <<"end", "extra">>}, ServerEnd(c, parts) PROVE sends'[r] = sends[r]
    BY <2>1, <2>32 DEF ServerEnd, Server
  <2>33. ASSUME NEW c \in Conns, ServerCloses(c) PROVE sends'[r] = sends[r]
    BY <2>1, <2>33 DEF ServerCloses, Server
  <2>34. CASE UNCHANGED vars
    BY <2>34 DEF vars
  <2> QED
    BY <1>1, <2>2, <2>3, <2>4, <2>5, <2>6, <2>7, <2>8, <2>9, <2>10, <2>11, <2>12, <2>13,
       <2>14, <2>15, <2>16, <2>17, <2>18, <2>19, <2>20, <2>21, <2>22, <2>23, <2>24, <2>25,
       <2>26, <2>27, <2>28, <2>29, <2>30, <2>31, <2>32, <2>33, <2>34
       DEF Next, Step, Background, Environment
<1>2. TransportInv /\ [Next]_vars => [\A r \in answered : sends'[r] = sends[r]]_vars
  BY <1>1
<1> QED
  BY <1>2, TransportInvHolds, PTL DEF Spec, NoResendAfterAnswer

-----------------------------------------------------------------------------
(* The pool implements ConnPool.                                           *)

\* Holder says of a connection where it is.
HolderIs ==
    \A c \in Conns :
        /\ ckey[c] = None => Holder(c) = "fresh"
        /\ c \in idle => Holder(c) = "idle"
        /\ \A r \in Reqs : Owns(r, c) => Holder(c) = r
        /\ ckey[c] # None /\ c \notin idle /\ (\A r \in Reqs : ~Owns(r, c))
              => Holder(c) = "discarded"

\* A busy request has a connection that was dialled for it.
LEMMA OwnersConn ==
    ASSUME TypeOK, PlaceInv, NEW r \in Reqs, pc[r] \in Busy
    PROVE  /\ conn[r] \in Conns /\ conn[r] \notin idle /\ conn[r] \notin dropped
           /\ ckey[conn[r]] = key[r] /\ key[r] \in Keys /\ ckey[conn[r]] # None
BY NoneAssumption DEF TypeOK, PlaceInv, Busy, Owning

\* The invariant makes Holder well defined.
LEMMA HolderFacts == TransportInv => HolderIs
<1> SUFFICES ASSUME TransportInv, NEW c \in Conns
             PROVE  /\ ckey[c] = None => Holder(c) = "fresh"
                    /\ c \in idle => Holder(c) = "idle"
                    /\ \A r \in Reqs : Owns(r, c) => Holder(c) = r
                    /\ ckey[c] # None /\ c \notin idle /\ (\A r \in Reqs : ~Owns(r, c))
                          => Holder(c) = "discarded"
  BY DEF HolderIs
<1>0. TypeOK /\ PlaceInv
  BY DEF TransportInv
<1>1. c \in idle => ckey[c] # None
  BY <1>0 DEF PlaceInv
<1>2. ASSUME NEW r \in Reqs, Owns(r, c) PROVE Holder(c) = r
  <2>1. ckey[c] # None /\ c \notin idle
    BY <1>0, <1>2, OwnersConn DEF Owns, Busy
  <2>2. \A q \in Reqs : Owns(q, c) => q = r
    BY <1>0, <1>2 DEF PlaceInv, Owns, Busy
  <2>3. (CHOOSE q \in Reqs : Owns(q, c)) = r
    BY <1>2, <2>2
  <2> QED
    BY <1>2, <2>1, <2>3 DEF Holder
<1> QED
  BY <1>1, <1>2 DEF Holder

\* A step that leaves a connection where it is leaves its holder.
LEMMA HolderSame ==
    ASSUME HolderIs, HolderIs', NEW c \in Conns, ckey'[c] = ckey[c],
           c \in idle' <=> c \in idle, \A r \in Reqs : Owns(r, c)' <=> Owns(r, c)
    PROVE  Holder(c)' = Holder(c)
<1>1. CASE ckey[c] = None
  BY <1>1 DEF HolderIs
<1>2. CASE c \in idle
  BY <1>2 DEF HolderIs
<1>3. CASE \E r \in Reqs : Owns(r, c)
  BY <1>3 DEF HolderIs
<1>4. CASE ckey[c] # None /\ c \notin idle /\ \A r \in Reqs : ~Owns(r, c)
  BY <1>4 DEF HolderIs
<1> QED
  BY <1>1, <1>2, <1>3, <1>4

\* The converse: what Holder says is where the connection is.
LEMMA HolderWhere ==
    ASSUME HolderIs, NEW c \in Conns
    PROVE  /\ Holder(c) = "fresh" => ckey[c] = None
           /\ Holder(c) = "idle" => c \in idle
           /\ \A r \in Reqs : Holder(c) = r => Owns(r, c)
<1>1. "fresh" \notin Reqs /\ "idle" \notin Reqs /\ "discarded" \notin Reqs
  BY NamesAssumption
<1>2. CASE ckey[c] = None
  BY <1>1, <1>2 DEF HolderIs
<1>3. CASE c \in idle
  BY <1>1, <1>3 DEF HolderIs
<1>4. CASE \E q \in Reqs : Owns(q, c)
  BY <1>1, <1>4 DEF HolderIs
<1>5. CASE ckey[c] # None /\ c \notin idle /\ \A r \in Reqs : ~Owns(r, c)
  BY <1>1, <1>5 DEF HolderIs
<1> QED
  BY <1>2, <1>3, <1>4, <1>5

\* What is idle for ConnPool is what is in the pool.
LEMMA IdleIn ==
    ASSUME HolderIs, TypeOK
    PROVE  Pool!In("idle") = idle
<1>1. ASSUME NEW c \in Conns PROVE Holder(c) = "idle" <=> c \in idle
  BY HolderWhere DEF HolderIs
<1> QED
  BY <1>1 DEF Pool!In, TypeOK

\* A request that is not busy holds nothing.
LEMMA HoldsNothing ==
    ASSUME HolderIs, NEW r \in Reqs, pc[r] \notin Owning
    PROVE  ~Pool!Holds(r)
<1>1. ASSUME NEW c \in Conns PROVE Holder(c) # r
  BY HolderWhere DEF Owns
<1> QED
  BY <1>1 DEF Pool!Holds, Pool!In

\* Steps that leave every connection where it is.
LEMMA PoolStutters ==
    ASSUME HolderIs, HolderIs', UNCHANGED <<ckey, idle, key>>,
           \A r \in Reqs, c \in Conns : Owns(r, c)' <=> Owns(r, c)
    PROVE  UNCHANGED Pool!poolVars
<1>1. ASSUME NEW c \in Conns PROVE Holder(c)' = Holder(c)
  BY HolderSame
<1> QED
  BY <1>1 DEF Pool!poolVars

\* A request that closes its connection.
LEMMA PoolDiscards ==
    ASSUME TypeOK, PlaceInv, HolderIs, HolderIs', UNCHANGED <<ckey, idle, key>>,
           NEW r \in Reqs, pc[r] \in Owning, pc'[r] \notin Owning,
           \A q \in Reqs : q # r => pc'[q] = pc[q] /\ conn'[q] = conn[q]
    PROVE  Pool!PoolNext
<1>0. conn[r] \in Conns
  BY OwnersConn DEF Busy
<1>c. PICK c \in Conns : c = conn[r]
  BY <1>0
<1>1. c \in Conns /\ c \notin idle /\ ckey[c] # None
  BY <1>c, OwnersConn DEF Busy
<1>2. Holder(c) = r
  BY <1>c, <1>1 DEF HolderIs, Owns
<1>3. \A q \in Reqs : ~Owns(q, c)'
  <2>1. \A q \in Reqs : q # r => ~Owns(q, c)
    BY <1>c DEF Owns, PlaceInv, Busy
  <2> QED
    BY <2>1 DEF Owns
<1>4. Holder(c)' = "discarded"
  BY <1>1, <1>3 DEF HolderIs
<1>5. ASSUME NEW d \in Conns, d # c PROVE Holder(d)' = Holder(d)
  <2>1. \A q \in Reqs : Owns(q, d)' <=> Owns(q, d)
    BY <1>c, <1>5 DEF Owns
  <2> QED
    BY <2>1, HolderSame
<1>6. Pool!Discard(c)
  BY <1>1, <1>2, <1>4, <1>5 DEF Pool!Discard, Pool!Move
<1> QED
  BY <1>1, <1>6 DEF Pool!PoolNext

\* Begin: the request asks for its key.
LEMMA PoolAsks ==
    ASSUME TypeOK, PlaceInv, HolderIs, HolderIs',
           NEW r \in Reqs, NEW k \in Keys, NEW b \in BOOLEAN, Begin(r, k, b)
    PROVE  Pool!PoolNext
<1>1. key[r] = None /\ key' = [key EXCEPT ![r] = k] /\ UNCHANGED ckey
  BY DEF Begin, PlaceInv
<1>2. ASSUME NEW c \in Conns PROVE Holder(c)' = Holder(c)
  <2>1. \A q \in Reqs : Owns(q, c)' <=> Owns(q, c)
    BY DEF Begin, Owns, Owning, Goto, TypeOK, locals
  <2> QED
    BY <2>1, HolderSame DEF Begin, pool
<1>3. Pool!Ask(r, k)
  BY <1>1, <1>2 DEF Pool!Ask
<1> QED
  BY <1>3 DEF Pool!PoolNext

\* DialOK: a new connection.
LEMMA PoolConnects ==
    ASSUME TypeOK, PlaceInv, HolderIs, HolderIs',
           NEW r \in Reqs, NEW c \in Conns, DialOK(r, c)
    PROVE  Pool!PoolNext
<1>1. /\ ckey[c] = None /\ pc[r] = "dial" /\ key[r] # None
      /\ ckey' = [ckey EXCEPT ![c] = key[r]] /\ UNCHANGED <<idle, key>>
      /\ pc' = [pc EXCEPT ![r] = "exchange"] /\ conn' = [conn EXCEPT ![r] = c]
  BY DEF DialOK, PlaceInv, pool, given, Goto
<1>2. Holder(c) = "fresh" /\ ~Pool!Holds(r)
  BY <1>1, HoldsNothing DEF HolderIs, Owning
<1>3. Holder(c)' = r
  <2>1. Owns(r, c)'
    BY <1>1 DEF Owns, Owning, TypeOK
  <2> QED
    BY <2>1 DEF HolderIs
<1>4. ASSUME NEW d \in Conns, d # c PROVE Holder(d)' = Holder(d)
  <2>1. \A q \in Reqs : Owns(q, d)' <=> Owns(q, d)
    BY <1>1, <1>4 DEF Owns, Owning, TypeOK
  <2>2. ckey'[d] = ckey[d]
    BY <1>1, <1>4 DEF TypeOK
  <2> QED
    BY <1>1, <2>1, <2>2, HolderSame
<1>5. Pool!Connect(r, c)
  BY <1>1, <1>2, <1>3, <1>4 DEF Pool!Connect, Pool!Move
<1> QED
  BY <1>5 DEF Pool!PoolNext

\* get returns nothing, and closes what the bucket held.
LEMMA PoolPurges ==
    ASSUME TypeOK, PlaceInv, HolderIs, HolderIs',
           NEW r \in Reqs, Lease(r), Miss(r)
    PROVE  Pool!PoolNext
<1>1. /\ pc[r] = "lease" /\ UNCHANGED <<ckey, key>> /\ key[r] \in Keys
      /\ idle' = idle \ Bucket(key[r])
      /\ pc' = [pc EXCEPT ![r] = "dial"] /\ conn' = [conn EXCEPT ![r] = None]
  <2>1. pc[r] = "lease" /\ key[r] \in Keys
    BY DEF Lease, PlaceInv, TypeOK
  <2> QED
    BY <2>1 DEF Lease, Miss, Takes, Goto, given
<1>2. \A q \in Reqs, c \in Conns : Owns(q, c)' <=> Owns(q, c)
  BY <1>1 DEF Owns, Owning, TypeOK
<1>3. ASSUME NEW c \in Conns, c \in idle, ckey[c] = key[r] PROVE Holder(c)' = "discarded"
  <2>1. \A q \in Reqs : ~Owns(q, c)
    BY <1>3 DEF PlaceInv, Owns, Busy
  <2>2. c \notin idle' /\ ckey[c] # None
    BY <1>1, <1>3 DEF Bucket, PlaceInv
  <2> QED
    BY <1>1, <1>2, <2>1, <2>2 DEF HolderIs
<1>4. ASSUME NEW c \in Conns, ~(c \in idle /\ ckey[c] = key[r]) PROVE Holder(c)' = Holder(c)
  BY <1>1, <1>2, <1>4, HolderSame DEF Bucket
<1>5. \A c \in Conns : Holder(c) = "idle" <=> c \in idle
  BY HolderWhere DEF HolderIs
<1>6. Pool!Purge(key[r])
  BY <1>1, <1>3, <1>4, <1>5 DEF Pool!Purge
<1> QED
  BY <1>1, <1>6 DEF Pool!PoolNext

\* get returns c, and closes what it passed.
LEMMA PoolReuses ==
    ASSUME TypeOK, PlaceInv, HolderIs, HolderIs', NEW r \in Reqs, Lease(r),
           NEW c \in Conns, NEW S \in SUBSET Bucket(key[r]), Hit(r, c, S)
    PROVE  Pool!PoolNext
<1>1. /\ pc[r] = "lease" /\ UNCHANGED <<ckey, key>>
      /\ c \in idle /\ ckey[c] = key[r] /\ c \notin S
      /\ idle' = idle \ (S \cup {c})
      /\ pc' = [pc EXCEPT ![r] = "exchange"] /\ conn' = [conn EXCEPT ![r] = c]
  BY DEF Lease, Hit, Takes, Goto, given, Bucket
<1>2. \A d \in S : d \in Conns /\ d \in idle /\ ckey[d] = key[r] /\ d # c
  BY <1>1 DEF Bucket, TypeOK
<1>3. \A q \in Reqs, d \in Conns : d # c => (Owns(q, d)' <=> Owns(q, d))
  BY <1>1 DEF Owns, Owning, TypeOK
<1>4. Holder(c) = "idle" /\ ~Pool!Holds(r)
  BY <1>1, HoldsNothing DEF HolderIs, Owning
<1>5. Holder(c)' = r
  <2>1. Owns(r, c)'
    BY <1>1 DEF Owns, Owning, TypeOK
  <2> QED
    BY <2>1 DEF HolderIs
<1>6. ASSUME NEW d \in S PROVE Holder(d)' = "discarded"
  <2>1. \A q \in Reqs : ~Owns(q, d)
    BY <1>2 DEF PlaceInv, Owns, Busy
  <2>2. d \in Conns /\ d \notin idle' /\ ckey'[d] # None
    BY <1>1, <1>2 DEF PlaceInv
  <2> QED
    BY <1>2, <1>3, <2>1, <2>2 DEF HolderIs
<1>7. ASSUME NEW d \in Conns, d # c, d \notin S PROVE Holder(d)' = Holder(d)
  <2>1. d \in idle' <=> d \in idle
    BY <1>1, <1>7
  <2> QED
    BY <1>1, <1>3, <1>7, <2>1, HolderSame
<1>8. S \in SUBSET (Conns \ {c}) /\ S \subseteq {d \in Pool!In("idle") : ckey[d] = ckey[c]}
  BY <1>1, <1>2, IdleIn
<1>9. Pool!Reuse(r, c, S)
  BY <1>1, <1>4, <1>5, <1>6, <1>7, <1>8 DEF Pool!Reuse, Pool!Move
<1> QED
  BY <1>8, <1>9 DEF Pool!PoolNext

\* CloseIdleConnections.
LEMMA PoolDiscardsIdle ==
    ASSUME TypeOK, PlaceInv, HolderIs, HolderIs', CloseAll
    PROVE  Pool!PoolNext
<1>1. UNCHANGED <<pc, conn, ckey, key>> /\ idle' = {}
  BY DEF CloseAll, given, locals
<1>2. \A q \in Reqs, c \in Conns : Owns(q, c)' <=> Owns(q, c)
  BY <1>1 DEF Owns
<1>3. ASSUME NEW c \in Conns, c \in idle PROVE Holder(c)' = "discarded"
  <2>1. \A q \in Reqs : ~Owns(q, c)
    BY <1>3 DEF PlaceInv, Owns, Busy
  <2> QED
    BY <1>1, <1>2, <1>3, <2>1 DEF HolderIs, PlaceInv
<1>4. ASSUME NEW c \in Conns, c \notin idle PROVE Holder(c)' = Holder(c)
  BY <1>1, <1>2, <1>4, HolderSame
<1>5. \A c \in Conns : Holder(c) = "idle" <=> c \in idle
  BY HolderWhere DEF HolderIs
<1>6. Pool!DiscardIdle
  BY <1>1, <1>3, <1>4, <1>5 DEF Pool!DiscardIdle
<1> QED
  BY <1>6 DEF Pool!PoolNext

\* ConnPool counts as the transport does.
LEMMA SameCount == \A T : Pool!Cardinality(T) = Cardinality(T)
BY DEF Pool!Cardinality, Cardinality

\* put files a connection, in the place of what it evicts.
LEMMA PoolTakesBack ==
    ASSUME TypeOK, PlaceInv, CountInv, CountInv', HolderIs, HolderIs',
           NEW r \in Reqs, PutKeeps(r)
    PROVE  Pool!PoolNext
<1>0. /\ conn[r] \in Conns /\ conn[r] \notin idle /\ ckey[conn[r]] # None
      /\ Evicted \in SUBSET idle
  BY OwnersConn, EvictedIn DEF PutKeeps, Busy, Owning
<1>c. PICK c \in Conns : c = conn[r]
  BY <1>0
<1>s. PICK S \in SUBSET idle : S = Evicted
  BY <1>0
<1>1. /\ pc[r] = "put" /\ UNCHANGED <<ckey, key>> /\ c \notin idle /\ c \notin S
      /\ idle' = (idle \ S) \cup {c}
      /\ pc' = [pc EXCEPT ![r] = "done"] /\ conn' = [conn EXCEPT ![r] = None]
  BY <1>0, <1>c, <1>s DEF PutKeeps, Files, End, Goto, given
<1>2. Holder(c) = r
  BY <1>c, <1>1 DEF HolderIs, Owns, Owning
<1>3. Holder(c)' = "idle"
  BY <1>1 DEF HolderIs
<1>4. \A q \in Reqs, d \in Conns : d # c => (Owns(q, d)' <=> Owns(q, d))
  BY <1>c, <1>1 DEF Owns, Owning, TypeOK
<1>5. ASSUME NEW d \in S PROVE Holder(d)' = "discarded"
  <2>1. d \in Conns /\ d \in idle /\ d # c
    BY <1>1 DEF TypeOK
  <2>2. \A q \in Reqs : ~Owns(q, d)
    BY <2>1 DEF PlaceInv, Owns, Busy
  <2>3. d \notin idle' /\ ckey'[d] # None
    BY <1>1, <2>1 DEF PlaceInv
  <2> QED
    BY <1>4, <2>1, <2>2, <2>3 DEF HolderIs
<1>6. ASSUME NEW d \in Conns, d # c, d \notin S PROVE Holder(d)' = Holder(d)
  <2>1. d \in idle' <=> d \in idle
    BY <1>1, <1>6
  <2> QED
    BY <1>1, <1>4, <1>6, <2>1, HolderSame
<1>7. \A d \in Conns : Holder(d)' = "idle" <=> d \in idle'
  <2>1. \A d \in Conns : Holder(d) = "idle" <=> d \in idle
    BY HolderWhere DEF HolderIs
  <2> QED
    BY <1>1, <1>3, <1>5, <1>6, <2>1
<1>8. Cardinality(S) <= 1
  <2>1. Evicted = {} \/ \E d \in idle : Evicted = {d}
    BY <1>0, EvictedIn DEF PutKeeps
  <2>2. \A d : Cardinality({d}) = 1
    BY FS_Singleton
  <2>3. Cardinality({}) = 0
    BY FS_EmptySet
  <2>4. Cardinality(S) = 0 \/ Cardinality(S) = 1
    BY <1>s, <2>1, <2>2, <2>3
  <2> QED
    BY <2>4
<1>9. Cardinality(Pool!In("idle")') <= MaxTotal
  <2>1. Pool!In("idle")' = idle'
    BY <1>1, <1>7 DEF Pool!In, TypeOK
  <2> QED
    BY <2>1 DEF CountInv
<1>10. Cardinality({d \in Conns : Holder(d)' = "idle" /\ ckey[d] = ckey[c]}) <= MaxPerHost
  <2> DEFINE B == Bucket(ckey[c])
  <2>1. {d \in Conns : Holder(d)' = "idle" /\ ckey[d] = ckey[c]} = (B \ S) \cup {c}
    BY <1>1, <1>7 DEF Bucket, TypeOK
  <2>2. IsFiniteSet(B) /\ Cardinality(B) \in Nat /\ B \cap S \subseteq B
    BY FS_Subset, FS_CardinalityType DEF Bucket, CountInv
  <2>3. IsFiniteSet(B \ S) /\ Cardinality(B \ S) \in Nat /\ Cardinality(B \ S) <= Cardinality(B)
    <3>1. (B \ S) \in SUBSET B
      OBVIOUS
    <3> QED
      BY <2>2, <3>1, FS_Subset, FS_CardinalityType
  <2>4. Cardinality((B \ S) \cup {c}) <= Cardinality(B \ S) + 1
    BY <2>3, FS_AddElement
  <2>5. Cardinality((B \ S) \cup {c}) \in Nat
    BY <2>3, FS_AddElement, FS_CardinalityType
  <2>6. ~(Cardinality(B) >= MaxPerHost)
    BY <1>c DEF PutKeeps, Refused
  <2>7. MaxPerHost \in Nat
    BY LimitsAssumption
  <2> HIDE DEF B
  <2>8. Cardinality((B \ S) \cup {c}) <= MaxPerHost
    BY <2>2, <2>3, <2>4, <2>5, <2>6, <2>7
  <2> QED
    BY <2>1, <2>8
<1>11. S \in SUBSET (Conns \ {c}) /\ S \subseteq Pool!In("idle")
  BY <1>1, IdleIn DEF TypeOK
<1>12. Pool!Move(c, "idle", S)
  BY <1>3, <1>5, <1>6 DEF Pool!Move
<1>13. Pool!GiveBack(c, S)
  <2>1. Pool!Cardinality(S) <= 1 /\ Pool!Cardinality(Pool!In("idle")') <= MaxTotal
    BY <1>8, <1>9, SameCount
  <2>2. Pool!Cardinality({d \in Conns :
           ([e \in Conns |-> Holder(e)]')[d] = "idle" /\ ckey[d] = ckey[c]}) <= MaxPerHost
    <3>1. {d \in Conns : ([e \in Conns |-> Holder(e)]')[d] = "idle" /\ ckey[d] = ckey[c]}
             = {d \in Conns : Holder(d)' = "idle" /\ ckey[d] = ckey[c]}
      OBVIOUS
    <3> QED
      BY <1>10, <3>1, SameCount
  <2>3. [d \in Conns |-> Holder(d)][c] \in Reqs /\ UNCHANGED <<ckey, key>>
    BY <1>1, <1>2
  <2> QED
    BY <1>11, <1>12, <2>1, <2>2, <2>3 DEF Pool!GiveBack
<1> QED
  BY <1>11, <1>13 DEF Pool!PoolNext

\* Nothing has been asked for or dialled.
LEMMA PoolInits == Init => Pool!PoolInit
<1> SUFFICES ASSUME Init PROVE Pool!PoolInit
  OBVIOUS
<1>1. \A c \in Conns : Holder(c) = "fresh"
  BY DEF Init, Holder
<1> QED
  BY <1>1 DEF Init, Pool!PoolInit

\* Every step of the transport is a step of ConnPool or leaves it alone, one
\* case per action.
LEMMA PoolStep ==
    TransportInv /\ TransportInv' /\ HolderIs /\ HolderIs' /\ [Next]_vars
        => [Pool!PoolNext]_(Pool!poolVars)
<1> SUFFICES ASSUME TypeOK, PlaceInv, CountInv, CountInv', HolderIs, HolderIs', [Next]_vars
             PROVE  Pool!PoolNext \/ UNCHANGED Pool!poolVars
  BY DEF TransportInv
<1> USE DEF Owning, TypeOK, given, locals, pool
<1>1. ASSUME NEW r \in Reqs, BodyRebuildFails(r) PROVE Pool!PoolNext \/ UNCHANGED Pool!poolVars
  <2>1. UNCHANGED <<ckey, idle, key>>
    BY <1>1 DEF BodyRebuildFails
  <2>2. \A p \in Reqs, d \in Conns : Owns(p, d)' <=> Owns(p, d)
    BY <1>1 DEF BodyRebuildFails, End, Goto, Owns
  <2> QED
    BY <2>1, <2>2, PoolStutters
<1>2. ASSUME NEW r \in Reqs, LeaseNothing(r) PROVE Pool!PoolNext \/ UNCHANGED Pool!poolVars
  <2>1. UNCHANGED <<ckey, idle, key>>
    BY <1>2 DEF LeaseNothing
  <2>2. \A p \in Reqs, d \in Conns : Owns(p, d)' <=> Owns(p, d)
    BY <1>2 DEF LeaseNothing, Goto, Owns
  <2> QED
    BY <2>1, <2>2, PoolStutters
<1>3. ASSUME NEW r \in Reqs, Lease(r) PROVE Pool!PoolNext \/ UNCHANGED Pool!poolVars
  BY <1>3, LeaseCases, PoolPurges, PoolReuses
<1>4. ASSUME NEW r \in Reqs, NEW c \in Conns, DialOK(r, c) PROVE Pool!PoolNext \/ UNCHANGED Pool!poolVars
  BY <1>4, PoolConnects
<1>5. ASSUME NEW r \in Reqs, DialFails(r) PROVE Pool!PoolNext \/ UNCHANGED Pool!poolVars
  <2>1. UNCHANGED <<ckey, idle, key>>
    BY <1>5 DEF DialFails
  <2>2. \A p \in Reqs, d \in Conns : Owns(p, d)' <=> Owns(p, d)
    BY <1>5 DEF DialFails, End, Goto, Owns
  <2> QED
    BY <2>1, <2>2, PoolStutters
<1>6. ASSUME NEW r \in Reqs, Exchange(r) PROVE Pool!PoolNext \/ UNCHANGED Pool!poolVars
  <2>1. UNCHANGED <<ckey, idle, key>>
    BY <1>6 DEF Exchange
  <2>2. \A p \in Reqs, d \in Conns : Owns(p, d)' <=> Owns(p, d)
    BY <1>6 DEF Exchange, Goto, Owns
  <2> QED
    BY <2>1, <2>2, PoolStutters
<1>7. ASSUME NEW r \in Reqs, DeadlineFails(r) PROVE Pool!PoolNext \/ UNCHANGED Pool!poolVars
  <2>1. UNCHANGED <<ckey, idle, key>> /\ pc[r] \in Owning
    BY <1>7 DEF DeadlineFails
  <2>2. /\ pc'[r] \notin Owning
        /\ \A q \in Reqs : q # r => pc'[q] = pc[q] /\ conn'[q] = conn[q]
    BY <1>7 DEF DeadlineFails, Goto
  <2> QED
    BY <2>1, <2>2, PoolDiscards
<1>8. ASSUME NEW r \in Reqs, Write(r) PROVE Pool!PoolNext \/ UNCHANGED Pool!poolVars
  <2>1. UNCHANGED <<ckey, idle, key>>
    BY <1>8 DEF Write
  <2>2. \A p \in Reqs, d \in Conns : Owns(p, d)' <=> Owns(p, d)
    BY <1>8 DEF Write, Goto, Owns
  <2> QED
    BY <2>1, <2>2, PoolStutters
<1>9. ASSUME NEW r \in Reqs, WriteFails(r) PROVE Pool!PoolNext \/ UNCHANGED Pool!poolVars
  <2>1. UNCHANGED <<ckey, idle, key>> /\ pc[r] \in Owning
    BY <1>9 DEF WriteFails, GiveUp
  <2>2. /\ pc'[r] \notin Owning
        /\ \A q \in Reqs : q # r => pc'[q] = pc[q] /\ conn'[q] = conn[q]
    BY <1>9 DEF WriteFails, GiveUp, Goto
  <2> QED
    BY <2>1, <2>2, PoolDiscards
<1>10. ASSUME NEW r \in Reqs, ReadHead(r) PROVE Pool!PoolNext \/ UNCHANGED Pool!poolVars
  <2>1. UNCHANGED <<ckey, idle, key>>
    BY <1>10 DEF ReadHead
  <2>2. \A p \in Reqs, d \in Conns : Owns(p, d)' <=> Owns(p, d)
    BY <1>10 DEF ReadHead, Goto, Owns
  <2> QED
    BY <2>1, <2>2, PoolStutters
<1>11. ASSUME NEW r \in Reqs, ReadFails(r) PROVE Pool!PoolNext \/ UNCHANGED Pool!poolVars
  <2>1. UNCHANGED <<ckey, idle, key>> /\ pc[r] \in Owning
    BY <1>11 DEF ReadFails, GiveUp
  <2>2. /\ pc'[r] \notin Owning
        /\ \A q \in Reqs : q # r => pc'[q] = pc[q] /\ conn'[q] = conn[q]
    BY <1>11 DEF ReadFails, GiveUp, Goto
  <2> QED
    BY <2>1, <2>2, PoolDiscards
<1>12. ASSUME NEW r \in Reqs, Retry(r) PROVE Pool!PoolNext \/ UNCHANGED Pool!poolVars
  <2>1. UNCHANGED <<ckey, idle, key>>
    BY <1>12 DEF Retry
  <2>2. \A p \in Reqs, d \in Conns : Owns(p, d)' <=> Owns(p, d)
    BY <1>12 DEF Retry, Goto, Owns
  <2> QED
    BY <2>1, <2>2, PoolStutters
<1>13. ASSUME NEW r \in Reqs, Fail(r) PROVE Pool!PoolNext \/ UNCHANGED Pool!poolVars
  <2>1. UNCHANGED <<ckey, idle, key>>
    BY <1>13 DEF Fail
  <2>2. \A p \in Reqs, d \in Conns : Owns(p, d)' <=> Owns(p, d)
    BY <1>13 DEF Fail, End, Goto, Owns
  <2> QED
    BY <2>1, <2>2, PoolStutters
<1>14. ASSUME NEW r \in Reqs, BodyClose(r) PROVE Pool!PoolNext \/ UNCHANGED Pool!poolVars
  <2>1. UNCHANGED <<ckey, idle, key>>
    BY <1>14 DEF BodyClose
  <2>2. \A p \in Reqs, d \in Conns : Owns(p, d)' <=> Owns(p, d)
    BY <1>14 DEF BodyClose, Stop, Goto, Owns
  <2> QED
    BY <2>1, <2>2, PoolStutters
<1>15. ASSUME NEW r \in Reqs, Drain(r) PROVE Pool!PoolNext \/ UNCHANGED Pool!poolVars
  <2>1. UNCHANGED <<ckey, idle, key>>
    BY <1>15 DEF Drain
  <2>2. \A p \in Reqs, d \in Conns : Owns(p, d)' <=> Owns(p, d)
    BY <1>15 DEF Drain, ReadEnd, Goto, Owns
  <2> QED
    BY <2>1, <2>2, PoolStutters
<1>16. ASSUME NEW r \in Reqs, RecycleKeeps(r) PROVE Pool!PoolNext \/ UNCHANGED Pool!poolVars
  <2>1. UNCHANGED <<ckey, idle, key>>
    BY <1>16 DEF RecycleKeeps
  <2>2. \A p \in Reqs, d \in Conns : Owns(p, d)' <=> Owns(p, d)
    BY <1>16 DEF RecycleKeeps, Goto, Owns
  <2> QED
    BY <2>1, <2>2, PoolStutters
<1>17. ASSUME NEW r \in Reqs, RecycleCloses(r) PROVE Pool!PoolNext \/ UNCHANGED Pool!poolVars
  <2>1. UNCHANGED <<ckey, idle, key>> /\ pc[r] \in Owning
    BY <1>17 DEF RecycleCloses
  <2>2. /\ pc'[r] \notin Owning
        /\ \A q \in Reqs : q # r => pc'[q] = pc[q] /\ conn'[q] = conn[q]
    BY <1>17 DEF RecycleCloses, End, Goto
  <2> QED
    BY <2>1, <2>2, PoolDiscards
<1>18. ASSUME NEW r \in Reqs, PutKeeps(r) PROVE Pool!PoolNext \/ UNCHANGED Pool!poolVars
  BY <1>18, PoolTakesBack
<1>19. ASSUME NEW r \in Reqs, PutRefuses(r) PROVE Pool!PoolNext \/ UNCHANGED Pool!poolVars
  <2>1. UNCHANGED <<ckey, idle, key>> /\ pc[r] \in Owning
    BY <1>19 DEF PutRefuses
  <2>2. /\ pc'[r] \notin Owning
        /\ \A q \in Reqs : q # r => pc'[q] = pc[q] /\ conn'[q] = conn[q]
    BY <1>19 DEF PutRefuses, End, Goto
  <2> QED
    BY <2>1, <2>2, PoolDiscards
<1>20. ASSUME NEW c \in Conns, CloseDropped(c) PROVE Pool!PoolNext \/ UNCHANGED Pool!poolVars
  <2>1. UNCHANGED <<ckey, idle, key>>
    BY <1>20 DEF CloseDropped
  <2>2. \A p \in Reqs, d \in Conns : Owns(p, d)' <=> Owns(p, d)
    BY <1>20 DEF CloseDropped, Close, Owns
  <2> QED
    BY <2>1, <2>2, PoolStutters
<1>21. ASSUME NEW r \in Reqs, NEW c \in Conns, WatchFires(r, c) PROVE Pool!PoolNext \/ UNCHANGED Pool!poolVars
  <2>1. UNCHANGED <<ckey, idle, key>>
    BY <1>21 DEF WatchFires
  <2>2. \A p \in Reqs, d \in Conns : Owns(p, d)' <=> Owns(p, d)
    BY <1>21 DEF WatchFires, Close, Owns
  <2> QED
    BY <2>1, <2>2, PoolStutters
<1>22. ASSUME NEW r \in Reqs, NEW c \in Conns, WatchEnds(r, c) PROVE Pool!PoolNext \/ UNCHANGED Pool!poolVars
  <2>1. UNCHANGED <<ckey, idle, key>>
    BY <1>22 DEF WatchEnds
  <2>2. \A p \in Reqs, d \in Conns : Owns(p, d)' <=> Owns(p, d)
    BY <1>22 DEF WatchEnds, Owns
  <2> QED
    BY <2>1, <2>2, PoolStutters
<1>23. CASE CloseAll
  BY <1>23, PoolDiscardsIdle
<1>24. ASSUME NEW r \in Reqs, Cancel(r) PROVE Pool!PoolNext \/ UNCHANGED Pool!poolVars
  <2>1. UNCHANGED <<ckey, idle, key>>
    BY <1>24 DEF Cancel
  <2>2. \A p \in Reqs, d \in Conns : Owns(p, d)' <=> Owns(p, d)
    BY <1>24 DEF Cancel, Owns
  <2> QED
    BY <2>1, <2>2, PoolStutters
<1>25. ASSUME NEW r \in Reqs, ReadSome(r) PROVE Pool!PoolNext \/ UNCHANGED Pool!poolVars
  <2>1. UNCHANGED <<ckey, idle, key>>
    BY <1>25 DEF ReadSome
  <2>2. \A p \in Reqs, d \in Conns : Owns(p, d)' <=> Owns(p, d)
    BY <1>25 DEF ReadSome, Owns
  <2> QED
    BY <2>1, <2>2, PoolStutters
<1>26. ASSUME NEW r \in Reqs, BodyEOF(r) PROVE Pool!PoolNext \/ UNCHANGED Pool!poolVars
  <2>1. UNCHANGED <<ckey, idle, key>>
    BY <1>26 DEF BodyEOF
  <2>2. \A p \in Reqs, d \in Conns : Owns(p, d)' <=> Owns(p, d)
    BY <1>26 DEF BodyEOF, ReadEnd, Owns
  <2> QED
    BY <2>1, <2>2, PoolStutters
<1>27. ASSUME NEW r \in Reqs, BodyFails(r) PROVE Pool!PoolNext \/ UNCHANGED Pool!poolVars
  <2>1. UNCHANGED <<ckey, idle, key>>
    BY <1>27 DEF BodyFails
  <2>2. \A p \in Reqs, d \in Conns : Owns(p, d)' <=> Owns(p, d)
    BY <1>27 DEF BodyFails, Owns
  <2> QED
    BY <2>1, <2>2, PoolStutters
<1>28. ASSUME NEW r \in Reqs, NEW k \in Keys, NEW b \in BOOLEAN, Begin(r, k, b) PROVE Pool!PoolNext \/ UNCHANGED Pool!poolVars
  BY <1>28, PoolAsks
<1>29. ASSUME NEW c \in Conns, Age(c) PROVE Pool!PoolNext \/ UNCHANGED Pool!poolVars
  <2>1. UNCHANGED <<ckey, idle, key>>
    BY <1>29 DEF Age
  <2>2. \A p \in Reqs, d \in Conns : Owns(p, d)' <=> Owns(p, d)
    BY <1>29 DEF Age, Owns
  <2> QED
    BY <2>1, <2>2, PoolStutters
<1>30. ASSUME NEW c \in Conns, NEW k \in Kinds, ServerHead(c, k) PROVE Pool!PoolNext \/ UNCHANGED Pool!poolVars
  <2>1. UNCHANGED <<ckey, idle, key>>
    BY <1>30 DEF ServerHead, Server
  <2>2. \A p \in Reqs, d \in Conns : Owns(p, d)' <=> Owns(p, d)
    BY <1>30 DEF ServerHead, Server, Owns
  <2> QED
    BY <2>1, <2>2, PoolStutters
<1>31. ASSUME NEW c \in Conns, NEW parts \in {<<"end">>, <<"end", "extra">>}, ServerEnd(c, parts) PROVE Pool!PoolNext \/ UNCHANGED Pool!poolVars
  <2>1. UNCHANGED <<ckey, idle, key>>
    BY <1>31 DEF ServerEnd, Server
  <2>2. \A p \in Reqs, d \in Conns : Owns(p, d)' <=> Owns(p, d)
    BY <1>31 DEF ServerEnd, Server, Owns
  <2> QED
    BY <2>1, <2>2, PoolStutters
<1>32. ASSUME NEW c \in Conns, ServerCloses(c) PROVE Pool!PoolNext \/ UNCHANGED Pool!poolVars
  <2>1. UNCHANGED <<ckey, idle, key>>
    BY <1>32 DEF ServerCloses, Server
  <2>2. \A p \in Reqs, d \in Conns : Owns(p, d)' <=> Owns(p, d)
    BY <1>32 DEF ServerCloses, Server, Owns
  <2> QED
    BY <2>1, <2>2, PoolStutters
<1>33. CASE UNCHANGED vars
  <2>1. UNCHANGED <<ckey, idle, key, pc, conn>>
    BY <1>33 DEF vars
  <2> QED
    BY <2>1, PoolStutters DEF Owns
<1> HIDE DEF TypeOK
<1> QED
  BY <1>1, <1>2, <1>3, <1>4, <1>5, <1>6, <1>7, <1>8, <1>9, <1>10, <1>11, <1>12,
     <1>13, <1>14, <1>15, <1>16, <1>17, <1>18, <1>19, <1>20, <1>21, <1>22, <1>23, <1>24,
     <1>25, <1>26, <1>27, <1>28, <1>29, <1>30, <1>31, <1>32, <1>33
     DEF Next, Step, Background, Environment

\* The pool, get and put, poolBody.Close and closeAll implement ConnPool.
THEOREM TransportPool == Spec => PoolImplemented
<1>1. TransportInv => HolderIs
  BY HolderFacts
<1>2. TransportInv /\ TransportInv' /\ HolderIs /\ HolderIs' /\ [Next]_vars
        => [Pool!PoolNext]_(Pool!poolVars)
  BY PoolStep
<1>3. Init => Pool!PoolInit
  BY PoolInits
<1> QED
  BY <1>1, <1>2, <1>3, TransportInvHolds, PTL DEF Spec, PoolImplemented, Pool!PoolSpec

=============================================================================
