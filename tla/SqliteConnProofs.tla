-------------------------- MODULE SqliteConnProofs --------------------------
(***************************************************************************)
(* Proofs about SqliteConn, for any number of statements and of uses.      *)
(***************************************************************************)
EXTENDS SqliteConn, TLAPS

\* The calls that hold conn.mu.
Inside == {"check", "step", "exec", "vdbe", "close", "join"}

QueryStates == [prepared : BOOLEAN, rows : BOOLEAN, can : BOOLEAN,
                state : {"new", "open", "ended"}]

SqlTypeOK ==
    /\ db \in BOOLEAN
    /\ mu \in SUBSET Queries
    /\ at \in [Queries -> Inside \cup {"idle", "begin", "next", "rowsClose"}]
    /\ query \in [Queries -> QueryStates]
    /\ uses \in [Queries -> 0 .. MaxUses]
    /\ fired \in [Queries -> BOOLEAN]
    /\ watcher \in [Queries -> {"none", "select", "interrupt", "stopped"}]
    /\ told \in [Queries -> BOOLEAN]
    /\ vdbe \in [Queries -> {"none", "ready", "run", "halt"}]
    /\ interrupted \in BOOLEAN
    /\ rc \in [Queries -> {"none", "cancelled", "interrupt", "row", "done"}]
    /\ guilty \in SUBSET Queries

\* What WatcherJoined rests on: the caller inside conn.mu is its one holder,
\* and a call is past its start only while its query is open.
CallInv(q) ==
    /\ at[q] \in Inside => mu = {q}
    /\ at[q] = "begin" => query[q].state = "new"
    /\ at[q] \notin {"idle", "begin"} => query[q].state = "open"
    /\ query[q].state = "open" => db /\ vdbe[q] # "none"
    /\ watcher[q] \in {"select", "interrupt"} => query[q].state = "open"

\* What NoStrayInterrupt rests on: the flag is stale at most while no statement
\* runs, and then the next step resets it.
FlagInv(q) ==
    /\ at[q] \in {"exec", "vdbe"} => vdbe[q] = "run"
    /\ watcher[q] = "interrupt" => fired[q]
    /\ fired[q] /\ query[q].state = "open" => q \in guilty
    /\ interrupted /\ vdbe[q] = "run" => guilty # {}
    /\ rc[q] = "interrupt" => query[q].state # "new"
    /\ rc[q] = "interrupt" /\ query[q].state = "open" => guilty # {}

SqlInv == \A q \in Queries : CallInv(q) /\ FlagInv(q)

-----------------------------------------------------------------------------
(* Type correctness.                                                       *)

\* Nothing has been called.
LEMMA SqlTypeInit == SqlInit => SqlTypeOK
<1> SUFFICES ASSUME SqlInit PROVE SqlTypeOK
  OBVIOUS
<1>1. query \in [Queries -> QueryStates]
  BY DEF SqlInit, QueryStates
<1>2. uses \in [Queries -> 0 .. MaxUses]
  BY SqlBounds DEF SqlInit
<1>3. /\ at \in [Queries -> Inside \cup {"idle", "begin", "next", "rowsClose"}]
      /\ watcher \in [Queries -> {"none", "select", "interrupt", "stopped"}]
      /\ vdbe \in [Queries -> {"none", "ready", "run", "halt"}]
      /\ rc \in [Queries -> {"none", "cancelled", "interrupt", "row", "done"}]
  BY DEF SqlInit
<1>4. /\ db \in BOOLEAN /\ interrupted \in BOOLEAN
      /\ mu \in SUBSET Queries /\ guilty \in SUBSET Queries
      /\ fired \in [Queries -> BOOLEAN] /\ told \in [Queries -> BOOLEAN]
  BY DEF SqlInit
<1> QED
  BY <1>1, <1>2, <1>3, <1>4 DEF SqlTypeOK

\* The one way in which a step writes a query: its state is set.
LEMMA QueryState ==
    ASSUME SqlTypeOK, NEW q \in Queries, NEW s \in {"new", "open", "ended"},
           query' = [query EXCEPT ![q].state = s]
    PROVE  /\ query' \in [Queries -> QueryStates]
           /\ query'[q].state = s
           /\ query'[q].rows = query[q].rows
           /\ query'[q].prepared = query[q].prepared
           /\ query'[q].can = query[q].can
           /\ \A p \in Queries : p # q => query'[p] = query[p]
BY DEF SqlTypeOK, QueryStates

\* Every step keeps the types, one case per action.
LEMMA SqlTypeStep == SqlTypeOK /\ [SqlNext]_sqlVars => SqlTypeOK'
<1> SUFFICES ASSUME SqlTypeOK, [SqlNext]_sqlVars PROVE SqlTypeOK'
  OBVIOUS
<1> USE SqlBounds DEF SqlTypeOK, Goes, goSide, Inside
<1>1. ASSUME NEW q \in Queries, Fires(q) PROVE SqlTypeOK'
  BY <1>1 DEF Fires
<1>2. ASSUME NEW q \in Queries, Begins(q) PROVE SqlTypeOK'
  <2>1. query' \in [Queries -> QueryStates]
    BY <1>2, QueryState DEF Begins
  <2>2. uses' \in [Queries -> 0 .. MaxUses]
    BY <1>2 DEF Begins
  <2> QED
    BY <1>2, <2>1, <2>2 DEF Begins
<1>3. ASSUME NEW q \in Queries, NEW call \in {"next", "rowsClose"}, Invokes(q, call) PROVE SqlTypeOK'
  BY <1>3 DEF Invokes
<1>4. ASSUME NEW q \in Queries, Refused(q) PROVE SqlTypeOK'
  BY <1>4, QueryState DEF Refused, Remembers
<1>5. ASSUME NEW q \in Queries, Bound(q) PROVE SqlTypeOK'
  <2>1. query' \in [Queries -> QueryStates]
    BY <1>5, QueryState DEF Bound
  <2>2. CASE query[q].rows
    BY <1>5, <2>1, <2>2 DEF Bound
  <2>3. CASE ~query[q].rows
    BY <1>5, <2>1, <2>3 DEF Bound
  <2> QED
    BY <2>2, <2>3
<1>6. ASSUME NEW q \in Queries, NEW call \in {"next", "rowsClose"}, NEW to \in {"check", "close"}, Locks(q, call, to) PROVE SqlTypeOK'
  BY <1>6 DEF Locks
<1>7. ASSUME NEW q \in Queries, Checks(q) PROVE SqlTypeOK'
  BY <1>7 DEF Checks
<1>8. ASSUME NEW q \in Queries, StepStarts(q) PROVE SqlTypeOK'
  BY <1>8 DEF StepStarts
<1>9. ASSUME NEW q \in Queries, VdbeEnters(q) PROVE SqlTypeOK'
  BY <1>9 DEF VdbeEnters
<1>10. ASSUME NEW q \in Queries, VdbeInterrupted(q) PROVE SqlTypeOK'
  BY <1>10 DEF VdbeInterrupted
<1>11. ASSUME NEW q \in Queries, VdbeRow(q) PROVE SqlTypeOK'
  BY <1>11 DEF VdbeRow
<1>12. ASSUME NEW q \in Queries, VdbeDone(q) PROVE SqlTypeOK'
  BY <1>12 DEF VdbeDone
<1>13. ASSUME NEW q \in Queries, Tells(q) PROVE SqlTypeOK'
  BY <1>13 DEF Tells
<1>14. ASSUME NEW q \in Queries, Joins(q) PROVE SqlTypeOK'
  BY <1>14, QueryState DEF Joins, Remembers, Ended
<1>15. ASSUME NEW q \in Queries, NEW to \in {"interrupt", "stopped"}, Selects(q, to) PROVE SqlTypeOK'
  BY <1>15 DEF Selects
<1>16. ASSUME NEW q \in Queries, Interrupts(q) PROVE SqlTypeOK'
  BY <1>16 DEF Interrupts
<1>17. ASSUME NEW q \in Queries, StatementCloses(q) PROVE SqlTypeOK'
  BY <1>17 DEF StatementCloses, Remembers
<1>18. CASE ConnCloses
  BY <1>18 DEF ConnCloses
<1>19. CASE UNCHANGED sqlVars
  BY <1>19 DEF sqlVars
<1> QED
  BY <1>1, <1>2, <1>3, <1>4, <1>5, <1>6, <1>7, <1>8, <1>9, <1>10, <1>11, <1>12, <1>13, <1>14, <1>15, <1>16, <1>17, <1>18, <1>19 DEF SqlNext, CallStep, WatcherStep

-----------------------------------------------------------------------------
(* The inductive invariant.                                                *)

\* No call is in progress and the flag is down.
LEMMA SqlInvInit == SqlInit => SqlInv
BY DEF SqlInit, SqlInv, CallInv, FlagInv, Inside

\* Every step keeps the invariant, one case per action.
LEMMA SqlInvStep == SqlTypeOK /\ SqlInv /\ [SqlNext]_sqlVars => SqlInv'
<1> SUFFICES ASSUME SqlTypeOK, SqlInv, [SqlNext]_sqlVars PROVE SqlInv'
  OBVIOUS
<1>0. SqlTypeOK'
  BY SqlTypeStep
<1> USE DEF SqlTypeOK, SqlInv, CallInv, FlagInv, Goes, goSide, Inside
<1>1. ASSUME NEW q \in Queries, Fires(q) PROVE SqlInv'
  BY <1>0, <1>1 DEF Fires
<1>2. ASSUME NEW q \in Queries, Begins(q) PROVE SqlInv'
  BY <1>0, <1>2, QueryState DEF Begins
<1>3. ASSUME NEW q \in Queries, NEW call \in {"next", "rowsClose"}, Invokes(q, call) PROVE SqlInv'
  BY <1>0, <1>3 DEF Invokes
<1>4. ASSUME NEW q \in Queries, Refused(q) PROVE SqlInv'
  BY <1>0, <1>4, QueryState DEF Refused, Remembers, QuietAfter
<1>5. ASSUME NEW q \in Queries, Bound(q) PROVE SqlInv'
  BY <1>0, <1>5, QueryState DEF Bound
<1>6. ASSUME NEW q \in Queries, NEW call \in {"next", "rowsClose"}, NEW to \in {"check", "close"}, Locks(q, call, to) PROVE SqlInv'
  BY <1>0, <1>6 DEF Locks
<1>7. ASSUME NEW q \in Queries, Checks(q) PROVE SqlInv'
  BY <1>0, <1>7 DEF Checks
<1>8. ASSUME NEW q \in Queries, StepStarts(q) PROVE SqlInv'
  BY <1>0, <1>8 DEF StepStarts
<1>9. ASSUME NEW q \in Queries, VdbeEnters(q) PROVE SqlInv'
  BY <1>0, <1>9 DEF VdbeEnters
<1>10. ASSUME NEW q \in Queries, VdbeInterrupted(q) PROVE SqlInv'
  BY <1>0, <1>10 DEF VdbeInterrupted
<1>11. ASSUME NEW q \in Queries, VdbeRow(q) PROVE SqlInv'
  <2>1. CASE query[q].rows
    BY <1>0, <1>11, <2>1 DEF VdbeRow
  <2>2. CASE ~query[q].rows
    BY <1>0, <1>11, <2>2 DEF VdbeRow
  <2> QED
    BY <2>1, <2>2
<1>12. ASSUME NEW q \in Queries, VdbeDone(q) PROVE SqlInv'
  BY <1>0, <1>12 DEF VdbeDone
<1>13. ASSUME NEW q \in Queries, Tells(q) PROVE SqlInv'
  BY <1>0, <1>13 DEF Tells
<1>14. ASSUME NEW q \in Queries, Joins(q) PROVE SqlInv'
  <2>1. ASSUME NEW p \in Queries PROVE CallInv(p)'
    <3>1. CASE p = q
      BY <1>0, <1>14, <3>1, QueryState DEF Joins
    <3>2. CASE p # q
      <4>1. at[p] \notin Inside
        <5>1. mu = {q} /\ p \notin mu
          BY <1>14, <3>2 DEF Joins
        <5>2. p \in {p}
          OBVIOUS
        <5> QED
          BY <5>1, <5>2
      <4>2. query'[p] = query[p]
        BY <1>14, <3>2, QueryState DEF Joins
      <4> QED
        BY <1>14, <3>2, <4>1, <4>2 DEF Joins
    <3> QED
      BY <3>1, <3>2
  <2>2. CASE QuietAfter
    <3>1. ASSUME NEW p \in Queries PROVE query'[p].state # "open" /\ vdbe'[p] # "run"
      BY <2>2 DEF QuietAfter
    <3>2. ASSUME NEW p \in Queries PROVE FlagInv(p)'
      BY <1>0, <1>14, <3>1, QueryState DEF Joins
    <3> QED
      BY <2>1, <3>2
  <2>3. CASE ~QuietAfter
    <3>1. guilty' = guilty /\ interrupted' = interrupted
      BY <1>14, <2>3 DEF Joins, Remembers
    <3> QED
      BY <1>0, <1>14, <2>1, <3>1, QueryState DEF Joins, Ended
  <2> QED
    BY <2>2, <2>3
<1>15. ASSUME NEW q \in Queries, NEW to \in {"interrupt", "stopped"}, Selects(q, to) PROVE SqlInv'
  BY <1>0, <1>15 DEF Selects
<1>16. ASSUME NEW q \in Queries, Interrupts(q) PROVE SqlInv'
  BY <1>0, <1>16 DEF Interrupts
<1>17. ASSUME NEW q \in Queries, StatementCloses(q) PROVE SqlInv'
  BY <1>0, <1>17 DEF StatementCloses, Remembers, QuietAfter
<1>18. CASE ConnCloses
  BY <1>18 DEF ConnCloses
<1>19. CASE UNCHANGED sqlVars
  BY <1>19 DEF sqlVars
<1> QED
  BY <1>1, <1>2, <1>3, <1>4, <1>5, <1>6, <1>7, <1>8, <1>9, <1>10, <1>11, <1>12, <1>13, <1>14, <1>15, <1>16, <1>17, <1>18, <1>19 DEF SqlNext, CallStep, WatcherStep

\* The types and the invariant hold in every state.
LEMMA SqlInvHolds == SqlSpec => [](SqlTypeOK /\ SqlInv)
<1>1. SqlInit => SqlTypeOK /\ SqlInv
  BY SqlTypeInit, SqlInvInit
<1>2. SqlTypeOK /\ SqlInv /\ [SqlNext]_sqlVars => (SqlTypeOK /\ SqlInv)'
  BY SqlTypeStep, SqlInvStep
<1> QED
  BY <1>1, <1>2, PTL DEF SqlSpec

-----------------------------------------------------------------------------
(* The properties.                                                         *)

\* The watcher of a query is at work only between the start of its statement
\* and the join of Exec or closeLocked, so sqlite3_interrupt never runs on a
\* closed database or beside the teardown of the statement it is for.
THEOREM SqlWatcherJoined == SqlSpec => []WatcherJoined
<1>1. SqlTypeOK /\ SqlInv => WatcherJoined
  BY DEF SqlInv, CallInv, WatcherJoined
<1> QED
  BY <1>1, SqlInvHolds, PTL

\* A step returns SQLITE_INTERRUPT only when a query was cancelled since the
\* connection was last quiet, although the flag itself may stay up after the
\* query it was raised for: sqlite3Step lowers it when nothing runs.
THEOREM SqlNoStrayInterrupt == SqlSpec => []NoStrayInterrupt
<1>1. SqlTypeOK /\ SqlInv => NoStrayInterrupt
  BY DEF SqlInv, CallInv, FlagInv, NoStrayInterrupt, Inside
<1> QED
  BY <1>1, SqlInvHolds, PTL

=============================================================================
