----------------------------- MODULE SqliteConn -----------------------------
(***************************************************************************)
(* A connection of the SQLite driver (tinygosqlite/driver.go) with its     *)
(* cancellation: conn.mu serialises the calls, a watcher goroutine per Exec*)
(* step or per result set interrupts the database when the context fires,  *)
(* without the mutex, and the end of the call or of the result set joins   *)
(* it.  Of SQLite: the interrupt flag of the connection, which sqlite3Step *)
(* resets when no statement runs, and the states of a statement.           *)
(*                                                                         *)
(* A query is an ExecContext or QueryContext of conn, with a statement of  *)
(* its own, or of a prepared statement, which may be used again.           *)
(*                                                                         *)
(* External: database/sql, which gives a prepared statement one result set *)
(* at a time, closes a statement after its result set and a connection     *)
(* after all of them, and the virtual machine of SQLite, whose steps end.  *)
(***************************************************************************)
EXTENDS Naturals

CONSTANTS
    Queries,   \* statements
    MaxUses    \* bound: queries made with a prepared statement

ASSUME SqlBounds == MaxUses \in Nat \ {0}

VARIABLES
    db,        \* conn.db is not nil
    mu,        \* conn.mu: {} or {its holder}
    at,        \* at[q]: where the call of q is
    query,     \* query[q]: [prepared, rows, can, state], state "new", "open", "ended"
    uses,      \* how often a query of q was made
    fired,     \* fired[q]: its context has fired
    watcher,   \* watcher[q]: "none", "select", "interrupt", "stopped"
    told,      \* told[q]: finished or watchDone is closed
    vdbe,      \* vdbe[q]: "none", "ready", "run", "halt"
    interrupted, \* db->u1.isInterrupted
    rc,        \* rc[q]: the result of the last step
    guilty     \* queries that were cancelled since nothing was open or ran

goSide == <<at, query, uses, told>>
sqlVars == <<db, mu, goSide, fired, watcher, vdbe, interrupted, rc, guilty>>

SqlInit ==
    /\ db = TRUE
    /\ mu = {}
    /\ at = [q \in Queries |-> "idle"]
    /\ query \in [Queries -> [prepared : BOOLEAN, rows : BOOLEAN, can : BOOLEAN,
                              state : {"new"}]]
    /\ uses = [q \in Queries |-> 0]
    /\ fired = [q \in Queries |-> FALSE]
    /\ watcher = [q \in Queries |-> "none"]
    /\ told = [q \in Queries |-> FALSE]
    /\ vdbe = [q \in Queries |-> "none"]
    /\ interrupted = FALSE
    /\ rc = [q \in Queries |-> "none"]
    /\ guilty = {}

Goes(q, to) == at' = [at EXCEPT ![q] = to]

\* A query is open from its first step to its end; the connection is quiet
\* when none is and no statement runs.
QuietAfter ==
    /\ \A q \in Queries : query'[q].state # "open" /\ vdbe'[q] # "run"
Remembers == guilty' = IF QuietAfter THEN {} ELSE guilty

-----------------------------------------------------------------------------
(* Contexts.                                                               *)

Fires(q) ==
    /\ query[q].can
    /\ uses[q] > 0
    /\ ~fired[q]
    /\ fired' = [fired EXCEPT ![q] = TRUE]
    /\ guilty' = IF query[q].state = "open" THEN guilty \cup {q} ELSE guilty
    /\ UNCHANGED <<db, mu, goSide, watcher, vdbe, interrupted, rc>>

-----------------------------------------------------------------------------
(* conn and statement: ExecContext and QueryContext.                       *)

\* A call with a fresh context waits for conn.mu.
Begins(q) ==
    /\ at[q] = "idle"
    /\ query[q].state = "new" \/ (query[q].state = "ended" /\ query[q].prepared)
    /\ uses[q] < MaxUses
    /\ Goes(q, "begin")
    /\ uses' = [uses EXCEPT ![q] = @ + 1]
    /\ query' = [query EXCEPT ![q].state = "new"]
    /\ fired' = [fired EXCEPT ![q] = FALSE]
    /\ told' = [told EXCEPT ![q] = FALSE]
    /\ watcher' = [watcher EXCEPT ![q] = "none"]
    /\ rc' = [rc EXCEPT ![q] = "none"]
    /\ UNCHANGED <<db, mu, vdbe, interrupted, guilty>>

\* ErrBadConn, the error of the context, or one of preparing and binding.
Refused(q) ==
    /\ at[q] = "begin"
    /\ mu = {}
    /\ Goes(q, "idle")
    /\ query' = [query EXCEPT ![q].state = "ended"]
    /\ vdbe' = [vdbe EXCEPT ![q] = IF query[q].prepared /\ @ # "none" THEN "ready" ELSE @]
    /\ Remembers
    /\ UNCHANGED <<db, mu, uses, told, fired, watcher, interrupted, rc>>

\* The statement is prepared, or reset, and bound.  A query of rows starts
\* their watcher and returns.
Bound(q) ==
    /\ at[q] = "begin"
    /\ mu = {}
    /\ db
    /\ fired[q] => query[q].prepared
    /\ vdbe' = [vdbe EXCEPT ![q] = "ready"]
    /\ query' = [query EXCEPT ![q].state = "open"]
    /\ guilty' = IF fired[q] THEN guilty \cup {q} ELSE guilty
    /\ IF query[q].rows
       THEN /\ Goes(q, "idle")
            /\ watcher' = [watcher EXCEPT ![q] = IF query[q].can THEN "select" ELSE "none"]
            /\ UNCHANGED mu
       ELSE /\ Goes(q, "check")
            /\ mu' = {q}
            /\ UNCHANGED watcher
    /\ UNCHANGED <<db, uses, told, fired, interrupted, rc>>

-----------------------------------------------------------------------------
(* rows: Next and Close.                                                   *)

Invokes(q, call) ==
    /\ query[q].rows /\ query[q].state = "open"
    /\ at[q] = "idle"
    /\ Goes(q, call)
    /\ UNCHANGED <<db, mu, query, uses, told, fired, watcher, vdbe, interrupted, rc, guilty>>

Locks(q, call, to) ==
    /\ at[q] = call
    /\ mu = {}
    /\ mu' = {q}
    /\ Goes(q, to)
    /\ UNCHANGED <<db, query, uses, told, fired, watcher, vdbe, interrupted, rc, guilty>>

-----------------------------------------------------------------------------
(* stepLocked of conn and of rows, and sqlite3Step.                        *)

\* A context that has fired gives PW_SQLITE_INTERRUPT; an Exec that can be
\* cancelled gets its watcher for the step.
Checks(q) ==
    /\ at[q] = "check"
    /\ IF fired[q]
       THEN /\ rc' = [rc EXCEPT ![q] = "cancelled"]
            /\ Goes(q, "close")
            /\ UNCHANGED watcher
       ELSE /\ Goes(q, "step")
            /\ watcher' = IF query[q].can /\ ~query[q].rows
                          THEN [watcher EXCEPT ![q] = "select"] ELSE watcher
            /\ UNCHANGED rc
    /\ UNCHANGED <<db, mu, query, uses, told, fired, vdbe, interrupted, guilty>>

\* Mutant of StepStarts: the flag of an earlier interrupt stays.
StepStartsInterrupted(q) ==
    /\ at[q] = "step"
    /\ vdbe' = [vdbe EXCEPT ![q] = "run"]
    /\ Goes(q, "exec")
    /\ UNCHANGED <<db, mu, query, uses, told, fired, watcher, rc, interrupted, guilty>>

\* A statement that does not run starts, and resets the flag if none does.
StepStarts(q) ==
    /\ at[q] = "step"
    /\ interrupted' = (interrupted /\ \E p \in Queries : vdbe[p] = "run")
    /\ vdbe' = [vdbe EXCEPT ![q] = "run"]
    /\ Goes(q, "exec")
    /\ UNCHANGED <<db, mu, query, uses, told, fired, watcher, rc, guilty>>

\* sqlite3VdbeExec looks at the flag first, and now and then.
VdbeEnters(q) ==
    /\ at[q] = "exec"
    /\ ~interrupted
    /\ Goes(q, "vdbe")
    /\ UNCHANGED <<db, mu, query, uses, told, fired, watcher, vdbe, interrupted, rc, guilty>>

VdbeInterrupted(q) ==
    /\ at[q] \in {"exec", "vdbe"}
    /\ interrupted
    /\ rc' = [rc EXCEPT ![q] = "interrupt"]
    /\ vdbe' = [vdbe EXCEPT ![q] = "halt"]
    /\ Goes(q, "close")
    /\ UNCHANGED <<db, mu, query, uses, told, fired, watcher, interrupted, guilty>>

\* A row: the statement goes on running, and Next returns.
VdbeRow(q) ==
    /\ at[q] = "vdbe"
    /\ rc' = [rc EXCEPT ![q] = "row"]
    /\ IF query[q].rows THEN Goes(q, "idle") /\ mu' = {} ELSE Goes(q, "close") /\ UNCHANGED mu
    /\ UNCHANGED <<db, query, uses, told, fired, watcher, vdbe, interrupted, guilty>>

\* SQLITE_DONE, or an error.
VdbeDone(q) ==
    /\ at[q] = "vdbe"
    /\ rc' = [rc EXCEPT ![q] = "done"]
    /\ vdbe' = [vdbe EXCEPT ![q] = "halt"]
    /\ Goes(q, "close")
    /\ UNCHANGED <<db, mu, query, uses, told, fired, watcher, interrupted, guilty>>

-----------------------------------------------------------------------------
(* The end of the step of an Exec, and closeLocked of rows.                *)

\* close(finished), close(watchDone).
Tells(q) ==
    /\ at[q] = "close"
    /\ told' = [told EXCEPT ![q] = TRUE]
    /\ Goes(q, "join")
    /\ UNCHANGED <<db, mu, query, uses, fired, watcher, vdbe, interrupted, rc, guilty>>

\* The statement is finalized; a prepared one is reset by its rows, and left
\* as it is by an Exec.
Ended(q) == IF ~query[q].prepared THEN "none"
            ELSE IF query[q].rows THEN "ready" ELSE vdbe[q]

\* Mutant of Joins: the watcher is told, and not waited for.
JoinsAtOnce(q) ==
    /\ at[q] = "join"
    /\ vdbe' = [vdbe EXCEPT ![q] = Ended(q)]
    /\ query' = [query EXCEPT ![q].state = "ended"]
    /\ mu' = {}
    /\ Goes(q, "idle")
    /\ Remembers
    /\ UNCHANGED <<db, uses, told, fired, watcher, interrupted, rc>>

\* <-stopped, <-watchStopped, the end of the statement and of the call.
Joins(q) ==
    /\ at[q] = "join"
    /\ watcher[q] \in {"none", "stopped"}
    /\ vdbe' = [vdbe EXCEPT ![q] = Ended(q)]
    /\ query' = [query EXCEPT ![q].state = "ended"]
    /\ mu' = {}
    /\ Goes(q, "idle")
    /\ Remembers
    /\ UNCHANGED <<db, uses, told, fired, watcher, interrupted, rc>>

-----------------------------------------------------------------------------
(* The watcher.                                                            *)

\* select: both cases may be ready.
Selects(q, to) ==
    /\ watcher[q] = "select"
    /\ IF to = "interrupt" THEN fired[q] ELSE told[q]
    /\ watcher' = [watcher EXCEPT ![q] = to]
    /\ UNCHANGED <<db, mu, goSide, fired, vdbe, interrupted, rc, guilty>>

\* Mutant of Interrupts: it waits for conn.mu.
InterruptsLocked(q) ==
    /\ watcher[q] = "interrupt"
    /\ mu = {}
    /\ interrupted' = TRUE
    /\ watcher' = [watcher EXCEPT ![q] = "stopped"]
    /\ UNCHANGED <<db, mu, goSide, fired, vdbe, rc, guilty>>

\* sqlite3_interrupt of the database the watcher was started with.
Interrupts(q) ==
    /\ watcher[q] = "interrupt"
    /\ interrupted' = TRUE
    /\ watcher' = [watcher EXCEPT ![q] = "stopped"]
    /\ UNCHANGED <<db, mu, goSide, fired, vdbe, rc, guilty>>

-----------------------------------------------------------------------------
(* statement.Close and conn.Close.                                         *)

\* sqlite3_finalize of a prepared statement.
StatementCloses(q) ==
    /\ query[q].prepared /\ query[q].state = "ended"
    /\ at[q] = "idle"
    /\ mu = {}
    /\ vdbe[q] # "none"
    /\ vdbe' = [vdbe EXCEPT ![q] = "none"]
    /\ uses' = [uses EXCEPT ![q] = MaxUses]
    /\ UNCHANGED query
    /\ Remembers
    /\ UNCHANGED <<db, mu, at, told, fired, watcher, interrupted, rc>>

ConnCloses ==
    /\ db
    /\ mu = {}
    /\ \A q \in Queries : query[q].state # "open" /\ vdbe[q] = "none"
    /\ db' = FALSE
    /\ UNCHANGED <<mu, goSide, fired, watcher, vdbe, interrupted, rc, guilty>>

-----------------------------------------------------------------------------
\* A call in progress.
CallStep(q) ==
    \/ Refused(q) \/ Bound(q)
    \/ Locks(q, "next", "check") \/ Locks(q, "rowsClose", "close")
    \/ Checks(q) \/ StepStarts(q) \/ VdbeEnters(q)
    \/ VdbeInterrupted(q) \/ VdbeRow(q) \/ VdbeDone(q)
    \/ Tells(q) \/ Joins(q)

WatcherStep(q) == Selects(q, "interrupt") \/ Selects(q, "stopped") \/ Interrupts(q)

SqlNext ==
    \/ \E q \in Queries :
          \/ Fires(q)
          \/ Begins(q)
          \/ Invokes(q, "next") \/ Invokes(q, "rowsClose")
          \/ CallStep(q)
          \/ WatcherStep(q)
          \/ StatementCloses(q)
    \/ ConnCloses

SqlSpec == SqlInit /\ [][SqlNext]_sqlVars

\* Goroutines run, and a step of the virtual machine ends.
SqlFairSpec ==
    /\ SqlSpec
    /\ \A q \in Queries : SF_sqlVars(CallStep(q)) /\ WF_sqlVars(WatcherStep(q))

-----------------------------------------------------------------------------
(* Properties.                                                             *)

\* "closeLocked joins it before the statement is finalized so the interrupt
\* can never race with statement teardown or leak": a watcher is at work only
\* while its query is open and the database is, whether the context fires
\* before, during or after the last step.
WatcherJoined ==
    \A q \in Queries :
        watcher[q] \in {"select", "interrupt"} =>
            query[q].state = "open" /\ db /\ vdbe[q] # "none"

\* The flag that an interrupt sets outlives the query it was for.  A step is
\* interrupted only when a query was cancelled since the connection was last
\* quiet (nothing open, no statement running): the cancellation of a query
\* that has ended does not reach the queries that come after it.
NoStrayInterrupt ==
    \A q \in Queries : at[q] = "close" /\ rc[q] = "interrupt" => guilty # {}

\* Every call ends, however its end races the context: the join of a watcher
\* that is in sqlite3_interrupt, while the mutex is held, is no deadlock.
SqlCallsEnd == \A q \in Queries : at[q] # "idle" ~> at[q] = "idle"

=============================================================================
