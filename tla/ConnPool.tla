------------------------------ MODULE ConnPool ------------------------------
(***************************************************************************)
(* What a keep-alive pool promises, without how: a connection is held by   *)
(* one request at a time, comes back only from the request that held it,   *)
(* goes only to requests for the destination it was dialled for, and is    *)
(* never used again once it is discarded; the idle ones are capped.        *)
(* HttpsTransport implements it.                                           *)
(***************************************************************************)
EXTENDS Naturals, FiniteSets

CONSTANTS
    Users,       \* those who lease connections
    Connections,
    Homes,       \* destinations
    PerHome,     \* cap of idle connections of one destination
    InAll,       \* cap of idle connections
    Nowhere      \* neither a user nor a destination

VARIABLES
    holder,   \* holder[c]: a user, or "fresh", "idle" or "discarded"
    home,     \* home[c]: the destination c was dialled for
    wants     \* wants[u]: the destination u asked for

poolVars == <<holder, home, wants>>

In(s) == {c \in Connections : holder[c] = s}

Holds(u) == In(u) # {}

PoolInit ==
    /\ holder = [c \in Connections |-> "fresh"]
    /\ home = [c \in Connections |-> Nowhere]
    /\ wants = [u \in Users |-> Nowhere]

\* The connections of S are discarded, and c goes to h.
Move(c, h, S) ==
    holder' = [d \in Connections |->
                  IF d = c THEN h ELSE IF d \in S THEN "discarded" ELSE holder[d]]

Ask(u, k) ==
    /\ wants[u] = Nowhere
    /\ wants' = [wants EXCEPT ![u] = k]
    /\ UNCHANGED <<holder, home>>

\* A new connection.
Connect(u, c) ==
    /\ holder[c] = "fresh"
    /\ ~Holds(u)
    /\ wants[u] # Nowhere
    /\ Move(c, u, {})
    /\ home' = [home EXCEPT ![c] = wants[u]]
    /\ UNCHANGED wants

\* An idle connection; others of the destination may be found unusable.
Reuse(u, c, S) ==
    /\ holder[c] = "idle"
    /\ home[c] = wants[u]
    /\ ~Holds(u)
    /\ S \subseteq {d \in In("idle") : home[d] = home[c]}
    /\ Move(c, u, S)
    /\ UNCHANGED <<home, wants>>

\* None of a destination's idle connections is usable.
Purge(k) ==
    /\ holder' = [c \in Connections |->
                    IF holder[c] = "idle" /\ home[c] = k THEN "discarded" ELSE holder[c]]
    /\ UNCHANGED <<home, wants>>

\* A connection becomes idle, at the cost of at most one other if all are too
\* many.
GiveBack(c, S) ==
    /\ holder[c] \in Users
    /\ S \subseteq In("idle")
    /\ Cardinality(S) <= 1
    /\ Move(c, "idle", S)
    /\ Cardinality(In("idle")') <= InAll
    /\ Cardinality({d \in Connections : holder'[d] = "idle" /\ home[d] = home[c]}) <= PerHome
    /\ UNCHANGED <<home, wants>>

Discard(c) ==
    /\ holder[c] \in Users
    /\ Move(c, "discarded", {})
    /\ UNCHANGED <<home, wants>>

\* CloseIdleConnections: none that a user holds.
DiscardIdle ==
    /\ holder' = [c \in Connections |->
                    IF holder[c] = "idle" THEN "discarded" ELSE holder[c]]
    /\ UNCHANGED <<home, wants>>

PoolNext ==
    \/ DiscardIdle
    \/ \E k \in Homes : Purge(k) \/ \E u \in Users : Ask(u, k)
    \/ \E c \in Connections :
          \/ Discard(c)
          \/ \E u \in Users : Connect(u, c)
          \/ \E S \in SUBSET (Connections \ {c}) :
                GiveBack(c, S) \/ \E u \in Users : Reuse(u, c, S)

PoolSpec == PoolInit /\ [][PoolNext]_poolVars

=============================================================================
