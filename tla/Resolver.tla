------------------------------ MODULE Resolver ------------------------------
(***************************************************************************)
(* Name resolution of package netdev (dns.go): lookupHost with its caches. *)
(* The hosts file and resolv.conf are cached with the identity a stat gave *)
(* before the lock was taken, and read under it when that is another; the  *)
(* answers of nameservers are cached for their TTL, and asked for outside  *)
(* the lock.  Lookups run concurrently, files are edited and time passes   *)
(* at any point between their steps.                                       *)
(*                                                                         *)
(* An edit gives a file a new version, which stands for its identity and   *)
(* its content (which names it lists is left open); an answer is the name  *)
(* it was for and the time it came.                                        *)
(* "localhost" is answered without any state and not among the names.      *)
(*                                                                         *)
(* External: the file system, the system resolver, nameservers, the clock. *)
(***************************************************************************)
EXTENDS Integers, Sequences

CONSTANTS
    Lookups,    \* goroutines in lookupHost
    Names,      \* the names they look up
    MinTTL,     \* dnsCacheMinTTL
    MaxTTL,     \* dnsCacheMaxTTL
    MaxEntries, \* dnsCacheMaxEntries
    TTLs,       \* what records say
    MaxEvents   \* bound: ticks of the clock and edits of the files

ASSUME ResolverBounds ==
    /\ {MinTTL, MaxTTL, MaxEvents} \cup TTLs \subseteq Nat
    /\ MinTTL <= MaxTTL
    /\ MaxEntries \in Nat \ {0}

Files == {"hosts", "resolv"}

\* A lookup of n that has no answer yet: the identity it got from a stat, the
\* version the file had before, the version it went by.
At(step, n, seen, since, used) ==
    [at |-> step, name |-> n, seen |-> seen, since |-> since, used |-> used,
     of |-> "", age |-> 0, expires |-> 0]

\* One with an answer to "of", of that age or with a time to expire.
With(step, n, seen, of, age, expires) ==
    [at |-> step, name |-> n, seen |-> seen, since |-> 0, used |-> 0,
     of |-> of, age |-> age, expires |-> expires]

VARIABLES
    now,      \* the clock
    file,     \* file[f]: the version of the file
    cached,   \* cached[f]: the identity and the version that was parsed
    entries,  \* answerCache.entries
    lookup    \* lookup[l]: the state of a lookup
              \* since: version at its start; used: version it went by;
              \* of, age: whose answer it returned, and how old

files == <<file, cached>>
resVars == <<now, files, entries, lookup>>

\* Where a lookup stands.
Steps == {"idle", "statHosts", "hosts", "env", "statResolv", "resolv", "get", "query", "put"}

LookupStates == [at : Steps, name : Names \cup {""}, seen : Nat, since : Nat, used : Nat,
                 of : Names \cup {""}, age : Nat, expires : Nat]

Entries == [name : Names, of : Names, put : Nat, expires : Nat]

ResTypeOK ==
    /\ now \in Nat
    /\ file \in [Files -> Nat]
    /\ cached \in [Files -> [identity : Nat, version : Nat]]
    /\ entries \in Seq(Entries)
    /\ lookup \in [Lookups -> LookupStates]

ResInit ==
    /\ now = 0
    /\ file = [f \in Files |-> 1]
    /\ cached = [f \in Files |-> [identity |-> 0, version |-> 0]]
    /\ entries = <<>>
    /\ lookup = [l \in Lookups |-> At("idle", "", 0, 0, 0)]

\* Lookup l returns, with the answer to a query for "of" that came age ago.
Returns(l, of, age) ==
    lookup' = [lookup EXCEPT ![l] = With("idle", lookup[l].name, 0, of, age, 0)]

\* It is done with a file of which it went by version "used".
Went(l, at, used) ==
    lookup' = [lookup EXCEPT ![l] = At(at, lookup[l].name, 0, lookup[l].since, used)]

\* It goes on, and the files matter no longer.
GoesOn(l, at) ==
    lookup' = [lookup EXCEPT ![l] = At(at, lookup[l].name, 0, 0, 0)]

-----------------------------------------------------------------------------
(* The world.                                                              *)

Events == now + (file["hosts"] - 1) + (file["resolv"] - 1)

Tick ==
    /\ Events < MaxEvents
    /\ now' = now + 1
    /\ UNCHANGED <<files, entries, lookup>>

Edits(f) ==
    /\ Events < MaxEvents
    /\ file' = [file EXCEPT ![f] = @ + 1]
    /\ UNCHANGED <<now, cached, entries, lookup>>

-----------------------------------------------------------------------------
(* Files cached by identity.                                               *)

\* lookupHost begins.
Looks(l, n) ==
    /\ lookup[l].at = "idle"
    /\ lookup' = [lookup EXCEPT ![l] = At("statHosts", n, 0, file["hosts"], 0)]
    /\ UNCHANGED <<now, files, entries>>

\* statIdentity, before the lock.
Stats(l, from, f, to) ==
    /\ lookup[l].at = from
    /\ lookup' = [lookup EXCEPT ![l] = At(to, lookup[l].name, file[f], lookup[l].since, 0)]
    /\ UNCHANGED <<now, files, entries>>

\* There is no such file: no hosts, or the default nameserver.
StatFails(l, from, to) ==
    /\ lookup[l].at = from
    /\ GoesOn(l, to)
    /\ UNCHANGED <<now, files, entries>>

\* Mutant of Revalidated: the identity is taken after the read.
RevalidatedAfter(l, f) ==
    IF cached[f].identity = lookup[l].seen
    THEN UNCHANGED cached
    ELSE cached' = [cached EXCEPT ![f] = [identity |-> file[f], version |-> lookup[l].seen]]

\* The file is read unless the identity is that of the parsed version.
Revalidated(l, f) ==
    IF cached[f].identity = lookup[l].seen
    THEN UNCHANGED cached
    ELSE cached' = [cached EXCEPT ![f] = [identity |-> lookup[l].seen, version |-> file[f]]]

\* lookupHostsIn under its lock: a name that is listed ends the lookup.
LooksInHosts(l, found) ==
    /\ lookup[l].at = "hosts"
    /\ Revalidated(l, "hosts")
    /\ Went(l, IF found THEN "idle" ELSE "env", cached'["hosts"].version)
    /\ UNCHANGED <<now, file, entries>>

\* The hosts file cannot be read.
HostsUnreadable(l) ==
    /\ lookup[l].at = "hosts"
    /\ cached["hosts"].identity # lookup[l].seen
    /\ GoesOn(l, "env")
    /\ UNCHANGED <<now, files, entries>>

\* NETDEV_DNS names nameservers; or the system resolver answers; or the
\* nameservers are those of resolv.conf.
Overridden(l) ==
    /\ lookup[l].at = "env"
    /\ GoesOn(l, "get")
    /\ UNCHANGED <<now, files, entries>>

SystemAnswers(l) ==
    /\ lookup[l].at = "env"
    /\ GoesOn(l, "idle")
    /\ UNCHANGED <<now, files, entries>>

Nameservers(l) ==
    /\ lookup[l].at = "env"
    /\ lookup' = [lookup EXCEPT ![l] = At("statResolv", lookup[l].name, 0, file["resolv"], 0)]
    /\ UNCHANGED <<now, files, entries>>

\* nameservers under its lock.
ReadsResolv(l) ==
    /\ lookup[l].at = "resolv"
    /\ Revalidated(l, "resolv")
    /\ Went(l, "get", cached'["resolv"].version)
    /\ UNCHANGED <<now, file, entries>>

\* resolv.conf cannot be read: the list stays what it was, and the lookup goes
\* by it; EditsSeen says nothing of that list.
ResolvUnreadable(l) ==
    /\ lookup[l].at = "resolv"
    /\ cached["resolv"].identity # lookup[l].seen
    /\ GoesOn(l, "get")
    /\ UNCHANGED <<now, files, entries>>

-----------------------------------------------------------------------------
(* dnsCache.                                                               *)

Indices(n) == {i \in DOMAIN entries : entries[i].name = n}

\* dnsCache.get: the first entry of the name, which goes when it has expired;
\* the last one takes its place.
Without(i) == SubSeq([entries EXCEPT ![i] = entries[Len(entries)]], 1, Len(entries) - 1)

\* Mutant of CacheHit: an expired entry is still returned from its slot.
CacheHitAfterExpiry(l) ==
    /\ lookup[l].at = "get"
    /\ \E i \in Indices(lookup[l].name) :
          /\ \A j \in Indices(lookup[l].name) : i <= j
          /\ Returns(l, entries[i].of, now - entries[i].put)
    /\ UNCHANGED <<now, files, entries>>

CacheHit(l) ==
    /\ lookup[l].at = "get"
    /\ \E i \in Indices(lookup[l].name) :
          /\ \A j \in Indices(lookup[l].name) : i <= j
          /\ now <= entries[i].expires
          /\ Returns(l, entries[i].of, now - entries[i].put)
    /\ UNCHANGED <<now, files, entries>>

CacheExpired(l) ==
    /\ lookup[l].at = "get"
    /\ \E i \in Indices(lookup[l].name) :
          /\ \A j \in Indices(lookup[l].name) : i <= j
          /\ now > entries[i].expires
          /\ entries' = Without(i)
    /\ GoesOn(l, "query")
    /\ UNCHANGED <<now, files>>

CacheMiss(l) ==
    /\ lookup[l].at = "get"
    /\ Indices(lookup[l].name) = {}
    /\ GoesOn(l, "query")
    /\ UNCHANGED <<now, files, entries>>

\* No nameserver answers.
Unknown(l) ==
    /\ lookup[l].at = "query"
    /\ GoesOn(l, "idle")
    /\ UNCHANGED <<now, files, entries>>

Clamp(ttl) == IF ttl < MinTTL THEN MinTTL ELSE IF ttl > MaxTTL THEN MaxTTL ELSE ttl

\* dnsQueryA answers, and put takes the time before the lock.
Answered(l, ttl) ==
    /\ lookup[l].at = "query"
    /\ lookup' = [lookup EXCEPT ![l] =
                     With("put", lookup[l].name, now, lookup[l].name, 0, now + Clamp(ttl))]
    /\ UNCHANGED <<now, files, entries>>

\* dnsCache.put under the lock: in place of the name's entry, or at the end,
\* after starting over when the cache is full.
Puts(l) ==
    LET n == lookup[l].name
        entry == [name |-> n, of |-> lookup[l].of, put |-> lookup[l].seen,
                  expires |-> lookup[l].expires]
    IN  /\ lookup[l].at = "put"
        /\ entries' = IF Indices(n) # {}
                      THEN [entries EXCEPT ![CHOOSE i \in Indices(n) :
                                                \A j \in Indices(n) : i <= j] = entry]
                      ELSE Append(IF Len(entries) >= MaxEntries THEN <<>> ELSE entries, entry)
        /\ Returns(l, lookup[l].of, 0)
        /\ UNCHANGED <<now, files>>

-----------------------------------------------------------------------------
LookupStep(l) ==
    \/ Stats(l, "statHosts", "hosts", "hosts") \/ StatFails(l, "statHosts", "env")
    \/ HostsUnreadable(l)
    \/ \E found \in BOOLEAN : LooksInHosts(l, found)
    \/ Overridden(l) \/ SystemAnswers(l) \/ Nameservers(l)
    \/ Stats(l, "statResolv", "resolv", "resolv") \/ StatFails(l, "statResolv", "get")
    \/ ReadsResolv(l) \/ ResolvUnreadable(l)
    \/ CacheHit(l) \/ CacheExpired(l) \/ CacheMiss(l)
    \/ Unknown(l) \/ Puts(l)
    \/ \E ttl \in TTLs : Answered(l, ttl)

ResNext ==
    \/ Tick
    \/ \E f \in Files : Edits(f)
    \/ \E l \in Lookups : LookupStep(l) \/ \E n \in Names : Looks(l, n)

ResSpec == ResInit /\ [][ResNext]_resVars

-----------------------------------------------------------------------------
(* Properties.                                                             *)

\* "An edited file is still picked up on the next call": a lookup goes by a
\* hosts file and a resolv.conf at least as new as they were when it began to
\* look at them, although other lookups, with identities from before the edit,
\* fill the same cache.
EditsSeen ==
    \A l \in Lookups :
        lookup[l].used # 0 => lookup[l].used >= lookup[l].since

\* An answer from the cache is one for the name that was asked for, and not
\* older than dnsCacheMaxTTL ("bounds staleness whatever the record claims"),
\* whatever entries were moved, replaced or thrown away meanwhile; a name has
\* one entry, and there are no more than dnsCacheMaxEntries.
AnswersCurrent ==
    /\ \A l \in Lookups : lookup[l].at = "idle" /\ lookup[l].of # "" =>
          lookup[l].of = lookup[l].name /\ lookup[l].age <= MaxTTL
    /\ \A i, j \in DOMAIN entries : entries[i].name = entries[j].name => i = j
    /\ Len(entries) <= MaxEntries

=============================================================================
