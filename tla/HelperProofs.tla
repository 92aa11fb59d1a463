---------------------------- MODULE HelperProofs ----------------------------
(***************************************************************************)
(* Proofs about the routines that clients and servers lean on: Resolver,   *)
(* for any number of lookups, names, entries, edits and ticks, and any     *)
(* limits of the TTL; readHead (HeadReader) and rawHeadHasUpgrade          *)
(* (UpgradeScan), on heads of any length however they arrive; and Decode   *)
(* (Base64), on every text.                                                *)
(*                                                                         *)
(* FilesInv and AnswersInv say what a lookup knows at each step and what   *)
(* the cache holds.  ReadInv, ScanInv and B64Inv relate what a loop keeps  *)
(* to all that it has read: B64Inv to what encoding/base64 would make of   *)
(* the text before the position the loop has reached.                      *)
(***************************************************************************)
EXTENDS Resolver, HeadReader, UpgradeScan, Base64,
        SequenceTheorems, FiniteSetTheorems, WellFoundedInduction, TLAPS

-----------------------------------------------------------------------------
(* Resolver.                                                               *)

\* What EditsSeen rests on: what is cached under an identity is at least as new
\* as that identity, since the stat comes before the read; and a lookup in state
\* s, with the files at versions fs, has an identity from after it began.
FilesKnown(s, fs) ==
    /\ s.at = "statHosts" => s.since <= fs["hosts"]
    /\ s.at = "statResolv" => s.since <= fs["resolv"]
    /\ s.at = "hosts" => s.since <= s.seen /\ s.seen <= fs["hosts"]
    /\ s.at = "resolv" => s.since <= s.seen /\ s.seen <= fs["resolv"]
    /\ s.used # 0 => s.used >= s.since

FilesInv ==
    /\ \A f \in Files : cached[f].identity <= cached[f].version
    /\ \A l \in Lookups : FilesKnown(lookup[l], file)

\* What AnswersCurrent rests on: a lookup on its way to put, and an entry, have
\* the answer to their own name, with a time limit counted from its arrival.
AnswerKnown(s, t) ==
    /\ s.at # "idle" => s.name \in Names
    /\ s.of # "" => s.of = s.name
    /\ s.age <= MaxTTL
    /\ s.at = "put" => s.of = s.name /\ s.seen <= t /\ s.expires <= s.seen + MaxTTL

EntryKnown(e, t) == e.of = e.name /\ e.put <= t /\ e.expires <= e.put + MaxTTL

AnswersInv ==
    /\ \A l \in Lookups : AnswerKnown(lookup[l], now)
    /\ \A i \in DOMAIN entries : EntryKnown(entries[i], now)
    /\ \A i, j \in DOMAIN entries : entries[i].name = entries[j].name => i = j
    /\ Len(entries) <= MaxEntries

-----------------------------------------------------------------------------
(* Type correctness.                                                       *)

\* The parameters of the cache, from ResolverBounds.
LEMMA NaturalBounds == MinTTL \in Nat /\ MaxTTL \in Nat /\ MaxEntries \in Nat \ {0} /\ TTLs \subseteq Nat
BY ResolverBounds

\* The two ways in which a step writes the state of a lookup keep its type.
LEMMA AtType ==
    ASSUME NEW step \in Steps, NEW n \in Names \cup {""}, NEW seen \in Nat,
           NEW since \in Nat, NEW used \in Nat
    PROVE  At(step, n, seen, since, used) \in LookupStates
BY DEF At, LookupStates

\* The same for a lookup that has an answer.
LEMMA WithType ==
    ASSUME NEW step \in Steps, NEW n \in Names \cup {""}, NEW seen \in Nat,
           NEW of \in Names \cup {""}, NEW age \in Nat, NEW expires \in Nat
    PROVE  With(step, n, seen, of, age, expires) \in LookupStates
BY DEF With, LookupStates

\* Lookups, files and the cache start with their types.
LEMMA TypeInit == ResInit => ResTypeOK
<1> SUFFICES ASSUME ResInit PROVE ResTypeOK
  OBVIOUS
<1>1. At("idle", "", 0, 0, 0) \in LookupStates
  BY AtType DEF Steps
<1>2. <<>> \in Seq(Entries)
  OBVIOUS
<1> QED
  BY <1>1, <1>2 DEF ResInit, ResTypeOK, Files

\* A step that only sets the state of one lookup.
LEMMA TypeLookup ==
    ASSUME ResTypeOK, NEW l \in Lookups, NEW state \in LookupStates,
           lookup' = [lookup EXCEPT ![l] = state]
    PROVE  lookup' \in [Lookups -> LookupStates]
BY DEF ResTypeOK

\* The entry that l puts into the cache.
PutEntry(l) ==
    [name |-> lookup[l].name, of |-> lookup[l].of, put |-> lookup[l].seen,
     expires |-> lookup[l].expires]

\* What Puts does: a name has at most one entry, which is the first.
LEMMA PutsCases ==
    ASSUME AnswersInv, ResTypeOK, NEW l \in Lookups, Puts(l)
    PROVE  \/ \E k \in Indices(lookup[l].name) : entries' = [entries EXCEPT ![k] = PutEntry(l)]
           \/ Indices(lookup[l].name) = {} /\ entries' = Append(<<>>, PutEntry(l))
           \/ /\ Indices(lookup[l].name) = {} /\ Len(entries) < MaxEntries
              /\ entries' = Append(entries, PutEntry(l))
<1> DEFINE n == lookup[l].name
           k == CHOOSE i \in Indices(n) : \A j \in Indices(n) : i <= j
<1>1. CASE Indices(n) # {}
  <2>1. PICK i \in Indices(n) : TRUE
    BY <1>1
  <2>2. \A j \in Indices(n) : i <= j
    <3>1. DOMAIN entries = 1 .. Len(entries)
      BY DEF ResTypeOK
    <3> QED
      <4>1. ASSUME NEW j \in Indices(n) PROVE i <= j
        <5>1. i \in 1 .. Len(entries) /\ entries[i].name = n /\ entries[j].name = n
          BY <3>1, <2>1 DEF Indices
        <5>2. i = j
          BY <5>1, <3>1 DEF Indices, AnswersInv
        <5> QED
          BY <5>1, <5>2
      <4> QED
        BY <4>1
  <2>3. k \in Indices(n)
    BY <2>1, <2>2
  <2> QED
    BY <1>1, <2>3 DEF Puts, PutEntry
<1>2. CASE Indices(n) = {}
  <2>1. Len(entries) \in Nat /\ MaxEntries \in Nat
    BY NaturalBounds DEF ResTypeOK
  <2> QED
    <3>1. entries' = Append(IF Len(entries) >= MaxEntries THEN <<>> ELSE entries, PutEntry(l))
      BY <1>2 DEF Puts, PutEntry
    <3>2. CASE Len(entries) >= MaxEntries
      BY <1>2, <3>1, <3>2
    <3>3. CASE ~(Len(entries) >= MaxEntries)
      <4>1. Len(entries) < MaxEntries
        BY <3>3, <2>1
      <4>2. entries' = Append(entries, PutEntry(l))
        BY <3>1, <3>3
      <4> QED
        BY <1>2, <4>1, <4>2
    <3> QED
      BY <3>2, <3>3
<1> QED
  BY <1>1, <1>2

\* Every step keeps the types, one case per action; Puts needs AnswersInv to
\* know the slot that it overwrites.
LEMMA TypeStep == ResTypeOK /\ AnswersInv /\ [ResNext]_resVars => ResTypeOK'
<1> SUFFICES ASSUME ResTypeOK, AnswersInv, [ResNext]_resVars PROVE ResTypeOK'
  OBVIOUS
<1> USE DEF Files, files
<1>0. ASSUME NEW l \in Lookups
      PROVE  /\ lookup[l] \in LookupStates
             /\ lookup[l].name \in Names \cup {""}
             /\ lookup[l].of \in Names \cup {""}
             /\ lookup[l].seen \in Nat
             /\ lookup[l].since \in Nat
             /\ lookup[l].expires \in Nat
             /\ file["hosts"] \in Nat
             /\ file["resolv"] \in Nat
  BY DEF ResTypeOK, LookupStates
<1>1. CASE Tick
  BY <1>1 DEF Tick, ResTypeOK
<1>2. ASSUME NEW f \in Files, Edits(f) PROVE ResTypeOK'
  BY <1>2 DEF Edits, ResTypeOK
<1>3. ASSUME NEW l \in Lookups, NEW n \in Names, Looks(l, n) PROVE ResTypeOK'
  <2>1. lookup' \in [Lookups -> LookupStates]
    BY <1>3, <1>0, AtType, TypeLookup DEF Looks, Steps
  <2> QED
    BY <2>1, <1>3 DEF ResTypeOK, Looks
<1>4. ASSUME NEW l \in Lookups, LookupStep(l) PROVE ResTypeOK'
  <2>0. ASSUME NEW step \in Steps, GoesOn(l, step) PROVE lookup' \in [Lookups -> LookupStates]
    BY <2>0, <1>0, AtType, TypeLookup DEF GoesOn
  <2>1. ASSUME NEW from, NEW f \in Files, NEW to \in Steps, Stats(l, from, f, to) PROVE ResTypeOK'
    <3>1. lookup' \in [Lookups -> LookupStates]
      BY <2>1, <1>0, AtType, TypeLookup DEF Stats, Steps
    <3> QED
      BY <3>1, <2>1 DEF ResTypeOK, Stats
  <2>2. ASSUME NEW from, NEW to \in Steps, StatFails(l, from, to) PROVE ResTypeOK'
    BY <2>2, <2>0 DEF StatFails, ResTypeOK
  <2>3. CASE HostsUnreadable(l)
    BY <2>3, <2>0 DEF HostsUnreadable, ResTypeOK, Steps
  <2>4. ASSUME NEW f \in Files, Revalidated(l, f)
        PROVE  /\ cached' \in [Files -> [identity : Nat, version : Nat]]
               /\ cached'[f].version \in Nat
    <3>1. [identity |-> lookup[l].seen, version |-> file[f]] \in [identity : Nat, version : Nat]
      BY <1>0
    <3>2. cached' \in [Files -> [identity : Nat, version : Nat]]
      BY <3>1, <2>4 DEF Revalidated, ResTypeOK
    <3> QED
      BY <3>2
  <2>5. ASSUME NEW step \in Steps, NEW f \in Files, Revalidated(l, f),
               Went(l, step, cached'[f].version)
        PROVE  lookup' \in [Lookups -> LookupStates]
    BY <2>5, <2>4, <1>0, AtType, TypeLookup DEF Went
  <2>6. ASSUME NEW found \in BOOLEAN, LooksInHosts(l, found) PROVE ResTypeOK'
    BY <2>6, <2>4, <2>5 DEF LooksInHosts, ResTypeOK, Steps
  <2>7. CASE Overridden(l) \/ SystemAnswers(l)
    BY <2>7, <2>0 DEF Overridden, SystemAnswers, ResTypeOK, Steps
  <2>8. CASE Nameservers(l)
    <3>1. lookup' \in [Lookups -> LookupStates]
      BY <2>8, <1>0, AtType, TypeLookup DEF Nameservers, Steps
    <3> QED
      BY <3>1, <2>8 DEF ResTypeOK, Nameservers
  <2>9. CASE ReadsResolv(l)
    BY <2>9, <2>4, <2>5 DEF ReadsResolv, ResTypeOK, Steps
  <2>10. CASE ResolvUnreadable(l) \/ CacheMiss(l) \/ Unknown(l)
    BY <2>10, <2>0 DEF ResolvUnreadable, CacheMiss, Unknown, ResTypeOK, Steps
  <2>11. ASSUME NEW i \in DOMAIN entries
         PROVE  /\ entries[i] \in Entries
                /\ entries[i].of \in Names
                /\ now - entries[i].put \in Nat
    <3>1. entries[i] \in Entries /\ now \in Nat
      BY <2>11 DEF ResTypeOK
    <3>2. entries[i].put <= now
      BY <2>11 DEF AnswersInv, EntryKnown
    <3> QED
      BY <3>1, <3>2 DEF Entries
  <2>12. CASE CacheHit(l)
    <3>1. PICK i \in DOMAIN entries : Returns(l, entries[i].of, now - entries[i].put)
      BY <2>12 DEF CacheHit, Indices
    <3>2. lookup' \in [Lookups -> LookupStates]
      BY <3>1, <2>11, <1>0, WithType, TypeLookup DEF Returns, Steps
    <3> QED
      BY <3>2, <2>12 DEF ResTypeOK, CacheHit
  <2>13. CASE CacheExpired(l)
    <3>1. PICK i \in DOMAIN entries : entries' = Without(i)
      BY <2>13 DEF CacheExpired, Indices
    <3>2. entries' \in Seq(Entries)
      BY <3>1, <2>11 DEF Without, ResTypeOK
    <3> QED
      BY <3>2, <2>13, <2>0 DEF ResTypeOK, CacheExpired, Steps
  <2>14. CASE Puts(l)
    <3>1. lookup' \in [Lookups -> LookupStates]
      BY <2>14, <1>0, WithType, TypeLookup DEF Puts, Returns, Steps
    <3>2. PutEntry(l) \in Entries
      <4>1. lookup[l].name \in Names /\ lookup[l].of = lookup[l].name
        BY <2>14 DEF Puts, AnswersInv, AnswerKnown
      <4> QED
        BY <4>1, <1>0 DEF Entries, PutEntry
    <3>3. entries' \in Seq(Entries)
      <4> DEFINE entry == PutEntry(l)
      <4>1. \/ \E k \in Indices(lookup[l].name) : entries' = [entries EXCEPT ![k] = entry]
            \/ entries' = Append(<<>>, entry)
            \/ entries' = Append(entries, entry)
        BY <2>14, PutsCases
      <4>2. entries \in Seq(Entries) /\ entry \in Entries
        BY <3>2 DEF ResTypeOK
      <4>3. ASSUME NEW k \in Indices(lookup[l].name)
            PROVE  [entries EXCEPT ![k] = entry] \in Seq(Entries)
        <5>1. k \in 1 .. Len(entries)
          BY <4>2 DEF Indices
        <5> HIDE DEF entry
        <5> QED
          BY <4>2, <5>1, ExceptSeq
      <4> HIDE DEF entry
      <4>4. Append(<<>>, entry) \in Seq(Entries) /\ Append(entries, entry) \in Seq(Entries)
        BY <4>2
      <4> QED
        BY <4>1, <4>3, <4>4
    <3> QED
      BY <3>1, <3>3, <2>14 DEF ResTypeOK, Puts
  <2>15. ASSUME NEW ttl \in TTLs, Answered(l, ttl) PROVE ResTypeOK'
    <3>1. now + Clamp(ttl) \in Nat /\ now \in Nat
      BY NaturalBounds DEF Clamp, ResTypeOK
    <3>2. lookup' \in [Lookups -> LookupStates]
      BY <3>1, <2>15, <1>0, WithType, TypeLookup DEF Answered, Steps
    <3> QED
      BY <3>2, <2>15 DEF ResTypeOK, Answered
  <2> QED
    BY <1>4, <2>1, <2>2, <2>3, <2>6, <2>7, <2>8, <2>9, <2>10, <2>12, <2>13, <2>14, <2>15
       DEF LookupStep, Steps
<1>5. CASE UNCHANGED resVars
  BY <1>5 DEF resVars, ResTypeOK
<1> QED
  BY <1>1, <1>2, <1>3, <1>4, <1>5 DEF ResNext

-----------------------------------------------------------------------------
(* Files.                                                                  *)

\* Every step keeps FilesInv.  A read puts into the cache a version at least as
\* new as the identity it is stored under, since files only get newer.
LEMMA FilesStep == ResTypeOK /\ FilesInv /\ [ResNext]_resVars => FilesInv'
<1> SUFFICES ASSUME ResTypeOK, FilesInv, [ResNext]_resVars PROVE FilesInv'
  OBVIOUS
<1> USE DEF Files, files
<1>0. ASSUME NEW l \in Lookups
      PROVE  /\ lookup[l].since \in Nat
             /\ lookup[l].seen \in Nat
             /\ lookup[l].used \in Nat
             /\ file["hosts"] \in Nat
             /\ file["resolv"] \in Nat
             /\ FilesKnown(lookup[l], file)
  BY DEF ResTypeOK, LookupStates, FilesInv
<1>00. ASSUME NEW f \in Files
       PROVE  cached[f].identity \in Nat /\ cached[f].version \in Nat /\ file[f] \in Nat
  BY DEF ResTypeOK
<1>000. ASSUME NEW l \in Lookups, NEW s, lookup' = [lookup EXCEPT ![l] = s],
               FilesKnown(s, file), UNCHANGED file,
               \A f \in Files : cached'[f].identity <= cached'[f].version
        PROVE  FilesInv'
  <2>1. \A m \in Lookups : lookup'[m] = IF m = l THEN s ELSE lookup[m]
    BY <1>000 DEF ResTypeOK
  <2> QED
    BY <1>000, <1>0, <2>1 DEF FilesInv
<1>1. CASE UNCHANGED <<files, lookup>>
  BY <1>1 DEF FilesInv
<1>2. ASSUME NEW f \in Files, Edits(f) PROVE FilesInv'
  <2>1. file'["hosts"] >= file["hosts"] /\ file'["resolv"] >= file["resolv"]
    BY <1>2, <1>00 DEF Edits, ResTypeOK
  <2>2. file'["hosts"] \in Nat /\ file'["resolv"] \in Nat
    BY <1>2, <1>00 DEF Edits, ResTypeOK
  <2>3. ASSUME NEW l \in Lookups PROVE FilesKnown(lookup[l], file')
    BY <1>0, <2>1, <2>2 DEF FilesKnown
  <2> QED
    BY <1>2, <2>3 DEF Edits, FilesInv
<1>3. ASSUME NEW l \in Lookups, NEW n \in Names, Looks(l, n) PROVE FilesInv'
  <2>1. FilesKnown(At("statHosts", n, 0, file["hosts"], 0), file)
    BY <1>0 DEF FilesKnown, At
  <2> QED
    BY <1>3, <2>1, <1>000 DEF Looks, FilesInv
<1>4. ASSUME NEW l \in Lookups, LookupStep(l) PROVE FilesInv'
  <2>0. ASSUME NEW step \in {"env", "get", "query", "idle"}, GoesOn(l, step), UNCHANGED files
        PROVE  FilesInv'
    <3>1. FilesKnown(At(step, lookup[l].name, 0, 0, 0), file)
      BY DEF FilesKnown, At
    <3> QED
      BY <3>1, <2>0, <1>000 DEF GoesOn, FilesInv
  <2>1. CASE \/ StatFails(l, "statHosts", "env") \/ StatFails(l, "statResolv", "get")
             \/ HostsUnreadable(l) \/ Overridden(l) \/ SystemAnswers(l)
             \/ ResolvUnreadable(l) \/ CacheExpired(l) \/ CacheMiss(l) \/ Unknown(l)
    BY <2>0, <2>1 DEF StatFails, HostsUnreadable, Overridden, SystemAnswers,
                      ResolvUnreadable, CacheExpired, CacheMiss, Unknown
  <2>2. CASE Stats(l, "statHosts", "hosts", "hosts")
    <3>1. FilesKnown(At("hosts", lookup[l].name, file["hosts"], lookup[l].since, 0), file)
      <4>1. lookup[l].since <= file["hosts"]
        BY <2>2, <1>0 DEF FilesKnown, Stats
      <4> QED
        BY <4>1, <1>0 DEF FilesKnown, At
    <3> QED
      BY <2>2, <3>1, <1>000 DEF Stats, FilesInv
  <2>3. CASE Stats(l, "statResolv", "resolv", "resolv")
    <3>1. FilesKnown(At("resolv", lookup[l].name, file["resolv"], lookup[l].since, 0), file)
      <4>1. lookup[l].since <= file["resolv"]
        BY <2>3, <1>0 DEF FilesKnown, Stats
      <4> QED
        BY <4>1, <1>0 DEF FilesKnown, At
    <3> QED
      BY <2>3, <3>1, <1>000 DEF Stats, FilesInv
  <2>4. ASSUME NEW f \in Files, lookup[l].since <= lookup[l].seen, lookup[l].seen <= file[f],
               Revalidated(l, f)
        PROVE  /\ \A g \in Files : cached'[g].identity <= cached'[g].version
               /\ cached'[f].version \in Nat
               /\ lookup[l].since <= cached'[f].version
    <3>1. CASE cached[f].identity = lookup[l].seen
      <4>1. cached' = cached /\ cached[f].identity <= cached[f].version
        BY <3>1, <2>4 DEF Revalidated, FilesInv
      <4> QED
        BY <4>1, <3>1, <2>4, <1>0, <1>00 DEF FilesInv
    <3>2. CASE cached[f].identity # lookup[l].seen
      <4>1. \A g \in Files :
               cached'[g] = IF g = f THEN [identity |-> lookup[l].seen, version |-> file[f]]
                                     ELSE cached[g]
        BY <3>2, <2>4 DEF Revalidated, ResTypeOK
      <4> QED
        BY <4>1, <2>4, <1>0, <1>00 DEF FilesInv
    <3> QED
      BY <3>1, <3>2
  <2>5. ASSUME NEW f \in Files, lookup[l].since <= lookup[l].seen, lookup[l].seen <= file[f],
               Revalidated(l, f), NEW step \in {"idle", "env", "get"},
               Went(l, step, cached'[f].version), UNCHANGED file
        PROVE  FilesInv'
    <3>1. FilesKnown(At(step, lookup[l].name, 0, lookup[l].since, cached'[f].version), file)
      BY <2>4, <2>5, <1>0 DEF FilesKnown, At
    <3> QED
      BY <3>1, <2>4, <2>5, <1>000 DEF Went
  <2>6. ASSUME NEW found \in BOOLEAN, LooksInHosts(l, found) PROVE FilesInv'
    <3>1. lookup[l].since <= lookup[l].seen /\ lookup[l].seen <= file["hosts"]
      BY <2>6, <1>0 DEF LooksInHosts, FilesKnown
    <3> QED
      BY <3>1, <2>6, <2>5 DEF LooksInHosts
  <2>7. CASE ReadsResolv(l)
    <3>1. lookup[l].since <= lookup[l].seen /\ lookup[l].seen <= file["resolv"]
      BY <2>7, <1>0 DEF ReadsResolv, FilesKnown
    <3> QED
      BY <3>1, <2>7, <2>5 DEF ReadsResolv
  <2>8. CASE Nameservers(l)
    <3>1. FilesKnown(At("statResolv", lookup[l].name, 0, file["resolv"], 0), file)
      BY <1>0 DEF FilesKnown, At
    <3> QED
      BY <2>8, <3>1, <1>000 DEF Nameservers, FilesInv
  <2>9. ASSUME NEW step \in {"idle", "put"}, NEW seen, NEW of, NEW age, NEW expires,
               lookup' = [lookup EXCEPT ![l] = With(step, lookup[l].name, seen, of, age, expires)],
               UNCHANGED files
        PROVE  FilesInv'
    <3>1. FilesKnown(With(step, lookup[l].name, seen, of, age, expires), file)
      BY DEF FilesKnown, With
    <3> QED
      BY <3>1, <2>9, <1>000 DEF FilesInv
  <2>10. CASE CacheHit(l) \/ Puts(l) \/ \E ttl \in TTLs : Answered(l, ttl)
    BY <2>9, <2>10 DEF CacheHit, Puts, Answered, Returns
  <2> QED
    BY <1>4, <2>1, <2>2, <2>3, <2>6, <2>7, <2>8, <2>10 DEF LookupStep
<1> QED
  BY <1>1, <1>2, <1>3, <1>4 DEF ResNext, Tick, resVars

-----------------------------------------------------------------------------
(* Answers.                                                                *)

\* Every step keeps AnswersInv.  The entry moved by get and the one replaced by
\* put keep the names apart.
LEMMA AnswersStep == ResTypeOK /\ AnswersInv /\ [ResNext]_resVars => AnswersInv'
<1> SUFFICES ASSUME ResTypeOK, AnswersInv, [ResNext]_resVars PROVE AnswersInv'
  OBVIOUS
<1> DEFINE Cache ==
              /\ \A i \in DOMAIN entries : EntryKnown(entries[i], now)
              /\ \A i, j \in DOMAIN entries : entries[i].name = entries[j].name => i = j
              /\ Len(entries) <= MaxEntries
<1>0. ASSUME NEW l \in Lookups
      PROVE  /\ lookup[l].name \in Names \cup {""}
             /\ lookup[l].seen \in Nat
             /\ lookup[l].expires \in Nat
             /\ now \in Nat
             /\ AnswerKnown(lookup[l], now)
  BY DEF ResTypeOK, LookupStates, AnswersInv
<1>00. ASSUME NEW i \in DOMAIN entries
       PROVE  /\ i \in 1 .. Len(entries)
              /\ Len(entries) \in Nat
              /\ entries[i] \in Entries
              /\ entries[i].put \in Nat
              /\ entries[i].expires \in Nat
              /\ EntryKnown(entries[i], now)
  <2>1. entries[i] \in Entries /\ i \in 1 .. Len(entries) /\ Len(entries) \in Nat
    BY <1>00 DEF ResTypeOK
  <2>2. EntryKnown(entries[i], now)
    BY <1>00 DEF AnswersInv
  <2> QED
    BY <2>1, <2>2 DEF Entries
<1>b. now \in Nat /\ MaxTTL \in Nat /\ 0 <= MaxTTL
  BY NaturalBounds DEF ResTypeOK
<1>000. ASSUME NEW l \in Lookups, NEW s, lookup' = [lookup EXCEPT ![l] = s],
               AnswerKnown(s, now), UNCHANGED now, Cache'
        PROVE  AnswersInv'
  <2>1. \A m \in Lookups : lookup'[m] = IF m = l THEN s ELSE lookup[m]
    BY <1>000 DEF ResTypeOK
  <2> QED
    BY <1>000, <1>0, <2>1 DEF AnswersInv
<1>c. ASSUME UNCHANGED <<now, entries>> PROVE Cache'
  BY <1>c DEF AnswersInv
<1> HIDE DEF Cache
<1>1. CASE Tick
  <2>1. now \in Nat /\ now' = now + 1 /\ UNCHANGED <<entries, lookup>>
    BY <1>1 DEF Tick, ResTypeOK
  <2>2. ASSUME NEW l \in Lookups PROVE AnswerKnown(lookup[l], now')
    <3>1. lookup[l].seen \in Nat /\ AnswerKnown(lookup[l], now)
      BY <1>0
    <3>2. lookup[l].seen <= now => lookup[l].seen <= now'
      BY <2>1, <3>1
    <3> QED
      BY <3>1, <3>2 DEF AnswerKnown
  <2>3. ASSUME NEW i \in DOMAIN entries PROVE EntryKnown(entries[i], now')
    BY <2>1, <1>00 DEF EntryKnown
  <2> QED
    BY <2>1, <2>2, <2>3 DEF AnswersInv
<1>2. CASE UNCHANGED <<now, entries, lookup>>
  BY <1>2 DEF AnswersInv
<1>3. ASSUME NEW l \in Lookups, NEW n \in Names, Looks(l, n) PROVE AnswersInv'
  <2>1. AnswerKnown(At("statHosts", n, 0, file["hosts"], 0), now)
    BY NaturalBounds DEF AnswerKnown, At
  <2> QED
    BY <1>3, <2>1, <1>c, <1>000 DEF Looks
<1>4. ASSUME NEW l \in Lookups, LookupStep(l) PROVE AnswersInv'
  \* A step of a lookup that goes on without an answer.
  <2>0. ASSUME NEW step \in Steps \ {"put"}, NEW seen, NEW since, NEW used,
               lookup[l].at # "idle", UNCHANGED now, Cache',
               lookup' = [lookup EXCEPT ![l] = At(step, lookup[l].name, seen, since, used)]
        PROVE  AnswersInv'
    <3>1. AnswerKnown(At(step, lookup[l].name, seen, since, used), now)
      <4>1. lookup[l].name \in Names
        BY <2>0, <1>0 DEF AnswerKnown
      <4> QED
        BY <4>1, <2>0, <1>b DEF AnswerKnown, At
    <3> QED
      BY <2>0, <3>1, <1>000
  <2>1. CASE \/ StatFails(l, "statHosts", "env") \/ StatFails(l, "statResolv", "get")
             \/ HostsUnreadable(l) \/ Overridden(l) \/ SystemAnswers(l)
             \/ ResolvUnreadable(l) \/ CacheMiss(l) \/ Unknown(l)
    <3>1. /\ lookup[l].at # "idle"
          /\ UNCHANGED <<now, entries>>
          /\ \E step \in Steps \ {"put"} :
                lookup' = [lookup EXCEPT ![l] = At(step, lookup[l].name, 0, 0, 0)]
      BY <2>1 DEF StatFails, HostsUnreadable, Overridden, SystemAnswers, ResolvUnreadable,
                  CacheMiss, Unknown, GoesOn, Steps
    <3> QED
      BY <3>1, <2>0, <1>c
  <2>2. CASE \/ Stats(l, "statHosts", "hosts", "hosts")
             \/ Stats(l, "statResolv", "resolv", "resolv")
             \/ Nameservers(l)
    <3>1. /\ lookup[l].at # "idle"
          /\ UNCHANGED <<now, entries>>
      BY <2>2 DEF Stats, Nameservers
    <3>2. \E step \in Steps \ {"put"} : \E seen, since \in {file["hosts"], file["resolv"], lookup[l].since, 0} :
             lookup' = [lookup EXCEPT ![l] = At(step, lookup[l].name, seen, since, 0)]
      BY <2>2 DEF Stats, Nameservers, Steps
    <3> QED
      BY <3>1, <3>2, <2>0, <1>c
  <2>3. CASE (\E found \in BOOLEAN : LooksInHosts(l, found)) \/ ReadsResolv(l)
    <3>1. lookup[l].at # "idle" /\ UNCHANGED <<now, entries>>
      BY <2>3 DEF LooksInHosts, ReadsResolv
    <3>2. \E step \in Steps \ {"put"} : \E f \in {"hosts", "resolv"} :
             lookup' = [lookup EXCEPT ![l] = At(step, lookup[l].name, 0, lookup[l].since, cached'[f].version)]
      BY <2>3 DEF LooksInHosts, ReadsResolv, Went, Steps
    <3> QED
      BY <3>1, <3>2, <2>0, <1>c
  <2>4. CASE CacheHit(l)
    <3>1. PICK i \in Indices(lookup[l].name) :
             now <= entries[i].expires /\ Returns(l, entries[i].of, now - entries[i].put)
      BY <2>4 DEF CacheHit
    <3>2. i \in DOMAIN entries /\ entries[i].name = lookup[l].name
      BY DEF Indices
    <3>3. entries[i].of = lookup[l].name /\ now - entries[i].put <= MaxTTL
      <4>1. EntryKnown(entries[i], now) /\ entries[i].put \in Nat /\ entries[i].expires \in Nat
        BY <3>2, <1>00
      <4>2. entries[i].expires <= entries[i].put + MaxTTL /\ entries[i].of = lookup[l].name
        BY <4>1, <3>2 DEF EntryKnown
      <4> QED
        BY <4>1, <4>2, <3>1, <1>b
    <3>4. AnswerKnown(With("idle", lookup[l].name, 0, entries[i].of, now - entries[i].put, 0), now)
      BY <3>3 DEF AnswerKnown, With
    <3> QED
      BY <2>4, <3>1, <3>4, <1>c, <1>000 DEF CacheHit, Returns
  <2>5. CASE CacheExpired(l)
    <3>1. PICK i \in DOMAIN entries : entries' = Without(i)
      BY <2>5 DEF CacheExpired, Indices
    <3>2. /\ Len(entries) \in Nat \ {0}
          /\ DOMAIN entries = 1 .. Len(entries)
          /\ i \in 1 .. Len(entries)
      BY DEF ResTypeOK
    <3>3. /\ DOMAIN entries' = 1 .. Len(entries) - 1
          /\ Len(entries') = Len(entries) - 1
          /\ \A j \in 1 .. Len(entries) - 1 :
                entries'[j] = IF j = i THEN entries[Len(entries)] ELSE entries[j]
      BY <3>1, <3>2 DEF Without, ResTypeOK
    <3>4. Cache'
      <4>1. ASSUME NEW j \in DOMAIN entries' PROVE EntryKnown(entries'[j], now)
        BY <3>2, <3>3, <1>00
      <4>2. ASSUME NEW j \in DOMAIN entries', NEW k \in DOMAIN entries',
                   entries'[j].name = entries'[k].name
            PROVE  j = k
        BY <3>2, <3>3, <4>2 DEF AnswersInv
      <4>3. Len(entries') <= MaxEntries
        BY <3>2, <3>3, NaturalBounds DEF AnswersInv
      <4>4. now' = now
        BY <2>5 DEF CacheExpired
      <4> QED
        BY <4>1, <4>2, <4>3, <4>4 DEF Cache
    <3> QED
      BY <2>5, <3>4, <2>0 DEF CacheExpired, GoesOn, Steps
  <2>6. CASE Puts(l)
    <3> DEFINE entry == PutEntry(l)
               n == lookup[l].name
    <3>1. /\ lookup[l].at = "put" /\ UNCHANGED now
          /\ lookup[l].of = n /\ lookup[l].seen <= now
          /\ lookup[l].expires <= lookup[l].seen + MaxTTL
      BY <2>6, <1>0 DEF Puts, AnswerKnown
    <3>2. entry.name = n /\ EntryKnown(entry, now)
      BY <3>1 DEF PutEntry, EntryKnown
    <3> HIDE DEF entry
    <3>3. entries \in Seq(Entries) /\ DOMAIN entries = 1 .. Len(entries) /\ Len(entries) \in Nat
      BY DEF ResTypeOK
    <3>4. Cache'
      <4>1. CASE \E k \in Indices(n) : entries' = [entries EXCEPT ![k] = entry]
        <5>1. PICK k \in Indices(n) : entries' = [entries EXCEPT ![k] = entry]
          BY <4>1
        <5>2. /\ DOMAIN entries' = DOMAIN entries
              /\ Len(entries') = Len(entries)
              /\ \A j \in DOMAIN entries : entries'[j] = IF j = k THEN entry ELSE entries[j]
          BY <5>1, <3>3
        <5>3. k \in DOMAIN entries /\ entries[k].name = n
          BY DEF Indices
        <5>4. \A j \in DOMAIN entries : entries'[j].name = entries[j].name
          BY <5>2, <5>3, <3>2
        <5>5. \A j \in DOMAIN entries : EntryKnown(entries'[j], now)
          BY <5>2, <3>2, <1>00
        <5>6. Len(entries') <= MaxEntries /\
              \A i, j \in DOMAIN entries' : entries'[i].name = entries'[j].name => i = j
          BY <5>2, <5>4 DEF AnswersInv
        <5> QED
          BY <5>2, <5>5, <5>6, <3>1 DEF Cache
      <4>2. CASE entries' = Append(<<>>, entry)
        <5>1. DOMAIN entries' = {1} /\ Len(entries') = 1 /\ entries'[1] = entry
          BY <4>2
        <5> QED
          BY <5>1, <3>1, <3>2, NaturalBounds DEF Cache
      <4>3. CASE /\ Indices(n) = {} /\ Len(entries) < MaxEntries
                 /\ entries' = Append(entries, entry)
        <5>1. /\ DOMAIN entries' = 1 .. Len(entries) + 1
              /\ Len(entries') = Len(entries) + 1
              /\ \A j \in 1 .. Len(entries) + 1 :
                    entries'[j] = IF j = Len(entries) + 1 THEN entry ELSE entries[j]
          BY <4>3, <3>3
        <5>2. \A j \in DOMAIN entries : entries[j].name # n
          BY <4>3 DEF Indices
        <5>3. \A j \in DOMAIN entries' : EntryKnown(entries'[j], now)
          BY <5>1, <3>2, <3>3, <1>00
        <5>4. \A i, j \in DOMAIN entries' : entries'[i].name = entries'[j].name => i = j
          BY <5>1, <5>2, <3>2, <3>3 DEF AnswersInv
        <5>5. Len(entries') <= MaxEntries
          BY <4>3, <5>1, <3>3, NaturalBounds
        <5> QED
          BY <5>3, <5>4, <5>5, <3>1 DEF Cache
      <4> QED
        BY <4>1, <4>2, <4>3, <2>6, PutsCases DEF entry
    <3>5. AnswerKnown(With("idle", n, 0, lookup[l].of, 0, 0), now)
      BY <3>1, NaturalBounds DEF AnswerKnown, With
    <3> QED
      BY <2>6, <3>1, <3>4, <3>5, <1>000 DEF Puts, Returns
  <2>7. ASSUME NEW ttl \in TTLs, Answered(l, ttl) PROVE AnswersInv'
    <3>1. Clamp(ttl) <= MaxTTL /\ Clamp(ttl) \in Nat
      BY NaturalBounds, ResolverBounds DEF Clamp
    <3>2. now + Clamp(ttl) <= now + MaxTTL
      BY <3>1, <1>b
    <3>3. lookup[l].name \in Names
      BY <2>7, <1>0 DEF Answered, AnswerKnown
    <3>4. AnswerKnown(With("put", lookup[l].name, now, lookup[l].name, 0, now + Clamp(ttl)), now)
      BY <3>2, <3>3, <1>b DEF AnswerKnown, With
    <3> QED
      BY <2>7, <3>4, <1>c, <1>000 DEF Answered
  <2> QED
    BY <1>4, <2>1, <2>2, <2>3, <2>4, <2>5, <2>6, <2>7 DEF LookupStep
<1> QED
  BY <1>1, <1>2, <1>3, <1>4 DEF ResNext, Edits, resVars

-----------------------------------------------------------------------------
(* Theorems.                                                               *)

\* The inductive invariant.
ResInv == ResTypeOK /\ FilesInv /\ AnswersInv

\* It holds of idle lookups and empty caches.
LEMMA InvInit == ResInit => ResInv
<1> SUFFICES ASSUME ResInit PROVE ResInv
  OBVIOUS
<1>1. FilesInv
  <2>1. ASSUME NEW l \in Lookups PROVE FilesKnown(lookup[l], file)
    <3>1. lookup[l] = At("idle", "", 0, 0, 0)
      BY DEF ResInit
    <3>2. FilesKnown(At("idle", "", 0, 0, 0), file)
      BY DEF FilesKnown, At
    <3> QED
      BY <3>1, <3>2
  <2>2. ASSUME NEW f \in Files PROVE cached[f].identity <= cached[f].version
    <3>1. cached[f] = [identity |-> 0, version |-> 0]
      BY DEF ResInit
    <3> QED
      BY <3>1
  <2> QED
    BY <2>1, <2>2 DEF FilesInv
<1>2. AnswersInv
  <2>1. ASSUME NEW l \in Lookups PROVE AnswerKnown(lookup[l], now)
    <3>1. lookup[l] = At("idle", "", 0, 0, 0)
      BY DEF ResInit
    <3>2. 0 <= MaxTTL
      BY NaturalBounds
    <3>3. AnswerKnown(At("idle", "", 0, 0, 0), now)
      BY <3>2 DEF AnswerKnown, At
    <3> QED
      BY <3>1, <3>3
  <2>2. DOMAIN entries = {} /\ Len(entries) = 0
    <3>1. entries = <<>>
      BY DEF ResInit
    <3> QED
      BY <3>1
  <2> QED
    BY <2>1, <2>2, NaturalBounds DEF AnswersInv
<1> QED
  BY <1>1, <1>2, TypeInit DEF ResInv

\* It holds in every state of a behaviour.
LEMMA InvHolds == ResSpec => []ResInv
<1>1. ResInv /\ [ResNext]_resVars => ResInv'
  BY TypeStep, FilesStep, AnswersStep DEF ResInv
<1> QED
  BY InvInit, <1>1, PTL DEF ResSpec

\* Type correctness of the resolver's caches and lookups (src/netdev/dns.go).
THEOREM ResolverTypeCorrect == ResSpec => []ResTypeOK
BY InvHolds, PTL DEF ResInv

\* No lookup goes by a hosts file or a resolv.conf older than the one that was
\* there when it began to look, with any number of lookups that share the cache
\* and any number of edits.
THEOREM EditedFilesAreSeen == ResSpec => []EditsSeen
<1>1. ResInv => EditsSeen
  BY DEF ResInv, FilesInv, FilesKnown, EditsSeen
<1> QED
  BY InvHolds, <1>1, PTL

\* The answer cache never answers one name with another's entry or with one
\* older than the largest TTL, holds a name once, and stays within its limit.
THEOREM CachedAnswersAreCurrent == ResSpec => []AnswersCurrent
<1>1. ResInv => AnswersCurrent
  BY DEF ResInv, AnswersInv, AnswerKnown, AnswersCurrent
<1> QED
  BY InvHolds, <1>1, PTL

-----------------------------------------------------------------------------
(* readHead.                                                               *)

\* Sequence t is found in s behind its first i elements.
FoundAt(s, i, t) == i + Len(t) <= Len(s) /\ \A j \in 1 .. Len(t) : s[i + j] = t[j]

\* Sequences of one length with the same elements are the same.
LEMMA SameElements ==
    ASSUME NEW S, NEW w \in Seq(S), NEW t \in Seq(S), NEW n \in Nat, Len(w) = n, Len(t) = n
    PROVE  w = t <=> \A j \in 1 .. n : w[j] = t[j]
<1>1. w \in [1 .. n -> S]
  OBVIOUS
<1>2. t \in [1 .. n -> S]
  OBVIOUS
<1>3. w = [j \in 1 .. n |-> w[j]] /\ t = [j \in 1 .. n |-> t[j]]
  BY <1>1, <1>2, Zenon
<1>4. (\A j \in 1 .. n : w[j] = t[j]) => [j \in 1 .. n |-> w[j]] = [j \in 1 .. n |-> t[j]]
  BY Zenon
<1> QED
  BY <1>3, <1>4, Zenon

\* What is cut out of a sequence is another one, compared element by element.
LEMMA SubSeqIs ==
    ASSUME NEW S, NEW s \in Seq(S), NEW t \in Seq(S), NEW i \in Nat, i + Len(t) <= Len(s)
    PROVE  SubSeq(s, i + 1, i + Len(t)) = t <=> \A j \in 1 .. Len(t) : s[i + j] = t[j]
<1>1. PICK n \in Nat : n = Len(t)
  OBVIOUS
<1>2. PICK w \in Seq(S) : /\ w = SubSeq(s, i + 1, i + n) /\ Len(w) = n
                          /\ \A j \in 1 .. n : w[j] = s[i + j]
  <2>1. /\ SubSeq(s, i + 1, i + n) \in Seq(S) /\ Len(SubSeq(s, i + 1, i + n)) = n
        /\ \A j \in 1 .. n : SubSeq(s, i + 1, i + n)[j] = s[i + j]
    BY <1>1
  <2> QED
    BY <2>1, Zenon
<1>3. w = t <=> \A j \in 1 .. n : w[j] = t[j]
  BY <1>1, <1>2, SameElements
<1> QED
  BY <1>1, <1>2, <1>3

\* Found as bytes.Contains finds it.
LEMMA ContainsIs ==
    ASSUME NEW S, NEW s \in Seq(S), NEW t \in Seq(S)
    PROVE  Contains(s, t) <=> \E i \in Nat : FoundAt(s, i, t)
<1>1. \A i \in Nat : i + Len(t) <= Len(s) =>
         (SubSeq(s, i + 1, i + Len(t)) = t <=> \A j \in 1 .. Len(t) : s[i + j] = t[j])
  BY SubSeqIs
<1>2. \A i \in Nat : i + Len(t) <= Len(s) => i \in 0 .. Len(s)
  OBVIOUS
<1>3. 0 .. Len(s) \subseteq Nat
  OBVIOUS
<1> QED
  BY <1>1, <1>2, <1>3, Zenon DEF Contains, FoundAt

\* The window: behind bytes without a terminator, the last bytes of them that
\* could begin one and the new ones hold a terminator exactly when all do.
LEMMA WindowIsEnough ==
    ASSUME NEW b \in Seq(HeadBytes), NEW c \in Seq(HeadBytes), ~Contains(b, Terminator)
    PROVE  Contains(SubSeq(b \o c, Start(Len(b)) + 1, Len(b \o c)), Terminator)
              <=> Contains(b \o c, Terminator)
<1>1. PICK t \in Seq(HeadBytes) : t = Terminator
  BY BytesAssumption
<1>2. PICK m \in Nat, n \in Nat, l \in Nat : m = Len(t) /\ n = Len(b) /\ l = Len(b \o c) /\ m > 0 /\ n <= l
  <2>1. Len(t) \in Nat /\ Len(b) \in Nat /\ Len(b \o c) \in Nat /\ Len(b) <= Len(b \o c)
    OBVIOUS
  <2>2. Len(t) > 0
    BY <1>1, BytesAssumption
  <2> QED
    BY <2>1, <2>2, Zenon
<1>3. PICK s \in Seq(HeadBytes) : s = b \o c /\ Len(s) = l /\ \A i \in 1 .. n : s[i] = b[i]
  <2>1. b \o c \in Seq(HeadBytes) /\ \A i \in 1 .. Len(b) : (b \o c)[i] = b[i]
    OBVIOUS
  <2> QED
    BY <1>2, <2>1, Zenon
<1>4. PICK a \in Nat : a = Start(n) /\ a <= n /\ (a > 0 => a = n - (m - 1))
  <2>1. Start(n) = IF n < m - 1 THEN 0 ELSE n - (m - 1)
    BY <1>1, <1>2, Zenon DEF Start
  <2> QED
    BY <1>2, <2>1
<1>5. PICK w \in Seq(HeadBytes) : /\ w = SubSeq(s, a + 1, l) /\ Len(w) = l - a
                                  /\ \A i \in 1 .. l - a : w[i] = s[a + i]
  <2>1. /\ SubSeq(s, a + 1, l) \in Seq(HeadBytes) /\ Len(SubSeq(s, a + 1, l)) = l - a
        /\ \A i \in 1 .. l - a : SubSeq(s, a + 1, l)[i] = s[a + i]
    <3>1. PICK k \in Nat : k = l - a /\ l = a + k
      BY <1>2, <1>4
    <3>2. /\ SubSeq(s, a + 1, a + k) \in Seq(HeadBytes) /\ Len(SubSeq(s, a + 1, a + k)) = k
          /\ \A i \in 1 .. k : SubSeq(s, a + 1, a + k)[i] = s[a + i]
      BY <1>3, <3>1
    <3> QED
      BY <3>1, <3>2, Zenon
  <2> QED
    BY <2>1, Zenon
<1>6. ASSUME NEW i \in Nat, FoundAt(w, i, t) PROVE FoundAt(s, a + i, t)
  <2>1. i + m <= l - a /\ \A j \in 1 .. m : w[i + j] = t[j]
    BY <1>2, <1>5, <1>6, Zenon DEF FoundAt
  <2>2. \A j \in 1 .. m : i + j \in 1 .. l - a /\ a + (i + j) = (a + i) + j
    BY <2>1
  <2>3. \A j \in 1 .. m : s[(a + i) + j] = t[j]
    BY <1>5, <2>1, <2>2, Zenon
  <2>4. (a + i) + m <= l
    BY <2>1
  <2> QED
    BY <1>2, <1>3, <2>3, <2>4, Zenon DEF FoundAt
<1>7. ASSUME NEW i \in Nat, FoundAt(s, i, t), i >= a PROVE FoundAt(w, i - a, t)
  <2>1. i + m <= l /\ \A j \in 1 .. m : s[i + j] = t[j]
    BY <1>2, <1>3, <1>7, Zenon DEF FoundAt
  <2>2. \A j \in 1 .. m : (i - a) + j \in 1 .. l - a /\ a + ((i - a) + j) = i + j
    BY <1>7, <2>1
  <2>3. \A j \in 1 .. m : w[(i - a) + j] = t[j]
    BY <1>5, <2>1, <2>2, Zenon
  <2>4. (i - a) + m <= l - a
    BY <1>7, <2>1
  <2> QED
    BY <1>2, <1>5, <2>3, <2>4, Zenon DEF FoundAt
<1>8. ASSUME NEW i \in Nat, FoundAt(s, i, t), i < a PROVE FALSE
  <2>1. i + m <= l /\ \A j \in 1 .. m : s[i + j] = t[j]
    BY <1>2, <1>3, <1>8, Zenon DEF FoundAt
  <2>2. i + m <= n
    BY <1>2, <1>4, <1>8
  <2>3. \A j \in 1 .. m : i + j \in 1 .. n
    BY <2>2
  <2>4. \A j \in 1 .. m : b[i + j] = t[j]
    BY <1>3, <2>1, <2>3, Zenon
  <2>5. FoundAt(b, i, t)
    BY <1>2, <2>2, <2>4, Zenon DEF FoundAt
  <2> QED
    BY <1>1, <2>5, ContainsIs
<1>9. Contains(w, t) <=> Contains(s, t)
  <2>1. (\E i \in Nat : FoundAt(w, i, t)) <=> (\E i \in Nat : FoundAt(s, i, t))
    <3>1. ASSUME NEW i \in Nat, FoundAt(s, i, t) PROVE i >= a /\ i - a \in Nat
      BY <1>8, <3>1
    <3>2. \A i \in Nat : a + i \in Nat
      OBVIOUS
    <3> QED
      BY <1>6, <1>7, <3>1, <3>2, Zenon
  <2> QED
    BY <2>1, ContainsIs
<1> QED
  BY <1>1, <1>2, <1>3, <1>4, <1>5, <1>9, Zenon

\* HeadReads and what it rests on: a loop that goes on has no more than the
\* limit.
ReadInv ==
    /\ buf \in Seq(HeadBytes) /\ cap \in Nat
    /\ status = "reading" => Len(buf) <= HeadLimit
    /\ HeadReads

\* A read keeps the buffer within its capacity, and that within its bound.
LEMMA GrownBound ==
    ASSUME ReadInv, status = "reading"
    PROVE  /\ Grown \in Nat /\ Len(buf) <= Grown
           /\ Grown <= InitialCap \/ Grown <= 2 * HeadLimit
<1>1. PICK n \in Nat, k \in Nat, h \in Nat, q \in Nat :
         /\ n = Len(buf) /\ k = cap /\ h = HeadLimit /\ q = InitialCap
         /\ n <= k /\ n <= h /\ (k <= q \/ k <= 2 * h)
  BY SizesAssumption DEF ReadInv, HeadReads, BufferBounded
<1>2. CASE n = k
  <2>1. Grown = 2 * k
    BY <1>1, <1>2, Zenon DEF Grown
  <2> QED
    BY <1>1, <1>2, <2>1
<1>3. CASE n # k
  <2>1. Grown = k
    BY <1>1, <1>3, Zenon DEF Grown
  <2> QED
    BY <1>1, <1>3, <2>1
<1> QED
  BY <1>2, <1>3

\* A step of the loop.
LEMMA ReadStep == ReadInv /\ [ReadNext]_readVars => ReadInv'
<1> SUFFICES ASSUME ReadInv, [ReadNext]_readVars PROVE ReadInv'
  OBVIOUS
<1>1. ASSUME NEW n \in 1 .. Grown - Len(buf), NEW chunk \in [1 .. n -> HeadBytes], NEW err \in BOOLEAN,
             Read(chunk, err)
      PROVE  ReadInv'
  <2>1. status = "reading" /\ buf \in Seq(HeadBytes)
    BY <1>1 DEF Read, ReadInv
  <2>2. /\ Grown \in Nat /\ Len(buf) <= Grown
        /\ Grown <= InitialCap \/ Grown <= 2 * HeadLimit
    BY <2>1, GrownBound
  <2>3. n \in Nat /\ n > 0
    BY <2>1, <2>2
  <2>4. PICK c \in Seq(HeadBytes) : c = chunk /\ Len(c) = n
    <3>1. chunk \in Seq(HeadBytes)
      BY <2>3
    <3>2. Len(chunk) = n
      BY <2>3, <3>1
    <3> QED
      BY <3>1, <3>2
  <2>5. PICK b \in Seq(HeadBytes), new \in Seq(HeadBytes) :
           b = buf /\ new = b \o c /\ Len(new) = Len(b) + n
    <3>1. PICK b \in Seq(HeadBytes) : b = buf
      BY <2>1
    <3>2. b \o c \in Seq(HeadBytes) /\ Len(b \o c) = Len(b) + Len(c)
      OBVIOUS
    <3> QED
      BY <2>4, <3>1, <3>2, Zenon
  <2>6. buf' = new /\ cap' = Grown /\ Len(new) <= Grown /\ status' = Outcome(new, err)
    <3>1. buf' = buf \o chunk /\ cap' = Grown /\ Len(buf) + Len(chunk) <= Grown /\ status' = Outcome(buf \o chunk, err)
      BY <1>1, Zenon DEF Read
    <3> QED
      BY <2>4, <2>5, <3>1, Zenon
  <2>7. ~Contains(b, Terminator)
    BY <2>1, <2>5 DEF ReadInv, HeadReads, HeadFound
  <2>8. Contains(SubSeq(new, Start(Len(b)) + 1, Len(new)), Terminator) <=> Contains(new, Terminator)
    BY <2>5, <2>7, WindowIsEnough
  <2>9. /\ status' = "ok" <=> Contains(new, Terminator)
        /\ status' = "reading" => ~(Len(new) > HeadLimit)
    BY <2>5, <2>6, <2>8, Zenon DEF Outcome
  <2>10. status' = "reading" => Len(new) <= HeadLimit
    BY <2>9, SizesAssumption
  <2> QED
    BY <2>2, <2>6, <2>9, <2>10, Zenon DEF ReadInv, HeadReads, HeadFound, BufferBounded
<1>2. CASE ReadFails
  <2>1. status = "reading" /\ cap' = Grown /\ status' = "err" /\ buf' = buf
    BY <1>2 DEF ReadFails
  <2>2. /\ Grown \in Nat /\ Len(buf) <= Grown
        /\ Grown <= InitialCap \/ Grown <= 2 * HeadLimit
    BY <2>1, GrownBound
  <2>3. ~Contains(buf, Terminator) /\ status' # "ok" /\ status' # "reading" /\ buf \in Seq(HeadBytes)
    BY <2>1 DEF ReadInv, HeadReads, HeadFound
  <2> QED
    BY <2>1, <2>2, <2>3, Zenon DEF ReadInv, HeadReads, HeadFound, BufferBounded
<1>3. CASE UNCHANGED readVars
  BY <1>3, Zenon DEF readVars, ReadInv, HeadReads, HeadFound, BufferBounded
<1> QED
  BY <1>1, <1>2, <1>3 DEF ReadNext

\* readHead finds the end of a head as soon as it has arrived, for every
\* terminator, wherever reads cut it, although it searches only the new bytes
\* and the few before them; and it holds no more than twice the limit.
THEOREM HeadReadsHolds == ReadSpec => []HeadReads
<1>1. ReadInit => ReadInv
  <2> SUFFICES ASSUME ReadInit PROVE ReadInv
    OBVIOUS
  <2>1. buf = <<>> /\ cap = InitialCap /\ status = "reading"
    BY DEF ReadInit
  <2>2. PICK e \in Seq(HeadBytes), t \in Seq(HeadBytes), m \in Nat :
           e = buf /\ Len(e) = 0 /\ t = Terminator /\ m = Len(t) /\ m > 0
    <3>1. <<>> \in Seq(HeadBytes) /\ Len(<<>>) = 0 /\ Len(Terminator) \in Nat
      BY BytesAssumption
    <3> QED
      BY <2>1, <3>1, BytesAssumption, Zenon
  <2>3. ~Contains(e, t)
    <3>1. ASSUME NEW i \in Nat, FoundAt(e, i, t) PROVE FALSE
      BY <2>2, <3>1 DEF FoundAt
    <3> QED
      BY <3>1, ContainsIs
  <2>4. 0 <= InitialCap /\ 0 <= HeadLimit /\ InitialCap \in Nat /\ InitialCap <= InitialCap
    BY SizesAssumption
  <2>5. status # "ok" /\ status = "reading"
    BY <2>1
  <2> QED
    BY <2>1, <2>2, <2>3, <2>4, <2>5, Zenon DEF ReadInv, HeadReads, HeadFound, BufferBounded
<1>2. ReadInv => HeadReads
  BY DEF ReadInv
<1> QED
  BY <1>1, <1>2, ReadStep, PTL DEF ReadSpec

-----------------------------------------------------------------------------
(* rawHeadHasUpgrade.                                                      *)

ScanStates == [matched : Nat, valid : BOOLEAN, started : BOOLEAN, trailing : BOOLEAN]

\* What ends an element of a list.
Ends == FieldStarts \cup {","}

\* Symbol m of the head is what it is in an element with the token behind p.
FitsAt(h, m, p) ==
    IF m \in p + 1 .. p + Len(Token) THEN h[m] = Token[m - p] ELSE h[m] \in Spaces

\* So are all of them behind i, up to n.
Fits(h, i, n, p) == \A m \in i + 1 .. n : FitsAt(h, m, p)

\* The element behind i, up to n, is the token.
IsToken(h, i, n) == \E p \in Nat : i <= p /\ p + Len(Token) <= n /\ Fits(h, i, n, p)

\* Nothing ends an element behind i, up to n.
Within(h, i, n) == \A m \in i + 1 .. n : h[m] \notin Ends

\* The last element starts behind i.
Starts(h, i) == i \in 1 .. Len(h) /\ h[i] \in Ends /\ Within(h, i, Len(h))

\* An element that has ended is the token, and the one that has not is.
Closed(h) ==
    \E j \in 1 .. Len(h) : \E i \in 1 .. j - 1 :
        /\ h[i] \in Ends /\ h[j] \in Ends /\ Within(h, i, j - 1)
        /\ InConnection(h, i) /\ IsToken(h, i, j - 1)
Open(h) == \E i \in 1 .. Len(h) : Starts(h, i) /\ InConnection(h, i) /\ IsToken(h, i, Len(h))

\* The scanner before the first letter of the element that starts behind i; in
\* the token, or behind it; and after something that the token cannot follow,
\* which a space within the token shows only when a letter follows.
Blank(h, i, s) ==
    /\ s.matched = 0 /\ s.valid /\ ~s.started /\ ~s.trailing
    /\ \A m \in i + 1 .. Len(h) : h[m] \in Spaces
Matching(h, i, s) ==
    /\ s.valid /\ s.started /\ s.matched \in 1 .. Len(Token)
    /\ \E p \in Nat :
          /\ i <= p /\ Fits(h, i, Len(h), p)
          /\ s.trailing => s.matched = Len(Token) /\ p + s.matched < Len(h)
          /\ ~s.trailing => p + s.matched = Len(h)
Spoilt(h, i, s) ==
    /\ s.started
    /\ ~s.valid \/ (s.trailing /\ s.matched # Len(Token))
    /\ \A p \in Nat : i <= p => ~Fits(h, i, Len(h), p)
Scanned(h, i, s) == Blank(h, i, s) \/ Matching(h, i, s) \/ Spoilt(h, i, s)

\* The scan behind head h, with scanner s and inConnection c.
Running(h, s, c) ==
    /\ ~Closed(h)
    /\ c <=> InConnection(h, Len(h))
    /\ c => \E i \in 1 .. Len(h) : Starts(h, i) /\ Scanned(h, i, s)

ScanInv ==
    /\ head \in Seq(Symbols) /\ scan \in ScanStates
    /\ result = "none" => Running(head, scan, inConnection)
    /\ result = "early" => Closed(head)
    /\ result \in {"yes", "no"} => (result = "yes" <=> Closed(head) \/ Open(head))

\* The letters of the token are neither spaces nor ends.
LEMMA TokenLetters ==
    ASSUME WideSpaces = {}
    PROVE  /\ Len(Token) \in Nat /\ Len(Token) > 0
           /\ \A j \in 1 .. Len(Token) : Token[j] \in Letters
           /\ \A x \in Letters : x \notin Spaces /\ x \notin Ends
           /\ Spaces = {"SP", "fold"}
<1>1. Len(Token) \in Nat /\ Len(Token) > 0 /\ \A j \in 1 .. Len(Token) : Token[j] \in Letters
  BY TokenAssumption
<1>2. Spaces = {"SP", "fold"}
  BY DEF Spaces
<1>3. \A x \in Letters : x \notin Spaces /\ x \notin Ends
  BY <1>2, LettersAssumption DEF Ends, FieldStarts
<1> QED
  BY <1>1, <1>2, <1>3

\* Head k is head h with one more symbol, b.
Grows(h, k, b) ==
    /\ k \in Seq(Symbols) /\ Len(h) \in Nat /\ Len(k) = Len(h) + 1
    /\ k[Len(h) + 1] = b /\ \A m \in 1 .. Len(h) : k[m] = h[m]

\* Extended appends.
LEMMA HeadGrows ==
    ASSUME NEW h \in Seq(Symbols), NEW b \in Symbols
    PROVE  Grows(h, Append(h, b), b)
<1>1. Append(h, b) \in Seq(Symbols) /\ Len(h) \in Nat /\ Len(Append(h, b)) = Len(h) + 1
  OBVIOUS
<1>2. Append(h, b)[Len(h) + 1] = b /\ \A m \in 1 .. Len(h) : Append(h, b)[m] = h[m]
  OBVIOUS
<1> QED
  BY <1>1, <1>2, Zenon DEF Grows

\* What fits before the new symbol fits without it.
LEMMA FitsKept ==
    ASSUME NEW h, NEW k, NEW b, Grows(h, k, b), NEW i \in Nat, NEW n \in Nat, n <= Len(h), NEW p \in Nat
    PROVE  Fits(k, i, n, p) <=> Fits(h, i, n, p)
<1>1. \A m \in i + 1 .. n : k[m] = h[m]
  <2>1. \A m \in i + 1 .. n : m \in 1 .. Len(h)
    BY DEF Grows
  <2> QED
    BY <2>1, Zenon DEF Grows
<1>2. \A m \in i + 1 .. n : FitsAt(k, m, p) <=> FitsAt(h, m, p)
  BY <1>1, Zenon DEF FitsAt
<1> QED
  BY <1>2, Zenon DEF Fits

\* With it, it has to fit as well.
LEMMA FitsGrows ==
    ASSUME NEW h, NEW k, NEW b, Grows(h, k, b), NEW i \in Nat, i <= Len(h), NEW p \in Nat
    PROVE  Fits(k, i, Len(k), p) <=> Fits(h, i, Len(h), p) /\ FitsAt(k, Len(h) + 1, p)
<1>1. PICK n \in Nat : n = Len(h) /\ Len(k) = n + 1 /\ i <= n
  BY DEF Grows
<1>2. i + 1 .. n + 1 = (i + 1 .. n) \cup {n + 1}
  BY <1>1
<1>3. Fits(k, i, n, p) <=> Fits(h, i, n, p)
  BY <1>1, FitsKept
<1>4. Fits(k, i, n + 1, p) <=> Fits(k, i, n, p) /\ FitsAt(k, n + 1, p)
  BY <1>2, Zenon DEF Fits
<1> QED
  BY <1>1, <1>3, <1>4, Zenon

\* An element with a letter has one place at which the token can be.
LEMMA OnePlaceFits ==
    ASSUME WideSpaces = {}, NEW h, NEW i \in Nat, NEW n \in Nat, NEW p \in Nat, NEW q \in Nat,
           i <= p, p < n, i <= q, Fits(h, i, n, p), Fits(h, i, n, q)
    PROVE  p = q
<1>1. ASSUME NEW x \in Nat, NEW y \in Nat, i <= x, x < n, x < y, Fits(h, i, n, x), Fits(h, i, n, y) PROVE FALSE
  <2>1. x + 1 \in i + 1 .. n /\ x + 1 \in x + 1 .. x + Len(Token) /\ x + 1 \notin y + 1 .. y + Len(Token)
        /\ (x + 1) - x = 1 /\ 1 \in 1 .. Len(Token)
    BY <1>1, TokenLetters
  <2>2. FitsAt(h, x + 1, x) /\ FitsAt(h, x + 1, y)
    BY <1>1, <2>1, Zenon DEF Fits
  <2>3. h[x + 1] = Token[1] /\ h[x + 1] \in Spaces
    BY <2>1, <2>2, Zenon DEF FitsAt
  <2> QED
    BY <2>1, <2>3, TokenLetters
<1>2. ~(p < q)
  BY <1>1
<1>3. ~(q < p)
  BY <1>1
<1> QED
  BY <1>2, <1>3

\* The scanner after a space.
LEMMA SpacedIs ==
    ASSUME NEW s \in ScanStates
    PROVE  /\ Spaced(s) \in ScanStates
           /\ Spaced(s).matched = s.matched
           /\ Spaced(s).valid <=> s.valid
           /\ Spaced(s).started <=> s.started
           /\ Spaced(s).trailing <=> s.trailing \/ s.started
<1>1. PICK t \in BOOLEAN : t = (s.trailing \/ s.started)
  OBVIOUS
<1>2. PICK c : c = [s EXCEPT !.trailing = t]
  OBVIOUS
<1>3. Spaced(s) = c
  BY <1>1, <1>2, Zenon DEF Spaced
<1>4. c \in ScanStates /\ c.matched = s.matched /\ c.valid = s.valid /\ c.started = s.started /\ c.trailing = t
  BY <1>2 DEF ScanStates
<1> QED
  BY <1>1, <1>3, <1>4, Zenon

\* The letter that continues the token.
Continues(s, b) == s.valid /\ ~s.trailing /\ s.matched < Len(Token) /\ b = Token[s.matched + 1]

\* The scanner after a letter.
LEMMA LetterIs ==
    ASSUME NEW s \in ScanStates, NEW b
    PROVE  /\ Letter(s, b) \in ScanStates
           /\ Letter(s, b).matched = IF Continues(s, b) THEN s.matched + 1 ELSE s.matched
           /\ Letter(s, b).valid <=> Continues(s, b)
           /\ Letter(s, b).started
           /\ Letter(s, b).trailing <=> s.trailing
<1>1. PICK f \in BOOLEAN : f = Continues(s, b)
  BY Zenon DEF Continues
<1>2. PICK n \in Nat : n = IF Continues(s, b) THEN s.matched + 1 ELSE s.matched
  BY DEF ScanStates
<1>3. PICK c : c = [s EXCEPT !.started = TRUE, !.valid = f, !.matched = n]
  OBVIOUS
<1>4. Letter(s, b) = c
  BY <1>1, <1>2, <1>3, Zenon DEF Letter, Continues
<1>5. c \in ScanStates /\ c.matched = n /\ c.valid = f /\ c.started = TRUE /\ c.trailing = s.trailing
  BY <1>3 DEF ScanStates
<1> QED
  BY <1>1, <1>2, <1>4, <1>5, Zenon

\* What does not fit never will.
LEMMA SpoiltStays ==
    ASSUME NEW h, NEW k, NEW b, Grows(h, k, b), NEW i \in Nat, i <= Len(h), NEW p \in Nat,
           ~Fits(h, i, Len(h), p)
    PROVE  ~Fits(k, i, Len(k), p)
BY FitsGrows, Zenon

\* The token was begun at p, and the new symbol does not continue it: no place
\* is left.
LEMMA NowhereFits ==
    ASSUME WideSpaces = {}, NEW h, NEW k, NEW b, Grows(h, k, b), NEW i \in Nat, i <= Len(h),
           NEW p \in Nat, i <= p, p < Len(h), Fits(h, i, Len(h), p), ~FitsAt(k, Len(h) + 1, p)
    PROVE  \A q \in Nat : i <= q => ~Fits(k, i, Len(k), q)
<1> SUFFICES ASSUME NEW q \in Nat, i <= q, Fits(k, i, Len(k), q) PROVE FALSE
  OBVIOUS
<1>1. Fits(h, i, Len(h), q) /\ FitsAt(k, Len(h) + 1, q)
  BY FitsGrows, Zenon
<1>2. p = q
  BY <1>1, OnePlaceFits DEF Grows
<1> QED
  BY <1>1, <1>2

\* Where the scanner is after a space or a fold.
LEMMA ScanSpace ==
    ASSUME WideSpaces = {}, NEW h, NEW k, NEW b \in {"SP", "fold"}, Grows(h, k, b),
           NEW i \in Nat, i <= Len(h), NEW s \in ScanStates, Scanned(h, i, s)
    PROVE  Scanned(k, i, Spaced(s))
<1>1. PICK n \in Nat, l \in Nat : n = Len(h) /\ Len(k) = n + 1 /\ i <= n /\ l = Len(Token) /\ l > 0 /\ k[n + 1] = b
  BY TokenLetters DEF Grows
<1>2. PICK c \in ScanStates : c = Spaced(s)
  BY SpacedIs
<1>3. /\ c.matched = s.matched
      /\ c.valid <=> s.valid
      /\ c.started <=> s.started
      /\ c.trailing <=> s.trailing \/ s.started
  BY <1>2, SpacedIs, Zenon
<1>4. b \in Spaces
  BY TokenLetters
<1>5. CASE Blank(h, i, s)
  <2>1. \A m \in i + 1 .. n + 1 : m \in i + 1 .. n \/ m = n + 1
    BY <1>1
  <2>2. \A m \in i + 1 .. n : m \in 1 .. n
    OBVIOUS
  <2>3. \A m \in i + 1 .. n + 1 : k[m] \in Spaces
    BY <1>1, <1>4, <1>5, <2>1, <2>2, Zenon DEF Blank, Grows
  <2> QED
    BY <1>1, <1>2, <1>3, <1>5, <2>3, Zenon DEF Blank, Scanned
<1>6. CASE Matching(h, i, s)
  <2>1. PICK p \in Nat : /\ i <= p /\ Fits(h, i, n, p)
                         /\ s.trailing => s.matched = l /\ p + s.matched < n
                         /\ ~s.trailing => p + s.matched = n
    BY <1>1, <1>6, Zenon DEF Matching
  <2>2. PICK d \in Nat : d = s.matched /\ d >= 1 /\ d <= l
    BY <1>1, <1>6 DEF Matching
  <2>3. p < n /\ n + 1 >= p + d + 1
    BY <2>1, <2>2
  <2>4. CASE d = l
    <3>1. n + 1 \notin p + 1 .. p + l /\ p + d < n + 1
      BY <2>3, <2>4
    <3>2. FitsAt(k, n + 1, p)
      BY <1>1, <1>4, <3>1, Zenon DEF FitsAt
    <3>3. Fits(k, i, Len(k), p)
      BY <1>1, <2>1, <3>2, FitsGrows, Zenon
    <3>4. d \in 1 .. l
      BY <2>2
    <3> QED
      BY <1>1, <1>2, <1>3, <1>6, <2>1, <2>2, <2>4, <3>1, <3>3, <3>4, Zenon DEF Matching, Scanned
  <2>5. CASE d # l
    <3>1. ~s.trailing /\ p + d = n
      BY <2>1, <2>2, <2>5
    <3>2. n + 1 \in p + 1 .. p + l /\ (n + 1) - p \in 1 .. l
      BY <2>2, <2>5, <3>1
    <3>3. Token[(n + 1) - p] \in Letters
      BY <1>1, <3>2, TokenLetters
    <3>4. ~FitsAt(k, n + 1, p)
      BY <1>1, <1>4, <3>2, <3>3, TokenLetters DEF FitsAt
    <3>5. \A q \in Nat : i <= q => ~Fits(k, i, Len(k), q)
      BY <1>1, <2>1, <2>3, <3>4, NowhereFits
    <3> QED
      BY <1>1, <1>2, <1>3, <1>6, <2>2, <2>5, <3>5, Zenon DEF Matching, Spoilt, Scanned
  <2> QED
    BY <2>4, <2>5
<1>7. CASE Spoilt(h, i, s)
  <2>1. \A q \in Nat : i <= q => ~Fits(k, i, Len(k), q)
    BY <1>7, SpoiltStays, Zenon DEF Spoilt
  <2> QED
    BY <1>2, <1>3, <1>7, <2>1, Zenon DEF Spoilt, Scanned
<1> QED
  BY <1>5, <1>6, <1>7, Zenon DEF Scanned

\* Where it is after a letter.
LEMMA ScanLetter ==
    ASSUME WideSpaces = {}, NEW h, NEW k, NEW b \in Letters, Grows(h, k, b),
           NEW i \in Nat, i <= Len(h), NEW s \in ScanStates, Scanned(h, i, s)
    PROVE  Scanned(k, i, Letter(s, b))
<1>1. PICK n \in Nat, l \in Nat : n = Len(h) /\ Len(k) = n + 1 /\ i <= n /\ l = Len(Token) /\ l > 0 /\ k[n + 1] = b
  BY TokenLetters DEF Grows
<1>2. PICK c \in ScanStates : c = Letter(s, b)
  BY LetterIs
<1>3. /\ c.matched = IF Continues(s, b) THEN s.matched + 1 ELSE s.matched
      /\ c.valid <=> Continues(s, b)
      /\ c.started
      /\ c.trailing <=> s.trailing
  BY <1>2, LetterIs, Zenon
<1>4. b \notin Spaces
  BY TokenLetters
<1>5. PICK d \in Nat : d = s.matched
  BY DEF ScanStates
<1>6. ASSUME NEW p \in Nat, i <= p, p + d = n, Fits(h, i, n, p), Continues(s, b) PROVE Scanned(k, i, c)
  <2>1. d < l /\ b = Token[d + 1] /\ ~s.trailing
    BY <1>1, <1>5, <1>6, Zenon DEF Continues
  <2>2. n + 1 \in p + 1 .. p + l /\ (n + 1) - p = d + 1 /\ p + (d + 1) = n + 1 /\ d + 1 \in 1 .. l
    BY <1>6, <2>1
  <2>3. FitsAt(k, n + 1, p)
    BY <1>1, <2>1, <2>2, Zenon DEF FitsAt
  <2>4. Fits(k, i, Len(k), p)
    BY <1>1, <1>6, <2>3, FitsGrows, Zenon
  <2> QED
    BY <1>1, <1>3, <1>5, <1>6, <2>1, <2>2, <2>4, Zenon DEF Matching, Scanned
<1>7. ASSUME ~Continues(s, b), \A q \in Nat : i <= q => ~Fits(k, i, Len(k), q) PROVE Scanned(k, i, c)
  BY <1>3, <1>7, Zenon DEF Spoilt, Scanned
<1>8. CASE Blank(h, i, s)
  <2>1. d = 0 /\ Fits(h, i, n, n) /\ n + d = n
    <3>1. \A m \in i + 1 .. n : m \notin n + 1 .. n + Len(Token) /\ h[m] \in Spaces
      BY <1>1, <1>8 DEF Blank
    <3>2. d = 0 /\ n + d = n
      BY <1>5, <1>8 DEF Blank
    <3> QED
      BY <3>1, <3>2, Zenon DEF Fits, FitsAt
  <2>2. CASE Continues(s, b)
    <3>1. i <= n /\ n \in Nat
      BY <1>1
    <3> QED
      BY <1>2, <1>6, <2>1, <2>2, <3>1, Zenon
  <2>3. CASE ~Continues(s, b)
    <3>1. b # Token[1]
      <4>1. 0 < l /\ 0 + 1 = 1
        BY <1>1
      <4> QED
        BY <1>1, <1>5, <1>8, <2>1, <2>3, <4>1, Zenon DEF Continues, Blank
    <3>2. ASSUME NEW q \in Nat, i <= q, Fits(k, i, Len(k), q) PROVE FALSE
      <4>1. FitsAt(k, n + 1, q) /\ Fits(h, i, n, q)
        BY <1>1, <3>2, FitsGrows, Zenon
      <4>2. n + 1 \in q + 1 .. q + l /\ k[n + 1] = Token[(n + 1) - q]
        BY <1>1, <1>4, <4>1, Zenon DEF FitsAt
      <4>3. CASE q = n
        BY <1>1, <3>1, <4>2, <4>3
      <4>4. CASE q # n
        <5>1. q + 1 \in i + 1 .. n /\ q + 1 \in q + 1 .. q + l /\ (q + 1) - q = 1 /\ 1 \in 1 .. l
          BY <1>1, <3>2, <4>2, <4>4
        <5>2. FitsAt(h, q + 1, q)
          BY <4>1, <5>1, Zenon DEF Fits
        <5>3. h[q + 1] = Token[1]
          BY <1>1, <5>1, <5>2, Zenon DEF FitsAt
        <5>4. h[q + 1] \in Spaces
          BY <1>1, <1>8, <5>1, Zenon DEF Blank
        <5> QED
          BY <1>1, <5>1, <5>3, <5>4, TokenLetters
      <4> QED
        BY <4>3, <4>4
    <3> QED
      BY <1>2, <1>7, <2>3, <3>2, Zenon
  <2> QED
    BY <2>2, <2>3
<1>9. CASE Matching(h, i, s)
  <2>1. PICK p \in Nat : /\ i <= p /\ Fits(h, i, n, p)
                         /\ s.trailing => d = l /\ p + d < n
                         /\ ~s.trailing => p + d = n
    BY <1>1, <1>5, <1>9, Zenon DEF Matching
  <2>2. d >= 1 /\ d <= l /\ s.valid
    BY <1>1, <1>5, <1>9 DEF Matching
  <2>3. p < n
    BY <2>1, <2>2
  <2>4. CASE Continues(s, b)
    <3>1. p + d = n
      BY <2>1, <2>4, Zenon DEF Continues
    <3> QED
      BY <1>2, <1>6, <2>1, <2>4, <3>1, Zenon
  <2>5. CASE ~Continues(s, b)
    <3>1. ~FitsAt(k, n + 1, p)
      <4>1. SUFFICES ASSUME FitsAt(k, n + 1, p) PROVE FALSE
        OBVIOUS
      <4>2. n + 1 \in p + 1 .. p + l /\ b = Token[(n + 1) - p]
        BY <1>1, <1>4, <4>1, Zenon DEF FitsAt
      <4>3. ~s.trailing /\ (n + 1) - p = d + 1 /\ d < l
        BY <2>1, <4>2
      <4> QED
        BY <1>1, <1>5, <2>2, <2>5, <4>2, <4>3, Zenon DEF Continues
    <3>2. \A q \in Nat : i <= q => ~Fits(k, i, Len(k), q)
      BY <1>1, <2>1, <2>3, <3>1, NowhereFits
    <3> QED
      BY <1>2, <1>7, <2>5, <3>2, Zenon
  <2> QED
    BY <2>4, <2>5
<1>10. CASE Spoilt(h, i, s)
  <2>1. \A q \in Nat : i <= q => ~Fits(k, i, Len(k), q)
    BY <1>10, SpoiltStays, Zenon DEF Spoilt
  <2>2. ~Continues(s, b)
    BY <1>10, Zenon DEF Spoilt, Continues
  <2> QED
    BY <1>2, <1>7, <2>1, <2>2, Zenon
<1> QED
  BY <1>2, <1>8, <1>9, <1>10, Zenon DEF Scanned

\* The scanner closes on the token.
LEMMA CloseIs ==
    ASSUME WideSpaces = {}, NEW h, Len(h) \in Nat, NEW i \in Nat, i <= Len(h), NEW s \in ScanStates, Scanned(h, i, s)
    PROVE  Closes(s) <=> IsToken(h, i, Len(h))
<1>1. PICK n \in Nat, l \in Nat, d \in Nat : n = Len(h) /\ i <= n /\ l = Len(Token) /\ l > 0 /\ d = s.matched
  BY TokenLetters DEF ScanStates
<1>2. CASE Blank(h, i, s)
  <2>1. ~Closes(s)
    BY <1>1, <1>2 DEF Blank, Closes
  <2>2. ASSUME NEW p \in Nat, i <= p, p + l <= n, Fits(h, i, n, p) PROVE FALSE
    <3>1. p + 1 \in i + 1 .. n /\ p + 1 \in p + 1 .. p + l /\ (p + 1) - p = 1 /\ 1 \in 1 .. l
      BY <1>1, <2>2
    <3>2. h[p + 1] = Token[1]
      BY <1>1, <2>2, <3>1, Zenon DEF Fits, FitsAt
    <3>3. h[p + 1] \in Spaces
      BY <1>1, <1>2, <3>1, Zenon DEF Blank
    <3> QED
      BY <1>1, <3>1, <3>2, <3>3, TokenLetters
  <2> QED
    BY <1>1, <2>1, <2>2, Zenon DEF IsToken
<1>3. CASE Matching(h, i, s)
  <2>1. PICK p \in Nat : /\ i <= p /\ Fits(h, i, n, p)
                         /\ s.trailing => d = l /\ p + d < n
                         /\ ~s.trailing => p + d = n
    BY <1>1, <1>3, Zenon DEF Matching
  <2>2. s.valid /\ d >= 1 /\ d <= l
    BY <1>1, <1>3 DEF Matching
  <2>3. CASE d = l
    <3>1. p + l <= n
      BY <2>1, <2>3
    <3>2. IsToken(h, i, n)
      BY <1>1, <2>1, <3>1, Zenon DEF IsToken
    <3> QED
      BY <1>1, <2>2, <2>3, <3>2, Zenon DEF Closes
  <2>4. CASE d # l
    <3>1. p + d = n /\ p < n
      BY <2>1, <2>2, <2>4
    <3>2. ASSUME NEW q \in Nat, i <= q, q + l <= n, Fits(h, i, n, q) PROVE FALSE
      <4>1. p = q
        BY <2>1, <3>1, <3>2, OnePlaceFits
      <4> QED
        BY <2>2, <2>4, <3>1, <3>2, <4>1
    <3>3. ~Closes(s)
      BY <1>1, <2>4, Zenon DEF Closes
    <3> QED
      BY <1>1, <3>2, <3>3, Zenon DEF IsToken
  <2> QED
    BY <2>3, <2>4
<1>4. CASE Spoilt(h, i, s)
  <2>1. ~Closes(s)
    BY <1>4, Zenon DEF Spoilt, Closes
  <2> QED
    BY <1>4, <2>1, Zenon DEF Spoilt, IsToken
<1> QED
  BY <1>2, <1>3, <1>4, Zenon DEF Scanned

\* What the symbols before the new one are part of does not change with it.
LEMMA PrefixKept ==
    ASSUME NEW h, NEW k, NEW b, Grows(h, k, b), NEW i \in Nat, NEW n \in Nat, n <= Len(h)
    PROVE  /\ InConnection(k, n) <=> InConnection(h, n)
           /\ Within(k, i, n) <=> Within(h, i, n)
           /\ IsToken(k, i, n) <=> IsToken(h, i, n)
<1>1. \A m \in 1 .. n : k[m] = h[m]
  <2>1. \A m \in 1 .. n : m \in 1 .. Len(h)
    BY DEF Grows
  <2> QED
    BY <2>1, Zenon DEF Grows
<1>2. \A m \in i + 1 .. n : m \in 1 .. n
  OBVIOUS
<1>3. \A j \in 1 .. n : \A m \in j + 1 .. n : m \in 1 .. n
  OBVIOUS
<1>4. InConnection(k, n) <=> InConnection(h, n)
  BY <1>1, <1>3, Zenon DEF InConnection
<1>5. Within(k, i, n) <=> Within(h, i, n)
  BY <1>1, <1>2, Zenon DEF Within
<1>6. IsToken(k, i, n) <=> IsToken(h, i, n)
  BY FitsKept, Zenon DEF IsToken
<1> QED
  BY <1>4, <1>5, <1>6, Zenon

\* The field that a symbol is in.
LEMMA FieldGrows ==
    ASSUME NEW h, NEW k, NEW b, Grows(h, k, b)
    PROVE  InConnection(k, Len(k)) <=> b = "Connection:" \/ (b # "Other:" /\ InConnection(h, Len(h)))
<1>1. PICK n \in Nat : n = Len(h) /\ Len(k) = n + 1 /\ k[n + 1] = b
  BY DEF Grows
<1>2. InConnection(k, n) <=> InConnection(h, n)
  <2>1. n <= Len(h) /\ n \in Nat
    BY <1>1
  <2> QED
    BY <2>1, PrefixKept
<1>3. ASSUME InConnection(k, n + 1), b # "Connection:" PROVE b # "Other:" /\ InConnection(k, n)
  <2>1. PICK j \in 1 .. n + 1 : k[j] = "Connection:" /\ \A m \in j + 1 .. n + 1 : k[m] # "Other:"
    BY <1>3, Zenon DEF InConnection
  <2>2. j # n + 1
    BY <1>1, <1>3, <2>1, Zenon
  <2>3. j \in 1 .. n /\ n + 1 \in j + 1 .. n + 1 /\ \A m \in j + 1 .. n : m \in j + 1 .. n + 1
    BY <2>2
  <2> QED
    BY <1>1, <2>1, <2>3, Zenon DEF InConnection
<1>4. ASSUME b = "Connection:" PROVE InConnection(k, n + 1)
  <2>1. n + 1 \in 1 .. n + 1 /\ (n + 1) + 1 .. n + 1 = {}
    OBVIOUS
  <2> QED
    BY <1>1, <1>4, <2>1, Zenon DEF InConnection
<1>5. ASSUME b # "Other:", InConnection(k, n) PROVE InConnection(k, n + 1)
  <2>1. PICK j \in 1 .. n : k[j] = "Connection:" /\ \A m \in j + 1 .. n : k[m] # "Other:"
    BY <1>5, Zenon DEF InConnection
  <2>2. j \in 1 .. n + 1 /\ \A m \in j + 1 .. n + 1 : m \in j + 1 .. n \/ m = n + 1
    OBVIOUS
  <2>3. \A m \in j + 1 .. n + 1 : k[m] # "Other:"
    BY <1>1, <1>5, <2>1, <2>2, Zenon
  <2> QED
    BY <2>1, <2>2, <2>3, Zenon DEF InConnection
<1> QED
  BY <1>1, <1>2, <1>3, <1>4, <1>5, Zenon

\* An element is in one field.
LEMMA FieldOfElement ==
    ASSUME NEW h, NEW i \in Nat, NEW n \in Nat, i <= n, Within(h, i, n)
    PROVE  InConnection(h, i) <=> InConnection(h, n)
<1>1. \A m \in i + 1 .. n : h[m] # "Other:" /\ h[m] # "Connection:"
  BY DEF Within, Ends, FieldStarts
<1>2. ASSUME NEW j \in 1 .. i, h[j] = "Connection:", \A m \in j + 1 .. i : h[m] # "Other:" PROVE InConnection(h, n)
  <2>1. j \in 1 .. n /\ \A m \in j + 1 .. n : m \in j + 1 .. i \/ m \in i + 1 .. n
    OBVIOUS
  <2>2. \A m \in j + 1 .. n : h[m] # "Other:"
    BY <1>1, <1>2, <2>1, Zenon
  <2> QED
    BY <1>2, <2>1, <2>2, Zenon DEF InConnection
<1>3. ASSUME NEW j \in 1 .. n, h[j] = "Connection:", \A m \in j + 1 .. n : h[m] # "Other:" PROVE InConnection(h, i)
  <2>1. j \notin i + 1 .. n
    BY <1>1, <1>3, Zenon
  <2>2. j \in 1 .. i /\ \A m \in j + 1 .. i : m \in j + 1 .. n
    BY <2>1
  <2> QED
    BY <1>3, <2>2, Zenon DEF InConnection
<1> QED
  BY <1>2, <1>3, Zenon DEF InConnection

\* An end closes the element before it.
LEMMA ClosedGrows ==
    ASSUME NEW h, NEW k, NEW b, Grows(h, k, b)
    PROVE  Closed(k) <=> Closed(h) \/ (b \in Ends /\ Open(h))
<1>1. PICK n \in Nat : n = Len(h) /\ Len(k) = n + 1 /\ k[n + 1] = b /\ \A m \in 1 .. n : k[m] = h[m]
  BY DEF Grows
<1>2. ASSUME NEW j \in 1 .. n + 1, NEW i \in 1 .. j - 1
      PROVE  /\ i \in 1 .. n /\ i \in Nat /\ j - 1 \in Nat /\ j - 1 <= Len(h) /\ i <= Len(h)
             /\ k[i] = h[i]
             /\ InConnection(k, i) <=> InConnection(h, i)
             /\ Within(k, i, j - 1) <=> Within(h, i, j - 1)
             /\ IsToken(k, i, j - 1) <=> IsToken(h, i, j - 1)
  <2>1. i \in 1 .. n /\ i \in Nat /\ j - 1 \in Nat /\ j - 1 <= Len(h) /\ i <= Len(h)
    BY <1>1
  <2>2. InConnection(k, i) <=> InConnection(h, i)
    BY <2>1, PrefixKept
  <2>3. /\ Within(k, i, j - 1) <=> Within(h, i, j - 1)
        /\ IsToken(k, i, j - 1) <=> IsToken(h, i, j - 1)
    BY <2>1, PrefixKept
  <2> QED
    BY <1>1, <2>1, <2>2, <2>3, Zenon
<1>3. ASSUME Closed(h) PROVE Closed(k)
  <2>1. PICK j \in 1 .. n : \E i \in 1 .. j - 1 :
           /\ h[i] \in Ends /\ h[j] \in Ends /\ Within(h, i, j - 1)
           /\ InConnection(h, i) /\ IsToken(h, i, j - 1)
    BY <1>1, <1>3, Zenon DEF Closed
  <2>2. j \in 1 .. n + 1
    OBVIOUS
  <2> QED
    BY <1>1, <1>2, <2>1, <2>2, Zenon DEF Closed
<1>4. ASSUME b \in Ends, Open(h) PROVE Closed(k)
  <2>1. PICK i \in 1 .. n : h[i] \in Ends /\ Within(h, i, n) /\ InConnection(h, i) /\ IsToken(h, i, n)
    BY <1>1, <1>4, Zenon DEF Open, Starts
  <2>2. n + 1 \in 1 .. n + 1 /\ i \in 1 .. (n + 1) - 1 /\ (n + 1) - 1 = n
    OBVIOUS
  <2> QED
    BY <1>1, <1>2, <1>4, <2>1, <2>2, Zenon DEF Closed
<1>5. ASSUME Closed(k) PROVE Closed(h) \/ (b \in Ends /\ Open(h))
  <2>1. PICK j \in 1 .. n + 1 : \E i \in 1 .. j - 1 :
           /\ k[i] \in Ends /\ k[j] \in Ends /\ Within(k, i, j - 1)
           /\ InConnection(k, i) /\ IsToken(k, i, j - 1)
    BY <1>1, <1>5, Zenon DEF Closed
  <2>2. PICK i \in 1 .. j - 1 :
           /\ h[i] \in Ends /\ k[j] \in Ends /\ Within(h, i, j - 1)
           /\ InConnection(h, i) /\ IsToken(h, i, j - 1)
    BY <1>2, <2>1, Zenon
  <2>3. CASE j = n + 1
    <3>1. j - 1 = n /\ i \in 1 .. n
      BY <2>3
    <3> QED
      BY <1>1, <2>2, <2>3, <3>1, Zenon DEF Open, Starts
  <2>4. CASE j # n + 1
    <3>1. j \in 1 .. n
      BY <2>4
    <3> QED
      BY <1>1, <2>2, <3>1, Zenon DEF Closed
  <2> QED
    BY <2>3, <2>4
<1> QED
  BY <1>3, <1>4, <1>5, Zenon

\* The element that has not ended, and the scanner in it.
LEMMA OpenIs ==
    ASSUME WideSpaces = {}, NEW h, Len(h) \in Nat, NEW s \in ScanStates,
           InConnection(h, Len(h)) => \E i \in 1 .. Len(h) : Starts(h, i) /\ Scanned(h, i, s)
    PROVE  Open(h) <=> InConnection(h, Len(h)) /\ Closes(s)
<1>1. ASSUME NEW i \in 1 .. Len(h), Starts(h, i) PROVE InConnection(h, i) <=> InConnection(h, Len(h))
  <2>1. i \in Nat /\ i <= Len(h) /\ Within(h, i, Len(h))
    BY <1>1 DEF Starts
  <2> QED
    BY <2>1, FieldOfElement
<1>2. CASE ~InConnection(h, Len(h))
  BY <1>1, <1>2, Zenon DEF Open
<1>3. CASE InConnection(h, Len(h))
  <2>1. PICK i \in 1 .. Len(h) : Starts(h, i) /\ Scanned(h, i, s)
    BY <1>3
  <2>2. ASSUME NEW j \in 1 .. Len(h), Starts(h, j) PROVE j = i
    <3>1. i \notin j + 1 .. Len(h) /\ j \notin i + 1 .. Len(h)
      BY <2>1, <2>2, Zenon DEF Starts, Within
    <3> QED
      BY <3>1
  <2>3. i \in Nat /\ i <= Len(h)
    OBVIOUS
  <2>4. Closes(s) <=> IsToken(h, i, Len(h))
    BY <2>1, <2>3, CloseIs
  <2> QED
    BY <1>1, <1>3, <2>1, <2>2, <2>4, Zenon DEF Open
<1> QED
  BY <1>2, <1>3

\* The reference's trimmed element.
LEMMA TrimsIs ==
    ASSUME NEW h \in Seq(Symbols), NEW i \in Nat, NEW n \in Nat, i <= n, n <= Len(h)
    PROVE  TrimsToToken(SubSeq(h, i + 1, n)) <=> IsToken(h, i, n)
<1>1. PICK d \in Nat, l \in Nat : n = i + d /\ d = n - i /\ l = Len(Token)
  <2>1. n - i \in Nat /\ n = i + (n - i) /\ Len(Token) \in Nat
    BY TokenAssumption
  <2> QED
    BY <2>1, Zenon
<1>2. PICK e \in Seq(Symbols) : /\ e = SubSeq(h, i + 1, n) /\ Len(e) = d
                                /\ \A m \in 1 .. d : e[m] = h[i + m]
  <2>1. /\ SubSeq(h, i + 1, i + d) \in Seq(Symbols) /\ Len(SubSeq(h, i + 1, i + d)) = d
        /\ \A m \in 1 .. d : SubSeq(h, i + 1, i + d)[m] = h[i + m]
    BY <1>1
  <2> QED
    BY <1>1, <2>1, Zenon
<1>3. Token \in Seq(Symbols)
  <2>1. Letters \subseteq Symbols
    BY DEF Symbols, ValueBytes
  <2> QED
    BY <2>1, TokenAssumption
<1>4. DOMAIN e = 1 .. d
  BY <1>2
<1>5. ASSUME NEW q \in Nat, q + l <= d
      PROVE  Fits(h, i, n, i + q) <=>
                /\ SubSeq(e, q + 1, q + l) = Token
                /\ \A m \in 1 .. d : m \in q + 1 .. q + l \/ e[m] \in Spaces
  <2> DEFINE Here == SubSeq(e, q + 1, q + l) = Token
             Around == \A m \in 1 .. d : m \in q + 1 .. q + l \/ e[m] \in Spaces
  <2>1. Here <=> \A j \in 1 .. l : e[q + j] = Token[j]
    <3>1. q + Len(Token) <= Len(e)
      BY <1>1, <1>2, <1>5
    <3>2. SubSeq(e, q + 1, q + Len(Token)) = Token <=> \A j \in 1 .. Len(Token) : e[q + j] = Token[j]
      BY <1>3, <3>1, SubSeqIs
    <3> QED
      BY <1>1, <3>2, Zenon
  <2>2. ASSUME Here, Around, NEW m \in i + 1 .. n PROVE FitsAt(h, m, i + q)
    <3>1. m - i \in 1 .. d /\ i + (m - i) = m
      BY <1>1
    <3>2. e[m - i] = h[m]
      BY <1>2, <3>1
    <3>3. CASE m \in (i + q) + 1 .. (i + q) + l
      <4>1. m - (i + q) \in 1 .. l /\ q + (m - (i + q)) = m - i
        BY <1>1, <3>3
      <4>2. h[m] = Token[m - (i + q)]
        BY <2>1, <2>2, <3>2, <4>1
      <4> QED
        BY <1>1, <3>3, <4>2, Zenon DEF FitsAt
    <3>4. CASE m \notin (i + q) + 1 .. (i + q) + l
      <4>1. m - i \notin q + 1 .. q + l
        BY <1>1, <3>4
      <4>2. h[m] \in Spaces
        BY <2>2, <3>1, <3>2, <4>1, Zenon
      <4> QED
        BY <1>1, <3>4, <4>2, Zenon DEF FitsAt
    <3> QED
      BY <3>3, <3>4
  <2>3. ASSUME Fits(h, i, n, i + q) PROVE Here /\ Around
    <3>1. ASSUME NEW m \in 1 .. d PROVE FitsAt(h, i + m, i + q) /\ e[m] = h[i + m]
      <4>1. i + m \in i + 1 .. n
        BY <1>1
      <4> QED
        BY <1>2, <2>3, <4>1, Zenon DEF Fits
    <3>2. ASSUME NEW j \in 1 .. l PROVE e[q + j] = Token[j]
      <4>1. q + j \in 1 .. d /\ i + (q + j) \in (i + q) + 1 .. (i + q) + l /\ (i + (q + j)) - (i + q) = j
        BY <1>5
      <4> QED
        BY <1>1, <3>1, <4>1, Zenon DEF FitsAt
    <3>3. ASSUME NEW m \in 1 .. d, m \notin q + 1 .. q + l PROVE e[m] \in Spaces
      <4>1. i + m \notin (i + q) + 1 .. (i + q) + l
        BY <1>1, <3>3
      <4> QED
        BY <1>1, <3>1, <3>3, <4>1, Zenon DEF FitsAt
    <3> QED
      BY <2>1, <3>2, <3>3, Zenon
  <2> QED
    BY <2>2, <2>3, Zenon DEF Fits
<1>6. ASSUME TrimsToToken(e) PROVE IsToken(h, i, n)
  <2>1. PICK q \in 0 .. d : q + l <= d /\ Fits(h, i, n, i + q)
    <3>1. 0 .. d \subseteq Nat
      OBVIOUS
    <3> QED
      BY <1>1, <1>2, <1>4, <1>5, <1>6, <3>1, Zenon DEF TrimsToToken
  <2>2. i + q \in Nat /\ i <= i + q /\ (i + q) + l <= n
    BY <1>1, <2>1
  <2> QED
    BY <1>1, <2>1, <2>2, Zenon DEF IsToken
<1>7. ASSUME IsToken(h, i, n) PROVE TrimsToToken(e)
  <2>1. PICK p \in Nat : i <= p /\ p + l <= n /\ Fits(h, i, n, p)
    BY <1>1, <1>7, Zenon DEF IsToken
  <2>2. PICK q \in Nat : p = i + q
    <3>1. p - i \in Nat /\ p = i + (p - i)
      BY <2>1
    <3> QED
      BY <3>1, Zenon
  <2>3. q + l <= d /\ q \in 0 .. d
    BY <1>1, <2>1, <2>2
  <2>4. /\ SubSeq(e, q + 1, q + l) = Token
        /\ \A m \in 1 .. d : m \in q + 1 .. q + l \/ e[m] \in Spaces
    BY <1>5, <2>1, <2>2, <2>3, Zenon
  <2> QED
    BY <1>1, <1>2, <1>4, <2>3, <2>4, Zenon DEF TrimsToToken
<1> QED
  BY <1>2, <1>6, <1>7, Zenon

\* The reference: some element is the token, ended or not.
LEMMA UpgradeIs ==
    ASSUME NEW h \in Seq(Symbols)
    PROVE  IsUpgrade(h) <=> Closed(h) \/ Open(h)
<1>1. PICK n \in Nat : n = Len(h) /\ DOMAIN h = 1 .. n
  OBVIOUS
<1>2. ASSUME NEW i \in 1 .. n, NEW j \in 2 .. n + 1, i < j
      PROVE  TrimsToToken(SubSeq(h, i + 1, j - 1)) <=> IsToken(h, i, j - 1)
  <2>1. i \in Nat /\ j - 1 \in Nat /\ i <= j - 1 /\ j - 1 <= Len(h)
    BY <1>1, <1>2
  <2> QED
    BY <2>1, TrimsIs
<1>3. ASSUME IsUpgrade(h) PROVE Closed(h) \/ Open(h)
  <2>1. PICK i \in 1 .. n, j \in 2 .. n + 1 :
           /\ i < j /\ h[i] \in Ends /\ InConnection(h, i)
           /\ j \in 1 .. n => h[j] \in Ends
           /\ Within(h, i, j - 1) /\ IsToken(h, i, j - 1)
    BY <1>1, <1>2, <1>3, Zenon DEF IsUpgrade, Ends, Within
  <2>2. CASE j = n + 1
    <3>1. j - 1 = n
      BY <2>2
    <3> QED
      BY <1>1, <2>1, <3>1, Zenon DEF Open, Starts
  <2>3. CASE j # n + 1
    <3>1. j \in 1 .. n /\ i \in 1 .. j - 1
      BY <2>1, <2>3
    <3> QED
      BY <1>1, <2>1, <3>1, Zenon DEF Closed
  <2> QED
    BY <2>2, <2>3
<1>4. ASSUME Closed(h) PROVE IsUpgrade(h)
  <2>1. PICK j \in 1 .. n : \E i \in 1 .. j - 1 :
           /\ h[i] \in Ends /\ h[j] \in Ends /\ Within(h, i, j - 1)
           /\ InConnection(h, i) /\ IsToken(h, i, j - 1)
    BY <1>1, <1>4, Zenon DEF Closed
  <2>2. PICK i \in 1 .. j - 1 :
           /\ h[i] \in Ends /\ h[j] \in Ends /\ Within(h, i, j - 1)
           /\ InConnection(h, i) /\ IsToken(h, i, j - 1)
    BY <2>1
  <2>3. i \in 1 .. n /\ j \in 2 .. n + 1 /\ i < j
    OBVIOUS
  <2> QED
    BY <1>1, <1>2, <2>2, <2>3, Zenon DEF IsUpgrade, Ends, Within
<1>5. ASSUME Open(h) PROVE IsUpgrade(h)
  <2>1. PICK i \in 1 .. n : h[i] \in Ends /\ Within(h, i, n) /\ InConnection(h, i) /\ IsToken(h, i, n)
    BY <1>1, <1>5, Zenon DEF Open, Starts
  <2>2. n + 1 \in 2 .. n + 1 /\ i < n + 1 /\ (n + 1) - 1 = n /\ n + 1 \notin 1 .. n
    OBVIOUS
  <2> QED
    BY <1>1, <1>2, <2>1, <2>2, Zenon DEF IsUpgrade, Ends, Within
<1> QED
  BY <1>3, <1>4, <1>5, Zenon

\* reset.
LEMMA FreshIs ==
    /\ Fresh \in ScanStates
    /\ Fresh.matched = 0 /\ Fresh.valid /\ ~Fresh.started /\ ~Fresh.trailing
BY DEF Fresh, ScanStates

\* Feed and Fold within an element.
LEMMA RunsOn ==
    ASSUME WideSpaces = {}, NEW h, NEW k, NEW b \in Symbols, Grows(h, k, b), b \notin Ends,
           NEW s \in ScanStates, NEW c, Running(h, s, c), NEW r,
           r = IF c THEN IF b \in {"SP", "fold"} THEN Spaced(s) ELSE Letter(s, b) ELSE s
    PROVE  r \in ScanStates /\ Running(k, r, c)
<1>1. PICK n \in Nat : n = Len(h) /\ Len(k) = n + 1 /\ k[n + 1] = b /\ \A m \in 1 .. n : k[m] = h[m]
  BY DEF Grows
<1>2. ~Closed(k)
  BY ClosedGrows, Zenon DEF Running
<1>3. c <=> InConnection(k, Len(k))
  <2>1. b # "Connection:" /\ b # "Other:"
    BY DEF Ends, FieldStarts
  <2> QED
    BY <2>1, FieldGrows, Zenon DEF Running
<1>4. r \in ScanStates
  BY SpacedIs, LetterIs, Zenon
<1>5. ASSUME c PROVE \E i \in 1 .. Len(k) : Starts(k, i) /\ Scanned(k, i, r)
  <2>1. PICK i \in 1 .. n : Starts(h, i) /\ Scanned(h, i, s)
    BY <1>1, <1>5, Zenon DEF Running
  <2>2. i \in Nat /\ i <= Len(h) /\ i \in 1 .. n + 1 /\ \A m \in i + 1 .. n + 1 : m = n + 1 \/ (m \in i + 1 .. n /\ m \in 1 .. n)
    BY <1>1
  <2>3. Starts(k, i)
    BY <1>1, <2>1, <2>2, Zenon DEF Starts, Within
  <2>4. Scanned(k, i, r)
    <3>1. CASE b \in {"SP", "fold"}
      BY <1>5, <2>1, <2>2, <3>1, ScanSpace, Zenon
    <3>2. CASE b \notin {"SP", "fold"}
      <4>1. b \in Letters
        BY <3>2 DEF Symbols, ValueBytes, Ends
      <4> QED
        BY <1>5, <2>1, <2>2, <3>2, <4>1, ScanLetter, Zenon
    <3> QED
      BY <3>1, <3>2
  <2> QED
    BY <1>1, <2>2, <2>3, <2>4, Zenon
<1> QED
  BY <1>2, <1>3, <1>4, <1>5, Zenon DEF Running

\* An end behind an element that is not the token: a new one, if its field is a
\* Connection field.
LEMMA RunsAnew ==
    ASSUME NEW h, NEW k, NEW b \in Ends, Grows(h, k, b),
           NEW s, NEW c, Running(h, s, c), ~Open(h), NEW r, NEW e,
           e <=> b = "Connection:" \/ (b # "Other:" /\ c),
           e => r = Fresh
    PROVE  Running(k, r, e)
<1>1. PICK n \in Nat : n = Len(h) /\ Len(k) = n + 1 /\ k[n + 1] = b
  BY DEF Grows
<1>2. ~Closed(k)
  BY ClosedGrows, Zenon DEF Running
<1>3. e <=> InConnection(k, Len(k))
  BY FieldGrows, Zenon DEF Running
<1>4. n + 1 \in 1 .. n + 1 /\ (n + 1) + 1 .. n + 1 = {}
  OBVIOUS
<1>5. Starts(k, n + 1)
  BY <1>1, <1>4, Zenon DEF Starts, Within
<1>6. Scanned(k, n + 1, Fresh)
  BY <1>1, <1>4, FreshIs, Zenon DEF Blank, Scanned
<1> QED
  BY <1>1, <1>2, <1>3, <1>4, <1>5, <1>6, Zenon DEF Running

\* A step of rawHeadHasUpgrade preserves it.
LEMMA ScanStep ==
    ASSUME WideSpaces = {}, ScanInv, [ScanNext]_scanVars
    PROVE  ScanInv'
<1> DEFINE Closing == inConnection /\ Closes(scan)
<1>1. head \in Seq(Symbols) /\ scan \in ScanStates /\ Len(head) \in Nat
  BY DEF ScanInv
<1>2. ASSUME result = "none" PROVE Running(head, scan, inConnection) /\ (Open(head) <=> Closing)
  <2>1. Running(head, scan, inConnection)
    BY <1>2 DEF ScanInv
  <2>2. InConnection(head, Len(head)) => \E i \in 1 .. Len(head) : Starts(head, i) /\ Scanned(head, i, scan)
    BY <2>1, Zenon DEF Running
  <2>3. Open(head) <=> InConnection(head, Len(head)) /\ Closes(scan)
    BY <1>1, <2>2, OpenIs
  <2> QED
    BY <2>1, <2>3, Zenon DEF Running
<1>3. ASSUME NEW b \in Symbols, Extended(b) PROVE Grows(head, head', b) /\ head' \in Seq(Symbols)
  BY <1>1, <1>3, HeadGrows, Zenon DEF Extended, Grows
<1>4. ASSUME NEW b \in Symbols, FieldStart(b) PROVE ScanInv'
  <2>1. b \in FieldStarts /\ result = "none" /\ Extended(b) /\ b \in Ends /\ b # ","
    BY <1>4 DEF FieldStart, Ends, FieldStarts
  <2>2. Grows(head, head', b) /\ head' \in Seq(Symbols)
    BY <1>3, <2>1
  <2>3. CASE Closing
    <3>1. result' = "early" /\ scan' = scan
      BY <1>4, <2>3 DEF FieldStart
    <3>2. Closed(head')
      BY <1>2, <2>1, <2>2, <2>3, ClosedGrows, Zenon
    <3>3. result' # "none" /\ result' \notin {"yes", "no"}
      BY <3>1
    <3> QED
      BY <1>1, <2>2, <3>1, <3>2, <3>3, Zenon DEF ScanInv
  <2>4. CASE ~Closing
    <3>1. /\ inConnection' = (b = "Connection:")
          /\ scan' = IF b = "Connection:" THEN Fresh ELSE scan
          /\ result' = "none"
      BY <1>4, <2>1, <2>4, Zenon DEF FieldStart
    <3>2. inConnection' <=> b = "Connection:" \/ (b # "Other:" /\ inConnection)
      BY <2>1, <3>1, Zenon DEF FieldStarts
    <3>3. inConnection' => scan' = Fresh
      BY <3>1, Zenon
    <3>4. Running(head', scan', inConnection')
      <4>1. Running(head, scan, inConnection) /\ ~Open(head)
        BY <1>2, <2>1, <2>4, Zenon
      <4>2. b \in Ends /\ Grows(head, head', b)
        BY <2>1, <2>2
      <4> QED
        BY <3>2, <3>3, <4>1, <4>2, RunsAnew
    <3>5. scan' \in ScanStates
      BY <1>1, <3>1, FreshIs, Zenon
    <3>6. result' # "early" /\ result' \notin {"yes", "no"}
      BY <3>1
    <3> QED
      BY <2>2, <3>4, <3>5, <3>6, Zenon DEF ScanInv
  <2> QED
    BY <2>3, <2>4
<1>5. ASSUME NEW b \in Symbols, b \notin Ends, result = "none", Extended(b),
             scan' = IF inConnection THEN IF b \in {"SP", "fold"} THEN Spaced(scan) ELSE Letter(scan, b) ELSE scan,
             inConnection' = inConnection, result' = "none"
      PROVE  ScanInv'
  <2>1. Grows(head, head', b) /\ head' \in Seq(Symbols)
    BY <1>3, <1>5
  <2>2. scan' \in ScanStates /\ Running(head', scan', inConnection)
    BY <1>1, <1>2, <1>5, <2>1, RunsOn, Zenon
  <2>3. result' # "early" /\ result' \notin {"yes", "no"}
    BY <1>5
  <2> QED
    BY <1>5, <2>1, <2>2, <2>3, Zenon DEF ScanInv
<1>6. CASE Fold
  <2>1. "fold" \in Symbols /\ "fold" \notin Ends /\ "fold" \in {"SP", "fold"}
    BY DEF Symbols, Ends, FieldStarts
  <2>2. /\ result = "none" /\ Extended("fold") /\ inConnection' = inConnection /\ result' = "none"
        /\ scan' = IF inConnection THEN Spaced(scan) ELSE scan
    BY <1>6, Zenon DEF Fold
  <2> QED
    BY <1>5, <2>1, <2>2, Zenon
<1>7. ASSUME NEW b \in Symbols, Feed(b) PROVE ScanInv'
  <2>1. b \in ValueBytes /\ result = "none" /\ Extended(b) /\ inConnection' = inConnection
    BY <1>7, Zenon DEF Feed
  <2>2. CASE b # ","
    <3>1. b \notin Ends /\ b # "fold"
      BY <2>1, <2>2, LettersAssumption DEF ValueBytes, Ends, FieldStarts
    <3>2. result' = "none"
      BY <1>7, <2>2, Zenon DEF Feed
    <3>3. Fed(scan, b) = IF b \in {"SP", "fold"} THEN Spaced(scan) ELSE Letter(scan, b)
      BY <2>2, <3>1 DEF Fed
    <3>4. scan' = IF inConnection THEN IF b \in {"SP", "fold"} THEN Spaced(scan) ELSE Letter(scan, b) ELSE scan
      BY <1>7, <3>3, Zenon DEF Feed
    <3> QED
      BY <1>5, <2>1, <3>1, <3>2, <3>4, Zenon
  <2>3. CASE b = ","
    <3>1. b \in Ends /\ b # "Connection:" /\ b # "Other:"
      BY <2>3 DEF Ends
    <3>2. Grows(head, head', b) /\ head' \in Seq(Symbols)
      BY <1>3, <2>1
    <3>3. scan' = IF inConnection THEN Fresh ELSE scan
      <4>1. Fed(scan, b) = Fresh
        BY <2>3 DEF Fed
      <4> QED
        BY <1>7, <4>1, Zenon DEF Feed
    <3>4. scan' \in ScanStates
      BY <1>1, <3>3, FreshIs, Zenon
    <3>5. CASE Closing
      <4>1. result' = "early"
        BY <1>7, <2>3, <3>5, Zenon DEF Feed
      <4>2. Closed(head')
        BY <1>2, <2>1, <3>1, <3>2, <3>5, ClosedGrows, Zenon
      <4>3. result' # "none" /\ result' \notin {"yes", "no"}
        BY <4>1
      <4> QED
        BY <3>2, <3>4, <4>1, <4>2, <4>3, Zenon DEF ScanInv
    <3>6. CASE ~Closing
      <4>1. result' = "none"
        BY <1>7, <3>6, Zenon DEF Feed
      <4>2. inConnection' <=> b = "Connection:" \/ (b # "Other:" /\ inConnection)
        BY <2>1, <3>1, Zenon
      <4>3. inConnection' => scan' = Fresh
        BY <2>1, <3>3, Zenon
      <4>4. Running(head', scan', inConnection')
        <5>1. Running(head, scan, inConnection) /\ ~Open(head)
          BY <1>2, <2>1, <3>6, Zenon
        <5> QED
          BY <3>1, <3>2, <4>2, <4>3, <5>1, RunsAnew
      <4>5. result' # "early" /\ result' \notin {"yes", "no"}
        BY <4>1
      <4> QED
        BY <3>2, <3>4, <4>4, <4>5, Zenon DEF ScanInv
    <3> QED
      BY <3>5, <3>6
  <2> QED
    BY <2>2, <2>3
<1>8. CASE Finish
  <2>1. /\ result = "none" /\ head' = head /\ scan' = scan
        /\ result' = IF Closing THEN "yes" ELSE "no"
    BY <1>8, Zenon DEF Finish
  <2>2. result' = "yes" <=> Closed(head) \/ Open(head)
    <3>1. ~Closed(head)
      BY <1>2, <2>1, Zenon DEF Running
    <3>2. result' = "yes" <=> Closing
      BY <2>1
    <3> QED
      BY <1>2, <2>1, <3>1, <3>2, Zenon
  <2>3. result' # "none" /\ result' # "early"
    BY <2>1
  <2> QED
    BY <1>1, <2>1, <2>2, <2>3, Zenon DEF ScanInv
<1>9. ASSUME NEW b \in Symbols, Rest(b) PROVE ScanInv'
  <2>1. result = "early" /\ result' = "early" /\ Extended(b) /\ scan' = scan
    BY <1>9, Zenon DEF Rest
  <2>2. Grows(head, head', b) /\ head' \in Seq(Symbols)
    BY <1>3, <2>1
  <2>3. Closed(head')
    BY <2>1, <2>2, ClosedGrows, Zenon DEF ScanInv
  <2>4. result' # "none" /\ result' \notin {"yes", "no"}
    BY <2>1
  <2> QED
    BY <1>1, <2>1, <2>2, <2>3, <2>4, Zenon DEF ScanInv
<1>10. CASE UNCHANGED scanVars
  BY <1>10, Zenon DEF scanVars, ScanInv
<1> QED
  BY <1>4, <1>6, <1>7, <1>8, <1>9, <1>10, Zenon DEF ScanNext

\* The scan of the raw head routes as IsUpgrade would on the parsed fields, for
\* every token, every alphabet and every head, when strings.TrimSpace trims no
\* more than feed's spaces.
THEOREM ScanMatches ==
    ASSUME WideSpaces = {}
    PROVE  ScanSpec => []MatchesIsUpgrade
<1>1. ScanInit => ScanInv
  <2> SUFFICES ASSUME ScanInit PROVE ScanInv
    OBVIOUS
  <2>1. head = <<>> /\ result = "none" /\ inConnection = FALSE /\ scan = [Fresh EXCEPT !.valid = FALSE]
    BY DEF ScanInit
  <2>2. head \in Seq(Symbols) /\ Len(head) = 0 /\ 1 .. 0 = {}
    BY <2>1
  <2>3. scan \in ScanStates
    BY <2>1 DEF Fresh, ScanStates
  <2>4. ~Closed(head) /\ ~InConnection(head, 0)
    BY <2>2, Zenon DEF Closed, InConnection
  <2>5. result # "early" /\ result \notin {"yes", "no"}
    BY <2>1
  <2> QED
    BY <2>1, <2>2, <2>3, <2>4, <2>5, Zenon DEF ScanInv, Running
<1>2. ScanInv /\ [ScanNext]_scanVars => ScanInv'
  BY ScanStep
<1>3. ScanInv => MatchesIsUpgrade
  <2> SUFFICES ASSUME ScanInv PROVE MatchesIsUpgrade
    OBVIOUS
  <2>1. IsUpgrade(head) <=> Closed(head) \/ Open(head)
    BY UpgradeIs DEF ScanInv
  <2>2. "yes" \in {"yes", "no"} /\ "no" \in {"yes", "no"} /\ "no" # "yes"
    OBVIOUS
  <2>3. result = "early" => Closed(head)
    BY Zenon DEF ScanInv
  <2>4. result = "yes" => Closed(head) \/ Open(head)
    BY <2>2, Zenon DEF ScanInv
  <2>5. result = "no" => ~(Closed(head) \/ Open(head))
    BY <2>2, Zenon DEF ScanInv
  <2> QED
    BY <2>1, <2>3, <2>4, <2>5, Zenon DEF MatchesIsUpgrade
<1> QED
  BY <1>1, <1>2, <1>3, PTL DEF ScanSpec

-----------------------------------------------------------------------------
(* Decode.                                                                 *)

\* The digits among the characters from a to b - 1, and that they and newlines
\* are all there is.
DigitSet(t, a, b) == {i \in a .. b - 1 : ClassOf(t, i) = "digit"}
Count(t, a, b) == Cardinality(DigitSet(t, a, b))
Clean(t, a, b) == \A i \in a .. b - 1 : ClassOf(t, i) \in {"digit", "CR", "LF"}

\* A set of numbers has a least one.
LEMMA LeastNumber ==
    ASSUME NEW S, S \subseteq Nat, S # {}
    PROVE  \E m \in S : \A j \in S : m <= j
<1>1. PICK R : R = OpToRel(<, Nat)
  OBVIOUS
<1>2. \A x, y \in Nat : x < y => <<x, y>> \in R
  BY <1>1 DEF OpToRel
<1>3. PICK m \in S : \A j \in S : <<j, m>> \notin R
  BY <1>1, NatLessThanWellFounded, WFMin, Zenon
<1>4. \A j \in S : ~(j < m) /\ j \in Nat /\ m \in Nat
  BY <1>2, <1>3, Zenon
<1>5. \A j \in S : m <= j
  BY <1>4
<1> QED
  BY <1>5

\* The positions from a to b - 1.
LEMMA IntervalSize ==
    ASSUME NEW a \in Nat, NEW b \in Nat, a <= b
    PROVE  IsFiniteSet(a .. b - 1) /\ Cardinality(a .. b - 1) = b - a
<1>1. PICK c \in Int : c = b - 1 /\ a \in Int
  OBVIOUS
<1>2. IsFiniteSet(a .. c) /\ Cardinality(a .. c) = IF a > c THEN 0 ELSE c - a + 1
  BY <1>1, FS_Interval, Zenon
<1>3. (IF a > c THEN 0 ELSE c - a + 1) = b - a
  BY <1>1
<1> QED
  BY <1>1, <1>2, <1>3, Zenon

\* The digits of adjacent intervals add up.
LEMMA CountAdds ==
    ASSUME NEW t, NEW a \in Nat, NEW b \in Nat, NEW c \in Nat, a <= b, b <= c
    PROVE  /\ Count(t, a, b) \in Nat /\ Count(t, b, c) \in Nat /\ Count(t, a, b) <= b - a
           /\ Count(t, a, c) = Count(t, a, b) + Count(t, b, c)
<1>1. ASSUME NEW x \in Nat, NEW y \in Nat, x <= y
      PROVE  IsFiniteSet(DigitSet(t, x, y)) /\ Count(t, x, y) \in Nat /\ Count(t, x, y) <= y - x
  <2>1. IsFiniteSet(x .. y - 1) /\ Cardinality(x .. y - 1) = y - x
    BY <1>1, IntervalSize
  <2>2. DigitSet(t, x, y) \in SUBSET (x .. y - 1)
    BY DEF DigitSet
  <2>3. IsFiniteSet(DigitSet(t, x, y)) /\ Cardinality(DigitSet(t, x, y)) <= Cardinality(x .. y - 1)
    BY <2>1, <2>2, FS_Subset
  <2>4. Cardinality(DigitSet(t, x, y)) \in Nat
    BY <2>3, FS_CardinalityType
  <2> QED
    BY <2>1, <2>3, <2>4 DEF Count
<1>2. DigitSet(t, a, c) = DigitSet(t, a, b) \cup DigitSet(t, b, c)
  <2>1. \A i : i \in a .. c - 1 <=> i \in a .. b - 1 \/ i \in b .. c - 1
    OBVIOUS
  <2> QED
    BY <2>1, Zenon DEF DigitSet
<1>3. DigitSet(t, a, b) \cap DigitSet(t, b, c) = {}
  BY DEF DigitSet
<1>4. Cardinality(DigitSet(t, a, c)) = Cardinality(DigitSet(t, a, b)) + Cardinality(DigitSet(t, b, c)) - 0
  BY <1>1, <1>2, <1>3, FS_Union, FS_EmptySet
<1> QED
  BY <1>1, <1>4 DEF Count

\* An interval of digits, and one without.
LEMMA CountOf ==
    ASSUME NEW t, NEW a \in Nat, NEW b \in Nat, a <= b
    PROVE  /\ (\A i \in a .. b - 1 : ClassOf(t, i) = "digit") => Count(t, a, b) = b - a
           /\ (\A i \in a .. b - 1 : ClassOf(t, i) # "digit") => Count(t, a, b) = 0
<1>1. ASSUME \A i \in a .. b - 1 : ClassOf(t, i) = "digit" PROVE Count(t, a, b) = b - a
  <2>1. DigitSet(t, a, b) = a .. b - 1
    BY <1>1, Zenon DEF DigitSet
  <2>2. Cardinality(a .. b - 1) = b - a
    BY IntervalSize
  <2> QED
    BY <2>1, <2>2 DEF Count
<1>2. ASSUME \A i \in a .. b - 1 : ClassOf(t, i) # "digit" PROVE Count(t, a, b) = 0
  <2>1. DigitSet(t, a, b) = {}
    BY <1>2, Zenon DEF DigitSet
  <2> QED
    BY <2>1, FS_EmptySet DEF Count
<1> QED
  BY <1>1, <1>2

\* Where encoding/base64 stops: at the first character that is neither a digit
\* nor a newline, or at the end.
StdEnd(t, from, to) == First(from, to, LAMBDA i : ClassOf(t, i) \in {"bad", "pad"})

Odd(t, i) == ClassOf(t, i) \in {"bad", "pad"}

StopsAt(t, from, to, e) ==
    /\ e \in from .. to
    /\ \A i \in from .. e - 1 : ~Odd(t, i)
    /\ e < to => Odd(t, e)

\* There is one such place, and StdEnd is it.
LEMMA StdEndIs ==
    ASSUME NEW t, NEW from \in Nat, NEW to \in Nat, from <= to
    PROVE  /\ StopsAt(t, from, to, StdEnd(t, from, to))
           /\ \A e : StopsAt(t, from, to, e) => e = StdEnd(t, from, to)
<1>1. PICK d : d = StdEnd(t, from, to)
  OBVIOUS
<1>2. CASE \E i \in from .. to - 1 : Odd(t, i)
  <2>1. PICK S : S = {i \in from .. to - 1 : Odd(t, i)}
    OBVIOUS
  <2>2. S \subseteq Nat /\ S # {}
    BY <1>2, <2>1
  <2>3. PICK m \in S : \A i \in S : m <= i
    BY <2>2, LeastNumber
  <2>4. m \in from .. to - 1 /\ Odd(t, m) /\ \A i \in from .. m - 1 : ~Odd(t, i)
    BY <2>1, <2>3
  <2>5. d \in from .. to - 1 /\ Odd(t, d) /\ \A i \in from .. d - 1 : ~Odd(t, i)
    BY <1>1, <1>2, <2>4 DEF StdEnd, First, Odd
  <2>6. ASSUME NEW e, StopsAt(t, from, to, e) PROVE e = d
    <3>1. e \in Nat /\ e <= to /\ from <= e /\ d \in Nat /\ from <= d /\ d < to
      BY <2>5, <2>6 DEF StopsAt
    <3>2. ~(e < d)
      BY <2>5, <2>6, <3>1 DEF StopsAt
    <3>3. ~(d < e)
      BY <2>5, <2>6, <3>1 DEF StopsAt
    <3> QED
      BY <3>1, <3>2, <3>3
  <2>7. StopsAt(t, from, to, d)
    BY <2>5 DEF StopsAt
  <2> QED
    BY <1>1, <2>6, <2>7, Zenon
<1>3. CASE ~\E i \in from .. to - 1 : Odd(t, i)
  <2>1. d = to
    BY <1>1, <1>3 DEF StdEnd, First, Odd
  <2>2. StopsAt(t, from, to, d)
    BY <1>3, <2>1 DEF StopsAt
  <2>3. ASSUME NEW e, StopsAt(t, from, to, e) PROVE e = to
    BY <1>3, <2>3 DEF StopsAt
  <2> QED
    BY <1>1, <2>1, <2>2, <2>3, Zenon
<1> QED
  BY <1>2, <1>3

\* Its answer, with the digits before that counted.
StdAnswer(t, e, k, to) ==
    LET j == k % 4
        whole == 3 * (k \div 4)
    IN  IF e < to /\ ClassOf(t, e) = "bad" THEN [n |-> whole, err |-> e]
        ELSE IF e < to THEN StdPadding(t, whole, j, e, to)
        ELSE IF j = 0 THEN [n |-> whole, err |-> Ok]
        ELSE IF t.padded \/ j = 1 THEN [n |-> whole, err |-> to - j]
        ELSE [n |-> whole + j - 1, err |-> Ok]

\* The model of encoding/base64 answers from the place it stops and the digits before.
LEMMA StdDecodeIs ==
    ASSUME NEW t, NEW from, NEW to
    PROVE  StdDecode(t, from, to)
              = StdAnswer(t, StdEnd(t, from, to), Count(t, from, StdEnd(t, from, to)), to)
BY Zenon DEF StdDecode, StdAnswer, StdEnd, Count, DigitSet

\* Padding, whose answer counts the whole quanta before it.
LEMMA PaddingIs ==
    ASSUME NEW t, NEW j \in 0 .. 3, NEW e \in Nat, NEW to \in Nat, e < to
    PROVE  \E p \in 0 .. 2, d \in Int :
              /\ \A w \in Nat : StdPadding(t, w, j, e, to) = [n |-> w + p, err |-> d]
              /\ p # 0 => p = j - 1 /\ e + (4 - j) <= to
<1> DEFINE next(i) == First(i, to, LAMBDA k : ClassOf(t, k) \notin {"CR", "LF"})
<1>1. ASSUME NEW i \in Nat, i <= to PROVE next(i) \in i .. to
  <2>1. CASE \E k \in i .. to - 1 : ClassOf(t, k) \notin {"CR", "LF"}
    <3>1. PICK S : S = {k \in i .. to - 1 : ClassOf(t, k) \notin {"CR", "LF"}}
      OBVIOUS
    <3>2. S \subseteq Nat /\ S # {}
      BY <2>1, <3>1
    <3>3. PICK m \in S : \A k \in S : m <= k
      BY <3>2, LeastNumber
    <3>4. m \in i .. to - 1 /\ ClassOf(t, m) \notin {"CR", "LF"} /\ \A k \in i .. m - 1 : ~(ClassOf(t, k) \notin {"CR", "LF"})
      BY <3>1, <3>3
    <3> QED
      BY <2>1, <3>4 DEF First
  <2>2. CASE ~\E k \in i .. to - 1 : ClassOf(t, k) \notin {"CR", "LF"}
    BY <1>1, <2>2 DEF First
  <2> QED
    BY <2>1, <2>2
<1>2. PICK s : s = next(e + 1)
  OBVIOUS
<1>3. PICK r : r = next(IF j = 2 THEN s + 1 ELSE e + 1)
  OBVIOUS
<1>4. \A w : StdPadding(t, w, j, e, to) =
         IF j < 2 THEN [n |-> w, err |-> e]
         ELSE IF j = 2 /\ s = to THEN [n |-> w, err |-> to]
         ELSE IF j = 2 /\ ClassOf(t, s) # "pad" THEN [n |-> w, err |-> s - 1]
         ELSE [n |-> w + j - 1, err |-> IF r < to THEN r ELSE Ok]
  BY <1>2, <1>3, Zenon DEF StdPadding
<1> HIDE DEF next
<1>5. s \in e + 1 .. to
  BY <1>1, <1>2
<1>6. \A w \in Nat : w + 0 = w /\ w + j - 1 = w + (j - 1)
  OBVIOUS
<1>7. CASE j < 2
  <2>1. 0 \in 0 .. 2 /\ e \in Int
    OBVIOUS
  <2> QED
    BY <1>4, <1>6, <1>7, <2>1, Zenon
<1>8. CASE ~(j < 2) /\ j = 2 /\ s = to
  <2>1. 0 \in 0 .. 2 /\ to \in Int
    OBVIOUS
  <2> QED
    BY <1>4, <1>6, <1>8, <2>1, Zenon
<1>9. CASE ~(j < 2) /\ j = 2 /\ s # to /\ ClassOf(t, s) # "pad"
  <2>1. 0 \in 0 .. 2 /\ s - 1 \in Int
    BY <1>5
  <2> QED
    BY <1>4, <1>6, <1>9, <2>1, Zenon
<1>10. CASE ~(j < 2) /\ ~(j = 2 /\ s = to) /\ ~(j = 2 /\ ClassOf(t, s) # "pad")
  <2>1. j - 1 \in 0 .. 2 /\ e + (4 - j) <= to
    BY <1>5, <1>10
  <2>2. r \in Int
    BY <1>1, <1>3, <1>5, <1>10
  <2>3. PICK d \in Int : d = IF r < to THEN r ELSE Ok
    BY <2>2 DEF Ok
  <2>4. \A w \in Nat : StdPadding(t, w, j, e, to) = [n |-> w + (j - 1), err |-> d]
    BY <1>4, <1>6, <1>10, <2>3, Zenon
  <2> QED
    BY <2>1, <2>4, Zenon
<1> QED
  BY <1>7, <1>8, <1>9, <1>10

\* Division by four, of k digits behind m quanta.
LEMMA Quarter ==
    ASSUME NEW k \in Nat, NEW m \in Nat
    PROVE  /\ k \div 4 \in Nat /\ k % 4 \in 0 .. 3 /\ k = 4 * (k \div 4) + (k % 4)
           /\ (4 * m + k) % 4 = k % 4
           /\ (4 * m + k) \div 4 = m + (k \div 4)
<1>1. k \div 4 \in Nat /\ k % 4 \in 0 .. 3 /\ k = 4 * (k \div 4) + (k % 4)
  OBVIOUS
<1>2. PICK q \in Nat, j \in 0 .. 3 : q = k \div 4 /\ j = k % 4 /\ k = 4 * q + j
  BY <1>1
<1>3. PICK x \in Nat : x = 4 * m + k /\ x = 4 * (m + q) + j
  BY <1>2
<1>4. x % 4 = j
  BY <1>3
<1>5. x \div 4 = m + q
  BY <1>3
<1> QED
  BY <1>1, <1>2, <1>3, <1>4, <1>5

\* The answer is p bytes beyond whole quanta, with error d; m quanta more before
\* it change nothing else, and p has the characters of a quantum to stand on.
Answers(t, e, k, to, p, d) ==
    /\ \A m \in Nat : StdAnswer(t, e, 4 * m + k, to) = [n |-> 3 * m + (3 * (k \div 4) + p), err |-> d]
    /\ p # 0 => /\ p = (k % 4) - 1
                /\ e < to => e + (4 - (k % 4)) <= to
                /\ e = to => ~t.padded

\* The cases of that answer.
LEMMA AnswerIs ==
    ASSUME NEW t, NEW e \in Nat, NEW to \in Nat, e <= to, NEW k \in Nat
    PROVE  \E p \in 0 .. 2, d \in Int : Answers(t, e, k, to, p, d)
<1>1. PICK j \in 0 .. 3, q \in Nat : j = k % 4 /\ q = k \div 4
  <2>1. k % 4 \in 0 .. 3 /\ k \div 4 \in Nat
    OBVIOUS
  <2> QED
    BY <2>1, Zenon
<1> DEFINE Body(w) ==
             IF e < to /\ ClassOf(t, e) = "bad" THEN [n |-> w, err |-> e]
             ELSE IF e < to THEN StdPadding(t, w, j, e, to)
             ELSE IF j = 0 THEN [n |-> w, err |-> Ok]
             ELSE IF t.padded \/ j = 1 THEN [n |-> w, err |-> to - j]
             ELSE [n |-> w + j - 1, err |-> Ok]
           Holds(p, d) == \A w \in Nat : Body(w) = [n |-> w + p, err |-> d]
           Stands(p) == p # 0 => /\ p = j - 1
                                 /\ e < to => e + (4 - j) <= to
                                 /\ e = to => ~t.padded
<1>2. ASSUME NEW m \in Nat PROVE StdAnswer(t, e, 4 * m + k, to) = Body(3 * (m + q))
  <2>1. (4 * m + k) % 4 = j /\ (4 * m + k) \div 4 = m + q
    BY <1>1, Quarter
  <2> QED
    BY <2>1, Zenon DEF StdAnswer
<1> HIDE DEF Stands
<1>3. \E p \in 0 .. 2, d \in Int : Holds(p, d) /\ Stands(p)
  <2>1. 0 \in 0 .. 2 /\ \A w \in Nat : w + 0 = w /\ w + j - 1 = w + (j - 1)
    OBVIOUS
  <2>2. Stands(0)
    BY DEF Stands
  <2>3. CASE e < to /\ ClassOf(t, e) = "bad"
    <3>1. e \in Int
      OBVIOUS
    <3>2. Holds(0, e)
      BY <2>1, <2>3, Zenon
    <3> QED
      BY <2>1, <2>2, <3>1, <3>2, Zenon
  <2>4. CASE e < to /\ ClassOf(t, e) # "bad"
    <3>1. PICK p \in 0 .. 2, d \in Int :
                /\ \A w \in Nat : StdPadding(t, w, j, e, to) = [n |-> w + p, err |-> d]
                /\ p # 0 => p = j - 1 /\ e + (4 - j) <= to
      BY <2>4, PaddingIs
    <3>2. e # to
      BY <2>4
    <3>3. Stands(p)
      BY <3>1, <3>2, Zenon DEF Stands
    <3>4. Holds(p, d)
      BY <2>4, <3>1, Zenon
    <3> QED
      BY <3>3, <3>4, Zenon
  <2>5. CASE ~(e < to) /\ j = 0
    <3>1. Ok \in Int
      BY DEF Ok
    <3>2. Holds(0, Ok)
      BY <2>1, <2>5, Zenon
    <3> QED
      BY <2>1, <2>2, <3>1, <3>2, Zenon
  <2>6. CASE ~(e < to) /\ j # 0 /\ (t.padded \/ j = 1)
    <3>1. to - j \in Int
      OBVIOUS
    <3>2. Holds(0, to - j)
      BY <2>1, <2>6, Zenon
    <3> QED
      BY <2>1, <2>2, <3>1, <3>2, Zenon
  <2>7. CASE ~(e < to) /\ j # 0 /\ ~(t.padded \/ j = 1)
    <3>1. j - 1 \in 0 .. 2 /\ Ok \in Int
      BY <2>7 DEF Ok
    <3>2. Holds(j - 1, Ok)
      BY <2>1, <2>7, Zenon
    <3>3. Stands(j - 1)
      BY <2>7, Zenon DEF Stands
    <3> QED
      BY <3>1, <3>2, <3>3, Zenon
  <2> QED
    BY <2>3, <2>4, <2>5, <2>6, <2>7, Zenon
<1>4. PICK p \in 0 .. 2, d \in Int : Holds(p, d) /\ Stands(p)
  BY <1>3
<1>5. ASSUME NEW m \in Nat PROVE StdAnswer(t, e, 4 * m + k, to) = [n |-> 3 * m + (3 * q + p), err |-> d]
  <2>1. 3 * (m + q) \in Nat /\ 3 * (m + q) + p = 3 * m + (3 * q + p)
    OBVIOUS
  <2> QED
    BY <1>2, <1>4, <2>1, Zenon
<1> QED
  BY <1>1, <1>4, <1>5, Zenon DEF Stands, Answers

\* What encoding/base64 says of a text is what it says behind whole quanta,
\* with their bytes.
LEMMA StdSplits ==
    ASSUME NEW t, NEW x \in Nat, NEW to \in Nat, x <= to, Clean(t, 0, x),
           NEW m \in Nat, Count(t, 0, x) = 4 * m
    PROVE  \E a \in Nat, d \in Int :
              /\ StdDecode(t, x, to) = [n |-> a, err |-> d]
              /\ StdDecode(t, 0, to) = [n |-> 3 * m + a, err |-> d]
<1>1. PICK e : e = StdEnd(t, x, to)
  OBVIOUS
<1>2. StopsAt(t, x, to, e)
  BY <1>1, StdEndIs
<1>3. e \in Nat /\ x <= e /\ e <= to
  BY <1>2 DEF StopsAt
<1>4. StopsAt(t, 0, to, e)
  <2>1. \A i \in 0 .. e - 1 : i \in 0 .. x - 1 \/ i \in x .. e - 1
    BY <1>3
  <2>2. \A i \in 0 .. x - 1 : ~Odd(t, i)
    BY DEF Clean, Odd
  <2>3. e \in 0 .. to
    BY <1>3
  <2> QED
    BY <1>2, <2>1, <2>2, <2>3, Zenon DEF StopsAt
<1>5. e = StdEnd(t, 0, to)
  <2>1. 0 \in Nat /\ 0 <= to
    OBVIOUS
  <2> QED
    BY <1>4, <2>1, StdEndIs
<1>6. PICK k \in Nat : k = Count(t, x, e) /\ Count(t, 0, e) = 4 * m + k
  BY <1>3, CountAdds
<1>7. PICK p \in 0 .. 2, d \in Int : Answers(t, e, k, to, p, d)
  BY <1>3, AnswerIs
<1>8. PICK a \in Nat : a = 3 * (k \div 4) + p
  BY Quarter
<1>9. StdAnswer(t, e, 4 * m + k, to) = [n |-> 3 * m + a, err |-> d]
  BY <1>7, <1>8 DEF Answers
<1>10. StdAnswer(t, e, k, to) = [n |-> a, err |-> d]
  <2>1. StdAnswer(t, e, 4 * 0 + k, to) = [n |-> 3 * 0 + a, err |-> d]
    BY <1>7, <1>8 DEF Answers
  <2>2. 4 * 0 + k = k /\ 3 * 0 + a = a
    OBVIOUS
  <2> QED
    BY <2>1, <2>2, Zenon
<1> QED
  BY <1>1, <1>5, <1>6, <1>9, <1>10, StdDecodeIs, Zenon

\* It never decodes more than DecodedLen says.
LEMMA StdFits ==
    ASSUME NEW t \in Texts
    PROVE  /\ StdDecode(t, 0, t.len).n \in Nat /\ DecodedLen(t) \in Nat
           /\ StdDecode(t, 0, t.len).n <= DecodedLen(t)
<1>1. PICK l \in Nat : l = t.len /\ t.padded \in BOOLEAN
  BY TextsAssumption, Zenon
<1>2. PICK e \in Nat : e = StdEnd(t, 0, l) /\ e <= l
  <2>1. StopsAt(t, 0, l, StdEnd(t, 0, l))
    BY StdEndIs
  <2> QED
    BY <2>1 DEF StopsAt
<1>3. PICK k \in Nat : k = Count(t, 0, e) /\ k <= e
  <2>1. 0 \in Nat /\ 0 <= e /\ e <= e /\ e - 0 = e
    OBVIOUS
  <2>2. Count(t, 0, e) \in Nat /\ Count(t, 0, e) <= e - 0
    BY <2>1, CountAdds, Zenon
  <2> QED
    BY <2>1, <2>2, Zenon
<1>4. PICK p \in 0 .. 2, d \in Int : Answers(t, e, k, l, p, d)
  BY <1>2, AnswerIs
<1>5. PICK j \in 0 .. 3, q \in Nat : j = k % 4 /\ q = k \div 4 /\ k = 4 * q + j
  <2>1. k % 4 \in 0 .. 3 /\ k \div 4 \in Nat /\ k = 4 * (k \div 4) + (k % 4)
    BY Quarter
  <2> QED
    BY <2>1
<1>6. StdDecode(t, 0, l).n = 3 * q + p
  <2>1. StdAnswer(t, e, 4 * 0 + k, l) = [n |-> 3 * 0 + (3 * q + p), err |-> d]
    BY <1>4, <1>5 DEF Answers
  <2>2. 4 * 0 + k = k /\ 3 * 0 + (3 * q + p) = 3 * q + p
    OBVIOUS
  <2>3. StdDecode(t, 0, l) = [n |-> 3 * q + p, err |-> d]
    BY <1>2, <1>3, <2>1, <2>2, StdDecodeIs, Zenon
  <2> QED
    BY <2>3
<1>7. 3 * q + p <= 3 * (l \div 4) \/ ~t.padded
  <2>1. CASE p = 0
    BY <1>2, <1>3, <1>5, <2>1
  <2>2. CASE p # 0 /\ e < l
    BY <1>2, <1>3, <1>4, <1>5, <2>2 DEF Answers
  <2>3. CASE p # 0 /\ e = l
    BY <1>4, <2>3 DEF Answers
  <2> QED
    BY <1>2, <2>1, <2>2, <2>3
<1>8. 3 * q + p <= (6 * l) \div 8
  <2>1. CASE p = 0
    BY <1>2, <1>3, <1>5, <2>1
  <2>2. CASE p # 0
    <3>1. j = p + 1
      BY <1>4, <1>5, <2>2 DEF Answers
    <3>2. 4 * q + j <= l
      BY <1>2, <1>3, <1>5
    <3> QED
      BY <3>1, <3>2
  <2> QED
    BY <2>1, <2>2
<1>9. DecodedLen(t) = IF t.padded THEN 3 * (l \div 4) ELSE (6 * l) \div 8
  BY <1>1, Zenon DEF DecodedLen
<1>10. 3 * (l \div 4) \in Nat /\ (6 * l) \div 8 \in Nat /\ 3 * q + p \in Nat
  OBVIOUS
<1> QED
  BY <1>1, <1>6, <1>7, <1>8, <1>9, <1>10

\* c bytes are what the text before x decodes to, in whole quanta.
Quanta(t, x, c) == Clean(t, 0, x) /\ \E m \in Nat : Count(t, 0, x) = 4 * m /\ c = 3 * m

\* What there is to decode behind whole quanta completes the whole text's answer.
LEMMA QuantaSplit ==
    ASSUME NEW t \in Texts, NEW x \in 0 .. t.len, NEW c, Quanta(t, x, c)
    PROVE  /\ c \in Nat
           /\ \E a \in Nat, d \in Int : /\ StdDecode(t, x, t.len) = [n |-> a, err |-> d]
                                        /\ StdDecode(t, 0, t.len) = [n |-> c + a, err |-> d]
           /\ c <= StdDecode(t, 0, t.len).n
<1>1. t.len \in Nat /\ x \in Nat /\ x <= t.len
  BY TextsAssumption
<1>2. PICK m \in Nat : Count(t, 0, x) = 4 * m /\ c = 3 * m /\ Clean(t, 0, x)
  BY DEF Quanta
<1>3. PICK a \in Nat, d \in Int : /\ StdDecode(t, x, t.len) = [n |-> a, err |-> d]
                                  /\ StdDecode(t, 0, t.len) = [n |-> 3 * m + a, err |-> d]
  BY <1>1, <1>2, StdSplits, Zenon
<1>4. c \in Nat /\ c <= c + a
  BY <1>2
<1>5. StdDecode(t, 0, t.len).n = c + a
  BY <1>2, <1>3
<1> QED
  BY <1>2, <1>3, <1>4, <1>5, Zenon

\* Newlines, m quanta of digits, and newlines take the kernel 3 m bytes on.
LEMMA QuantaGo ==
    ASSUME NEW t, NEW x \in Nat, NEW a \in Nat, NEW m \in Nat, NEW y \in Nat, NEW c,
           x <= a, a + 4 * m <= y, Quanta(t, x, c),
           \A i \in x .. a - 1 : ClassOf(t, i) \in {"CR", "LF"},
           \A i \in a .. a + 4 * m - 1 : ClassOf(t, i) = "digit",
           \A i \in a + 4 * m .. y - 1 : ClassOf(t, i) \in {"CR", "LF"}
    PROVE  Quanta(t, y, c + 3 * m)
<1>1. PICK z \in Nat : z = a + 4 * m /\ a <= z /\ z <= y /\ z - a = 4 * m
  OBVIOUS
<1>2. PICK k \in Nat : Count(t, 0, x) = 4 * k /\ c = 3 * k /\ Clean(t, 0, x)
  BY DEF Quanta
<1>3. Count(t, x, a) = 0 /\ Count(t, a, z) = 4 * m /\ Count(t, z, y) = 0
  <2>1. Count(t, x, a) = 0
    BY CountOf
  <2>2. Count(t, a, z) = 4 * m
    BY <1>1, CountOf
  <2>3. Count(t, z, y) = 0
    BY <1>1, CountOf
  <2> QED
    BY <2>1, <2>2, <2>3
<1>4. Count(t, 0, y) = 4 * (k + m)
  <2>1. Count(t, x, y) = Count(t, x, a) + Count(t, a, y) /\ Count(t, a, y) = Count(t, a, z) + Count(t, z, y)
    <3>1. a <= y
      BY <1>1
    <3> QED
      BY <1>1, <3>1, CountAdds
  <2>2. Count(t, 0, y) = Count(t, 0, x) + Count(t, x, y)
    <3>1. 0 \in Nat /\ 0 <= x /\ x <= y
      BY <1>1
    <3> QED
      BY <3>1, CountAdds
  <2> QED
    BY <1>2, <1>3, <2>1, <2>2
<1>5. Clean(t, 0, y)
  <2>1. \A i \in 0 .. y - 1 : i \in 0 .. x - 1 \/ i \in x .. a - 1 \/ i \in a .. z - 1 \/ i \in z .. y - 1
    BY <1>1
  <2> QED
    BY <1>1, <1>2, <2>1 DEF Clean
<1>6. k + m \in Nat /\ c + 3 * m = 3 * (k + m)
  BY <1>2
<1> QED
  BY <1>4, <1>5, <1>6, Zenon DEF Quanta

-----------------------------------------------------------------------------
(* The invariant of Decode.                                                *)

\* Where the loops run.
Labels == {"start", "mime", "plain", "small", "fringe", "again", "suffix"}

\* A fringe that was the end of the input may have decoded less than a quantum.
Over ==
    /\ pc \in {"again", "suffix"} /\ pos = text.len
    /\ StdDecode(text, 0, text.len) = [n |-> count, err |-> Ok]

\* Until Decode is done it has decoded whole quanta without an error, or all of the
\* input; then it has the answer of encoding/base64.
B64Inv ==
    /\ text \in Texts /\ pos \in 0 .. text.len /\ count \in Nat /\ reach \in Nat /\ size \in Nat
    /\ reach <= size /\ StdDecode(text, 0, text.len).n <= size
    /\ pc \in Labels \cup {"done"}
    /\ pc # "done" => failed = Ok /\ (Quanta(text, pos, count) \/ Over)
    /\ pc = "done" => StdDecode(text, 0, text.len) = [n |-> count, err |-> failed]

\* Skip passes newlines only.
LEMMA SkipIs ==
    ASSUME text \in Texts, NEW i \in 0 .. text.len
    PROVE  Skip(i) \in i .. text.len /\ \A k \in i .. Skip(i) - 1 : Newline(k)
<1>1. PICK to \in Nat : to = text.len /\ i \in Nat /\ i <= to
  BY TextsAssumption
<1>2. PICK s : s = Skip(i)
  OBVIOUS
<1>3. CASE \E k \in i .. to - 1 : ~Newline(k)
  <2>1. PICK S : S = {k \in i .. to - 1 : ~Newline(k)}
    OBVIOUS
  <2>2. S \subseteq Nat /\ S # {}
    BY <1>1, <1>3, <2>1
  <2>3. PICK m \in S : \A k \in S : m <= k
    BY <2>2, LeastNumber
  <2>4. m \in i .. to - 1 /\ ~Newline(m) /\ \A k \in i .. m - 1 : ~ ~Newline(k)
    BY <1>1, <2>1, <2>3
  <2>5. s \in i .. to - 1 /\ \A k \in i .. s - 1 : ~ ~Newline(k)
    BY <1>1, <1>2, <1>3, <2>4 DEF Skip, First
  <2> QED
    BY <1>1, <1>2, <2>5
<1>4. CASE ~\E k \in i .. to - 1 : ~Newline(k)
  <2>1. s = to
    BY <1>1, <1>2, <1>4 DEF Skip, First
  <2> QED
    BY <1>1, <1>2, <1>4, <2>1
<1> QED
  BY <1>3, <1>4

\* A step of the kernel, or one that only goes on.
LEMMA AdvanceKeeps ==
    ASSUME B64Inv, pc # "done", NEW i \in Nat, NEW o \in Nat, NEW s \in Nat, Advance(i, o, s),
           pc' \in Labels, pos + i <= text.len, Quanta(text, pos + i, count + o), count + s <= size
    PROVE  B64Inv'
<1>1. /\ pos' = pos + i /\ count' = count + o /\ text' = text /\ size' = size /\ failed' = failed
      /\ reach' = IF count + s > reach THEN count + s ELSE reach
  BY DEF Advance
<1>2. text.len \in Nat /\ pos \in Nat /\ count \in Nat /\ reach \in Nat /\ reach <= size
  BY TextsAssumption DEF B64Inv
<1>3. pos' \in 0 .. text'.len /\ count' \in Nat /\ reach' \in Nat /\ reach' <= size'
  BY <1>1, <1>2
<1>4. pc' # "done" /\ pc' \in Labels \cup {"done"}
  BY DEF Labels
<1> QED
  BY <1>1, <1>3, <1>4, Zenon DEF B64Inv

\* A call of encoding/base64 that answers for the whole input.
LEMMA ScalarKeeps ==
    ASSUME B64Inv, NEW to \in 0 .. text.len, NEW next \in {"again", "done"}, Scalar(to, next),
           NEW a \in Nat, NEW d \in Int, StdDecode(text, pos, to) = [n |-> a, err |-> d],
           StdDecode(text, 0, text.len) = [n |-> count + a, err |-> d],
           d = Ok /\ next = "again" => to = text.len
    PROVE  B64Inv'
<1>1. /\ pos' = to /\ count' = count + a /\ text' = text /\ size' = size /\ failed' = d
      /\ reach' = IF count + a > reach THEN count + a ELSE reach
      /\ pc' = IF d = Ok THEN next ELSE "done"
  <2>1. PICK r : r = StdDecode(text, pos, to) /\ r.n = a /\ r.err = d
    OBVIOUS
  <2> QED
    BY <2>1, Zenon DEF Scalar, Goto
<1>2. /\ text.len \in Nat /\ count \in Nat /\ reach \in Nat /\ reach <= size
      /\ StdDecode(text, 0, text.len).n <= size
  BY TextsAssumption DEF B64Inv
<1>3. count + a <= size
  <2>1. StdDecode(text, 0, text.len).n = count + a
    OBVIOUS
  <2> QED
    BY <1>2, <2>1
<1>4. pos' \in 0 .. text'.len /\ count' \in Nat /\ reach' \in Nat /\ reach' <= size'
  BY <1>1, <1>2, <1>3
<1>5. StdDecode(text', 0, text'.len) = [n |-> count', err |-> failed']
  BY <1>1, Zenon
<1>6. pc' \in Labels \cup {"done"}
  BY <1>1 DEF Labels
<1>7. ASSUME pc' # "done" PROVE failed' = Ok /\ Over'
  <2>1. d = Ok /\ next = "again" /\ pc' = "again"
    BY <1>1, <1>7
  <2> QED
    BY <1>1, <1>5, <2>1 DEF Over
<1>8. text' \in Texts /\ size' \in Nat /\ StdDecode(text', 0, text'.len).n <= size'
  BY <1>1, Zenon DEF B64Inv
<1> QED
  BY <1>4, <1>5, <1>6, <1>7, <1>8, Zenon DEF B64Inv

\* A fringe ends behind whole quanta or at the end of the input, and padding is
\* not in it.
LEMMA FringeIs ==
    ASSUME text \in Texts, pos \in 0 .. text.len, ~NeedsSuffix
    PROVE  /\ QuantaEnd \in pos .. text.len
           /\ \A i \in pos .. QuantaEnd - 1 : Class(i) # "pad"
           /\ QuantaEnd < text.len /\ Clean(text, pos, QuantaEnd) => Count(text, pos, QuantaEnd) % 4 = 0
<1>1. PICK to \in Nat : to = text.len /\ pos \in Nat /\ pos + 16 <= to
  BY TextsAssumption DEF NeedsSuffix, Left
<1>2. PICK l : l = LineEnd
  OBVIOUS
<1>3. l \in pos .. pos + 15 /\ \A i \in pos .. l - 1 : Class(i) # "pad"
  <2>1. l # pos + 16
    BY <1>2 DEF NeedsSuffix
  <2>2. \E i \in pos .. pos + 16 - 1 : Newline(i) \/ Class(i) = "pad"
    BY <1>2, <2>1 DEF LineEnd, First
  <2>3. PICK S : S = {i \in pos .. pos + 16 - 1 : Newline(i) \/ Class(i) = "pad"}
    OBVIOUS
  <2>4. S \subseteq Nat /\ S # {}
    BY <1>1, <2>2, <2>3
  <2>5. PICK m \in S : \A i \in S : m <= i
    BY <2>4, LeastNumber
  <2>6. m \in pos .. pos + 16 - 1 /\ (Newline(m) \/ Class(m) = "pad")
        /\ \A i \in pos .. m - 1 : ~(Newline(i) \/ Class(i) = "pad")
    BY <1>1, <2>3, <2>5
  <2>7. l \in pos .. pos + 16 - 1 /\ \A i \in pos .. l - 1 : ~(Newline(i) \/ Class(i) = "pad")
    BY <1>2, <2>2, <2>6 DEF LineEnd, First
  <2> QED
    BY <1>1, <2>7
<1>4. l \in Nat /\ pos <= l /\ l < to
  BY <1>1, <1>3
<1> DEFINE P(i) == ~Newline(i) /\ (Digits(i) % 4 = 0 \/ Class(i) = "pad")
<1>5. PICK q : q = QuantaEnd
  OBVIOUS
<1>6. q = First(l, to, P)
  BY <1>1, <1>2, <1>5, Zenon DEF QuantaEnd
<1> HIDE DEF P
<1>7. q \in l .. to /\ \A i \in l .. q - 1 : ~P(i)
  <2>1. CASE \E i \in l .. to - 1 : P(i)
    <3>1. PICK S : S = {i \in l .. to - 1 : P(i)}
      OBVIOUS
    <3>2. S \subseteq Nat /\ S # {}
      BY <1>4, <2>1, <3>1
    <3>3. PICK m \in S : \A i \in S : m <= i
      BY <3>2, LeastNumber
    <3>4. m \in l .. to - 1 /\ P(m) /\ \A i \in l .. m - 1 : ~P(i)
      BY <1>4, <3>1, <3>3
    <3>5. q \in l .. to - 1 /\ \A i \in l .. q - 1 : ~P(i)
      BY <1>6, <2>1, <3>4 DEF First
    <3> QED
      BY <1>4, <3>5
  <2>2. CASE ~\E i \in l .. to - 1 : P(i)
    <3>1. q = to
      BY <1>6, <2>2 DEF First
    <3> QED
      BY <1>4, <2>2, <3>1
  <2> QED
    BY <2>1, <2>2
<1>8. q \in pos .. to
  BY <1>4, <1>7
<1>9. ASSUME NEW i \in pos .. q - 1 PROVE Class(i) # "pad"
  <2>1. i \in pos .. l - 1 \/ i \in l .. q - 1
    BY <1>4, <1>8
  <2>2. ASSUME i \in l .. q - 1 PROVE Class(i) # "pad"
    <3>1. ~P(i)
      BY <1>7, <2>2
    <3> QED
      BY <3>1 DEF P, Newline
  <2> QED
    BY <1>3, <2>1, <2>2
<1>10. ASSUME q < to, Clean(text, pos, q) PROVE Count(text, pos, q) % 4 = 0
  <2>1. Digits(q) % 4 = 0
    BY <1>1, <1>5, <1>10 DEF NeedsSuffix
  <2>2. {i \in pos .. q - 1 : ~Newline(i)} = DigitSet(text, pos, q)
    BY <1>10 DEF Clean, DigitSet, Newline, Class
  <2> QED
    BY <2>1, <2>2, Zenon DEF Digits, Count
<1> QED
  BY <1>1, <1>5, <1>8, <1>9, <1>10, Zenon

\* A fringe: a bad character in it is the whole input's, and one without leaves
\* whole quanta behind or the input at its end.
LEMMA FringeKeeps ==
    ASSUME B64Inv, Quanta(text, pos, count), ~NeedsSuffix, Scalar(QuantaEnd, "again")
    PROVE  B64Inv'
<1>1. /\ text \in Texts /\ pos \in 0 .. text.len /\ text.len \in Nat /\ pos \in Nat
      /\ \A i \in 0 .. text.len - 1 : ClassOf(text, i) \in {"digit", "CR", "LF", "bad", "pad"}
  BY TextsAssumption DEF B64Inv, Classes
<1>2. PICK to \in Nat : to = QuantaEnd /\ pos <= to /\ to <= text.len
  BY <1>1, FringeIs
<1>3. to \in 0 .. text.len /\ (\A i \in pos .. to - 1 : ClassOf(text, i) # "pad")
      /\ (to < text.len /\ Clean(text, pos, to) => Count(text, pos, to) % 4 = 0)
  BY <1>1, <1>2, FringeIs DEF Class
<1>4. PICK a \in Nat, d \in Int : /\ StdDecode(text, pos, text.len) = [n |-> a, err |-> d]
                                  /\ StdDecode(text, 0, text.len) = [n |-> count + a, err |-> d]
  BY <1>1, QuantaSplit
<1>5. PICK e : e = StdEnd(text, pos, to) /\ StopsAt(text, pos, to, e)
  BY <1>1, <1>2, StdEndIs
<1>6. e \in Nat /\ pos <= e /\ e <= to
  BY <1>1, <1>5 DEF StopsAt
<1>7. StdDecode(text, pos, to) = StdAnswer(text, e, Count(text, pos, e), to)
  BY <1>5, StdDecodeIs
<1>8. CASE e < to
  <2>1. ClassOf(text, e) = "bad"
    BY <1>3, <1>5, <1>6, <1>8 DEF StopsAt, Odd
  <2>2. StopsAt(text, pos, text.len, e)
    BY <1>1, <1>2, <1>5, <1>6, <1>8 DEF StopsAt
  <2>3. e = StdEnd(text, pos, text.len)
    BY <1>1, <1>2, <2>2, StdEndIs
  <2>4. StdDecode(text, pos, text.len) = StdAnswer(text, e, Count(text, pos, e), text.len)
    BY <2>3, StdDecodeIs
  <2>5. e < text.len
    BY <1>1, <1>2, <1>6, <1>8
  <2>6. PICK w : w = 3 * (Count(text, pos, e) \div 4)
    OBVIOUS
  <2>7. /\ StdAnswer(text, e, Count(text, pos, e), to) = [n |-> w, err |-> e]
        /\ StdAnswer(text, e, Count(text, pos, e), text.len) = [n |-> w, err |-> e]
    BY <1>8, <2>1, <2>5, <2>6, Zenon DEF StdAnswer
  <2>8. StdDecode(text, pos, to) = [n |-> a, err |-> d]
    BY <1>4, <1>7, <2>4, <2>7, Zenon
  <2>9. d = e
    BY <1>4, <2>4, <2>7
  <2>10. d # Ok
    BY <1>6, <2>9 DEF Ok
  <2> QED
    BY <1>2, <1>3, <1>4, <2>8, <2>10, ScalarKeeps
<1>9. CASE to = text.len
  <2>1. StdDecode(text, pos, to) = [n |-> a, err |-> d]
    BY <1>4, <1>9, Zenon
  <2> QED
    BY <1>2, <1>3, <1>4, <1>9, <2>1, ScalarKeeps
<1>10. CASE e = to /\ to # text.len
  <2>1. to < text.len
    BY <1>1, <1>2, <1>10
  <2>2. Clean(text, pos, to)
    <3>1. \A i \in pos .. to - 1 : i \in 0 .. text.len - 1
      BY <1>1, <1>2
    <3>2. \A i \in pos .. to - 1 : ~Odd(text, i)
      BY <1>5, <1>10 DEF StopsAt
    <3> QED
      BY <1>1, <3>1, <3>2 DEF Clean, Odd
  <2>3. PICK k \in Nat : k = Count(text, pos, to) /\ k % 4 = 0
    BY <1>1, <1>2, <1>3, <2>1, <2>2, CountAdds
  <2>4. PICK q \in Nat : q = k \div 4 /\ k = 4 * q
    BY <2>3
  <2>5. StdDecode(text, pos, to) = [n |-> 3 * q, err |-> Ok]
    <3>1. ~(e < to)
      BY <1>2, <1>10
    <3> QED
      BY <1>7, <1>10, <2>3, <2>4, <3>1, Zenon DEF StdAnswer
  <2>6. /\ pos' = to /\ count' = count + 3 * q /\ text' = text /\ size' = size /\ failed' = Ok /\ pc' = "again"
        /\ reach' = IF count + 3 * q > reach THEN count + 3 * q ELSE reach
    <3>1. PICK r : r = StdDecode(text, pos, to) /\ r.n = 3 * q /\ r.err = Ok
      BY <2>5
    <3> QED
      BY <1>2, <3>1, Zenon DEF Scalar, Goto
  <2>7. Quanta(text, to, count + 3 * q)
    <3>1. PICK m \in Nat : Count(text, 0, pos) = 4 * m /\ count = 3 * m /\ Clean(text, 0, pos)
      BY DEF Quanta
    <3>2. 0 \in Nat /\ 0 <= pos
      BY <1>1
    <3>3. Count(text, 0, to) = Count(text, 0, pos) + Count(text, pos, to)
      BY <1>1, <1>2, <3>2, CountAdds
    <3>4. Count(text, 0, to) = 4 * (m + q) /\ count + 3 * q = 3 * (m + q) /\ m + q \in Nat
      BY <2>3, <2>4, <3>1, <3>3
    <3>5. \A i \in 0 .. to - 1 : i \in 0 .. pos - 1 \/ i \in pos .. to - 1
      BY <1>1
    <3>6. Clean(text, 0, to)
      BY <2>2, <3>1, <3>5, Zenon DEF Clean
    <3> QED
      BY <3>4, <3>6, Zenon DEF Quanta
  <2>8. count + 3 * q \in Nat /\ count + 3 * q <= StdDecode(text, 0, text.len).n
    BY <1>1, <1>3, <2>7, QuantaSplit
  <2>9. /\ size \in Nat /\ reach \in Nat /\ reach <= size /\ StdDecode(text, 0, text.len).n <= size
        /\ StdDecode(text, 0, text.len).n \in Nat
    BY <1>1, StdFits DEF B64Inv
  <2>10. pos' \in 0 .. text'.len /\ count' \in Nat /\ reach' \in Nat /\ reach' <= size'
    BY <1>3, <2>6, <2>8, <2>9
  <2>11. pc' # "done" /\ pc' \in Labels \cup {"done"}
    BY <2>6 DEF Labels
  <2> QED
    BY <1>1, <2>6, <2>7, <2>9, <2>10, <2>11, Zenon DEF B64Inv
<1> QED
  BY <1>2, <1>6, <1>8, <1>9, <1>10

\* A step of Decode preserves the invariant.
LEMMA B64Step ==
    ASSUME B64Inv, [B64Next]_b64Vars
    PROVE  B64Inv'
<1>1. /\ text \in Texts /\ text.len \in Nat /\ pos \in 0 .. text.len /\ pos \in Nat
      /\ count \in Nat /\ size \in Nat
  BY TextsAssumption DEF B64Inv
<1>2. ASSUME pc # "done" PROVE count <= size
  <2>1. StdDecode(text, 0, text.len).n \in Nat /\ StdDecode(text, 0, text.len).n <= size
    BY <1>1, StdFits DEF B64Inv
  <2>2. CASE Quanta(text, pos, count)
    BY <1>1, <2>1, <2>2, QuantaSplit
  <2>3. CASE Over
    <3>1. StdDecode(text, 0, text.len).n = count
      BY <2>3 DEF Over
    <3> QED
      BY <2>1, <3>1
  <2> QED
    BY <1>2, <2>2, <2>3 DEF B64Inv
<1>3. ASSUME pc \in {"start", "mime", "plain", "small", "fringe"} PROVE pc # "done" /\ Quanta(text, pos, count)
  BY <1>3 DEF B64Inv, Over
<1>4. Skip(pos) \in pos .. text.len /\ \A i \in pos .. Skip(pos) - 1 : ClassOf(text, i) \in {"CR", "LF"}
  BY <1>1, SkipIs DEF Newline, Class
<1>5. PICK q \in Nat : q = Skip(pos) /\ pos <= q /\ q <= text.len
  BY <1>1, <1>4
\* Some quanta of digits behind newlines, and newlines behind those.
<1>6. ASSUME NEW a \in Nat, NEW m \in Nat, NEW y \in Nat, NEW s \in Nat,
             pc # "done", Quanta(text, pos, count), pos <= a, a + 4 * m <= y, y <= text.len,
             \A i \in pos .. a - 1 : ClassOf(text, i) \in {"CR", "LF"},
             \A i \in a .. a + 4 * m - 1 : ClassOf(text, i) = "digit",
             \A i \in a + 4 * m .. y - 1 : ClassOf(text, i) \in {"CR", "LF"},
             Advance(y - pos, 3 * m, s), pc' \in Labels, count + s <= size
      PROVE  B64Inv'
  <2>1. Quanta(text, y, count + 3 * m)
    BY <1>1, <1>6, QuantaGo
  <2>2. y - pos \in Nat /\ pos + (y - pos) = y /\ 3 * m \in Nat
    BY <1>1, <1>6
  <2>3. pos + (y - pos) <= text.len /\ Quanta(text, pos + (y - pos), count + 3 * m)
    BY <1>6, <2>1, <2>2
  <2> QED
    BY <1>6, <2>2, <2>3, AdvanceKeeps
\* Nothing.
<1>7. ASSUME pc # "done", Quanta(text, pos, count), Advance(0, 0, 0), pc' \in Labels PROVE B64Inv'
  <2>1. pos + 0 = pos /\ count + 0 = count /\ 0 \in Nat
    BY <1>1
  <2>2. pos + 0 <= text.len /\ Quanta(text, pos + 0, count + 0) /\ count + 0 <= size
    BY <1>1, <1>2, <1>7, <2>1
  <2> QED
    BY <1>7, <2>1, <2>2, AdvanceKeeps
\* Newlines.
<1>8. ASSUME pc # "done", Quanta(text, pos, count), Advance(Skip(pos) - pos, 0, 0), pc' \in Labels PROVE B64Inv'
  <2>1. /\ 0 \in Nat /\ q + 4 * 0 <= q /\ q .. q + 4 * 0 - 1 = {} /\ q + 4 * 0 .. q - 1 = {}
        /\ 3 * 0 = 0 /\ count + 0 <= size
    BY <1>1, <1>2, <1>5, <1>8
  <2>2. Advance(q - pos, 3 * 0, 0)
    BY <1>5, <1>8, <2>1, Zenon
  <2> QED
    BY <1>4, <1>5, <1>6, <1>8, <2>1, <2>2
<1>9. CASE Short
  BY <1>3, <1>7, <1>9 DEF Short, Goto, Labels
<1>10. CASE Call
  <2>1. CASE Quanta(text, pos, count)
    <3>1. pc # "done" /\ pc' \in Labels /\ (Advance(0, 0, 0) \/ Advance(Skip(pos) - pos, 0, 0))
      BY <1>10 DEF Call, Goto, Labels
    <3> QED
      BY <1>7, <1>8, <2>1, <3>1
  <2>2. CASE ~Quanta(text, pos, count)
    <3>1. pc \in {"start", "again"} /\ pc # "done"
      BY <1>10 DEF Call
    <3>2. Over
      BY <2>2, <3>1 DEF B64Inv
    <3>3. Advance(0, 0, 0) /\ pc' = "suffix"
      <4>1. Left < 16
        BY <1>1, <3>2 DEF Over, Left
      <4> QED
        BY <1>10, <4>1, Zenon DEF Call, Goto
    <3>4. /\ pos' = pos /\ count' = count /\ text' = text /\ size' = size /\ failed' = failed
          /\ reach' = IF count > reach THEN count ELSE reach
      BY <1>1, <3>3 DEF Advance
    <3>5. count <= size /\ reach \in Nat /\ reach <= size
      BY <1>2, <3>1 DEF B64Inv
    <3>6. reach' \in Nat /\ reach' <= size
      BY <1>1, <3>4, <3>5
    <3>7. pc' # "done" /\ pc' \in Labels \cup {"done"} /\ pc' \in {"again", "suffix"}
      BY <3>3 DEF Labels
    <3>8. Over'
      BY <3>2, <3>4, <3>7, Zenon DEF Over
    <3> QED
      BY <3>1, <3>4, <3>6, <3>7, <3>8, Zenon DEF B64Inv
  <2> QED
    BY <2>1, <2>2
<1>11. CASE MimeLine
  <2>1. /\ pc = "mime" /\ pos + 80 <= text.len /\ count + 57 <= size /\ pc' = "mime"
        /\ Advance(MimeStep, 57, 57)
    BY <1>1, <1>11 DEF MimeLine, MimeFits, Left, Room, Goto
  <2>2. \A i \in pos .. pos + 4 * 19 - 1 : ClassOf(text, i) = "digit"
    BY <1>1, <1>11 DEF MimeLine, MimeFits, AllDigits, Class
  <2>3. PICK y \in Nat : /\ y - pos = MimeStep /\ pos + 4 * 19 <= y /\ y <= text.len
                         /\ \A i \in pos + 4 * 19 .. y - 1 : ClassOf(text, i) \in {"CR", "LF"}
    <3>1. ClassOf(text, pos + 76) \in {"CR", "LF"}
      BY <1>11 DEF MimeLine, MimeFits, Newline, Class
    <3>2. CASE ClassOf(text, pos + 76) = "CR" /\ ClassOf(text, pos + 77) = "LF"
      <4>1. MimeStep = 78
        BY <3>2 DEF MimeStep, Class
      <4>2. pos + 78 \in Nat /\ (pos + 78) - pos = 78 /\ pos + 4 * 19 <= pos + 78 /\ pos + 78 <= text.len
        BY <1>1, <2>1
      <4>3. \A i \in pos + 4 * 19 .. (pos + 78) - 1 : i = pos + 76 \/ i = pos + 77
        BY <1>1
      <4>4. \A i \in pos + 4 * 19 .. (pos + 78) - 1 : ClassOf(text, i) \in {"CR", "LF"}
        BY <3>1, <3>2, <4>3
      <4> QED
        BY <4>1, <4>2, <4>4, Zenon
    <3>3. CASE ~(ClassOf(text, pos + 76) = "CR" /\ ClassOf(text, pos + 77) = "LF")
      <4>1. MimeStep = 77
        BY <3>3 DEF MimeStep, Class
      <4>2. pos + 77 \in Nat /\ (pos + 77) - pos = 77 /\ pos + 4 * 19 <= pos + 77 /\ pos + 77 <= text.len
        BY <1>1, <2>1
      <4>3. \A i \in pos + 4 * 19 .. (pos + 77) - 1 : i = pos + 76
        BY <1>1
      <4>4. \A i \in pos + 4 * 19 .. (pos + 77) - 1 : ClassOf(text, i) \in {"CR", "LF"}
        BY <3>1, <4>3
      <4> QED
        BY <4>1, <4>2, <4>4, Zenon
    <3> QED
      BY <3>2, <3>3
  <2>4. Advance(y - pos, 3 * 19, 57)
    <3>1. 3 * 19 = 57
      OBVIOUS
    <3> QED
      BY <2>1, <2>3, <3>1, Zenon
  <2>5. pos .. pos - 1 = {} /\ pos <= pos /\ 19 \in Nat /\ 57 \in Nat /\ pc' \in Labels
    BY <1>1, <2>1 DEF Labels
  <2>6. pc # "done" /\ Quanta(text, pos, count)
    BY <1>3, <2>1
  <2> QED
    BY <1>1, <1>6, <2>1, <2>2, <2>3, <2>4, <2>5, <2>6
<1>12. CASE MimeEnds
  BY <1>3, <1>7, <1>12 DEF MimeEnds, Goto, Labels
<1>13. CASE PlainNewlines
  BY <1>3, <1>8, <1>13 DEF PlainNewlines, Goto, Labels
<1>14. CASE PlainBlock
  <2>1. /\ pc = "plain" /\ pos + 64 <= text.len /\ count + 52 <= size /\ pc' = "plain"
        /\ Advance(64, 48, 52)
    BY <1>1, <1>14 DEF PlainBlock, PlainFits, Left, Room, Goto
  <2>2. \A i \in pos .. pos + 4 * 16 - 1 : ClassOf(text, i) = "digit"
    BY <1>1, <1>14 DEF PlainBlock, AllDigits, Class
  <2>3. PICK y \in Nat : y = pos + 64 /\ y - pos = 64 /\ pos + 4 * 16 <= y /\ y <= text.len /\ pos + 4 * 16 .. y - 1 = {}
    BY <1>1, <2>1
  <2>4. Advance(y - pos, 3 * 16, 52)
    <3>1. 3 * 16 = 48
      OBVIOUS
    <3> QED
      BY <2>1, <2>3, <3>1, Zenon
  <2>5. pos .. pos - 1 = {} /\ pos <= pos /\ 16 \in Nat /\ 52 \in Nat /\ pc' \in Labels
    BY <1>1, <2>1 DEF Labels
  <2>6. pc # "done" /\ Quanta(text, pos, count)
    BY <1>3, <2>1
  <2>7. \A i \in pos + 4 * 16 .. y - 1 : ClassOf(text, i) \in {"CR", "LF"}
    BY <2>3, Zenon
  <2>8. pos + 4 * 16 <= y /\ y <= text.len /\ count + 52 <= size
    BY <2>1, <2>3
  <2> QED
    BY <1>1, <1>6, <2>2, <2>4, <2>5, <2>6, <2>7, <2>8
<1>15. CASE PlainEnds
  BY <1>3, <1>7, <1>15 DEF PlainEnds, Goto, Labels
\* The quanta that one vector has.
<1>16. ASSUME NEW m \in 1 .. 4, NEW s \in 0 .. 16, pc = "small", SmallFits(Skip(pos)), AllDigits(Skip(pos), 4 * m),
              Advance(Skip(pos) + 4 * m - pos, 3 * m, s), pc' = "small"
       PROVE  B64Inv'
  <2>1. q + 16 <= text.len /\ count + 16 <= size
    BY <1>1, <1>5, <1>16 DEF SmallFits, Room
  <2>2. \A i \in q .. q + 4 * m - 1 : ClassOf(text, i) = "digit"
    BY <1>5, <1>16 DEF AllDigits, Class
  <2>3. PICK y \in Nat : y = q + 4 * m /\ q + 4 * m <= y /\ y <= text.len /\ q + 4 * m .. y - 1 = {}
    BY <1>1, <1>5, <2>1
  <2>4. Advance(y - pos, 3 * m, s)
    <3>1. y - pos = Skip(pos) + 4 * m - pos
      BY <1>1, <1>5, <2>3
    <3> QED
      BY <1>16, <3>1, Zenon
  <2>5. count + s <= size /\ m \in Nat /\ s \in Nat /\ pc' \in Labels
    BY <1>1, <1>16, <2>1 DEF Labels
  <2>6. pc # "done" /\ Quanta(text, pos, count)
    BY <1>3, <1>16
  <2> QED
    BY <1>4, <1>5, <1>6, <2>2, <2>3, <2>4, <2>5, <2>6
<1>17. CASE SmallVector
  <2>1. 4 \in 1 .. 4 /\ 16 \in 0 .. 16 /\ 4 * 4 = 16 /\ 3 * 4 = 12
    OBVIOUS
  <2>2. /\ pc = "small" /\ SmallFits(Skip(pos)) /\ AllDigits(Skip(pos), 16)
        /\ Advance(Skip(pos) + 16 - pos, 12, 16) /\ pc' = "small"
    BY <1>17, Zenon DEF SmallVector, Goto
  <2>3. AllDigits(Skip(pos), 4 * 4) /\ Advance(Skip(pos) + 4 * 4 - pos, 3 * 4, 16)
    BY <2>1, <2>2, Zenon
  <2> QED
    BY <1>16, <2>1, <2>2, <2>3
<1>18. CASE SmallPartial
  <2>1. PICK d \in {4, 8, 12} : /\ pc = "small" /\ SmallFits(Skip(pos)) /\ AllDigits(Skip(pos), d) /\ pc' = "small"
                                /\ Advance(Skip(pos) + d - pos, 3 * (d \div 4), 3 * (d \div 4))
    BY <1>18, Zenon DEF SmallPartial, Goto
  <2>2. PICK m \in 1 .. 4 : d = 4 * m /\ m = d \div 4 /\ 3 * m \in 0 .. 16
    BY <2>1
  <2>3. AllDigits(Skip(pos), 4 * m) /\ Advance(Skip(pos) + 4 * m - pos, 3 * m, 3 * m)
    BY <2>1, <2>2, Zenon
  <2> QED
    BY <1>16, <2>1, <2>2, <2>3
<1>19. CASE SmallEnds
  BY <1>3, <1>8, <1>19 DEF SmallEnds, Goto, Labels
<1>20. CASE Fringe
  <2>1. pc = "fringe" /\ ~NeedsSuffix /\ Scalar(QuantaEnd, "again")
    BY <1>20 DEF Fringe
  <2>2. Quanta(text, pos, count)
    BY <1>3, <2>1
  <2> QED
    BY <2>1, <2>2, FringeKeeps
<1>21. CASE FringeIsSuffix
  BY <1>3, <1>7, <1>21 DEF FringeIsSuffix, Goto, Labels
<1>22. CASE DecodeSuffix
  <2>1. pc = "suffix" /\ Scalar(text.len, "done") /\ text.len \in 0 .. text.len /\ "done" # "again"
    BY <1>1, <1>22 DEF DecodeSuffix
  <2>2. CASE Quanta(text, pos, count)
    <3>1. PICK a \in Nat, d \in Int : /\ StdDecode(text, pos, text.len) = [n |-> a, err |-> d]
                                      /\ StdDecode(text, 0, text.len) = [n |-> count + a, err |-> d]
      BY <1>1, <2>2, QuantaSplit
    <3> QED
      BY <2>1, <3>1, ScalarKeeps
  <2>3. CASE ~Quanta(text, pos, count)
    <3>1. Over
      BY <2>1, <2>3 DEF B64Inv
    <3>2. pos = text.len /\ StdDecode(text, 0, text.len) = [n |-> count, err |-> Ok]
      BY <3>1 DEF Over
    <3>3. StdDecode(text, pos, text.len) = [n |-> 0, err |-> Ok]
      <4>1. PICK e : e = StdEnd(text, pos, text.len) /\ StopsAt(text, pos, text.len, e)
        BY <1>1, StdEndIs
      <4>2. e = text.len
        BY <1>1, <3>2, <4>1 DEF StopsAt
      <4>3. ~(e < text.len) /\ Count(text, pos, e) = 0
        BY <1>1, <3>2, <4>2, CountOf
      <4>4. 0 % 4 = 0 /\ 3 * (0 \div 4) = 0
        OBVIOUS
      <4> QED
        BY <4>1, <4>3, <4>4, StdDecodeIs, Zenon DEF StdAnswer
    <3>4. count + 0 = count /\ 0 \in Nat /\ Ok \in Int
      BY <1>1 DEF Ok
    <3>5. StdDecode(text, 0, text.len) = [n |-> count + 0, err |-> Ok]
      BY <3>2, <3>4, Zenon
    <3> QED
      BY <2>1, <3>3, <3>4, <3>5, ScalarKeeps
  <2> QED
    BY <2>2, <2>3
<1>23. CASE UNCHANGED b64Vars
  BY <1>23, Zenon DEF b64Vars, B64Inv, Over
<1> QED
  BY <1>9, <1>10, <1>11, <1>12, <1>13, <1>14, <1>15, <1>17, <1>18, <1>19, <1>20, <1>21, <1>22, <1>23
  DEF B64Next

\* Whatever way through vectors, lines and fringes an input takes, Decode returns
\* what one call of encoding/base64 returns, and stores nothing behind dst.
THEOREM DecodesAsStd == B64Spec => []DecodeAsStd
<1>1. B64Init => B64Inv
  <2> SUFFICES ASSUME B64Init PROVE B64Inv
    OBVIOUS
  <2>1. text \in Texts /\ pc = "start" /\ pos = 0 /\ count = 0 /\ reach = 0 /\ failed = Ok
    BY DEF B64Init
  <2>2. size \in Nat /\ StdDecode(text, 0, text.len).n <= size
    BY <2>1, StdFits DEF B64Init
  <2>3. pos \in 0 .. text.len /\ count \in Nat /\ reach \in Nat /\ reach <= size
    BY <2>1, <2>2, TextsAssumption
  <2>4. Quanta(text, 0, 0)
    <3>1. 0 .. 0 - 1 = {} /\ 0 - 0 = 0 /\ 4 * 0 = 0 /\ 3 * 0 = 0 /\ 0 \in Nat /\ 0 <= 0
      OBVIOUS
    <3>2. Count(text, 0, 0) = 0
      BY <3>1, CountOf
    <3> QED
      BY <3>1, <3>2, Zenon DEF Quanta, Clean
  <2>5. pc # "done" /\ pc \in Labels \cup {"done"}
    BY <2>1 DEF Labels
  <2> QED
    BY <2>1, <2>2, <2>3, <2>4, <2>5, Zenon DEF B64Inv
<1>2. B64Inv => DecodeAsStd
  <2> SUFFICES ASSUME B64Inv PROVE DecodeAsStd
    OBVIOUS
  <2> QED
    BY Zenon DEF B64Inv, DecodeAsStd
<1>3. B64Inv /\ [B64Next]_b64Vars => B64Inv'
  BY B64Step
<1> QED
  BY <1>1, <1>2, <1>3, PTL DEF B64Spec

=============================================================================
