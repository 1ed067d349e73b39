----------------------------- MODULE HitCounter -----------------------------
(***************************************************************************)
(* The counter behind every rate limit (lib/rate-limit-core.js, with       *)
(* clientKey and createRateLimiter of lib/middleware.js): fixed windows    *)
(* per client in a Map of bounded size. The Map keeps the order of         *)
(* insertion, which an update does not change.                             *)
(***************************************************************************)
EXTENDS Naturals, Sequences, FiniteSets, SequencesExt

CONSTANTS
    Address,      \* addresses of clients: [family, net, host]
    MaxRequests,  \* hits a window admits
    Window,       \* windowMs
    MaxBuckets,   \* MAX_RATE_LIMIT_BUCKETS
    LastMoment    \* bound: the clock

\* A 4-byte address may arrive as itself or mapped into IPv6; of an IPv6
\* address the first four groups are the net and the rest the host.
ASSUME HitAssumption ==
    /\ \A a \in Address : DOMAIN a = {"family", "net", "host"} /\ a.family \in {"v4", "mapped", "v6"}
    /\ {MaxRequests, Window, MaxBuckets, LastMoment} \subseteq Nat \ {0}

VARIABLES
    buckets,  \* the Map: [key, count, resetAt] in the order of insertion
    moment    \* the clock

hitVars == <<buckets, moment>>

\* keyForAddress, after clientAddress: a mapped address is the IPv4 address, an
\* IPv6 address its /64.
keyForAddress(a) ==
    IF a.family = "v6" THEN <<"v6", a.net>> ELSE <<"v4", a.net, a.host>>

Bucket == [key : {keyForAddress(a) : a \in Address}, count : Nat, resetAt : Nat]
Locked(b) == b.count > MaxRequests /\ b.resetAt > moment

HitInit == buckets = <<>> /\ moment = 0

------------------------------------------------------------------------------
\* evictOne: the oldest bucket that is not locked, or, when all are, the one
\* that is free soonest, the oldest of them on a tie.
\* Mutants: nothing is dropped; the oldest bucket is.
evictNone(table) == table
evictOldest(table) == RemoveAt(table, 1)

evictOne(table) ==
    LET open == {i \in DOMAIN table : ~Locked(table[i])}
        FirstOf(S) == CHOOSE i \in S : \A j \in S : i <= j
        soonest == {i \in DOMAIN table : \A j \in DOMAIN table : table[i].resetAt <= table[j].resetAt}
    IN  RemoveAt(table, FirstOf(IF open # {} THEN open ELSE soonest))

\* hit(key): a bucket whose window has passed starts again in its place.
hit(key) ==
    LET fresh == [key |-> key, count |-> 1, resetAt |-> moment + Window]
        at == {i \in DOMAIN buckets : buckets[i].key = key}
    IN  buckets' =
          IF at = {}
          THEN Append(IF Len(buckets) >= MaxBuckets THEN evictOne(buckets) ELSE buckets, fresh)
          ELSE [i \in DOMAIN buckets |->
                  IF i \notin at THEN buckets[i]
                  ELSE IF buckets[i].resetAt <= moment THEN fresh
                  ELSE [buckets[i] EXCEPT !.count = @ + 1]]

\* A request of the client at an address. Bound: a locked bucket is not
\* counted any further.
Request(a) ==
    /\ \A b \in Range(buckets) : b.key = keyForAddress(a) => b.count <= MaxRequests + 1
    /\ hit(keyForAddress(a))
    /\ UNCHANGED moment

\* The first i buckets without those whose window has passed.
kept[i \in 0..Len(buckets)] ==
    IF i = 0 THEN <<>>
    ELSE IF buckets[i].resetAt > moment THEN Append(kept[i - 1], buckets[i])
    ELSE kept[i - 1]

\* The timer that drops the buckets of windows that have passed.
Sweep ==
    /\ buckets' = kept[Len(buckets)]
    /\ buckets' # buckets
    /\ UNCHANGED moment

MomentPasses == moment < LastMoment /\ moment' = moment + 1 /\ UNCHANGED buckets

HitNext == (\E a \in Address : Request(a)) \/ Sweep \/ MomentPasses

HitSpec == HitInit /\ [][HitNext]_hitVars

------------------------------------------------------------------------------
HitTypeOK ==
    /\ buckets \in Seq(Bucket) /\ Len(buckets) <= MaxBuckets
    /\ moment \in 0..LastMoment

\* No two addresses of one client: the same IPv4 address in either notation,
\* or two hosts of one IPv6 /64.
SameClient(a, b) ==
    /\ a.net = b.net
    /\ (a.family = "v6") = (b.family = "v6")
    /\ a.family = "v6" \/ a.host = b.host

BucketOf(a, table) == {b \in Range(table) : b.key = keyForAddress(a)}

\* A client that is over its limit stays locked until its window has passed,
\* from whatever address of its own it calls and whoever else calls: it is
\* forgotten only when every bucket of a full table is locked and its own is
\* free soonest (evictOne in lib/rate-limit-core.js).
LockoutKept ==
    [][\A b \in Range(buckets) : \A a, again \in Address :
         /\ Locked(b) /\ b.key = keyForAddress(a) /\ SameClient(a, again)
         /\ moment' < b.resetAt
         => \/ \E c \in BucketOf(again, buckets') : c.count >= b.count /\ c.resetAt = b.resetAt
            \/ /\ Len(buckets) = MaxBuckets
               /\ \A c \in Range(buckets) : Locked(c) /\ b.resetAt <= c.resetAt]_hitVars
==============================================================================
