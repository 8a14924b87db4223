----------------------------- MODULE RateLimiter -----------------------------
(***************************************************************************)
(* The sliding-window limiter every route passes first (rate-limit.ts,     *)
(* guardRateLimit of http.ts).  Time passes in ticks; a key is what        *)
(* clientIp makes of a request: a client behind the trusted proxies, or    *)
(* the one shared bucket.  A refusal (429) counts for nothing.             *)
(*                                                                         *)
(* A hit is a counted request: its time, and a number that tells it from   *)
(* the others of its key; the order of a bucket's hits decides nothing.    *)
(***************************************************************************)
EXTENDS Integers, FiniteSets

CONSTANTS
    Keys,        \* client identities
    RateMax,     \* RATE_LIMIT_MAX
    RateWindow,  \* RATE_LIMIT_WINDOW_MS, in ticks
    MaxTracked,  \* MAX_TRACKED_KEYS
    MaxTime      \* bound: ticks

ASSUME LimiterAssumption ==
    /\ RateMax \in Nat \ {0} /\ RateWindow \in Nat \ {0}
    /\ MaxTracked \in Nat /\ MaxTime \in Nat

VARIABLES
    now,       \* the clock
    buckets,   \* the counted hits of a key; {} is no bucket
    accepted   \* the hits of all accepted requests of a key (history)

InWindow(hit) == hit.at > now - RateWindow

\* Mutant: a bucket goes as soon as one of its hits has left the window.
sweepSome(b) ==
    [k \in Keys |->
        IF \E hit \in b[k] : ~InWindow(hit) THEN {} ELSE b[k]]

\* Drop the buckets that are entirely outside the window.
sweepExpired(b) ==
    [k \in Keys |->
        IF \A hit \in b[k] : ~InWindow(hit) THEN {} ELSE b[k]]

Swept(b) ==
    IF Cardinality({k \in Keys : b[k] # {}}) > MaxTracked
    THEN sweepExpired(b) ELSE b

\* The hits of a key that still count; they are read before the sweep.
Hits(k) == {hit \in buckets[k] : InWindow(hit)}

\* A request of k is let through.
rateLimit(k) ==
    /\ Cardinality(Hits(k)) < RateMax
    /\ LET hit == [at |-> now, nr |-> Cardinality(accepted[k]) + 1] IN
       /\ buckets' = [Swept(buckets) EXCEPT ![k] = Hits(k) \cup {hit}]
       /\ accepted' = [accepted EXCEPT ![k] = @ \cup {hit}]
    /\ UNCHANGED now

\* A refused request: it may sweep, too.
rateLimited(k) ==
    /\ Cardinality(Hits(k)) >= RateMax
    /\ buckets' = Swept(buckets)
    /\ UNCHANGED <<now, accepted>>

LimiterInit ==
    /\ now = 0
    /\ buckets = [k \in Keys |-> {}]
    /\ accepted = [k \in Keys |-> {}]

\* The counts live in the memory of one process.
LimiterForgets ==
    /\ buckets' = [k \in Keys |-> {}]
    /\ accepted' = [k \in Keys |-> {}]

\* Within one life of the process no window of the configured length, wherever
\* it starts, sees more than RateMax accepted requests of a key, whichever
\* buckets were swept meanwhile (rate-limit.ts:24-53).
WindowBound ==
    \A k \in Keys, t \in 0..MaxTime :
        LET inside == {hit \in accepted[k] : hit.at \in t..(t + RateWindow - 1)}
        IN Cardinality(inside) <= RateMax
=============================================================================
