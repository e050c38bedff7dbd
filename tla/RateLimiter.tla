----------------------------- MODULE RateLimiter -----------------------------
(***************************************************************************)
(* The sliding-window limiter of server/app/core/ratelimit.py, which       *)
(* stands in front of registration, login, refresh, SOS creation and every *)
(* admin endpoint.  One limiter of one scope in one server process; a key  *)
(* is what the client's address is taken to be.                            *)
(***************************************************************************)
EXTENDS Integers, Sequences, FiniteSets

CONSTANTS
    Addresses,      \* client addresses
    NoAddress,      \* a header or a peer that is not there
    UnknownAddress, \* the key of a request with neither
    MaxRequests,    \* requests accepted per window
    WindowTicks,    \* length of the window
    MaxTrackedKeys, \* keys kept before stale ones are pruned
    MaxClock,       \* bound: ticks in a behaviour
    MaxAccepted     \* bound: requests accepted of one key in a process

ASSUME LimiterAssumption ==
    /\ MaxRequests \in Nat \ {0}
    /\ WindowTicks \in Nat \ {0}
    /\ MaxTrackedKeys \in Nat
    /\ NoAddress \notin Addresses
    /\ UnknownAddress \notin Addresses \cup {NoAddress}

VARIABLES
    clock,          \* time.monotonic()
    hits,           \* _hits: a deque of times per tracked key
    accepted,       \* history: the times of every request accepted, per key
    verdict         \* history: the last request decided

limiterVars == <<clock, hits, accepted, verdict>>

Keys == Addresses \cup {UnknownAddress}
Times == Seq(Nat)

LimiterTypeOK ==
    /\ clock \in Nat
    /\ DOMAIN hits \subseteq Keys
    /\ \A k \in DOMAIN hits : hits[k] \in Times
    /\ accepted \in [Keys -> Times]
    /\ verdict \in [key : Keys \cup {NoAddress}, ok : BOOLEAN, at : Nat]

LimiterInit ==
    /\ clock = 0
    /\ hits = <<>>
    /\ accepted = [k \in Keys |-> <<>>]
    /\ verdict = [key |-> NoAddress, ok |-> TRUE, at |-> 0]

\* The first address of the forwarding header, else the peer's.
ClientKey(forwarded, peer) ==
    IF forwarded # NoAddress THEN forwarded
    ELSE IF peer # NoAddress THEN peer ELSE UnknownAddress

Stale(t) == t <= clock - WindowTicks

\* h without the n oldest times: all of those are stale, the next one is not.
LeaveFresh(h, n) ==
    /\ \A i \in 1..n : Stale(h[i])
    /\ n < Len(h) => ~ Stale(h[n + 1])

Tracked(k) == IF k \in DOMAIN hits THEN hits[k] ELSE <<>>
With(k, h) == [x \in DOMAIN hits \cup {k} |-> IF x = k THEN h ELSE hits[x]]

PruneAll(table) == <<>>
\* Past the limit on keys, those without a fresh time are forgotten.
Prune(table) ==
    IF Cardinality(DOMAIN table) > MaxTrackedKeys
    THEN [k \in {x \in DOMAIN table :
                    table[x] # <<>> /\ ~ Stale(table[x][Len(table[x])])} |-> table[k]]
    ELSE table

\* SlidingWindowLimiter.check, which no other request of the process interrupts.
CheckLimit(k) ==
    \E n \in 0..Len(Tracked(k)) :
        LET kept == SubSeq(Tracked(k), n + 1, Len(Tracked(k)))
            ok   == Len(kept) < MaxRequests
        IN  /\ LeaveFresh(Tracked(k), n)
            /\ ok => Len(accepted[k]) < MaxAccepted
            /\ hits' = IF ok THEN Prune(With(k, Append(kept, clock)))
                             ELSE With(k, kept)
            /\ accepted' = IF ok THEN [accepted EXCEPT ![k] = Append(@, clock)] ELSE accepted
            /\ verdict' = [key |-> k, ok |-> ok, at |-> clock]
            /\ UNCHANGED clock

\* The rate_limit dependency of an endpoint, on a request.
RateLimitedRequest ==
    \E forwarded, peer \in Addresses \cup {NoAddress} : CheckLimit(ClientKey(forwarded, peer))

TimePasses ==
    /\ clock < MaxClock
    /\ clock' = clock + 1
    /\ UNCHANGED <<hits, accepted, verdict>>

\* The windows live in the process: "each app gets a fresh one".
LimiterRestart ==
    /\ hits # <<>>
    /\ hits' = <<>>
    /\ accepted' = [k \in Keys |-> <<>>]
    /\ verdict' = [key |-> NoAddress, ok |-> TRUE, at |-> clock]
    /\ UNCHANGED clock

LimiterNext == RateLimitedRequest \/ TimePasses \/ LimiterRestart
LimiterSpec == LimiterInit /\ [][LimiterNext]_limiterVars

-----------------------------------------------------------------------------
\* In no window are more than MaxRequests requests of a key accepted, wherever
\* the window begins: a request and the MaxRequests-th before it are a window
\* apart, whatever was popped, pruned or refused between them.
WindowHolds ==
    \A k \in Keys : \A j \in DOMAIN accepted[k] :
        j > MaxRequests => accepted[k][j] - accepted[k][j - MaxRequests] >= WindowTicks

AcceptedSince(k, t) == {i \in DOMAIN accepted[k] : accepted[k][i] > t}

\* A request is refused only to a client that has had MaxRequests requests
\* accepted within the window: refused requests do not count against it.
RefusedOnlyWhenFull ==
    (~ verdict.ok) =>
        Cardinality(AcceptedSince(verdict.key, verdict.at - WindowTicks)) >= MaxRequests

\* The table outgrows its limit only by clients heard of within the window
\* before the last request that was accepted: no idle client is kept past it.
OnlyFreshPastTheLimit ==
    (Cardinality(DOMAIN hits) > MaxTrackedKeys /\ verdict.ok) =>
        \A k \in DOMAIN hits : AcceptedSince(k, verdict.at - WindowTicks) # {}

=============================================================================
