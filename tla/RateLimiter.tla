---------------------------- MODULE RateLimiter ----------------------------
(***************************************************************************)
(* The rate limit of POST /api/auth/register and /login                    *)
(* (internal/api/ratelimit.go): a lazily refilled token bucket per client  *)
(* IP in a map, and a goroutine that sweeps idle buckets out of the map.   *)
(* Both work under one mutex; the sweeper reads the clock before it takes  *)
(* the mutex.                                                              *)
(*                                                                         *)
(* Time is counted in ticks and tokens in the units that one tick refills, *)
(* so that one request costs Cost units (authRefillPerSec: one second's    *)
(* worth) and a bucket holds Cap of them (authBurst requests).  With a     *)
(* tick of a nanosecond these are the code's durations; the rounding of    *)
(* its float64 arithmetic is not modelled.                                 *)
(***************************************************************************)
EXTENDS Integers

CONSTANTS
    IPs,
    Cap,        \* authBurst
    Cost,       \* one request, 1 / authRefillPerSec
    IdleTTL,    \* limiterIdleTTL
    MaxTime     \* the horizon of the model

\* An idle bucket is swept only when it would have filled up anyway: ten
\* minutes against the five seconds five requests take to refill.
ASSUME LimitAssumption ==
    /\ Cap \in Nat /\ Cost \in Nat /\ IdleTTL \in Nat /\ MaxTime \in Nat
    /\ 0 < Cost /\ Cost <= Cap
    /\ Cap <= IdleTTL

VARIABLES
    now,        \* the monotonic clock
    buckets,    \* the IPs that have an entry in the map
    tokens,     \* tokenBucket.tokens
    lastSeen,   \* tokenBucket.lastSeen
    sweeper,    \* "idle", or "waiting" for the mutex
    cutoff,     \* the cutoff the waiting sweeper has computed
    verdict,    \* what allow returned last
    start,      \* an observer's window starts at any time it likes:
    spent       \* what the requests allowed since then have cost

vars == <<now, buckets, tokens, lastSeen, sweeper, cutoff, verdict, start, spent>>

TypeOK ==
    /\ now \in 0 .. MaxTime
    /\ buckets \subseteq IPs
    /\ tokens \in [IPs -> 0 .. Cap]
    /\ lastSeen \in [IPs -> 0 .. MaxTime]
    /\ sweeper \in {"idle", "waiting"}
    /\ cutoff \in Int
    /\ verdict \in [IPs -> {"none", "allowed", "denied"}]
    /\ start \in 0 .. MaxTime
    /\ spent \in [IPs -> Nat]

Init ==
    /\ now = 0
    /\ buckets = {}
    /\ tokens = [ip \in IPs |-> 0]
    /\ lastSeen = [ip \in IPs |-> 0]
    /\ sweeper = "idle"
    /\ cutoff = 0
    /\ verdict = [ip \in IPs |-> "none"]
    /\ start = 0
    /\ spent = [ip \in IPs |-> 0]

Tick ==
    /\ now < MaxTime
    /\ now' = now + 1
    /\ UNCHANGED <<buckets, tokens, lastSeen, sweeper, cutoff, verdict, start, spent>>

Capped(n) == IF n > Cap THEN Cap ELSE n

\* Mutant: the refill is not capped.
LevelUncapped(ip) ==
    IF ip \in buckets THEN tokens[ip] + (now - lastSeen[ip]) ELSE Cap

\* The tokens allow works with: a new bucket is full, an old one is refilled
\* for the time since it was last seen.
Level(ip) ==
    IF ip \in buckets THEN Capped(tokens[ip] + (now - lastSeen[ip])) ELSE Cap

\* Mutant: lastSeen is set only when a request is allowed, so a denied one is
\* refilled for the same time again.
AllowKeepsLastSeen(ip) ==
    /\ buckets' = buckets \cup {ip}
    /\ \/ /\ Level(ip) >= Cost
          /\ tokens' = [tokens EXCEPT ![ip] = Level(ip) - Cost]
          /\ lastSeen' = [lastSeen EXCEPT ![ip] = now]
          /\ verdict' = [verdict EXCEPT ![ip] = "allowed"]
          /\ spent' = [spent EXCEPT ![ip] = @ + Cost]
       \/ /\ Level(ip) < Cost
          /\ tokens' = [tokens EXCEPT ![ip] = Level(ip)]
          /\ verdict' = [verdict EXCEPT ![ip] = "denied"]
          /\ UNCHANGED <<lastSeen, spent>>
    /\ UNCHANGED <<now, sweeper, cutoff, start>>

\* allow(ip), all of it under the mutex.
Allow(ip) ==
    /\ buckets' = buckets \cup {ip}
    /\ lastSeen' = [lastSeen EXCEPT ![ip] = now]
    /\ \/ /\ Level(ip) >= Cost
          /\ tokens' = [tokens EXCEPT ![ip] = Level(ip) - Cost]
          /\ verdict' = [verdict EXCEPT ![ip] = "allowed"]
          /\ spent' = [spent EXCEPT ![ip] = @ + Cost]
       \/ /\ Level(ip) < Cost
          /\ tokens' = [tokens EXCEPT ![ip] = Level(ip)]
          /\ verdict' = [verdict EXCEPT ![ip] = "denied"]
          /\ UNCHANGED spent
    /\ UNCHANGED <<now, sweeper, cutoff, start>>

\* Mutant: the cutoff is the present.
SweepTickNow ==
    /\ sweeper = "idle"
    /\ sweeper' = "waiting"
    /\ cutoff' = now
    /\ UNCHANGED <<now, buckets, tokens, lastSeen, verdict, start, spent>>

\* The ticker fires, sooner or later; the clock is read, the mutex not yet held.
SweepTick ==
    /\ sweeper = "idle"
    /\ sweeper' = "waiting"
    /\ cutoff' = now - IdleTTL
    /\ UNCHANGED <<now, buckets, tokens, lastSeen, verdict, start, spent>>

\* Mutant: only a bucket idle for good is swept.
SweepNothing ==
    /\ sweeper = "waiting"
    /\ sweeper' = "idle"
    /\ cutoff' = 0
    /\ UNCHANGED <<now, buckets, tokens, lastSeen, verdict, start, spent>>

Sweep ==
    /\ sweeper = "waiting"
    /\ buckets' = {ip \in buckets : lastSeen[ip] >= cutoff}
    /\ sweeper' = "idle"
    /\ cutoff' = 0
    /\ UNCHANGED <<now, tokens, lastSeen, verdict, start, spent>>

\* The observer opens a new window.
Observe ==
    /\ start' = now
    /\ spent' = [ip \in IPs |-> 0]
    /\ UNCHANGED <<now, buckets, tokens, lastSeen, sweeper, cutoff, verdict>>

Next == Tick \/ (\E ip \in IPs : Allow(ip)) \/ SweepTick \/ Sweep \/ Observe

Spec == Init /\ [][Next]_vars

\* The ticker keeps firing and the mutex is never held for long.
FairSpec == Spec /\ WF_vars(SweepTick) /\ WF_vars(Sweep)

-----------------------------------------------------------------------------
(* Properties                                                               *)

\* In any window of time an IP is allowed at most the burst plus what is
\* refilled in the window, whatever the sweeper has forgotten meanwhile.
RateBound == \A ip \in IPs : spent[ip] <= Cap + (now - start)

Bucket == INSTANCE TokenBucket WITH level <- [ip \in IPs |-> Level(ip)]

\* Lazy refilling and sweeping cannot be noticed: every answer is the one a
\* bucket would give that is refilled at every tick and never forgotten.
RefinesTokenBucket == Bucket!Spec

\* An idle IP's entry is removed from the map, unless the IP comes back.
IdleBucketsSwept ==
    \A ip \in IPs :
        ip \in buckets /\ now - lastSeen[ip] > IdleTTL
        ~> ip \notin buckets \/ now - lastSeen[ip] <= IdleTTL

-----------------------------------------------------------------------------
(* The inductive invariant                                                  *)

\* A cutoff the sweeper holds is old, and only gets older while it waits.
CutoffOld == sweeper = "waiting" => cutoff <= now - IdleTTL

\* What an IP has spent in the window and what it may still spend are paid for.
Paid == \A ip \in IPs : spent[ip] + Level(ip) <= Cap + (now - start)

LimiterInv ==
    /\ \A ip \in IPs : lastSeen[ip] <= now
    /\ start <= now
    /\ CutoffOld
    /\ Paid
=============================================================================
