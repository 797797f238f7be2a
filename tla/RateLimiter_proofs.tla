------------------------ MODULE RateLimiter_proofs -------------------------
(***************************************************************************)
(* Theorems about RateLimiter, for any burst, cost, TTL (at least the time *)
(* a bucket takes to fill) and horizon.                                    *)
(***************************************************************************)
EXTENDS RateLimiter, TLAPS

IInv == TypeOK /\ LimiterInv

LEMMA LevelType ==
    ASSUME TypeOK, LimiterInv, NEW ip \in IPs
    PROVE  Level(ip) \in 0 .. Cap
<1>1. /\ now \in Nat /\ lastSeen[ip] \in Nat /\ lastSeen[ip] <= now
      /\ tokens[ip] \in 0 .. Cap
  BY LimitAssumption DEF TypeOK, LimiterInv
<1> QED
  BY <1>1, LimitAssumption DEF Level, Capped

-----------------------------------------------------------------------------
(* What each kind of step does to the level of a bucket                     *)

LEMMA TickLevel ==
    ASSUME TypeOK, LimiterInv, Tick, NEW ip \in IPs
    PROVE  Level(ip)' = IF Level(ip) < Cap THEN Level(ip) + 1 ELSE Cap
<1>1. /\ now \in Nat /\ lastSeen[ip] \in Nat /\ lastSeen[ip] <= now
      /\ tokens[ip] \in 0 .. Cap
  BY LimitAssumption DEF TypeOK, LimiterInv
<1>2. now' = now + 1 /\ UNCHANGED <<buckets, tokens, lastSeen>>
  BY DEF Tick
<1> QED
  BY <1>1, <1>2, LimitAssumption DEF Level, Capped

LEMMA AllowLevel ==
    ASSUME TypeOK, LimiterInv, NEW ip \in IPs, Allow(ip), NEW other \in IPs
    PROVE  Level(other)' = IF other = ip /\ Level(ip) >= Cost
                           THEN Level(other) - Cost ELSE Level(other)
<1>1. Level(ip) \in 0 .. Cap
  BY LevelType
<1>2. CASE other = ip
  <2>1. /\ ip \in buckets' /\ lastSeen'[ip] = now /\ now' = now
        /\ tokens'[ip] = IF Level(ip) >= Cost THEN Level(ip) - Cost ELSE Level(ip)
    BY <1>1, LimitAssumption DEF Allow, TypeOK
  <2>2. Level(ip)' = Capped(tokens'[ip] + (now' - lastSeen'[ip]))
    BY <2>1 DEF Level
  <2>3. Level(ip)' = Capped(tokens'[ip])
    BY <1>1, <2>1, <2>2, LimitAssumption DEF TypeOK
  <2> QED
    BY <1>1, <1>2, <2>1, <2>3, LimitAssumption DEF Capped
<1>3. CASE other # ip
  <2>1. /\ other \in buckets' <=> other \in buckets
        /\ lastSeen'[other] = lastSeen[other] /\ now' = now
        /\ tokens'[other] = tokens[other]
    BY <1>3 DEF Allow, TypeOK
  <2> QED
    BY <1>3, <2>1 DEF Level
<1> QED
  BY <1>2, <1>3

\* A swept bucket has been idle for so long that it is full.
LEMMA SweepLevel ==
    ASSUME TypeOK, LimiterInv, Sweep, NEW ip \in IPs
    PROVE  Level(ip)' = Level(ip)
<1>1. /\ now \in Nat /\ lastSeen[ip] \in Nat /\ lastSeen[ip] <= now
      /\ tokens[ip] \in 0 .. Cap /\ cutoff \in Int
  BY LimitAssumption DEF TypeOK, LimiterInv
<1>2. /\ ip \in buckets' <=> ip \in buckets /\ lastSeen[ip] >= cutoff
      /\ UNCHANGED <<now, tokens, lastSeen>> /\ cutoff <= now - IdleTTL
  BY DEF Sweep, LimiterInv, CutoffOld
<1>3. CASE ip \in buckets /\ lastSeen[ip] < cutoff
  <2>1. tokens[ip] + (now - lastSeen[ip]) >= Cap
    BY <1>1, <1>2, <1>3, LimitAssumption
  <2>2. Level(ip) = Cap
    BY <1>1, <1>3, <2>1, LimitAssumption DEF Level, Capped
  <2>3. Level(ip)' = Cap
    BY <1>1, <1>2, <1>3 DEF Level
  <2> QED
    BY <2>2, <2>3
<1>4. CASE ~(ip \in buckets /\ lastSeen[ip] < cutoff)
  <2>1. ip \in buckets' <=> ip \in buckets
    BY <1>1, <1>2, <1>4
  <2> QED
    BY <1>2, <2>1 DEF Level
<1> QED
  BY <1>3, <1>4

-----------------------------------------------------------------------------
(* The invariant                                                            *)

LEMMA InitIInv == Init => IInv
BY LimitAssumption DEF Init, IInv, TypeOK, LimiterInv, CutoffOld, Paid, Level

LEMMA NextIInv == IInv /\ [Next]_vars => IInv'
<1> SUFFICES ASSUME TypeOK, LimiterInv, [Next]_vars PROVE TypeOK' /\ LimiterInv'
  BY DEF IInv
<1>0. /\ now \in Nat /\ start \in Nat /\ start <= now
      /\ \A ip \in IPs : /\ Level(ip) \in 0 .. Cap
                         /\ spent[ip] \in Nat
                         /\ spent[ip] + Level(ip) <= Cap + (now - start)
  BY LevelType, LimitAssumption DEF TypeOK, LimiterInv, Paid
<1>1. CASE Tick
  <2>1. TypeOK'
    BY <1>1, LimitAssumption DEF Tick, TypeOK
  <2>2. Paid'
    BY <1>0, <1>1, TickLevel, LimitAssumption DEF Tick, Paid
  <2>3. CutoffOld'
    BY <1>0, <1>1, LimitAssumption DEF Tick, CutoffOld, LimiterInv, TypeOK
  <2>4. (\A ip \in IPs : lastSeen[ip] <= now)' /\ (start <= now)'
    BY <1>0, <1>1, LimitAssumption DEF Tick, LimiterInv, TypeOK
  <2> QED
    BY <2>1, <2>2, <2>3, <2>4 DEF LimiterInv
<1>2. ASSUME NEW ip \in IPs, Allow(ip) PROVE TypeOK' /\ LimiterInv'
  <2>1. TypeOK'
    BY <1>0, <1>2, LimitAssumption DEF Allow, TypeOK
  <2>2. ASSUME NEW other \in IPs
        PROVE  spent'[other] + Level(other)' <= Cap + (now - start)
    <3>1. spent'[other] = IF other = ip /\ Level(ip) >= Cost
                          THEN spent[other] + Cost ELSE spent[other]
      BY <1>0, <1>2, LimitAssumption DEF Allow, TypeOK
    <3>2. Level(other)' = IF other = ip /\ Level(ip) >= Cost
                          THEN Level(other) - Cost ELSE Level(other)
      BY <1>2, AllowLevel
    <3> QED
      BY <1>0, <3>1, <3>2, LimitAssumption
  <2>3. UNCHANGED <<now, sweeper, cutoff, start>>
    BY <1>2 DEF Allow
  <2>4. Paid' /\ CutoffOld'
    BY <2>2, <2>3 DEF Paid, CutoffOld, LimiterInv
  <2>5. (\A other \in IPs : lastSeen[other] <= now)'
    BY <1>0, <1>2, <2>3 DEF Allow, TypeOK, LimiterInv
  <2> QED
    BY <1>0, <2>1, <2>3, <2>4, <2>5 DEF LimiterInv
<1>3. CASE SweepTick
  <2>1. TypeOK'
    BY <1>0, <1>3, LimitAssumption DEF SweepTick, TypeOK
  <2>2. Paid'
    BY <1>3 DEF SweepTick, LimiterInv, Paid, Level
  <2>3. CutoffOld'
    BY <1>0, <1>3, LimitAssumption DEF SweepTick, CutoffOld
  <2> QED
    BY <1>3, <2>1, <2>2, <2>3 DEF SweepTick, LimiterInv
<1>4. CASE Sweep
  <2>1. TypeOK'
    BY <1>4 DEF Sweep, TypeOK
  <2>2. Paid'
    BY <1>4, SweepLevel DEF Sweep, LimiterInv, Paid
  <2>3. CutoffOld'
    BY <1>4 DEF Sweep, CutoffOld
  <2> QED
    BY <1>4, <2>1, <2>2, <2>3 DEF Sweep, LimiterInv
<1>5. CASE Observe
  <2>1. TypeOK'
    BY <1>5 DEF Observe, TypeOK
  <2>2. \A ip \in IPs : spent'[ip] = 0 /\ Level(ip)' = Level(ip)
    BY <1>5 DEF Observe, Level
  <2>3. Paid'
    BY <1>0, <1>5, <2>2, LimitAssumption DEF Observe, Paid
  <2> QED
    BY <1>0, <1>5, <2>1, <2>3 DEF Observe, LimiterInv, CutoffOld
<1>6. CASE UNCHANGED vars
  BY <1>6 DEF vars, TypeOK, LimiterInv, CutoffOld, Paid, Level
<1> QED
  BY <1>1, <1>2, <1>3, <1>4, <1>5, <1>6 DEF Next

LEMMA Invariance == Spec => []IInv
<1>1. Init => IInv
  BY InitIInv
<1>2. IInv /\ [Next]_vars => IInv'
  BY NextIInv
<1> QED
  BY <1>1, <1>2, PTL DEF Spec

\* Every variable keeps its type: a bucket never holds more than the burst.
THEOREM TypeCorrect == Spec => []TypeOK
<1>1. IInv => TypeOK
  BY DEF IInv
<1> QED
  BY <1>1, Invariance, PTL

\* No IP is allowed more than the burst and the refill of any window.
THEOREM RateBounded == Spec => []RateBound
<1>1. IInv => RateBound
  <2> SUFFICES ASSUME TypeOK, LimiterInv, NEW ip \in IPs
               PROVE  spent[ip] <= Cap + (now - start)
    BY DEF IInv, RateBound
  <2>1. Level(ip) \in 0 .. Cap /\ spent[ip] \in Nat /\ now \in Nat /\ start \in Nat
    BY LevelType, LimitAssumption DEF TypeOK
  <2>2. spent[ip] + Level(ip) <= Cap + (now - start)
    BY DEF LimiterInv, Paid
  <2> QED
    BY <2>1, <2>2, LimitAssumption
<1> QED
  BY <1>1, Invariance, PTL

-----------------------------------------------------------------------------
(* Refinement                                                               *)

Levels == [ip \in IPs |-> Level(ip)]

LEMMA StepImplements ==
    ASSUME TypeOK, LimiterInv, Next
    PROVE  Bucket!Next \/ UNCHANGED Bucket!vars
<1>1. CASE Tick
  <2>1. Levels' = [ip \in IPs |-> IF Levels[ip] < Cap THEN Levels[ip] + 1 ELSE Cap]
    BY <1>1, TickLevel DEF Levels
  <2>2. Bucket!Tick
    BY <1>1, <2>1 DEF Tick, Bucket!Tick, Levels
  <2> QED
    BY <2>2 DEF Bucket!Next
<1>2. ASSUME NEW ip \in IPs, Allow(ip) PROVE Bucket!Next
  <2>0. Level(ip) \in 0 .. Cap
    BY LevelType
  <2>1. CASE Level(ip) >= Cost
    <3>1. Levels' = [Levels EXCEPT ![ip] = @ - Cost]
      BY <1>2, <2>1, AllowLevel DEF Levels
    <3>2. verdict' = [verdict EXCEPT ![ip] = "allowed"]
      BY <1>2, <2>0, <2>1, LimitAssumption DEF Allow
    <3>3. Bucket!Allow(ip)
      BY <2>1, <3>1, <3>2 DEF Bucket!Allow, Levels
    <3> QED
      BY <3>3 DEF Bucket!Next
  <2>2. CASE Level(ip) < Cost
    <3>1. Levels' = Levels
      BY <1>2, <2>0, <2>2, AllowLevel, LimitAssumption DEF Levels
    <3>2. verdict' = [verdict EXCEPT ![ip] = "denied"]
      BY <1>2, <2>0, <2>2, LimitAssumption DEF Allow
    <3>3. Bucket!Deny(ip)
      BY <2>2, <3>1, <3>2 DEF Bucket!Deny, Levels
    <3> QED
      BY <3>3 DEF Bucket!Next
  <2> QED
    BY <2>0, <2>1, <2>2, LimitAssumption
<1>3. CASE Sweep
  <2>1. Levels' = Levels /\ UNCHANGED verdict
    BY <1>3, SweepLevel DEF Levels, Sweep
  <2> QED
    BY <2>1 DEF Bucket!vars, Levels
<1>4. CASE SweepTick \/ Observe
  <2>1. Levels' = Levels /\ UNCHANGED verdict
    BY <1>4 DEF Levels, Level, SweepTick, Observe
  <2> QED
    BY <2>1 DEF Bucket!vars, Levels
<1> QED
  BY <1>1, <1>2, <1>3, <1>4 DEF Next

\* Lazy refilling and the sweeper are unobservable.
THEOREM BucketRefined == Spec => RefinesTokenBucket
<1>1. Init => Bucket!Init
  BY DEF Init, Bucket!Init, Level
<1>2. IInv /\ [Next]_vars => [Bucket!Next]_Bucket!vars
  <2> SUFFICES ASSUME TypeOK, LimiterInv, [Next]_vars
               PROVE  Bucket!Next \/ UNCHANGED Bucket!vars
    BY DEF IInv
  <2>1. CASE UNCHANGED vars
    BY <2>1 DEF vars, Bucket!vars, Level
  <2> QED
    BY <2>1, StepImplements
<1> QED
  BY <1>1, <1>2, Invariance, PTL DEF Spec, RefinesTokenBucket, Bucket!Spec
=============================================================================
