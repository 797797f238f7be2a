---------------------------- MODULE TokenBucket ----------------------------
(***************************************************************************)
(* What the rate limit of the auth endpoints promises: every IP has a      *)
(* bucket of its own that fills by one unit per tick up to Cap, and a      *)
(* request is allowed exactly if the bucket holds the Cost of a request,   *)
(* which it then pays.  Nothing is ever forgotten.                         *)
(***************************************************************************)
EXTENDS Naturals

CONSTANTS IPs, Cap, Cost

VARIABLES
    level,      \* [IPs -> 0 .. Cap]
    verdict     \* [IPs -> {"none", "allowed", "denied"}]: the last answer

vars == <<level, verdict>>

Init ==
    /\ level = [ip \in IPs |-> Cap]
    /\ verdict = [ip \in IPs |-> "none"]

Tick ==
    /\ level' = [ip \in IPs |-> IF level[ip] < Cap THEN level[ip] + 1 ELSE Cap]
    /\ UNCHANGED verdict

Allow(ip) ==
    /\ level[ip] >= Cost
    /\ level' = [level EXCEPT ![ip] = @ - Cost]
    /\ verdict' = [verdict EXCEPT ![ip] = "allowed"]

Deny(ip) ==
    /\ level[ip] < Cost
    /\ verdict' = [verdict EXCEPT ![ip] = "denied"]
    /\ UNCHANGED level

Next == Tick \/ \E ip \in IPs : Allow(ip) \/ Deny(ip)

Spec == Init /\ [][Next]_vars
=============================================================================
