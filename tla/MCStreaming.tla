----------------------------- MODULE MCStreaming ----------------------------
(***************************************************************************)
(* A small instance of Streaming: a backend of either kind, lifetimes that *)
(* are unset, negative, in force and too long, and a change of the secret. *)
(***************************************************************************)
EXTENDS Streaming, TLC

CONSTANTS first, second

\* No liveness is checked, and nothing tells users or tracks apart.
Interchangeable == Permutations(Users) \cup Permutations(Tracks)

MCConfigs ==
    {[backend |-> "fs", secret |-> first, ttl |-> None],
     [backend |-> "neon", secret |-> first, ttl |-> 2],
     [backend |-> "neon", secret |-> second, ttl |-> -1],
     [backend |-> "r2", secret |-> first, ttl |-> 4]}
=============================================================================
