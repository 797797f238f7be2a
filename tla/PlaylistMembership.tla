------------------------ MODULE PlaylistMembership -------------------------
(***************************************************************************)
(* What the playlist endpoints promise about which tracks are in which     *)
(* playlist, with every operation atomic.  Order is left to PlaylistOrder. *)
(***************************************************************************)
CONSTANTS Users, Tracks, Playlists, TrackOwner, InitOwner, InitOrder,
          Unborn, Gone

VARIABLES
    owner,      \* [Playlists -> Users \cup {Unborn, Gone}]
    members     \* [Playlists -> SUBSET Tracks]

vars == <<owner, members>>

Init ==
    /\ owner = InitOwner
    /\ members = [p \in Playlists |-> {InitOrder[p][i] : i \in DOMAIN InitOrder[p]}]

Create(p, u) ==
    /\ owner[p] = Unborn
    /\ owner' = [owner EXCEPT ![p] = u]
    /\ UNCHANGED members

\* Only a track of the playlist's owner can be added, and only while the
\* playlist exists.
Add(p, k) ==
    /\ owner[p] = TrackOwner[k]
    /\ members' = [members EXCEPT ![p] = @ \cup {k}]
    /\ UNCHANGED owner

Remove(p, k) ==
    /\ members' = [members EXCEPT ![p] = @ \ {k}]
    /\ UNCHANGED owner

Delete(p) ==
    /\ owner[p] \in Users
    /\ owner' = [owner EXCEPT ![p] = Gone]
    /\ members' = [members EXCEPT ![p] = {}]

Next ==
    \E p \in Playlists :
        \/ \E u \in Users : Create(p, u)
        \/ \E k \in Tracks : Add(p, k) \/ Remove(p, k)
        \/ Delete(p)

Spec == Init /\ [][Next]_vars
=============================================================================
