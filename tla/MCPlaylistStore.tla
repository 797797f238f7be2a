-------------------------- MODULE MCPlaylistStore --------------------------
(***************************************************************************)
(* Small instances of PlaylistStore for TLC.  Alice owns the tracks a, b   *)
(* and c, Bob owns x.                                                      *)
(***************************************************************************)
EXTENDS PlaylistStore, SequencesExt

CONSTANTS alice, bob, a, b, c, x, p1, p2

MCTrackOwner == [k \in Tracks |-> IF k = x THEN bob ELSE alice]

\* p1 is Alice's and holds the first tracks; p2 is created in the run.
MCInitOwner == [p \in Playlists |-> IF p = p1 THEN alice ELSE Unborn]
MCInitOne == [p \in Playlists |-> IF p = p1 THEN <<a>> ELSE << >>]
MCInitTwo == [p \in Playlists |-> IF p = p1 THEN <<a, b>> ELSE << >>]
MCInitThree == [p \in Playlists |-> IF p = p1 THEN <<a, b, c>> ELSE << >>]

On(p, u, op) == [op |-> op, user |-> u, list |-> p, track |-> a, order |-> << >>]
Track(p, u, op, k) == [On(p, u, op) EXCEPT !.track = k]
Order(p, u, order) == [On(p, u, "reorder") EXCEPT !.order = order]

\* Membership under full concurrency: adds, removes, reorders, a deletion,
\* and two users, who ask for what is not theirs, too.
MembershipRequests ==
    {Track(p1, alice, "add", k) : k \in {a, b, x}}
    \cup {Track(p1, alice, "remove", a), Order(p1, alice, <<b, a>>),
          On(p1, alice, "delete")}
    \cup {On(p1, bob, "create"), Track(p2, bob, "add", x), On(p1, bob, "delete")}

\* Concurrent reorders, with adds, renames and a deletion beside them.
ReorderRequests ==
    {Order(p1, alice, order) : order \in {<<c, b, a>>, <<b, c, a>>}}
    \cup {On(p1, alice, op) : op \in {"delete", "rename"}}

\* All of one user's requests about one playlist, served one at a time.
SerialRequests ==
    {Track(p1, alice, op, k) : op \in {"add", "remove"}, k \in {a, b, c}}
    \cup {Order(p1, alice, order) :
            order \in SeqOf({a, b, c}, 3)}
    \cup {On(p1, alice, op) : op \in {"delete", "rename", "tracks"}}

AddReorderRequests ==
    {Track(p1, alice, "add", c), Order(p1, alice, <<b, a>>)}

Interchangeable == Permutations(Handlers)
=============================================================================
