--------------------------- MODULE PlaylistOrder ---------------------------
(***************************************************************************)
(* What the playlist endpoints promise about the order of the tracks when  *)
(* requests are served one at a time: a playlist is a sequence.            *)
(***************************************************************************)
EXTENDS Integers, Sequences, FiniteSets

CONSTANTS Tracks, Playlists, InitOrder

VARIABLE list       \* [Playlists -> Seq(Tracks)]

Elements(s) == {s[i] : i \in DOMAIN s}

Init == list = InitOrder

\* A track is added behind the others, once.
Add(p, k) ==
    /\ k \notin Elements(list[p])
    /\ list' = [list EXCEPT ![p] = Append(@, k)]

\* A removed track leaves the order of the others as it is.
Remove(p, k) ==
    \E at \in DOMAIN list[p] :
        /\ list[p][at] = k
        /\ list' = [list EXCEPT ![p] = SubSeq(@, 1, at - 1) \o SubSeq(@, at + 1, Len(@))]

\* An accepted order has the same tracks, each once.
Reorder(p) ==
    \E order \in [1 .. Len(list[p]) -> Elements(list[p])] :
        /\ Elements(order) = Elements(list[p])
        /\ list' = [list EXCEPT ![p] = order]

Delete(p) == list' = [list EXCEPT ![p] = << >>]

Next ==
    \E p \in Playlists :
        \/ \E k \in Tracks : Add(p, k) \/ Remove(p, k)
        \/ Reorder(p)
        \/ Delete(p)

Spec == Init /\ [][Next]_list
=============================================================================
