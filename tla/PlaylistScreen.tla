--------------------------- MODULE PlaylistScreen ---------------------------
(***************************************************************************)
(* The client's playlist screen, playlists/[id].tsx, before a server that  *)
(* keeps the playlist as a sequence: moves and removals are shown at once  *)
(* and sent, several requests may be in flight, the server may get them in *)
(* any order, and any of them may fail with or without effect.             *)
(*                                                                         *)
(* What the screen gets from the server of a track is the track.           *)
(***************************************************************************)
EXTENDS Naturals, Sequences, FiniteSets, Functions

CONSTANTS
  Tracks,
  NoTrack,
  Calls       \* bound: the requests of the screen that can be in flight

ScreenAssumption ==
  /\ IsFiniteSet(Tracks)
  /\ NoTrack \notin Tracks

VARIABLES
  order,     \* the server's playlist
  shown,     \* tracks, the state of the screen
  error,     \* error # null: the banner is shown
  focused,
  call,      \* the requests
  unsynced,  \* history: a request since the last load began met another one
  unheard    \* history: since then the playlist changed behind the screen's back

vars == <<order, shown, error, focused, call, unsynced, unheard>>

\* Lists without repetitions.
Orders == {s \in UNION {[1..n -> Tracks] : n \in 0..Cardinality(Tracks)} : IsInjective(s)}

NoCall == [kind |-> "none", order |-> << >>, track |-> NoTrack,
           state |-> "none", ignore |-> "never"]

Load(ignore) == [NoCall EXCEPT !.kind = "load", !.state = "sent", !.ignore = ignore]
Reorder(next) == [NoCall EXCEPT !.kind = "write", !.state = "sent", !.order = next]
Remove(k) == [NoCall EXCEPT !.kind = "write", !.state = "sent", !.track = k]

\* A request that was answered; only the answer to a load has contents.
Answered(c, state) == [NoCall EXCEPT !.kind = call[c].kind, !.state = state,
                                     !.ignore = call[c].ignore]

Free(c) == call[c] = NoCall
Others(c) == \E d \in Calls \ {c} : ~Free(d)

\* A track is in a list once.
Without(s, k) ==
  LET at == CHOOSE i \in DOMAIN s : s[i] = k
  IN  IF k \notin Range(s) THEN s
      ELSE SubSeq(s, 1, at - 1) \o SubSeq(s, at + 1, Len(s))

Init ==
  /\ order \in Orders
  /\ shown = << >>
  /\ error = FALSE
  /\ focused = FALSE
  /\ call = [c \in Calls |-> NoCall]
  /\ unsynced = FALSE
  /\ unheard = FALSE

-----------------------------------------------------------------------------
(* The user.  useFocusEffect(load) starts a load whose answer is ignored    *)
(* once the screen has lost focus.                                          *)

Focus(c) ==
  /\ ~focused
  /\ Free(c)
  /\ focused' = TRUE
  /\ call' = [call EXCEPT ![c] = Load("no")]
  /\ unsynced' = Others(c)
  /\ unheard' = FALSE
  /\ UNCHANGED <<order, shown, error>>

Blur ==
  /\ focused
  /\ focused' = FALSE
  /\ call' = [c \in Calls |->
       IF call[c].ignore = "no" THEN [call[c] EXCEPT !.ignore = "yes"] ELSE call[c]]
  /\ UNCHANGED <<order, shown, error, unsynced, unheard>>

Swapped(s, i, j) == [s EXCEPT ![i] = s[j], ![j] = s[i]]

\* move(from, to), by the arrows of a row.
Move(c, i, j) ==
  /\ focused
  /\ Free(c)
  /\ i \in DOMAIN shown
  /\ j \in DOMAIN shown
  /\ shown' = Swapped(shown, i, j)
  /\ call' = [call EXCEPT ![c] = Reorder(shown')]
  /\ unsynced' = (unsynced \/ Others(c))
  /\ UNCHANGED <<order, error, focused, unheard>>

\* remove(track), by the cross of a row.
RemoveTrack(c, k) ==
  /\ focused
  /\ Free(c)
  /\ k \in Range(shown)
  /\ shown' = Without(shown, k)
  /\ call' = [call EXCEPT ![c] = Remove(k)]
  /\ unsynced' = (unsynced \/ Others(c))
  /\ UNCHANGED <<order, error, focused, unheard>>

-----------------------------------------------------------------------------
(* The server, one request at a time; and the network.                      *)

ServeLoad(c) ==
  /\ call[c].kind = "load"
  /\ call' = [call EXCEPT ![c] = [Answered(c, "done") EXCEPT !.order = order]]
  /\ UNCHANGED order

\* Mutant: the list in the request is trusted.
AcceptsAll(request) == TRUE

\* An order that is not one of exactly the playlist's tracks is refused.
Accepts(request) == request.track = NoTrack => Range(request.order) = Range(order)

Written(request) ==
  IF request.track = NoTrack THEN request.order ELSE Without(order, request.track)

ServeWrite(c) ==
  /\ call[c].kind = "write"
  /\ IF Accepts(call[c])
     THEN /\ order' = Written(call[c])
          /\ call' = [call EXCEPT ![c] = Answered(c, "done")]
     ELSE /\ call' = [call EXCEPT ![c] = Answered(c, "failed")]
          /\ UNCHANGED order

Serve(c) ==
  /\ call[c].state = "sent"
  /\ ServeLoad(c) \/ ServeWrite(c)
  /\ UNCHANGED <<shown, error, focused, unsynced, unheard>>

\* A write from elsewhere: another device's, or one of this screen's that the
\* client has given up as failed and the server was only late with.
Elsewhere ==
  /\ \/ \E k \in Tracks \ Range(order) : order' = Append(order, k)
     \/ \E request \in {Remove(k) : k \in Range(order)} \cup {Reorder(s) : s \in Orders} :
          Accepts(request) /\ order' = Written(request)
  /\ unheard' = TRUE
  /\ UNCHANGED <<shown, error, focused, call, unsynced>>

-----------------------------------------------------------------------------
(* The answers.                                                             *)

ReceiveTracks(c) ==
  /\ call[c].kind = "load"
  /\ call[c].state = "done"
  /\ IF call[c].ignore = "yes" THEN UNCHANGED <<shown, error>>
     ELSE shown' = call[c].order /\ error' = FALSE
  /\ call' = [call EXCEPT ![c] = NoCall]
  /\ UNCHANGED <<order, focused, unsynced, unheard>>

\* The load fails, or its answer gets lost.
ReceiveLoadError(c) ==
  /\ call[c].kind = "load"
  /\ error' = (error \/ call[c].ignore # "yes")
  /\ call' = [call EXCEPT ![c] = NoCall]
  /\ UNCHANGED <<order, shown, focused, unsynced, unheard>>

ReceiveDone(c) ==
  /\ call[c].kind = "write"
  /\ call[c].state = "done"
  /\ call' = [call EXCEPT ![c] = NoCall]
  /\ UNCHANGED <<order, shown, error, focused, unsynced, unheard>>

\* Mutant: the failure is reported and what is shown stays.
ReloadNothing(c) ==
  /\ call[c].kind = "write"
  /\ call' = [call EXCEPT ![c] = NoCall]
  /\ UNCHANGED <<order, shown, error, focused, unsynced, unheard>>

\* The catch of move and remove: load, and nobody keeps its clean-up.  The write
\* was refused, or it was lost, or only its answer was.
Reload(c) ==
  /\ call[c].kind = "write"
  /\ call' = [call EXCEPT ![c] = Load("never")]
  /\ unsynced' = Others(c)
  /\ unheard' = FALSE
  /\ UNCHANGED <<order, shown, error, focused>>

Receive(c) == ReceiveTracks(c) \/ ReceiveLoadError(c) \/ ReceiveDone(c) \/ Reload(c)

Next ==
  \/ \E c \in Calls :
       \/ Focus(c)
       \/ \E i \in DOMAIN shown : Move(c, i, i + 1) \/ Move(c, i, i - 1)
       \/ \E k \in Tracks : RemoveTrack(c, k)
       \/ Serve(c)
       \/ Receive(c)
  \/ Blur
  \/ Elsewhere

Spec == Init /\ [][Next]_vars

-----------------------------------------------------------------------------
(* Properties.                                                              *)

CallType ==
  [kind : {"none", "load", "write"}, order : Orders,
   track : Tracks \cup {NoTrack}, state : {"none", "sent", "done", "failed"},
   ignore : {"never", "no", "yes"}]

\* Every variable has its type; no track is shown or kept twice.
TypeOK ==
  /\ order \in Orders
  /\ shown \in Orders
  /\ error \in BOOLEAN
  /\ focused \in BOOLEAN
  /\ call \in [Calls -> CallType]
  /\ unsynced \in BOOLEAN
  /\ unheard \in BOOLEAN

Settled == focused /\ \A c \in Calls : Free(c)

\* Who waits for each request before the next one sees what the server has, when
\* nothing is in flight and nobody else wrote: after moves and removals that
\* succeeded, failed, or were served without the client hearing of it, unless
\* the banner is shown.
ShownAgrees == Settled /\ ~unsynced /\ ~unheard => shown = order \/ error

\* Screen and server agree, and nothing leaves its range.
ScreenConsistent == TypeOK /\ ShownAgrees

\* The inductive invariant of ShownAgrees.  Requests that met no other one are
\* one at most,
Alone ==
  /\ \A c \in Calls : call[c].kind = "none" => Free(c)
  /\ ~unsynced => \A c, d \in Calls : ~Free(c) /\ ~Free(d) => c = d

\* a load of the present focus then brings what the server has,
LoadsCurrent ==
  \A c \in Calls : call[c].kind = "load" =>
    call[c].ignore # "yes" /\ (call[c].state = "done" => call[c].order = order)

\* and a write what is shown.
WritesShown ==
  /\ (\A c \in Calls : Free(c)) => shown = order
  /\ \A c \in Calls : call[c].kind = "write" =>
       \/ call[c].state = "sent" /\ Accepts(call[c]) /\ Written(call[c]) = shown
       \/ call[c].state = "done" /\ shown = order

ScreenInv ==
  /\ Alone
  /\ focused /\ ~unsynced /\ ~unheard => LoadsCurrent /\ (error \/ WritesShown)

\* However requests overlap, get late or lost, what the server gets from the
\* screen are adds, removals and permutations: an order built on a list that is
\* out of date neither drops a track nor brings one back.
ServerOrder == INSTANCE PlaylistOrder
  WITH Playlists <- {"it"}, InitOrder <- << >>, list <- [p \in {"it"} |-> order]
RefinesOrder == [][ServerOrder!Next]_order

\* The screen "can't drift from the DB" (playlists/[id].tsx:49-50).  Violated:
\* two orders in flight may be served the other way round, and a load's answer
\* may undo what is shown of a later move.
CannotDrift == Settled /\ ~unheard => shown = order \/ error
=============================================================================
