----------------------- MODULE PlaylistStore_proofs ------------------------
(***************************************************************************)
(* Theorems about PlaylistStore, for any users, tracks, playlists, number  *)
(* of concurrent handlers and requests.  LockProtocol is the inductive     *)
(* invariant; that the transactions refine the atomic operations of        *)
(* PlaylistMembership follows from it.  OrderInv and SerialInv strengthen  *)
(* it for the order of the tracks: under concurrent reorders, and for      *)
(* requests served one at a time, which refine PlaylistOrder.              *)
(***************************************************************************)
EXTENDS PlaylistStore, FiniteSetTheorems, SequenceTheorems, TLAPS

-----------------------------------------------------------------------------
(* Types                                                                    *)

LEMMA RangeFacts ==
    /\ Absent \in Absent .. MaxPosition
    /\ Absent \in Untouched .. MaxPosition
    /\ Untouched \in Untouched .. MaxPosition
    /\ 0 .. MaxPosition \subseteq Absent .. MaxPosition
    /\ 0 .. MaxPosition \subseteq Untouched .. MaxPosition
    /\ Absent # Untouched
    /\ \A n \in 0 .. MaxPosition : n # Absent /\ n # Untouched
BY PositionAssumption DEF Absent, Untouched

LEMMA RequestFields ==
    ASSUME NEW q \in Requests
    PROVE  /\ q.op \in Ops /\ q.user \in Users /\ q.list \in Playlists
           /\ q.track \in Tracks /\ q.order \in Seq(Tracks)
           /\ Len(q.order) \in 0 .. (MaxPosition + 1)
           /\ \A i \in 1 .. Len(q.order) : q.order[i] \in Tracks
           /\ q # NoRequest
BY RequestAssumption, PositionAssumption DEF Request

LEMMA PositionsType ==
    ASSUME NEW order \in Seq(Tracks), Len(order) <= MaxPosition + 1
    PROVE  /\ Positions(order) \in [Tracks -> Absent .. MaxPosition]
           /\ \A k \in Tracks : Positions(order)[k] # Absent
                                <=> \E i \in DOMAIN order : order[i] = k
<1> DEFINE Place(k) == CHOOSE i \in DOMAIN order : order[i] = k
<1>1. ASSUME NEW k \in Tracks, \E i \in DOMAIN order : order[i] = k
      PROVE  Place(k) - 1 \in 0 .. MaxPosition
  <2>1. Place(k) \in 1 .. Len(order)
    BY <1>1
  <2> QED
    BY <2>1, PositionAssumption
<1> QED
  BY <1>1, RangeFacts DEF Positions

LEMMA InitType == Init => TypeOK
<1> SUFFICES ASSUME Init PROVE TypeOK
  OBVIOUS
<1>1. rows \in [Playlists -> [Tracks -> Absent .. MaxPosition]]
  BY PositionsType, InitAssumption DEF Init
<1> QED
  BY <1>1, RangeFacts, InitAssumption, PositionAssumption
  DEF Init, TypeOK, NoWrites, Labels, LockModes, Replies

LEMMA AnswerType ==
    ASSUME TypeOK, NEW h \in Handlers, NEW status \in Replies, Answer(h, status),
           owner' \in [Playlists -> Users \cup {Unborn, Gone}],
           rows' \in [Playlists -> [Tracks -> Absent .. MaxPosition]]
    PROVE  TypeOK'
BY RangeFacts, PositionAssumption
DEF TypeOK, Answer, Goto, NoWrites, Labels, LockModes, Replies

LEMMA RollbackType ==
    ASSUME TypeOK, NEW h \in Handlers, NEW status \in Replies, Rollback(h, status)
    PROVE  TypeOK'
BY AnswerType DEF Rollback, TypeOK

\* A handler that has a request has one of Requests.
Serving(h) == pc[h] # "idle" => req[h] \in Requests

LEMMA WriteType ==
    ASSUME TypeOK, NEW h \in Handlers, NEW k \in Tracks,
           NEW n \in Absent .. MaxPosition, Write(h, k, n)
    PROVE  writes' \in [Handlers -> [Tracks -> Untouched .. MaxPosition]]
BY RangeFacts, PositionAssumption DEF TypeOK, Write, Absent, Untouched

LEMMA NextType ==
    ASSUME TypeOK, \A h \in Handlers : Serving(h), [Next]_vars
    PROVE  TypeOK'
<1> USE DEF Goto, Acquire, At, Labels, LockModes
<1>1. CASE UNCHANGED vars
  BY <1>1 DEF vars, TypeOK
<1>2. ASSUME NEW h \in Handlers, Receive(h) PROVE TypeOK'
  BY <1>2 DEF Receive, TypeOK, FirstStatement, Replies
<1>3. ASSUME NEW h \in Handlers, CreatePlaylist(h) PROVE TypeOK'
  <2>1. /\ owner' \in [Playlists -> Users \cup {Unborn, Gone}]
        /\ UNCHANGED <<rows, pc, req, writes, lock, idx, newPos>>
    BY <1>3, RequestFields DEF CreatePlaylist, TypeOK
  <2>2. reply' \in [Handlers -> Replies]
    BY <1>3 DEF CreatePlaylist, TypeOK, Replies
  <2> QED
    BY <2>1, <2>2 DEF TypeOK
<1>4. ASSUME NEW h \in Handlers, Fail(h) \/ DeadlockAbort(h) PROVE TypeOK'
  BY <1>4, RollbackType DEF Fail, DeadlockAbort, Replies
<1>5. ASSUME NEW h \in Handlers, pc[h] # "idle",
             OwnsPlaylist(h) \/ OwnsTrack(h) \/ ReadMembers(h) \/ GetPlaylist(h)
             \/ CheckForeignKey(h) \/ DeletePlaylist(h)
      PROVE  TypeOK'
  <2>1. CASE \E status \in Replies : Rollback(h, status)
    BY <2>1, RollbackType
  <2>2. CASE ~\E status \in Replies : Rollback(h, status)
    BY <1>5, <2>2 DEF OwnsPlaylist, OwnsTrack, ReadMembers, GetPlaylist,
        CheckForeignKey, DeletePlaylist, TypeOK, AfterOwns, Replies
  <2> QED
    BY <2>1, <2>2
<1>6. ASSUME NEW h \in Handlers, EvaluatePosition(h) PROVE TypeOK'
  <2>1. CASE \E status \in Replies : Rollback(h, status)
    BY <2>1, RollbackType
  <2>2. CASE ~\E status \in Replies : Rollback(h, status)
    <3>1. PICK last \in Absent .. MaxPosition :
            /\ last < MaxPosition
            /\ newPos' = [newPos EXCEPT ![h] = last + 1]
      BY <1>6, <2>2 DEF EvaluatePosition, Replies
    <3>2. newPos' \in [Handlers -> 0 .. MaxPosition]
      BY <3>1, PositionAssumption DEF TypeOK, Absent
    <3> QED
      BY <1>6, <2>2, <3>2 DEF EvaluatePosition, TypeOK, Replies
  <2> QED
    BY <2>1, <2>2
<1>7. ASSUME NEW h \in Handlers, InsertRow(h) \/ RemoveRow(h) PROVE TypeOK'
  <2>1. req[h].track \in Tracks
    BY <1>7, RequestFields DEF InsertRow, RemoveRow, Serving
  <2>2. newPos[h] \in Absent .. MaxPosition /\ Absent \in Absent .. MaxPosition
    BY RangeFacts DEF TypeOK
  <2>3. writes' \in [Handlers -> [Tracks -> Untouched .. MaxPosition]]
    BY <1>7, <2>1, <2>2, WriteType DEF InsertRow, RemoveRow, TypeOK
  <2> QED
    BY <1>7, <2>3 DEF InsertRow, RemoveRow, TypeOK
<1>8. ASSUME NEW h \in Handlers, UpdatePosition(h) PROVE TypeOK'
  <2> DEFINE k == req[h].order[idx[h] + 1]
  <2>0. /\ req[h] \in Requests
        /\ idx[h] \in Nat /\ idx[h] < Len(req[h].order)
        /\ idx' = [idx EXCEPT ![h] = idx[h] + 1]
        /\ UNCHANGED <<owner, rows, pc, req, lock, newPos, reply>>
    BY <1>8 DEF UpdatePosition, Serving, TypeOK
  <2>1. k \in Tracks /\ idx[h] \in 0 .. MaxPosition
    <3>1. /\ Len(req[h].order) \in 0 .. (MaxPosition + 1)
          /\ \A i \in 1 .. Len(req[h].order) : req[h].order[i] \in Tracks
      BY <2>0, RequestFields
    <3> QED
      BY <2>0, <3>1, PositionAssumption
  <2>2. idx[h] \in Absent .. MaxPosition
    BY <2>1, RangeFacts
  <2> HIDE DEF k
  <2>3. writes' \in [Handlers -> [Tracks -> Untouched .. MaxPosition]]
    BY <1>8, <2>1, <2>2, WriteType DEF UpdatePosition, TypeOK, k
  <2>4. idx' \in [Handlers -> Nat]
    BY <2>0 DEF TypeOK
  <2>5. UNCHANGED <<owner, rows, pc, req, lock, newPos, reply>>
    BY <2>0
  <2> QED
    BY <2>3, <2>4, <2>5 DEF TypeOK
<1>9. ASSUME NEW h \in Handlers, CascadeRow(h) PROVE TypeOK'
  <2>1. writes' \in [Handlers -> [Tracks -> Untouched .. MaxPosition]]
    BY <1>9, RangeFacts, WriteType DEF CascadeRow, ToCascade, Members
  <2> QED
    BY <1>9, <2>1 DEF CascadeRow, TypeOK
<1>10. ASSUME NEW h \in Handlers, EndOfLoop(h) \/ EndOfCascade(h) \/ TouchPlaylist(h)
       PROVE  TypeOK'
  BY <1>10 DEF EndOfLoop, EndOfCascade, TouchPlaylist, TypeOK
<1>11. ASSUME NEW h \in Handlers, RenamePlaylist(h) \/ ListPlaylistTracks(h)
       PROVE  TypeOK'
  BY <1>11, RollbackType DEF RenamePlaylist, ListPlaylistTracks, Replies
<1>12. ASSUME NEW h \in Handlers, Commit(h) PROVE TypeOK'
  <2> DEFINE p == req[h].list
  <2>1. p \in Playlists
    BY <1>12, RequestFields DEF Commit, Serving
  <2>2. \A k \in Tracks : writes[h][k] # Untouched
                           => writes[h][k] \in Absent .. MaxPosition
    BY PositionAssumption DEF TypeOK, Absent, Untouched
  <2>3. rows' \in [Playlists -> [Tracks -> Absent .. MaxPosition]]
    BY <1>12, <2>1, <2>2 DEF Commit, TypeOK
  <2>4. owner' \in [Playlists -> Users \cup {Unborn, Gone}]
    BY <1>12 DEF Commit, TypeOK
  <2>5. PICK status \in Replies : Answer(h, status)
    BY <1>12 DEF Commit, Replies
  <2> QED
    BY <2>3, <2>4, <2>5, AnswerType
<1>13. ASSUME NEW h \in Handlers, Serve(h) PROVE TypeOK'
  BY <1>4, <1>5, <1>6, <1>7, <1>8, <1>9, <1>10, <1>11, <1>12, <1>13
  DEF Serve, OwnsPlaylist, OwnsTrack, ReadMembers, GetPlaylist, CheckForeignKey,
      DeletePlaylist
<1> QED
  BY <1>1, <1>2, <1>3, <1>4, <1>13 DEF Next
-----------------------------------------------------------------------------
(* The locking discipline                                                   *)

LEMMA BlockersAt ==
    ASSUME NEW h \in Handlers
    PROVE  /\ pc[h] = "insert" => Blockers(h) = RowHolders(h, req[h].track)
           /\ pc[h] = "foreignKey" => Blockers(h) = LockHolders(h, "keyShare")
           /\ pc[h] = "removeRow" => Blockers(h) = RowBlockers(h, req[h].track)
           /\ pc[h] = "update" /\ idx[h] < Len(req[h].order)
                => Blockers(h) = RowBlockers(h, req[h].order[idx[h] + 1])
           /\ pc[h] = "touch" /\ Live(req[h].list)
                => Blockers(h) = LockHolders(h, "noKeyUpdate")
           /\ pc[h] = "delete" /\ Owns(h) => Blockers(h) = LockHolders(h, "update")
BY DEF Blockers

\* What one handler does leaves the others' variables alone.
OthersKeep(h) ==
    \A g \in Handlers \ {h} :
        pc'[g] = pc[g] /\ req'[g] = req[g] /\ writes'[g] = writes[g] /\ lock'[g] = lock[g]

\* A step of h that commits nothing preserves the discipline if h keeps its
\* own part of it and does not take what another holds.
LEMMA LocalStep ==
    ASSUME TypeOK, LockProtocol, NEW h \in Handlers, OthersKeep(h),
           UNCHANGED <<owner, rows>>, HandlerInv(h)',
           \A g \in Handlers \ {h} : Exclusion(g, h)' /\ Exclusion(h, g)'
    PROVE  LockProtocol'
<1>1. OwnedMembership'
  BY DEF LockProtocol, OwnedMembership, Members
<1>2. ASSUME NEW g \in Handlers PROVE HandlerInv(g)'
  <2>1. CASE g = h
    BY <2>1
  <2>2. CASE g # h
    <3>1. HandlerInv(g)
      BY DEF LockProtocol
    <3> QED
      BY <2>2, <3>1 DEF OthersKeep, HandlerInv, StillOwned, Live, AddHolds, OtherHolds,
          DeleteHolds, ToCascade, Members, Pending
  <2> QED
    BY <2>1, <2>2
<1>3. ASSUME NEW f \in Handlers, NEW g \in Handlers, f # g PROVE Exclusion(f, g)'
  <2>1. CASE f = h \/ g = h
    BY <1>3, <2>1
  <2>2. CASE f # h /\ g # h
    <3>1. Exclusion(f, g)
      BY <1>3 DEF LockProtocol
    <3> QED
      BY <2>2, <3>1 DEF OthersKeep, Exclusion, Pending
  <2> QED
    BY <2>1, <2>2
<1> QED
  BY <1>1, <1>2, <1>3 DEF LockProtocol

LEMMA NothingHeld ==
    ASSUME NEW h, TypeOK, h \in Handlers, writes[h] = NoWrites
    PROVE  \A k \in Tracks : ~Pending(h, k)
BY DEF NoWrites, Pending

LEMMA RollbackStep ==
    ASSUME TypeOK, LockProtocol, NEW h \in Handlers, NEW status, Rollback(h, status)
    PROVE  LockProtocol'
<1>1. /\ pc'[h] = "idle" /\ writes'[h] = NoWrites /\ lock'[h] = "none"
      /\ OthersKeep(h) /\ UNCHANGED <<owner, rows>>
  BY DEF Rollback, Answer, Goto, TypeOK, OthersKeep
<1>2. HandlerInv(h)'
  BY <1>1 DEF HandlerInv, NoWrites
<1>3. \A g \in Handlers \ {h} : Exclusion(g, h)' /\ Exclusion(h, g)'
  BY <1>1 DEF Exclusion
<1> QED
  BY <1>1, <1>2, <1>3, LocalStep

\* A step that only moves h on needs no new argument about the others.
LEMMA ControlStep ==
    ASSUME TypeOK, LockProtocol, NEW h \in Handlers, pc[h] # "idle",
           NEW label, Goto(h, label), label # "idle",
           UNCHANGED <<owner, rows, req, writes, lock>>,
           HandlerInv(h)'
    PROVE  LockProtocol'
<1>1. OthersKeep(h)
  BY DEF Goto, TypeOK, OthersKeep
<1>2. \A g \in Handlers \ {h} : Exclusion(g, h) /\ Exclusion(h, g)
  BY DEF LockProtocol
<1>3. \A g \in Handlers \ {h} : Exclusion(g, h)' /\ Exclusion(h, g)'
  BY <1>1, <1>2 DEF Exclusion, Pending, OthersKeep
<1> QED
  BY <1>1, <1>3, LocalStep

\* A step that writes a row nobody else has a pending write of.
LEMMA WriteStep ==
    ASSUME TypeOK, LockProtocol, NEW h \in Handlers, pc[h] # "idle",
           NEW k \in Tracks, NEW n \in Absent .. MaxPosition, Write(h, k, n),
           RowHolders(h, k) = {},
           NEW label, Goto(h, label), label # "idle",
           UNCHANGED <<owner, rows, req, lock>>,
           HandlerInv(h)'
    PROVE  LockProtocol'
<1>1. OthersKeep(h)
  BY DEF Goto, Write, TypeOK, OthersKeep
<1>2. \A g \in Handlers \ {h} : Exclusion(g, h) /\ Exclusion(h, g)
  BY DEF LockProtocol
<1>3. \A l \in Tracks : Pending(h, l)' => l = k \/ Pending(h, l)
  BY DEF Write, TypeOK, Pending
<1>4. ASSUME NEW g \in Handlers \ {h} PROVE Exclusion(g, h)' /\ Exclusion(h, g)'
  <2>1. pc[g] # "idle" /\ req[g].list = req[h].list => ~Pending(g, k)
    BY DEF RowHolders, Rivals, Pending
  <2>2. \A l \in Tracks : Pending(g, l)' <=> Pending(g, l)
    BY <1>1 DEF OthersKeep, Pending
  <2>3. pc'[g] = pc[g] /\ req'[g] = req[g] /\ req'[h] = req[h] /\ lock'[g] = lock[g]
        /\ lock'[h] = lock[h]
    BY <1>1 DEF OthersKeep
  <2> QED
    BY <1>2, <1>3, <2>1, <2>2, <2>3 DEF Exclusion
<1> QED
  BY <1>1, <1>4, LocalStep

\* A step that takes a lock no other transaction's lock conflicts with.
LEMMA AcquireStep ==
    ASSUME TypeOK, LockProtocol, NEW h \in Handlers, pc[h] # "idle",
           NEW mode \in {"keyShare", "noKeyUpdate", "update"}, Acquire(h, mode),
           LockHolders(h, mode) = {},
           NEW label, Goto(h, label), label # "idle",
           UNCHANGED <<owner, rows, req, writes>>,
           HandlerInv(h)'
    PROVE  LockProtocol'
<1>1. OthersKeep(h)
  BY DEF Goto, Acquire, TypeOK, OthersKeep
<1>2. \A g \in Handlers \ {h} : Exclusion(g, h) /\ Exclusion(h, g)
  BY DEF LockProtocol
<1>3. lock'[h] = mode
  BY DEF Acquire, TypeOK
<1>4. ASSUME NEW g \in Handlers \ {h} PROVE Exclusion(g, h)' /\ Exclusion(h, g)'
  <2>1. pc[g] # "idle" /\ req[g].list = req[h].list =>
            /\ lock[g] # "update"
            /\ mode = "update" => lock[g] = "none"
    BY DEF LockHolders, Rivals
  <2>2. pc'[g] = pc[g] /\ req'[g] = req[g] /\ req'[h] = req[h] /\ lock'[g] = lock[g]
    BY <1>1 DEF OthersKeep
  <2>3. \A l \in Tracks : (Pending(g, l)' <=> Pending(g, l)) /\ (Pending(h, l)' <=> Pending(h, l))
    BY DEF Pending
  <2> QED
    BY <1>2, <1>3, <2>1, <2>2, <2>3 DEF Exclusion
<1> QED
  BY <1>1, <1>4, LocalStep

\* What the invariant says of a handler that is serving a request.
LEMMA ServingFacts ==
    ASSUME LockProtocol, NEW h \in Handlers, pc[h] # "idle"
    PROVE  /\ HandlerInv(h)
           /\ req[h] \in Requests
           /\ req[h].op \in OpsAt(pc[h])
           /\ req[h].list \in Playlists /\ req[h].track \in Tracks
           /\ req[h].op \in Ops /\ req[h].user \in Users
<1>1. HandlerInv(h)
  BY DEF LockProtocol
<1>2. req[h] \in Requests /\ req[h].op \in OpsAt(pc[h])
  BY <1>1 DEF HandlerInv
<1> QED
  BY <1>1, <1>2, RequestFields

LEMMA ReceiveStep ==
    ASSUME TypeOK, LockProtocol, NEW h \in Handlers, Receive(h)
    PROVE  LockProtocol'
<1>1. PICK q \in Requests :
        /\ pc[h] = "idle" /\ q.op # "create"
        /\ Goto(h, FirstStatement(q.op))
        /\ req' = [req EXCEPT ![h] = q]
        /\ UNCHANGED <<owner, rows, writes, lock>>
  BY DEF Receive
<1>2. OthersKeep(h)
  BY <1>1 DEF Goto, TypeOK, OthersKeep
<1>3. /\ pc'[h] = FirstStatement(q.op) /\ req'[h] = q
      /\ writes'[h] = NoWrites /\ lock'[h] = "none"
  BY <1>1 DEF Goto, TypeOK, LockProtocol, HandlerInv
<1>4. \A k \in Tracks : ~Pending(h, k)'
  BY <1>3 DEF Pending, NoWrites
<1>5. pc'[h] \in {"owns", "rename", "delete", "get"} /\ q.op \in OpsAt(pc'[h])
  BY <1>1, <1>3, RequestFields DEF FirstStatement, OpsAt, Ops
<1>6. HandlerInv(h)'
  BY <1>3, <1>4, <1>5 DEF HandlerInv, Clean, StillOwned, AddHolds, OtherHolds, DeleteHolds,
      NoWrites
<1>7. \A g \in Handlers \ {h} : Exclusion(g, h)' /\ Exclusion(h, g)'
  BY <1>3, <1>4 DEF Exclusion
<1> QED
  BY <1>1, <1>2, <1>6, <1>7, LocalStep

LEMMA CleanControlStep ==
    ASSUME TypeOK, LockProtocol, NEW h \in Handlers, pc[h] # "idle", Clean(pc[h]),
           NEW label, Goto(h, label), label # "idle",
           req[h].op \in OpsAt(label),
           label \notin {"foreignKey", "cascade", "commit"},
           StillOwned(h)',
           req[h].op = "add" /\ label \in {"position", "insert"}
               => TrackOwner[req[h].track] = req[h].user,
           UNCHANGED <<owner, rows, req, writes, lock>>
    PROVE  LockProtocol'
<1>1. pc'[h] = label
  BY DEF Goto, TypeOK
<1>2. HandlerInv(h)
  BY ServingFacts
<1>3. writes[h] = NoWrites /\ lock[h] = "none" /\ req[h] \in Requests
  BY <1>2 DEF HandlerInv
<1>4. writes'[h] = NoWrites /\ lock'[h] = "none" /\ req'[h] = req[h]
  BY <1>3
<1>5. \A k \in Tracks : ~Pending(h, k)'
  BY <1>4 DEF Pending, NoWrites
<1>6. HandlerInv(h)'
  BY <1>1, <1>3, <1>4, <1>5 DEF HandlerInv, AddHolds, OtherHolds, DeleteHolds, NoWrites
<1> QED
  BY <1>6, ControlStep

LEMMA OwnsPlaylistStep ==
    ASSUME TypeOK, LockProtocol, NEW h \in Handlers, OwnsPlaylist(h)
    PROVE  LockProtocol'
<1>1. CASE Rollback(h, "notFound")
  BY <1>1, RollbackStep
<1>2. CASE ~Rollback(h, "notFound")
  <2>1. /\ pc[h] = "owns" /\ Owns(h) /\ Goto(h, AfterOwns(req[h].op))
        /\ UNCHANGED <<owner, rows, req, writes, lock>>
    BY <1>2 DEF OwnsPlaylist, At
  <2>2. req[h].op \in {"add", "remove", "reorder"}
    BY <2>1, ServingFacts DEF OpsAt
  <2>3. /\ AfterOwns(req[h].op) \in {"track", "removeRow", "members"}
        /\ req[h].op \in OpsAt(AfterOwns(req[h].op))
    BY <2>2 DEF AfterOwns, OpsAt
  <2>4. StillOwned(h)'
    BY <2>1 DEF StillOwned, Owns
  <2> QED
    BY <2>1, <2>3, <2>4, CleanControlStep DEF Clean
<1> QED
  BY <1>1, <1>2

LEMMA OwnsTrackStep ==
    ASSUME TypeOK, LockProtocol, NEW h \in Handlers, OwnsTrack(h)
    PROVE  LockProtocol'
<1>1. CASE Rollback(h, "notFound")
  BY <1>1, RollbackStep
<1>2. CASE ~Rollback(h, "notFound")
  <2>1. /\ pc[h] = "track" /\ TrackOwner[req[h].track] = req[h].user
        /\ Goto(h, "position")
        /\ UNCHANGED <<owner, rows, req, writes, lock>>
    BY <1>2 DEF OwnsTrack, At
  <2>2. req[h].op = "add" /\ StillOwned(h)
    BY <2>1, ServingFacts DEF OpsAt, HandlerInv
  <2>3. StillOwned(h)' /\ req[h].op \in OpsAt("position")
    BY <2>1, <2>2 DEF StillOwned, OpsAt
  <2> QED
    BY <2>1, <2>3, CleanControlStep DEF Clean
<1> QED
  BY <1>1, <1>2

LEMMA EvaluatePositionStep ==
    ASSUME TypeOK, LockProtocol, NEW h \in Handlers, EvaluatePosition(h)
    PROVE  LockProtocol'
<1>1. CASE Rollback(h, "error")
  BY <1>1, RollbackStep
<1>2. CASE ~Rollback(h, "error")
  <2>1. /\ pc[h] = "position" /\ Goto(h, "insert")
        /\ UNCHANGED <<owner, rows, req, writes, lock>>
    BY <1>2 DEF EvaluatePosition, At
  <2>2. req[h].op = "add" /\ StillOwned(h) /\ AddHolds(h)
    BY <2>1, ServingFacts DEF OpsAt, HandlerInv
  <2>3. StillOwned(h)' /\ req[h].op \in OpsAt("insert")
        /\ TrackOwner[req[h].track] = req[h].user
    BY <2>1, <2>2 DEF StillOwned, OpsAt, AddHolds
  <2> QED
    BY <2>1, <2>3, CleanControlStep DEF Clean
<1> QED
  BY <1>1, <1>2

LEMMA ReadMembersStep ==
    ASSUME TypeOK, LockProtocol, NEW h \in Handlers, ReadMembers(h)
    PROVE  LockProtocol'
<1>1. CASE Rollback(h, "mismatch")
  BY <1>1, RollbackStep
<1>2. CASE ~Rollback(h, "mismatch")
  <2>1. /\ pc[h] = "members" /\ Goto(h, "update")
        /\ UNCHANGED <<owner, rows, req, writes, lock>>
    BY <1>2 DEF ReadMembers, At
  <2>2. req[h].op = "reorder" /\ StillOwned(h)
    BY <2>1, ServingFacts DEF OpsAt, HandlerInv
  <2>3. StillOwned(h)' /\ req[h].op \in OpsAt("update")
    BY <2>1, <2>2 DEF StillOwned, OpsAt
  <2> QED
    BY <2>1, <2>2, <2>3, CleanControlStep DEF Clean
<1> QED
  BY <1>1, <1>2

LEMMA GetPlaylistStep ==
    ASSUME TypeOK, LockProtocol, NEW h \in Handlers, GetPlaylist(h)
    PROVE  LockProtocol'
<1>1. CASE Rollback(h, "notFound")
  BY <1>1, RollbackStep
<1>2. CASE ~Rollback(h, "notFound")
  <2>1. /\ pc[h] = "get" /\ Owns(h) /\ Goto(h, "list")
        /\ UNCHANGED <<owner, rows, req, writes, lock>>
    BY <1>2 DEF GetPlaylist, At
  <2>2. req[h].op = "tracks"
    BY <2>1, ServingFacts DEF OpsAt
  <2>3. StillOwned(h)' /\ req[h].op \in OpsAt("list")
    BY <2>1, <2>2 DEF StillOwned, Owns, OpsAt
  <2> QED
    BY <2>1, <2>2, <2>3, CleanControlStep DEF Clean
<1> QED
  BY <1>1, <1>2

LEMMA WritesOf ==
    ASSUME TypeOK, NEW h \in Handlers, NEW k \in Tracks, NEW n, Write(h, k, n)
    PROVE  \A l \in Tracks : writes'[h][l] = IF l = k THEN n ELSE writes[h][l]
BY DEF TypeOK, Write

LEMMA InsertRowStep ==
    ASSUME TypeOK, LockProtocol, NEW h \in Handlers, InsertRow(h)
    PROVE  LockProtocol'
<1> DEFINE k == req[h].track
<1>1. pc[h] = "insert" /\ RowHolders(h, k) = {} /\ UNCHANGED <<owner, rows, req, lock>>
  BY BlockersAt DEF InsertRow, At
<1>2. /\ HandlerInv(h) /\ req[h].op = "add" /\ k \in Tracks /\ req[h].list \in Playlists
      /\ req[h] \in Requests
  BY <1>1, ServingFacts DEF OpsAt
<1>3. StillOwned(h) /\ AddHolds(h) /\ writes[h] = NoWrites /\ lock[h] = "none"
  BY <1>1, <1>2 DEF HandlerInv, Clean
<1>4. \A l \in Tracks : writes[h][l] = Untouched
  BY <1>3 DEF NoWrites
<1>5. CASE k \notin Members(req[h].list)
  <2>1. Write(h, k, newPos[h]) /\ Goto(h, "foreignKey") /\ pc'[h] = "foreignKey"
    BY <1>5 DEF InsertRow, Goto, TypeOK
  <2>2. newPos[h] \in Absent .. MaxPosition /\ newPos[h] # Absent
    BY RangeFacts DEF TypeOK
  <2>3. \A l \in Tracks : writes'[h][l] = IF l = k THEN newPos[h] ELSE Untouched
    BY <1>2, <1>4, <2>1, WritesOf
  <2>4. AddHolds(h)'
    BY <1>1, <1>2, <1>3, <1>5, <2>1, <2>2, <2>3 DEF AddHolds, Pending, Members
  <2>5. StillOwned(h)'
    BY <1>1, <1>3, <2>1 DEF StillOwned
  <2>6. HandlerInv(h)'
    BY <1>1, <1>2, <1>3, <2>1, <2>4, <2>5 DEF HandlerInv, OpsAt, Clean
  <2> HIDE DEF k
  <2> QED
    BY <1>1, <1>2, <2>1, <2>2, <2>6, WriteStep
<1>6. CASE k \in Members(req[h].list)
  <2>1. Goto(h, "touch") /\ pc'[h] = "touch" /\ UNCHANGED writes
    BY <1>6 DEF InsertRow, Goto, TypeOK
  <2>2. AddHolds(h)' /\ StillOwned(h)'
    BY <1>1, <1>3, <1>4, <2>1 DEF AddHolds, Pending, StillOwned
  <2>3. HandlerInv(h)'
    BY <1>1, <1>2, <1>3, <2>1, <2>2 DEF HandlerInv, OpsAt, Clean
  <2> QED
    BY <1>1, <2>1, <2>3, ControlStep
<1> QED
  BY <1>5, <1>6

LEMMA CheckForeignKeyStep ==
    ASSUME TypeOK, LockProtocol, NEW h \in Handlers, CheckForeignKey(h)
    PROVE  LockProtocol'
<1>1. CASE Rollback(h, "error")
  BY <1>1, RollbackStep
<1>2. CASE ~Rollback(h, "error")
  <2>1. /\ pc[h] = "foreignKey" /\ Live(req[h].list) /\ LockHolders(h, "keyShare") = {}
        /\ Acquire(h, "keyShare") /\ Goto(h, "touch")
        /\ UNCHANGED <<owner, rows, req, writes>>
    BY <1>2, BlockersAt DEF CheckForeignKey, At
  <2>2. pc'[h] = "touch" /\ lock'[h] = "keyShare"
    BY <2>1 DEF Goto, Acquire, TypeOK
  <2>3. /\ HandlerInv(h) /\ req[h].op = "add" /\ StillOwned(h) /\ AddHolds(h)
        /\ req[h] \in Requests
    BY <2>1, ServingFacts DEF OpsAt, HandlerInv
  <2>4. AddHolds(h)' /\ StillOwned(h)' /\ Live(req[h].list)'
    BY <2>1, <2>2, <2>3 DEF AddHolds, Pending, StillOwned, Live
  <2>5. HandlerInv(h)'
    BY <2>1, <2>2, <2>3, <2>4 DEF HandlerInv, OpsAt, Clean
  <2> QED
    BY <2>1, <2>5, AcquireStep
<1> QED
  BY <1>1, <1>2

LEMMA RemoveRowStep ==
    ASSUME TypeOK, LockProtocol, NEW h \in Handlers, RemoveRow(h)
    PROVE  LockProtocol'
<1> DEFINE k == req[h].track
<1>1. /\ pc[h] = "removeRow" /\ RowBlockers(h, k) = {} /\ Goto(h, "touch")
      /\ UNCHANGED <<owner, rows, req, lock>>
  BY BlockersAt DEF RemoveRow, At
<1>2. /\ HandlerInv(h) /\ req[h].op = "remove" /\ k \in Tracks /\ req[h] \in Requests
      /\ req[h].list \in Playlists
  BY <1>1, ServingFacts DEF OpsAt
<1>3. /\ StillOwned(h) /\ writes[h] = NoWrites /\ lock[h] = "none"
      /\ pc'[h] = "touch"
  BY <1>1, <1>2 DEF HandlerInv, Clean, Goto, TypeOK
<1>4. \A l \in Tracks : writes[h][l] = Untouched
  BY <1>3 DEF NoWrites
<1>5. StillOwned(h)'
  BY <1>1, <1>3 DEF StillOwned
<1>6. CASE k \in Members(req[h].list)
  <2>1. Write(h, k, Absent) /\ RowHolders(h, k) = {}
    BY <1>1, <1>6 DEF RemoveRow, RowBlockers
  <2>2. \A l \in Tracks : writes'[h][l] = IF l = k THEN Absent ELSE Untouched
    BY <1>2, <1>4, <2>1, WritesOf
  <2>3. OtherHolds(h)'
    BY <1>1, <1>2, <1>6, <2>2 DEF OtherHolds, Pending, Members
  <2>4. HandlerInv(h)'
    BY <1>1, <1>2, <1>3, <1>5, <2>3 DEF HandlerInv, OpsAt, Clean
  <2>5. Absent \in Absent .. MaxPosition
    BY RangeFacts
  <2> HIDE DEF k
  <2> QED
    BY <1>1, <1>2, <2>1, <2>4, <2>5, WriteStep
<1>7. CASE k \notin Members(req[h].list)
  <2>1. UNCHANGED writes
    BY <1>7 DEF RemoveRow
  <2>2. OtherHolds(h)'
    BY <1>4, <2>1 DEF OtherHolds, Pending
  <2>3. HandlerInv(h)'
    BY <1>1, <1>2, <1>3, <1>5, <2>1, <2>2 DEF HandlerInv, OpsAt, Clean
  <2> QED
    BY <1>1, <2>1, <2>3, ControlStep
<1> QED
  BY <1>6, <1>7

LEMMA UpdatePositionStep ==
    ASSUME TypeOK, LockProtocol, NEW h \in Handlers, UpdatePosition(h)
    PROVE  LockProtocol'
<1> DEFINE k == req[h].order[idx[h] + 1]
<1>1. /\ pc[h] = "update" /\ RowBlockers(h, k) = {} /\ idx[h] < Len(req[h].order)
      /\ UNCHANGED <<owner, rows, req, lock, pc>>
  BY BlockersAt DEF UpdatePosition, At
<1>2. /\ HandlerInv(h) /\ req[h].op = "reorder" /\ req[h] \in Requests
      /\ req[h].list \in Playlists
  BY <1>1, ServingFacts DEF OpsAt
<1>3. k \in Tracks /\ idx[h] \in 0 .. MaxPosition
  <2>1. /\ Len(req[h].order) \in 0 .. (MaxPosition + 1)
        /\ \A i \in 1 .. Len(req[h].order) : req[h].order[i] \in Tracks
    BY <1>2, RequestFields
  <2>2. idx[h] \in Nat
    BY DEF TypeOK
  <2> QED
    BY <1>1, <2>1, <2>2, PositionAssumption
<1>4. /\ StillOwned(h) /\ OtherHolds(h)
      /\ lock[h] # "none" => Live(req[h].list)
  BY <1>1, <1>2 DEF HandlerInv
<1>5. Goto(h, "update") /\ pc'[h] = "update"
  BY <1>1 DEF Goto, TypeOK
<1>6. CASE k \in Members(req[h].list)
  <2>1. Write(h, k, idx[h]) /\ RowHolders(h, k) = {}
    BY <1>1, <1>6 DEF UpdatePosition, RowBlockers
  <2>2. idx[h] \in Absent .. MaxPosition /\ idx[h] # Absent
    BY <1>3, RangeFacts
  <2> HIDE DEF k
  <2>3. \A l \in Tracks : writes'[h][l] = IF l = k THEN idx[h] ELSE writes[h][l]
    BY <1>3, <2>1, WritesOf
  <2>4. OtherHolds(h)'
    BY <1>1, <1>2, <1>3, <1>4, <1>6, <2>2, <2>3 DEF OtherHolds, Pending, Members
  <2>5. HandlerInv(h)'
    BY <1>1, <1>2, <1>4, <1>5, <2>4 DEF HandlerInv, OpsAt, Clean, StillOwned, Live
  <2> QED
    BY <1>1, <1>3, <1>5, <2>1, <2>2, <2>5, WriteStep
<1>7. CASE k \notin Members(req[h].list)
  <2>1. UNCHANGED writes
    BY <1>7 DEF UpdatePosition
  <2>2. HandlerInv(h)'
    BY <1>1, <1>2, <2>1 DEF HandlerInv, OpsAt, Clean, StillOwned, Live, OtherHolds, Pending
  <2> QED
    BY <1>1, <1>5, <2>1, <2>2, ControlStep
<1> QED
  BY <1>6, <1>7

LEMMA EndOfLoopStep ==
    ASSUME TypeOK, LockProtocol, NEW h \in Handlers, EndOfLoop(h)
    PROVE  LockProtocol'
<1>1. /\ pc[h] = "update" /\ Goto(h, "touch") /\ pc'[h] = "touch"
      /\ UNCHANGED <<owner, rows, req, writes, lock>>
  BY DEF EndOfLoop, At, Goto, TypeOK
<1>2. HandlerInv(h) /\ req[h].op = "reorder" /\ req[h] \in Requests
  BY <1>1, ServingFacts DEF OpsAt
<1>3. HandlerInv(h)'
  BY <1>1, <1>2 DEF HandlerInv, OpsAt, Clean, StillOwned, Live, OtherHolds, Pending
<1> QED
  BY <1>1, <1>3, ControlStep

LEMMA TouchPlaylistStep ==
    ASSUME TypeOK, LockProtocol, NEW h \in Handlers, TouchPlaylist(h)
    PROVE  LockProtocol'
<1>1. /\ pc[h] = "touch" /\ Goto(h, "commit") /\ pc'[h] = "commit"
      /\ UNCHANGED <<owner, rows, req, writes>>
  BY DEF TouchPlaylist, At, Goto, TypeOK
<1>2. /\ HandlerInv(h) /\ req[h].op \in {"add", "remove", "reorder"}
      /\ req[h] \in Requests
  BY <1>1, ServingFacts DEF OpsAt
<1>3. CASE Live(req[h].list)
  <2>1. Acquire(h, "noKeyUpdate") /\ LockHolders(h, "noKeyUpdate") = {}
    BY <1>1, <1>3, BlockersAt DEF TouchPlaylist, At
  <2>2. lock'[h] = "noKeyUpdate"
    BY <2>1 DEF Acquire, TypeOK
  <2>3. HandlerInv(h)'
    BY <1>1, <1>2, <1>3, <2>2 DEF HandlerInv, OpsAt, Clean, StillOwned, Live, AddHolds,
        OtherHolds, Pending
  <2> QED
    BY <1>1, <2>1, <2>3, AcquireStep
<1>4. CASE ~Live(req[h].list)
  <2>1. UNCHANGED lock
    BY <1>4 DEF TouchPlaylist
  <2>2. HandlerInv(h)'
    BY <1>1, <1>2, <2>1 DEF HandlerInv, OpsAt, Clean, StillOwned, Live, AddHolds,
        OtherHolds, Pending
  <2> QED
    BY <1>1, <2>1, <2>2, ControlStep
<1> QED
  BY <1>3, <1>4

LEMMA DeletePlaylistStep ==
    ASSUME TypeOK, LockProtocol, NEW h \in Handlers, DeletePlaylist(h)
    PROVE  LockProtocol'
<1>1. CASE Rollback(h, "notFound")
  BY <1>1, RollbackStep
<1>2. CASE ~Rollback(h, "notFound")
  <2>1. /\ pc[h] = "delete" /\ Owns(h) /\ LockHolders(h, "update") = {}
        /\ Acquire(h, "update") /\ Goto(h, "cascade")
        /\ UNCHANGED <<owner, rows, req, writes>>
    BY <1>2, BlockersAt DEF DeletePlaylist, At
  <2>2. pc'[h] = "cascade" /\ lock'[h] = "update"
    BY <2>1 DEF Goto, Acquire, TypeOK
  <2>3. /\ HandlerInv(h) /\ req[h].op = "delete" /\ req[h] \in Requests
        /\ req[h].user \in Users /\ writes[h] = NoWrites
    BY <2>1, ServingFacts DEF OpsAt, HandlerInv, Clean
  <2>4. \A k \in Tracks : ~Pending(h, k)'
    BY <2>1, <2>3 DEF Pending, NoWrites
  <2>5. HandlerInv(h)'
    BY <2>1, <2>2, <2>3, <2>4 DEF HandlerInv, OpsAt, Clean, StillOwned, Live, Owns,
        OtherHolds, DeleteHolds
  <2> QED
    BY <2>1, <2>5, AcquireStep
<1> QED
  BY <1>1, <1>2

LEMMA CascadeRowStep ==
    ASSUME TypeOK, LockProtocol, NEW h \in Handlers, CascadeRow(h)
    PROVE  LockProtocol'
<1>1. PICK k \in ToCascade(h) : RowHolders(h, k) = {} /\ Write(h, k, Absent)
  BY DEF CascadeRow
<1>2. /\ pc[h] = "cascade" /\ pc'[h] = "cascade" /\ Goto(h, "cascade")
      /\ UNCHANGED <<owner, rows, req, lock>>
  BY DEF CascadeRow, Goto, TypeOK
<1>3. k \in Tracks /\ rows[req[h].list][k] # Absent
  BY DEF ToCascade, Members
<1>4. HandlerInv(h) /\ req[h].op = "delete" /\ req[h] \in Requests
  BY <1>2, ServingFacts DEF OpsAt
<1>5. \A l \in Tracks : writes'[h][l] = IF l = k THEN Absent ELSE writes[h][l]
  BY <1>1, <1>3, WritesOf
<1>6. OtherHolds(h)'
  BY <1>2, <1>3, <1>4, <1>5 DEF HandlerInv, OtherHolds, Pending
<1>7. HandlerInv(h)'
  BY <1>2, <1>4, <1>6 DEF HandlerInv, OpsAt, Clean, StillOwned, Live, DeleteHolds
<1>8. Absent \in Absent .. MaxPosition
  BY RangeFacts
<1> QED
  BY <1>1, <1>2, <1>3, <1>7, <1>8, WriteStep

LEMMA EndOfCascadeStep ==
    ASSUME TypeOK, LockProtocol, NEW h \in Handlers, EndOfCascade(h)
    PROVE  LockProtocol'
<1>1. /\ pc[h] = "cascade" /\ Goto(h, "commit") /\ pc'[h] = "commit"
      /\ ToCascade(h) = {} /\ ToCascade(h)' = {}
      /\ UNCHANGED <<owner, rows, req, writes, lock>>
  BY DEF EndOfCascade, Goto, TypeOK, ToCascade, Members
<1>2. HandlerInv(h) /\ req[h].op = "delete" /\ req[h] \in Requests
  BY <1>1, ServingFacts DEF OpsAt
<1>3. HandlerInv(h)'
  BY <1>1, <1>2 DEF HandlerInv, OpsAt, Clean, StillOwned, Live, OtherHolds, Pending,
      DeleteHolds
<1> QED
  BY <1>1, <1>3, ControlStep

-----------------------------------------------------------------------------
(* The steps that change committed data                                     *)

\* A playlist id that is handed out has no rows and no transaction on it.
LEMMA CreatePlaylistStep ==
    ASSUME TypeOK, LockProtocol, NEW h \in Handlers, CreatePlaylist(h)
    PROVE  LockProtocol'
<1>1. PICK q \in Requests, p \in Playlists :
        /\ owner[p] = Unborn
        /\ owner' \in {owner, [owner EXCEPT ![p] = q.user]}
        /\ UNCHANGED <<rows, pc, req, writes, lock>>
  BY DEF CreatePlaylist
<1>2. q.user \in Users
  BY RequestFields
<1>3. /\ owner'[p] \in {Unborn, q.user}
      /\ \A o \in Playlists : o # p => owner'[o] = owner[o]
  BY <1>1 DEF TypeOK
<1>4. OwnedMembership'
  <2>1. Members(p) = {}
    BY <1>1, OwnerAssumption DEF LockProtocol, OwnedMembership, Members
  <2> QED
    BY <1>1, <1>3, <2>1 DEF LockProtocol, OwnedMembership, Members
<1>5. ASSUME NEW g \in Handlers PROVE HandlerInv(g)'
  <2>1. HandlerInv(g)
    BY DEF LockProtocol
  <2>2. CASE pc[g] = "idle"
    BY <1>1, <2>1, <2>2 DEF HandlerInv
  <2>3. CASE pc[g] # "idle"
    <3>1. req[g].user \in Users /\ req[g].list \in Playlists
      BY <2>3, ServingFacts
    <3>2. Live(req[g].list) => Live(req[g].list)'
      BY <1>1, <1>2, <1>3, <3>1 DEF Live
    <3>3. StillOwned(g) => StillOwned(g)'
      BY <1>1, <1>3, <3>1, OwnerAssumption DEF StillOwned
    <3> QED
      BY <1>1, <2>1, <2>3, <3>2, <3>3 DEF HandlerInv, AddHolds, OtherHolds, DeleteHolds,
          ToCascade, Members, Pending
  <2> QED
    BY <2>2, <2>3
<1>6. ASSUME NEW f \in Handlers, NEW g \in Handlers, f # g PROVE Exclusion(f, g)'
  BY <1>1, <1>6 DEF LockProtocol, Exclusion, Pending
<1> QED
  BY <1>4, <1>5, <1>6 DEF LockProtocol

\* The committed data after h's COMMIT, in terms of its pending writes.
LEMMA Committed ==
    ASSUME TypeOK, LockProtocol, NEW h \in Handlers, Commit(h)
    PROVE  /\ pc[h] = "commit"
           /\ HandlerInv(h)
           /\ req[h].list \in Playlists /\ req[h].track \in Tracks
           /\ req[h].user \in Users
           /\ req[h].op \in {"add", "remove", "reorder", "delete"}
           /\ \A p \in Playlists : p # req[h].list => rows'[p] = rows[p] /\ owner'[p] = owner[p]
           /\ owner'[req[h].list] = IF req[h].op = "delete" THEN Gone ELSE owner[req[h].list]
           /\ \A k \in Tracks : rows'[req[h].list][k] =
                IF Pending(h, k) THEN writes[h][k] ELSE rows[req[h].list][k]
           /\ OthersKeep(h)
           /\ pc'[h] = "idle" /\ writes'[h] = NoWrites /\ lock'[h] = "none"
<1>1. pc[h] = "commit"
  BY DEF Commit, At
<1>2. /\ HandlerInv(h) /\ req[h].list \in Playlists /\ req[h].track \in Tracks
      /\ req[h].user \in Users
      /\ req[h].op \in {"add", "remove", "reorder", "delete"}
  BY <1>1, ServingFacts DEF OpsAt
<1>3. /\ OthersKeep(h)
      /\ pc'[h] = "idle" /\ writes'[h] = NoWrites /\ lock'[h] = "none"
  BY DEF Commit, Answer, Goto, TypeOK, OthersKeep
<1>4. \A p \in Playlists : p # req[h].list => rows'[p] = rows[p] /\ owner'[p] = owner[p]
  BY DEF Commit, TypeOK
<1>5. owner'[req[h].list] = IF req[h].op = "delete" THEN Gone ELSE owner[req[h].list]
  BY <1>2 DEF Commit, TypeOK
<1>6. \A k \in Tracks : rows'[req[h].list][k] =
        IF Pending(h, k) THEN writes[h][k] ELSE rows[req[h].list][k]
  BY <1>2 DEF Commit, TypeOK, Pending
<1> QED
  BY <1>1, <1>2, <1>3, <1>4, <1>5, <1>6

\* Which tracks h's COMMIT adds to and drops from its playlist.
LEMMA CommittedMembers ==
    ASSUME TypeOK, LockProtocol, NEW h \in Handlers, Commit(h),
           NEW p \in Playlists, p = req[h].list, NEW k \in Tracks, k = req[h].track
    PROVE  /\ req[h].op = "add" =>
                \/ Members(p)' = Members(p)
                \/ Members(p)' = Members(p) \cup {k} /\ owner[p] = TrackOwner[k]
           /\ req[h].op = "remove" =>
                Members(p)' = Members(p) \/ Members(p)' = Members(p) \ {k}
           /\ req[h].op = "reorder" => Members(p)' = Members(p)
           /\ req[h].op = "delete" => Members(p)' = {} /\ Live(p)
<1>1. /\ pc[h] = "commit" /\ HandlerInv(h)
      /\ \A l \in Tracks : rows'[p][l] = IF Pending(h, l) THEN writes[h][l] ELSE rows[p][l]
  BY Committed
<1>2. \A l \in Tracks : /\ l \in Members(p)' <=> rows'[p][l] # Absent
                        /\ l \in Members(p) <=> rows[p][l] # Absent
  BY DEF Members
<1>3. Members(p) \subseteq Tracks /\ Members(p)' \subseteq Tracks
  BY DEF Members
<1>4. CASE req[h].op = "add"
  <2>1. AddHolds(h)
    BY <1>1, <1>4 DEF HandlerInv
  <2>2. CASE Pending(h, k)
    <3>1. owner[p] = TrackOwner[k]
      BY <1>1, <2>1, <2>2, OwnerAssumption DEF AddHolds, HandlerInv, StillOwned, Live
    <3>2. Members(p)' = Members(p) \cup {k}
      BY <1>1, <1>2, <1>3, <2>1, <2>2 DEF AddHolds
    <3> QED
      BY <1>4, <3>1, <3>2
  <2>3. CASE ~Pending(h, k)
    <3>1. Members(p)' = Members(p)
      BY <1>1, <1>2, <1>3, <2>1, <2>3 DEF AddHolds
    <3> QED
      BY <1>4, <3>1
  <2> QED
    BY <2>2, <2>3
<1>5. CASE req[h].op = "remove"
  <2>1. OtherHolds(h)
    BY <1>1, <1>5 DEF HandlerInv
  <2>2. CASE Pending(h, k)
    <3>1. Members(p)' = Members(p) \ {k}
      BY <1>1, <1>2, <1>3, <1>5, <2>1, <2>2 DEF OtherHolds
    <3> QED
      BY <1>5, <3>1
  <2>3. CASE ~Pending(h, k)
    <3>1. Members(p)' = Members(p)
      BY <1>1, <1>2, <1>3, <1>5, <2>1, <2>3 DEF OtherHolds
    <3> QED
      BY <1>5, <3>1
  <2> QED
    BY <2>2, <2>3
<1>6. CASE req[h].op = "reorder"
  <2>1. OtherHolds(h)
    BY <1>1, <1>6 DEF HandlerInv
  <2>2. Members(p)' = Members(p)
    BY <1>1, <1>2, <1>3, <1>6, <2>1 DEF OtherHolds
  <2> QED
    BY <1>6, <2>2
<1>7. CASE req[h].op = "delete"
  <2>1. OtherHolds(h) /\ DeleteHolds(h)
    BY <1>1, <1>7 DEF HandlerInv
  <2>2. Live(p)
    BY <1>1, <1>7, <2>1 DEF HandlerInv, DeleteHolds
  <2>3. \A l \in Tracks : rows[p][l] # Absent => Pending(h, l)
    BY <1>1, <2>1 DEF DeleteHolds, ToCascade, Members, Pending
  <2>4. Members(p)' = {}
    BY <1>1, <1>2, <1>3, <1>7, <2>1, <2>3 DEF OtherHolds
  <2> QED
    BY <1>7, <2>2, <2>4
<1>8. req[h].op \in {"add", "remove", "reorder", "delete"}
  BY Committed
<1> QED
  BY <1>4, <1>5, <1>6, <1>7, <1>8

LEMMA CommitKeepsOwnership ==
    ASSUME TypeOK, LockProtocol, NEW h \in Handlers, Commit(h)
    PROVE  OwnedMembership'
<1> SUFFICES ASSUME NEW p \in Playlists, NEW l \in Members(p)'
             PROVE  owner'[p] = TrackOwner[l]
  BY DEF OwnedMembership
<1>1. l \in Members(p) => owner[p] = TrackOwner[l]
  BY DEF LockProtocol, OwnedMembership
<1>2. CASE p # req[h].list
  BY <1>1, <1>2, Committed DEF Members
<1>3. CASE p = req[h].list
  <2>1. PICK k \in Tracks : k = req[h].track
    BY Committed
  <2>2. /\ req[h].op \in {"add", "remove", "reorder", "delete"}
        /\ owner'[p] = IF req[h].op = "delete" THEN Gone ELSE owner[p]
    BY <1>3, Committed
  <2>3. req[h].op # "delete" /\ (l \in Members(p) \/ (l = k /\ owner[p] = TrackOwner[k]))
    BY <1>3, <2>1, <2>2, CommittedMembers
  <2> QED
    BY <1>1, <2>2, <2>3
<1> QED
  BY <1>2, <1>3

\* What g holds on the playlist h commits to is still right afterwards.
LEMMA CommitKeepsRival ==
    ASSUME TypeOK, LockProtocol, NEW h \in Handlers, Commit(h),
           NEW g \in Handlers, g # h, pc[g] # "idle", req[g].list = req[h].list
    PROVE  HandlerInv(g)'
<1> DEFINE p == req[h].list
<1>1. /\ HandlerInv(h) /\ HandlerInv(g) /\ Exclusion(g, h) /\ Exclusion(h, g)
      /\ pc[h] = "commit"
  BY Committed DEF LockProtocol
<1>2. /\ \A k \in Tracks : ~(Pending(g, k) /\ Pending(h, k))
      /\ lock[g] = "update" => lock[h] = "none"
      /\ lock[h] = "update" => lock[g] = "none"
  BY <1>1 DEF Exclusion
<1>3. /\ pc'[g] = pc[g] /\ req'[g] = req[g] /\ writes'[g] = writes[g]
      /\ lock'[g] = lock[g] /\ \A k \in Tracks : Pending(g, k)' <=> Pending(g, k)
  BY Committed DEF OthersKeep, Pending
<1>4. \A k \in Tracks : rows'[p][k] = IF Pending(h, k) THEN writes[h][k] ELSE rows[p][k]
  BY Committed
<1>5. owner'[p] = IF req[h].op = "delete" THEN Gone ELSE owner[p]
  BY Committed
<1>6. req[h].op \in {"add", "remove", "reorder", "delete"}
  BY Committed
<1>7. CASE req[h].op = "delete"
  <2>1. OtherHolds(h) /\ DeleteHolds(h) /\ lock[h] = "update" /\ lock[g] = "none"
    BY <1>1, <1>2, <1>7 DEF HandlerInv, DeleteHolds
  <2>2. \A k \in Tracks : rows[p][k] # Absent => Pending(h, k)
    BY <2>1, <1>1 DEF DeleteHolds, ToCascade, Members, Pending
  <2>3. \A k \in Tracks : Pending(g, k) => rows[p][k] = Absent /\ rows'[p][k] = Absent
    BY <1>2, <1>4, <2>2
  <2>4. req[g].op # "add" => \A k \in Tracks : ~Pending(g, k)
    BY <1>1, <2>3 DEF HandlerInv, OtherHolds
  <2>5. req[g].op = "delete" => pc[g] \notin {"cascade", "commit"}
    BY <1>1, <2>1 DEF HandlerInv, DeleteHolds
  <2>6. StillOwned(g)'
    BY <1>3, <1>5, <1>7 DEF StillOwned
  <2>7. req[g].op = "add" => AddHolds(g)'
    BY <1>1, <1>3, <2>1, <2>3 DEF HandlerInv, AddHolds
  <2>8. (req[g].op # "add" => OtherHolds(g)') /\ (req[g].op = "delete" => DeleteHolds(g)')
    BY <1>3, <2>4, <2>5 DEF OtherHolds, DeleteHolds
  <2> QED
    BY <1>1, <1>3, <2>1, <2>6, <2>7, <2>8 DEF HandlerInv
<1>8. CASE req[h].op # "delete"
  <2>1. \A k \in Tracks : Pending(g, k) => rows'[p][k] = rows[p][k]
    BY <1>2, <1>4
  <2>2. owner'[p] = owner[p]
    BY <1>5, <1>8
  <2>3. StillOwned(g) => StillOwned(g)'
    BY <1>3, <2>2 DEF StillOwned
  <2>4. Live(req[g].list) => Live(req[g].list)'
    BY <1>3, <2>2 DEF Live
  <2>5. AddHolds(g) => AddHolds(g)'
    BY <1>3, <2>1 DEF AddHolds
  <2>6. OtherHolds(g) => OtherHolds(g)'
    BY <1>3, <2>1 DEF OtherHolds
  <2>7. ASSUME req[g].op = "delete", DeleteHolds(g) PROVE DeleteHolds(g)'
    <3>1. ASSUME pc[g] = "commit", NEW k \in ToCascade(g)' PROVE FALSE
      <4>1. k \in Tracks /\ rows'[p][k] # Absent /\ ~Pending(g, k)
        BY <1>3, <3>1 DEF ToCascade, Members, Pending
      <4>2. rows[p][k] = Absent
        BY <2>7, <3>1, <4>1 DEF DeleteHolds, ToCascade, Members, Pending
      <4>3. Pending(h, k)
        BY <1>4, <4>1, <4>2
      <4>4. req[h].op = "add"
        BY <1>1, <1>6, <1>8, <4>1, <4>2, <4>3 DEF HandlerInv, OtherHolds
      <4>5. lock[h] # "none"
        BY <1>1, <4>1, <4>3, <4>4 DEF HandlerInv, AddHolds
      <4> QED
        BY <1>2, <2>7, <3>1, <4>5 DEF DeleteHolds
    <3> QED
      BY <1>3, <2>7, <3>1 DEF DeleteHolds
  <2> QED
    BY <1>1, <1>3, <2>3, <2>4, <2>5, <2>6, <2>7 DEF HandlerInv
<1> QED
  BY <1>7, <1>8

LEMMA CommitStep ==
    ASSUME TypeOK, LockProtocol, NEW h \in Handlers, Commit(h)
    PROVE  LockProtocol'
<1>1. OthersKeep(h) /\ pc'[h] = "idle" /\ writes'[h] = NoWrites /\ lock'[h] = "none"
  BY Committed
<1>2. HandlerInv(h)'
  BY <1>1 DEF HandlerInv, NoWrites
<1>3. ASSUME NEW g \in Handlers, g # h PROVE HandlerInv(g)'
  <2>1. HandlerInv(g)
    BY DEF LockProtocol
  <2>2. /\ pc'[g] = pc[g] /\ req'[g] = req[g] /\ writes'[g] = writes[g]
        /\ lock'[g] = lock[g]
    BY <1>1, <1>3 DEF OthersKeep
  <2>3. CASE pc[g] = "idle"
    BY <2>1, <2>2, <2>3 DEF HandlerInv, NoWrites
  <2>4. CASE pc[g] # "idle" /\ req[g].list = req[h].list
    BY <1>3, <2>4, CommitKeepsRival
  <2>5. CASE pc[g] # "idle" /\ req[g].list # req[h].list
    <3>1. req[g].list \in Playlists
      BY <2>5, ServingFacts
    <3>2. rows'[req[g].list] = rows[req[g].list] /\ owner'[req[g].list] = owner[req[g].list]
      BY <2>5, <3>1, Committed
    <3> QED
      BY <2>1, <2>2, <2>5, <3>2 DEF HandlerInv, StillOwned, Live, AddHolds, OtherHolds,
          DeleteHolds, ToCascade, Members, Pending
  <2> QED
    BY <2>3, <2>4, <2>5
<1>4. ASSUME NEW f \in Handlers, NEW g \in Handlers, f # g PROVE Exclusion(f, g)'
  <2>1. Exclusion(f, g)
    BY <1>4 DEF LockProtocol
  <2> QED
    BY <1>1, <1>4, <2>1 DEF OthersKeep, Exclusion, Pending
<1> QED
  BY <1>2, <1>3, <1>4, CommitKeepsOwnership DEF LockProtocol

-----------------------------------------------------------------------------
(* The invariant                                                            *)

IInv == TypeOK /\ LockProtocol

LEMMA InitMembers ==
    ASSUME Init, NEW p \in Playlists
    PROVE  Members(p) = {InitOrder[p][i] : i \in DOMAIN InitOrder[p]}
<1>1. InitOrder[p] \in Seq(Tracks) /\ Len(InitOrder[p]) <= MaxPosition + 1
  BY InitAssumption
<1>2. rows[p] = Positions(InitOrder[p])
  BY DEF Init
<1>3. \A i \in DOMAIN InitOrder[p] : InitOrder[p][i] \in Tracks
  BY <1>1
<1> QED
  BY <1>1, <1>2, <1>3, PositionsType DEF Members

LEMMA InitIInv == Init => IInv
<1> SUFFICES ASSUME Init PROVE IInv
  OBVIOUS
<1>1. OwnedMembership
  <2> SUFFICES ASSUME NEW p \in Playlists, NEW k \in Members(p)
               PROVE  owner[p] = TrackOwner[k]
    BY DEF OwnedMembership
  <2>1. PICK i \in DOMAIN InitOrder[p] : InitOrder[p][i] = k
    BY InitMembers
  <2> QED
    BY <2>1, InitAssumption DEF Init
<1>2. \A h \in Handlers : HandlerInv(h)
  BY DEF Init, HandlerInv
<1>3. \A g, h \in Handlers : Exclusion(g, h)
  BY DEF Init, Exclusion
<1> QED
  BY <1>1, <1>2, <1>3, InitType DEF IInv, LockProtocol

LEMMA NextIInv == IInv /\ [Next]_vars => IInv'
<1> SUFFICES ASSUME TypeOK, LockProtocol, [Next]_vars PROVE IInv'
  BY DEF IInv
<1>1. TypeOK'
  <2>1. \A h \in Handlers : Serving(h)
    BY ServingFacts DEF Serving
  <2> QED
    BY <2>1, NextType
<1>2. LockProtocol'
  <2>1. CASE UNCHANGED vars
    BY <2>1 DEF vars, LockProtocol, OwnedMembership, HandlerInv, Exclusion, StillOwned,
        Live, AddHolds, OtherHolds, DeleteHolds, ToCascade, Members, Pending
  <2>2. ASSUME NEW h \in Handlers, Serve(h) PROVE LockProtocol'
    <3>1. CASE \E status \in Replies : Rollback(h, status)
      BY <3>1, RollbackStep
    <3>2. CASE DeadlockAbort(h) \/ RenamePlaylist(h) \/ ListPlaylistTracks(h)
      BY <3>2, RollbackStep DEF DeadlockAbort, RenamePlaylist, ListPlaylistTracks
    <3> QED
      BY <2>2, <3>2, OwnsPlaylistStep, OwnsTrackStep, EvaluatePositionStep, InsertRowStep,
         CheckForeignKeyStep, RemoveRowStep, ReadMembersStep, UpdatePositionStep,
         EndOfLoopStep, TouchPlaylistStep, DeletePlaylistStep, CascadeRowStep,
         EndOfCascadeStep, CommitStep, GetPlaylistStep DEF Serve
  <2>3. ASSUME NEW h \in Handlers, Fail(h) PROVE LockProtocol'
    BY <2>3, RollbackStep DEF Fail
  <2> QED
    BY <2>1, <2>2, <2>3, ReceiveStep, CreatePlaylistStep DEF Next
<1> QED
  BY <1>1, <1>2 DEF IInv

LEMMA Invariance == Spec => []IInv
<1>1. Init => IInv
  BY InitIInv
<1>2. IInv /\ [Next]_vars => IInv'
  BY NextIInv
<1> QED
  BY <1>1, <1>2, PTL DEF Spec

\* Every variable keeps its type: stored positions stay within the range of
\* the INTEGER column however many adds and removes there are.
THEOREM TypeCorrect == Spec => []TypeOK
<1>1. IInv => TypeOK
  BY DEF IInv
<1> QED
  BY <1>1, Invariance, PTL

\* The locking discipline holds among any number of concurrent transactions.
THEOREM LockingCorrect == Spec => []LockProtocol
<1>1. IInv => LockProtocol
  BY DEF IInv
<1> QED
  BY <1>1, Invariance, PTL

\* No membership row is ever left without its playlist, and none puts a track
\* into a playlist of another user.
THEOREM OwnershipCorrect == Spec => []OwnedMembership
<1>1. IInv => OwnedMembership
  BY DEF IInv, LockProtocol
<1> QED
  BY <1>1, Invariance, PTL

-----------------------------------------------------------------------------
(* Refinement                                                               *)

MembersOf == [p \in Playlists |-> Members(p)]

LEMMA SameMembers ==
    ASSUME UNCHANGED rows
    PROVE  MembersOf' = MembersOf
BY DEF MembersOf, Members

\* Only a commit and the creation of a playlist change what others see.
LEMMA QuietSteps ==
    ASSUME NEW h \in Handlers, Receive(h) \/ Serve(h) \/ Fail(h), ~Commit(h)
    PROVE  UNCHANGED <<owner, rows>>
BY DEF Receive, Serve, Fail, OwnsPlaylist, OwnsTrack, EvaluatePosition, InsertRow,
    CheckForeignKey, RemoveRow, ReadMembers, UpdatePosition, EndOfLoop, TouchPlaylist,
    RenamePlaylist, DeletePlaylist, CascadeRow, EndOfCascade, GetPlaylist,
    ListPlaylistTracks, DeadlockAbort, Rollback

LEMMA CreateImplements ==
    ASSUME NEW h \in Handlers, CreatePlaylist(h)
    PROVE  Membership!Next \/ UNCHANGED Membership!vars
<1>1. PICK q \in Requests, p \in Playlists :
        /\ owner[p] = Unborn
        /\ owner' \in {owner, [owner EXCEPT ![p] = q.user]}
        /\ UNCHANGED rows
  BY DEF CreatePlaylist
<1>2. q.user \in Users
  BY RequestFields
<1>3. CASE owner' = owner
  BY <1>1, <1>3, SameMembers DEF Membership!vars, MembersOf
<1>4. CASE owner' = [owner EXCEPT ![p] = q.user]
  <2>1. Membership!Create(p, q.user)
    BY <1>1, <1>4, SameMembers DEF Membership!Create, MembersOf
  <2> QED
    BY <1>2, <2>1 DEF Membership!Next
<1> QED
  BY <1>1, <1>3, <1>4

LEMMA CommitImplements ==
    ASSUME TypeOK, LockProtocol, NEW h \in Handlers, Commit(h)
    PROVE  Membership!Next \/ UNCHANGED Membership!vars
<1>1. PICK p \in Playlists, k \in Tracks : p = req[h].list /\ k = req[h].track
  BY Committed
<1>2. /\ req[h].op \in {"add", "remove", "reorder", "delete"}
      /\ \A o \in Playlists : o # p => rows'[o] = rows[o]
      /\ owner' = [owner EXCEPT ![p] = IF req[h].op = "delete" THEN Gone ELSE @]
  BY <1>1, Committed DEF Commit
<1>3. MembersOf' = [MembersOf EXCEPT ![p] = Members(p)']
  BY <1>1, <1>2 DEF MembersOf, Members
<1>4. CASE req[h].op = "delete"
  <2>1. Members(p)' = {} /\ owner[p] \in Users
    BY <1>1, <1>4, CommittedMembers DEF Live
  <2>2. Membership!Delete(p)
    BY <1>2, <1>3, <1>4, <2>1 DEF Membership!Delete, MembersOf
  <2> QED
    BY <1>1, <2>2 DEF Membership!Next
<1>5. CASE req[h].op # "delete"
  <2>1. owner' = owner
    BY <1>1, <1>2, <1>5 DEF TypeOK
  <2>2. CASE Members(p)' = Members(p)
    <3>1. MembersOf' = MembersOf
      BY <1>3, <2>2 DEF MembersOf
    <3> QED
      BY <2>1, <3>1 DEF Membership!vars, MembersOf
  <2>3. CASE Members(p)' = Members(p) \cup {k} /\ owner[p] = TrackOwner[k]
    <3>1. Membership!Add(p, k)
      BY <1>1, <1>3, <2>1, <2>3 DEF Membership!Add, MembersOf
    <3> QED
      BY <1>1, <3>1 DEF Membership!Next
  <2>4. CASE Members(p)' = Members(p) \ {k}
    <3>1. Membership!Remove(p, k)
      BY <1>1, <1>3, <2>1, <2>4 DEF Membership!Remove, MembersOf
    <3> QED
      BY <1>1, <3>1 DEF Membership!Next
  <2> QED
    BY <1>1, <1>2, <1>5, <2>2, <2>3, <2>4, CommittedMembers
<1> QED
  BY <1>4, <1>5

\* The concurrent transactions implement atomic operations on membership.
THEOREM MembershipRefined == Spec => RefinesMembership
<1>1. Init => Membership!Init
  BY InitMembers DEF Init, Membership!Init
<1>2. IInv /\ [Next]_vars => [Membership!Next]_Membership!vars
  <2> SUFFICES ASSUME TypeOK, LockProtocol, [Next]_vars
               PROVE  Membership!Next \/ UNCHANGED Membership!vars
    BY DEF IInv
  <2>1. CASE UNCHANGED <<owner, rows>>
    BY <2>1, SameMembers DEF Membership!vars, MembersOf
  <2>2. CASE ~UNCHANGED <<owner, rows>>
    <3>1. PICK h \in Handlers : CreatePlaylist(h) \/ Commit(h)
      BY <2>2, QuietSteps DEF Next, vars
    <3> QED
      BY <3>1, CreateImplements, CommitImplements
  <2> QED
    BY <2>1, <2>2
<1> QED
  BY <1>1, <1>2, Invariance, PTL DEF Spec, RefinesMembership, Membership!Spec

-----------------------------------------------------------------------------
(* Orders                                                                   *)

\* An order the validation accepts lists every member, and each once.
LEMMA ListsMembers ==
    ASSUME IsFiniteSet(Tracks), NEW order \in Seq(Tracks), NEW members \in SUBSET Tracks,
           ExactlyMembers(order, members)
    PROVE  /\ \A i, j \in DOMAIN order : order[i] = order[j] => i = j
           /\ members \subseteq {order[i] : i \in DOMAIN order}
<1>1. IsFiniteSet(members)
  BY FS_Subset
<1>2. Len(order) \in Nat /\ DOMAIN order = 1 .. Len(order)
  OBVIOUS
<1>3. Cardinality(DOMAIN order) = Cardinality(members)
  BY <1>2, FS_Interval DEF ExactlyMembers
<1>4. order \in Injection(DOMAIN order, members)
  BY <1>2 DEF ExactlyMembers, Injection, IsInjective
<1>5. order \in Surjection(DOMAIN order, members)
  BY <1>1, <1>3, <1>4, FS_Injection
<1>6. \A i, j \in DOMAIN order : order[i] = order[j] => i = j
  BY DEF ExactlyMembers
<1> QED
  BY <1>5, <1>6 DEF Surjection

\* The place of a track in an order without duplicates.
LEMMA PlaceOf ==
    ASSUME NEW order \in Seq(Tracks), NEW i \in DOMAIN order,
           \A k, l \in DOMAIN order : order[k] = order[l] => k = l
    PROVE  Positions(order)[order[i]] = i - 1
<1>1. order[i] \in Tracks
  OBVIOUS
<1>2. (CHOOSE k \in DOMAIN order : order[k] = order[i]) = i
  OBVIOUS
<1> QED
  BY <1>1, <1>2 DEF Positions

LEMMA InitOrderInv == Init => OrderInv
<1> SUFFICES ASSUME Init PROVE OrderInv
  OBVIOUS
<1>1. ASSUME NEW p \in Playlists PROVE Seeded(p) = Members(p)
  BY InitMembers DEF Seeded
<1>2. ASSUME NEW p \in Playlists, owner[p] = Unborn PROVE Seeded(p) = {}
  <2>1. \A i \in DOMAIN InitOrder[p] : Unborn = TrackOwner[InitOrder[p][i]]
    BY <1>2, InitAssumption DEF Init
  <2>2. \A i \in DOMAIN InitOrder[p] : TrackOwner[InitOrder[p][i]] \in Users
    BY InitAssumption, OwnerAssumption
  <2> QED
    BY <2>1, <2>2, OwnerAssumption DEF Seeded
<1>3. \A h \in Handlers : ReorderInv(h)
  BY DEF Init, ReorderInv
<1>4. CommittedOrderWasRequested
  BY DEF Init, CommittedOrderWasRequested, Seeded
<1> QED
  BY <1>1, <1>2, <1>3, <1>4 DEF OrderInv, Kept

\* A playlist that was not there a step ago is new, and starts empty.
LEMMA KeptStays ==
    ASSUME TypeOK, LockProtocol, OrderInv, [Next]_vars, NEW p \in Playlists
    PROVE  Kept(p)' = Kept(p) \/ Kept(p)' = {}
<1> SUFFICES ASSUME Live(p)' PROVE Live(p) \/ Seeded(p) = {}
  BY DEF Kept
<1>1. CASE UNCHANGED owner
  BY <1>1 DEF Live
<1>2. ASSUME NEW h \in Handlers, CreatePlaylist(h) PROVE Live(p) \/ Seeded(p) = {}
  <2>1. PICK q \in Requests, o \in Playlists :
            owner[o] = Unborn /\ owner' \in {owner, [owner EXCEPT ![o] = q.user]}
    BY <1>2 DEF CreatePlaylist
  <2> QED
    BY <2>1 DEF OrderInv, Live, TypeOK
<1>3. ASSUME NEW h \in Handlers, Commit(h) PROVE Live(p) \/ Seeded(p) = {}
  BY <1>3, Committed, OwnerAssumption DEF Live
<1> QED
  BY <1>1, <1>2, <1>3, QuietSteps DEF Next, vars

\* A step of one handler leaves the others' reorders alone.
LEMMA OthersReorder ==
    ASSUME TypeOK, LockProtocol, OrderInv, [Next]_vars,
           NEW h \in Handlers, Receive(h) \/ CreatePlaylist(h) \/ Serve(h) \/ Fail(h),
           NEW g \in Handlers, g # h
    PROVE  ReorderInv(g)'
<1>1. /\ pc'[g] = pc[g] /\ req'[g] = req[g] /\ writes'[g] = writes[g] /\ idx'[g] = idx[g]
  <2>1. CASE \E status \in Replies : Answer(h, status)
    BY <2>1 DEF Answer, Goto, TypeOK
  <2>2. CASE Receive(h) \/ CreatePlaylist(h)
    BY <2>2 DEF Receive, CreatePlaylist, Goto, TypeOK
  <2>3. CASE \/ OwnsPlaylist(h) \/ OwnsTrack(h) \/ EvaluatePosition(h) \/ CheckForeignKey(h)
             \/ ReadMembers(h) \/ EndOfLoop(h) \/ TouchPlaylist(h) \/ DeletePlaylist(h)
             \/ EndOfCascade(h) \/ GetPlaylist(h)
    <3>1. CASE ~\E status \in Replies : Answer(h, status)
      BY <2>3, <3>1 DEF OwnsPlaylist, OwnsTrack, EvaluatePosition, CheckForeignKey,
          ReadMembers, EndOfLoop, TouchPlaylist, DeletePlaylist, EndOfCascade, GetPlaylist,
          Rollback, Replies, Goto, TypeOK
    <3> QED
      BY <2>1, <3>1
  <2>4. CASE InsertRow(h) \/ RemoveRow(h)
    BY <2>4 DEF InsertRow, RemoveRow, Write, Goto, TypeOK
  <2>5. CASE UpdatePosition(h) \/ CascadeRow(h)
    <3>1. writes' = writes \/ \E k, n : Write(h, k, n)
      BY <2>5 DEF UpdatePosition, CascadeRow
    <3>2. writes'[g] = writes[g]
      BY <3>1 DEF Write, TypeOK
    <3> QED
      BY <2>5, <3>2 DEF UpdatePosition, CascadeRow, TypeOK
  <2>6. CASE RenamePlaylist(h) \/ ListPlaylistTracks(h) \/ DeadlockAbort(h) \/ Fail(h)
    BY <2>1, <2>6 DEF RenamePlaylist, ListPlaylistTracks, DeadlockAbort, Fail, Rollback, Replies
  <2>7. CASE Commit(h)
    BY <2>1, <2>7 DEF Commit, Replies
  <2> QED
    BY <2>2, <2>3, <2>4, <2>5, <2>6, <2>7 DEF Serve
<1>2. ReorderInv(g)
  BY DEF OrderInv
<1>3. CASE pc[g] = "idle"
  BY <1>1, <1>2, <1>3 DEF ReorderInv
<1>4. CASE pc[g] # "idle"
  <2>1. req[g].list \in Playlists
    BY <1>4, ServingFacts
  <2>2. Kept(req[g].list)' = Kept(req[g].list) \/ Kept(req[g].list)' = {}
    BY <1>1, <2>1, KeptStays
  <2> QED
    BY <1>1, <1>2, <1>4, <2>2 DEF ReorderInv
<1> QED
  BY <1>3, <1>4

LEMMA AcceptedOrder ==
    ASSUME IsFiniteSet(Tracks), TypeOK, LockProtocol, OrderInv,
           NEW h \in Handlers, ReadMembers(h)
    PROVE  ReorderInv(h)'
<1>1. CASE Rollback(h, "mismatch")
  BY <1>1 DEF Rollback, Answer, Goto, TypeOK, ReorderInv
<1>2. CASE ~Rollback(h, "mismatch")
  <2> DEFINE order == req[h].order
             p == req[h].list
  <2>1. /\ pc[h] = "members" /\ pc'[h] = "update" /\ ExactlyMembers(order, Members(p))
        /\ UNCHANGED <<owner, rows, req, writes, idx>>
    BY <1>2 DEF ReadMembers, At, Goto, TypeOK
  <2>2. order \in Seq(Tracks) /\ p \in Playlists
    BY <2>1, ServingFacts, RequestFields
  <2>3. idx[h] = 0 /\ Kept(p) \subseteq Members(p) /\ Kept(p)' = Kept(p)
    BY <2>1, <2>2 DEF OrderInv, ReorderInv, Kept, Live
  <2> HIDE DEF p, order
  <2>4. /\ \A i, j \in DOMAIN order : order[i] = order[j] => i = j
        /\ Members(p) \subseteq {order[i] : i \in DOMAIN order}
    BY <2>1, <2>2, ListsMembers DEF Members
  <2>5. \A i \in DOMAIN order : ~(i <= 0)
    BY <2>2
  <2> QED
    BY <2>1, <2>3, <2>4, <2>5 DEF ReorderInv, order, p
<1> QED
  BY <1>1, <1>2

LEMMA UpdatedPosition ==
    ASSUME TypeOK, LockProtocol, OrderInv, NEW h \in Handlers, UpdatePosition(h)
    PROVE  ReorderInv(h)'
<1> DEFINE order == req[h].order
           p == req[h].list
           k == order[idx[h] + 1]
<1>1. /\ pc[h] = "update" /\ idx[h] < Len(order) /\ idx'[h] = idx[h] + 1
      /\ IF k \in Members(p) THEN Write(h, k, idx[h]) ELSE UNCHANGED writes
      /\ UNCHANGED <<owner, rows, pc, req>>
  BY DEF UpdatePosition, At, TypeOK
<1>2. order \in Seq(Tracks) /\ p \in Playlists /\ req[h].op = "reorder" /\ idx[h] \in Nat
  BY <1>1, ServingFacts, RequestFields DEF OpsAt, TypeOK
<1>3. Kept(p) \subseteq Members(p) /\ Kept(p)' = Kept(p)
  BY <1>1, <1>2 DEF OrderInv, Kept, Live
<1>4. /\ \A i, j \in DOMAIN order : order[i] = order[j] => i = j
      /\ Kept(p) \subseteq {order[i] : i \in DOMAIN order}
      /\ \A i \in DOMAIN order :
            order[i] \in Kept(p) /\ i <= idx[h] => writes[h][order[i]] = i - 1
  BY <1>1, <1>2 DEF OrderInv, ReorderInv
<1> HIDE DEF order, p
<1>5. k \in Tracks
  BY <1>1, <1>2
<1>6. ASSUME NEW i \in DOMAIN order, order[i] \in Kept(p), i <= idx[h] + 1
      PROVE  writes'[h][order[i]] = i - 1
  <2>1. CASE i = idx[h] + 1
    <3>1. Write(h, k, idx[h])
      BY <1>1, <1>3, <1>6, <2>1
    <3>2. writes'[h][k] = idx[h]
      BY <1>5, <3>1, WritesOf
    <3> QED
      BY <1>2, <2>1, <3>2
  <2>2. CASE i # idx[h] + 1
    <3>1. i <= idx[h] /\ order[i] \in Tracks /\ idx[h] + 1 \in DOMAIN order
      BY <1>1, <1>2, <1>6, <2>2
    <3>2. order[i] # k /\ writes[h][order[i]] = i - 1
      BY <1>4, <1>6, <2>2, <3>1
    <3>3. writes'[h][order[i]] = writes[h][order[i]]
      <4>1. CASE Write(h, k, idx[h])
        BY <1>5, <3>1, <3>2, <4>1, WritesOf
      <4> QED
        BY <1>1, <4>1
    <3> QED
      BY <3>2, <3>3
  <2> QED
    BY <2>1, <2>2
<1> QED
  BY <1>1, <1>3, <1>4, <1>6 DEF ReorderInv, order, p

\* A handler's own steps.
LEMMA OwnReorder ==
    ASSUME IsFiniteSet(Tracks), TypeOK, LockProtocol, OrderInv, [Next]_vars,
           NEW h \in Handlers, Receive(h) \/ CreatePlaylist(h) \/ Serve(h) \/ Fail(h)
    PROVE  ReorderInv(h)'
<1>1. ReorderInv(h)
  BY DEF OrderInv
<1>2. CASE \E status \in Replies : Answer(h, status)
  BY <1>2 DEF Answer, Goto, TypeOK, ReorderInv
<1>3. CASE Receive(h) \/ CreatePlaylist(h)
  <2>1. pc[h] = "idle" /\ idx'[h] = idx[h] /\ pc'[h] \notin {"update", "touch", "commit"}
    BY <1>3 DEF Receive, CreatePlaylist, Goto, FirstStatement, TypeOK
  <2> QED
    BY <1>1, <2>1 DEF ReorderInv
<1>4. CASE OwnsPlaylist(h) /\ ~\E status \in Replies : Answer(h, status)
  <2>1. pc[h] = "owns" /\ idx'[h] = idx[h] /\ pc'[h] \notin {"update", "touch", "commit"}
    BY <1>4 DEF OwnsPlaylist, At, Goto, AfterOwns, Rollback, Replies, TypeOK
  <2> QED
    BY <1>1, <2>1 DEF ReorderInv
<1>5. CASE \/ OwnsTrack(h) \/ EvaluatePosition(h) \/ InsertRow(h) \/ CheckForeignKey(h)
           \/ RemoveRow(h) \/ DeletePlaylist(h) \/ CascadeRow(h) \/ EndOfCascade(h)
           \/ GetPlaylist(h)
  <2>1. CASE ~\E status \in Replies : Answer(h, status)
    <3>1. pc[h] \in {"track", "position", "insert", "foreignKey", "removeRow", "delete",
                     "cascade", "get"}
      BY <1>5 DEF OwnsTrack, EvaluatePosition, InsertRow, CheckForeignKey, RemoveRow,
          DeletePlaylist, CascadeRow, EndOfCascade, GetPlaylist, At
    <3>2. /\ pc'[h] \notin {"idle", "owns", "members"} /\ req'[h] = req[h]
      BY <1>5, <2>1 DEF OwnsTrack, EvaluatePosition, InsertRow, CheckForeignKey, RemoveRow,
          DeletePlaylist, CascadeRow, EndOfCascade, GetPlaylist, Goto, Rollback, Replies, TypeOK
    <3>3. req[h].op # "reorder"
      BY <3>1, ServingFacts DEF OpsAt
    <3> QED
      BY <3>2, <3>3 DEF ReorderInv
  <2> QED
    BY <1>2, <2>1
<1>6. CASE EndOfLoop(h)
  <2> DEFINE order == req[h].order
             p == req[h].list
  <2>1. /\ pc[h] = "update" /\ pc'[h] = "touch" /\ idx[h] >= Len(order)
        /\ UNCHANGED <<owner, req, writes>>
    BY <1>6 DEF EndOfLoop, At, Goto, TypeOK
  <2>2. order \in Seq(Tracks) /\ idx[h] \in Nat /\ Kept(p)' = Kept(p)
    BY <2>1, ServingFacts, RequestFields DEF TypeOK, Kept, Live
  <2>3. \A i \in DOMAIN order : i <= idx[h]
    BY <2>1, <2>2
  <2> QED
    BY <1>1, <2>1, <2>2, <2>3 DEF ReorderInv
<1>7. CASE TouchPlaylist(h)
  <2>1. /\ pc[h] = "touch" /\ pc'[h] = "commit" /\ UNCHANGED <<owner, req, writes>>
    BY <1>7 DEF TouchPlaylist, At, Goto, TypeOK
  <2>2. Kept(req[h].list)' = Kept(req[h].list)
    BY <2>1 DEF Kept, Live
  <2> QED
    BY <1>1, <2>1, <2>2 DEF ReorderInv
<1>8. CASE RenamePlaylist(h) \/ ListPlaylistTracks(h) \/ DeadlockAbort(h) \/ Fail(h)
  BY <1>2, <1>8 DEF RenamePlaylist, ListPlaylistTracks, DeadlockAbort, Fail, Rollback, Replies
<1>9. CASE Commit(h)
  BY <1>2, <1>9 DEF Commit, Replies
<1> QED
  BY <1>2, <1>3, <1>4, <1>5, <1>6, <1>7, <1>8, <1>9, AcceptedOrder, UpdatedPosition DEF Serve

\* A commit leaves the kept tracks where they are, or puts all of them where its
\* order says.
LEMMA CommittedOrder ==
    ASSUME NothingRemoved, TypeOK, LockProtocol, OrderInv, [Next]_vars,
           NEW h \in Handlers, Commit(h), NEW p \in Playlists, Live(p)'
    PROVE  /\ Kept(p)' \subseteq Members(p)'
           /\ \/ \A k \in Kept(p)' : rows'[p][k] = rows[p][k]
              \/ \E q \in Requests : \A k \in Kept(p)' : rows'[p][k] = Positions(q.order)[k]
<1>1. Kept(p)' \subseteq Kept(p) /\ Kept(p) \subseteq Members(p)
  BY KeptStays DEF OrderInv
<1>2. CASE p # req[h].list
  BY <1>1, <1>2, Committed DEF Members
<1>3. CASE p = req[h].list
  <2>1. /\ pc[h] = "commit" /\ HandlerInv(h) /\ req[h] \in Requests
        /\ req[h].op \in {"add", "reorder"}
        /\ \A k \in Tracks : rows'[p][k] = IF Pending(h, k) THEN writes[h][k] ELSE rows[p][k]
    <3>1. /\ pc[h] = "commit" /\ HandlerInv(h)
          /\ req[h].op \in {"add", "remove", "reorder", "delete"}
          /\ owner'[p] = IF req[h].op = "delete" THEN Gone ELSE owner[p]
          /\ \A k \in Tracks : rows'[p][k] = IF Pending(h, k) THEN writes[h][k] ELSE rows[p][k]
      BY <1>3, Committed
    <3>2. req[h] \in Requests
      BY <3>1, ServingFacts
    <3>3. req[h].op # "remove" /\ req[h].op # "delete"
      BY <3>1, <3>2, OwnerAssumption DEF NothingRemoved, Live
    <3> QED
      BY <3>1, <3>2, <3>3
  <2>2. Members(p) \subseteq Members(p)'
    <3>1. PICK k \in Tracks : k = req[h].track
      BY Committed
    <3> QED
      BY <1>3, <2>1, <3>1, CommittedMembers
  <2>3. CASE req[h].op = "add"
    <3>1. \A k \in Members(p) : ~Pending(h, k)
      BY <1>3, <2>1, <2>3 DEF HandlerInv, AddHolds, Members
    <3> QED
      BY <1>1, <2>1, <2>2, <3>1 DEF Members
  <2>4. CASE req[h].op = "reorder"
    <3> DEFINE order == req[h].order
    <3>1. order \in Seq(Tracks)
      BY <2>1, RequestFields
    <3>2. /\ \A i, j \in DOMAIN order : order[i] = order[j] => i = j
          /\ Kept(p) \subseteq {order[i] : i \in DOMAIN order}
          /\ \A i \in DOMAIN order : order[i] \in Kept(p) => writes[h][order[i]] = i - 1
      BY <1>3, <2>1, <2>4 DEF OrderInv, ReorderInv
    <3> HIDE DEF order
    <3>3. ASSUME NEW k \in Kept(p) PROVE rows'[p][k] = Positions(order)[k]
      <4>1. PICK i \in DOMAIN order : k = order[i]
        BY <3>2
      <4>2. writes[h][k] = i - 1 /\ i \in Nat \ {0} /\ k \in Tracks
        BY <3>1, <3>2, <4>1
      <4>3. Pending(h, k)
        BY <4>2 DEF Pending, Untouched
      <4>4. Positions(order)[k] = i - 1
        BY <3>1, <3>2, <4>1, PlaceOf
      <4> QED
        BY <2>1, <4>2, <4>3, <4>4
    <3> QED
      BY <1>1, <2>1, <2>2, <3>3 DEF order
  <2> QED
    BY <2>1, <2>3, <2>4
<1> QED
  BY <1>2, <1>3

LEMMA NextOrderInv ==
    ASSUME IsFiniteSet(Tracks), NothingRemoved, TypeOK, LockProtocol, OrderInv, [Next]_vars
    PROVE  OrderInv'
<1>1. CASE UNCHANGED vars
  BY <1>1 DEF vars, OrderInv, ReorderInv, CommittedOrderWasRequested, Kept, Live, Members
<1>2. ASSUME NEW h \in Handlers, Receive(h) \/ CreatePlaylist(h) \/ Serve(h) \/ Fail(h)
      PROVE  OrderInv'
  <2>1. \A g \in Handlers : ReorderInv(g)'
    BY <1>2, OwnReorder, OthersReorder
  <2>2. ASSUME NEW p \in Playlists, owner'[p] = Unborn PROVE Seeded(p) = {}
    <3>1. owner[p] = Unborn
      <4>1. CASE CreatePlaylist(h)
        BY <2>2, <4>1, RequestFields, OwnerAssumption DEF CreatePlaylist, TypeOK
      <4>2. CASE Commit(h)
        BY <2>2, <4>2, Committed, OwnerAssumption
      <4> QED
        BY <1>2, <2>2, <4>1, <4>2, QuietSteps
    <3> QED
      BY <3>1 DEF OrderInv
  <2>3. ASSUME NEW p \in Playlists
        PROVE  /\ Kept(p)' \subseteq Members(p)'
               /\ Live(p)' =>
                    \E order \in {InitOrder[p]} \cup {q.order : q \in Requests} :
                        \A k \in Seeded(p) : rows'[p][k] = Positions(order)[k]
    <3>1. Kept(p)' = Kept(p) \/ Kept(p)' = {}
      BY KeptStays
    <3>2. Live(p)' => Kept(p)' = Seeded(p)
      BY DEF Kept
    <3>3. Kept(p) # {} => Live(p)
      BY DEF Kept
    <3>4. CASE Kept(p)' = {}
      BY <3>2, <3>4
    <3>5. CASE Kept(p)' # {} /\ UNCHANGED rows
      BY <3>1, <3>2, <3>3, <3>5 DEF OrderInv, CommittedOrderWasRequested, Members
    <3>6. CASE Kept(p)' # {} /\ Commit(h)
      <4>1. Live(p)' /\ Live(p)
        BY <3>1, <3>3, <3>6 DEF Kept
      <4> QED
        BY <3>2, <3>6, <4>1, CommittedOrder DEF OrderInv, CommittedOrderWasRequested
    <3>7. UNCHANGED rows \/ Commit(h)
      BY <1>2, QuietSteps DEF CreatePlaylist
    <3> QED
      BY <3>4, <3>5, <3>6, <3>7
  <2> QED
    BY <2>1, <2>2, <2>3 DEF OrderInv, CommittedOrderWasRequested
<1> QED
  BY <1>1, <1>2 DEF Next

\* Where no request removes a track, the committed positions of the tracks a
\* playlist started with are those of one order that was requested, or of the
\* first: no reorder is ever committed in part, and no two of them mixed, for
\* any number of reorders, adds and deletions at once.
THEOREM OrderIsWhole ==
    ASSUME IsFiniteSet(Tracks), NothingRemoved
    PROVE  Spec => []CommittedOrderWasRequested
<1>1. Init => OrderInv
  BY InitOrderInv
<1>2. IInv /\ OrderInv /\ [Next]_vars => OrderInv'
  BY NextOrderInv DEF IInv
<1>3. OrderInv => CommittedOrderWasRequested
  BY DEF OrderInv
<1> QED
  BY <1>1, <1>2, <1>3, Invariance, PTL DEF Spec

-----------------------------------------------------------------------------
(* Sequences                                                                *)

Increasing(s, position) ==
    \A i, j \in DOMAIN s : i < j => position[s[i]] < position[s[j]]

Injective(members, position) ==
    \A k, l \in members : position[k] = position[l] => k = l

Covers(s, members) == \A k \in members : \E i \in DOMAIN s : s[i] = k

\* The members listed up to k.
UpTo(members, position, k) == {l \in members : position[l] <= position[k]}

\* In an increasing list i members are listed up to the i-th.
LEMMA RankInList ==
    ASSUME NEW members, NEW position, \A k \in members : position[k] \in Int,
           NEW n \in Nat, NEW s \in [1 .. n -> members], Increasing(s, position),
           Covers(s, members), NEW i \in 1 .. n
    PROVE  Cardinality(UpTo(members, position, s[i])) = i
<1>0. /\ DOMAIN s = 1 .. n
      /\ \A j \in 1 .. n : s[j] \in members /\ position[s[j]] \in Int
      /\ \A j, k \in 1 .. n : j < k => position[s[j]] < position[s[k]]
  BY DEF Increasing
<1>1. ASSUME NEW j \in 1 .. n PROVE position[s[j]] <= position[s[i]] <=> j <= i
  <2>1. CASE j < i
    BY <1>0, <2>1
  <2>2. CASE i < j
    BY <1>0, <2>2
  <2> QED
    BY <1>0, <2>1, <2>2
<1>2. \A j, k \in 1 .. n : s[j] = s[k] => j = k
  BY <1>0
<1>3. UpTo(members, position, s[i]) = {s[j] : j \in 1 .. i}
  BY <1>0, <1>1 DEF UpTo, Covers
<1> DEFINE f == [j \in 1 .. i |-> s[j]]
<1>4. f \in Bijection(1 .. i, {s[j] : j \in 1 .. i})
  BY <1>2 DEF Bijection, Injection, IsInjective, Surjection
<1>5. IsFiniteSet(1 .. i) /\ Cardinality(1 .. i) = i
  BY FS_Interval
<1>6. ExistsBijection(1 .. i, {s[j] : j \in 1 .. i})
  BY <1>4 DEF ExistsBijection
<1> HIDE DEF f
<1> QED
  BY <1>3, <1>5, <1>6, FS_Bijection

\* A list of the members with increasing positions is the sorted one.
LEMMA SortedIsUnique ==
    ASSUME NEW members, NEW position, \A k \in members : position[k] \in Int,
           NEW n \in Nat, NEW s \in [1 .. n -> members], Increasing(s, position),
           Covers(s, members)
    PROVE  /\ Cardinality(members) = n
           /\ Sorted(members, position) = s
<1>0. /\ DOMAIN s = 1 .. n
      /\ \A i \in 1 .. n : s[i] \in members /\ position[s[i]] \in Int
      /\ \A i, j \in 1 .. n : i < j => position[s[i]] < position[s[j]]
  BY DEF Increasing
<1>1. \A i, j \in 1 .. n : s[i] = s[j] => i = j
  BY <1>0
<1>2. s \in Bijection(1 .. n, members)
  BY <1>1 DEF Bijection, Injection, IsInjective, Surjection, Covers
<1>3. IsFiniteSet(members) /\ Cardinality(members) = n
  <2>1. ExistsBijection(1 .. n, members)
    BY <1>2 DEF ExistsBijection
  <2>2. IsFiniteSet(1 .. n) /\ Cardinality(1 .. n) = n
    BY FS_Interval
  <2> QED
    BY <2>1, <2>2, FS_Bijection
<1> DEFINE Lists(t) == /\ members = {t[i] : i \in DOMAIN t}
                       /\ \A i, j \in DOMAIN t : i < j => position[t[i]] <= position[t[j]]
<1>4. Lists(s)
  <2>1. members = {s[i] : i \in DOMAIN s}
    BY DEF Covers
  <2>2. \A i, j \in 1 .. n : i < j => position[s[i]] <= position[s[j]]
    BY <1>0
  <2> QED
    BY <1>0, <2>1, <2>2
<1>5. Sorted(members, position) = CHOOSE t \in [1 .. n -> members] : Lists(t)
  BY <1>3 DEF Sorted
<1>6. ASSUME NEW t \in [1 .. n -> members], Lists(t) PROVE t = s
  <2>0. DOMAIN t = 1 .. n /\ Covers(t, members)
    BY <1>6 DEF Covers
  <2>1. t \in Surjection(1 .. n, members)
    BY <2>0 DEF Surjection, Covers
  <2>2. t \in Injection(1 .. n, members)
    <3>1. IsFiniteSet(1 .. n) /\ Cardinality(1 .. n) = Cardinality(members)
      BY <1>3, FS_Interval
    <3> QED
      BY <2>1, <3>1, FS_SurjSameCardinalityImpliesInj
  <2>3. \A i, j \in 1 .. n : t[i] = t[j] => i = j
    BY <2>2 DEF Injection, IsInjective
  <2>4. \A k, l \in members : position[k] = position[l] => k = l
    <3>1. \A i, j \in 1 .. n : position[s[i]] = position[s[j]] => i = j
      BY <1>0
    <3> QED
      BY <1>0, <3>1 DEF Covers
  <2>6. \A i, j \in 1 .. n : i < j => position[t[i]] <= position[t[j]]
    BY <1>6, <2>0
  <2> HIDE DEF Lists
  <2>5. Increasing(t, position)
    <3> SUFFICES ASSUME NEW i \in 1 .. n, NEW j \in 1 .. n, i < j
                 PROVE  position[t[i]] < position[t[j]]
      BY <2>0 DEF Increasing
    <3>1. position[t[i]] <= position[t[j]] /\ t[i] # t[j] /\ t[i] \in members /\ t[j] \in members
      BY <2>6, <2>3
    <3> QED
      BY <2>4, <3>1
  <2>7. ASSUME NEW i \in 1 .. n PROVE t[i] = s[i]
    <3>1. PICK j \in 1 .. n : s[j] = t[i]
      BY <1>0 DEF Covers
    <3>2. Cardinality(UpTo(members, position, t[i])) = i
      BY <2>0, <2>5, RankInList
    <3>3. Cardinality(UpTo(members, position, s[j])) = j
      BY RankInList
    <3> QED
      BY <3>1, <3>2, <3>3
  <2> QED
    BY <2>7
<1> HIDE DEF Lists
<1> QED
  BY <1>3, <1>4, <1>5, <1>6

\* Members with different positions can be sorted.
LEMMA SortedLists ==
    ASSUME NEW members, IsFiniteSet(members), NEW position,
           \A k \in members : position[k] \in Int, Injective(members, position)
    PROVE  LET s == Sorted(members, position)
               n == Cardinality(members)
           IN  /\ n \in Nat
               /\ s \in [1 .. n -> members]
               /\ Covers(s, members)
               /\ Increasing(s, position)
<1> DEFINE n == Cardinality(members)
           Rank(k) == Cardinality(UpTo(members, position, k))
           rank == [k \in members |-> Rank(k)]
<1>1. n \in Nat
  BY FS_CardinalityType
<1>2. ASSUME NEW k \in members
      PROVE  /\ IsFiniteSet(UpTo(members, position, k))
             /\ Rank(k) \in 1 .. n
  <2>1. UpTo(members, position, k) \in SUBSET members /\ k \in UpTo(members, position, k)
    BY DEF UpTo
  <2>2. IsFiniteSet(UpTo(members, position, k)) /\ Rank(k) <= n
    BY <2>1, FS_Subset
  <2>3. Rank(k) \in Nat /\ Rank(k) # 0
    BY <2>1, <2>2, FS_CardinalityType, FS_EmptySet
  <2> QED
    BY <1>1, <2>2, <2>3
<1>3. ASSUME NEW k \in members, NEW l \in members, position[k] < position[l]
      PROVE  Rank(k) < Rank(l)
  <2>1. /\ UpTo(members, position, k) \in SUBSET UpTo(members, position, l)
        /\ l \in UpTo(members, position, l) /\ l \notin UpTo(members, position, k)
    BY <1>3 DEF UpTo
  <2>2. Rank(k) <= Rank(l) /\ Rank(k) # Rank(l)
    BY <1>2, <2>1, FS_Subset
  <2> QED
    BY <1>2, <2>2
<1> HIDE DEF Rank
<1>4. \A k, l \in members : Rank(k) = Rank(l) => k = l
  <2> SUFFICES ASSUME NEW k \in members, NEW l \in members, k # l PROVE Rank(k) # Rank(l)
    OBVIOUS
  <2>1. position[k] < position[l] \/ position[l] < position[k]
    BY DEF Injective
  <2> QED
    BY <1>2, <1>3, <2>1
<1>5. rank \in Surjection(members, 1 .. n)
  <2>1. rank \in Injection(members, 1 .. n)
    BY <1>2, <1>4 DEF Injection, IsInjective
  <2>2. IsFiniteSet(1 .. n) /\ Cardinality(1 .. n) = n
    BY <1>1, FS_Interval
  <2> QED
    BY <2>1, <2>2, FS_Injection
<1>6. \A i \in 1 .. n : \E k \in members : Rank(k) = i
  BY <1>5 DEF Surjection
<1> DEFINE s == [i \in 1 .. n |-> CHOOSE k \in members : Rank(k) = i]
<1>7. \A i \in 1 .. n : s[i] \in members /\ Rank(s[i]) = i
  BY <1>6
<1>8. s \in [1 .. n -> members]
  BY <1>7
<1>9. Covers(s, members)
  BY <1>2, <1>4, <1>7 DEF Covers
<1> HIDE DEF s
<1>10. Increasing(s, position)
  <2> SUFFICES ASSUME NEW i \in 1 .. n, NEW j \in 1 .. n, i < j,
                      ~(position[s[i]] < position[s[j]])
               PROVE  FALSE
    BY <1>8 DEF Increasing
  <2>1. position[s[j]] < position[s[i]] \/ s[i] = s[j]
    BY <1>7 DEF Injective
  <2> QED
    BY <1>3, <1>7, <2>1
<1>11. Sorted(members, position) = s
  BY <1>1, <1>8, <1>9, <1>10, SortedIsUnique
<1> QED
  BY <1>1, <1>8, <1>9, <1>10, <1>11

\* A list without its at-th element.
LEMMA WithoutAt ==
    ASSUME NEW S, NEW s \in Seq(S), NEW at \in 1 .. Len(s)
    PROVE  LET t == SubSeq(s, 1, at - 1) \o SubSeq(s, at + 1, Len(s))
           IN  /\ t \in [1 .. (Len(s) - 1) -> S]
               /\ \A i \in 1 .. (Len(s) - 1) : t[i] = IF i < at THEN s[i] ELSE s[i + 1]
<1> DEFINE u == SubSeq(s, 1, at - 1)
           v == SubSeq(s, at + 1, Len(s))
<1>1. u \in Seq(S) /\ Len(u) = at - 1 /\ \A i \in 1 .. (at - 1) : u[i] = s[i]
  OBVIOUS
<1>2. v \in Seq(S) /\ Len(v) = Len(s) - at /\ \A i \in 1 .. (Len(s) - at) : v[i] = s[at + i]
  <2>1. Len(s) \in Nat /\ at + 1 \in Int /\ at \in 1 .. Len(s)
    OBVIOUS
  <2>2. v \in Seq(S) /\ Len(v) = IF at + 1 <= Len(s) THEN Len(s) - at ELSE 0
    BY <2>1, SubSeqProperties
  <2> QED
    BY <2>1, <2>2
<1> HIDE DEF u, v
<1>3. /\ u \o v \in Seq(S) /\ Len(u \o v) = Len(s) - 1
      /\ \A i \in 1 .. (Len(s) - 1) :
            (u \o v)[i] = IF i <= at - 1 THEN u[i] ELSE v[i - (at - 1)]
  BY <1>1, <1>2, ConcatProperties
<1>4. ASSUME NEW i \in 1 .. (Len(s) - 1)
      PROVE  (u \o v)[i] = IF i < at THEN s[i] ELSE s[i + 1]
  <2>1. CASE i < at
    BY <1>1, <1>3, <2>1
  <2>2. CASE ~(i < at)
    <3>1. i - (at - 1) \in 1 .. (Len(s) - at) /\ at + (i - (at - 1)) = i + 1
      BY <2>2
    <3> QED
      BY <1>2, <1>3, <2>2, <3>1
  <2> QED
    BY <2>1, <2>2
<1>5. u \o v \in [1 .. (Len(s) - 1) -> S]
  <2> DEFINE w == u \o v
  <2>1. w \in Seq(S) /\ Len(w) = Len(s) - 1
    BY <1>3
  <2> HIDE DEF w
  <2>2. w \in [1 .. Len(w) -> S]
    BY <2>1
  <2> QED
    BY <2>1, <2>2 DEF w
<1>6. \A i \in 1 .. (Len(s) - 1) : (u \o v)[i] = IF i < at THEN s[i] ELSE s[i + 1]
  BY <1>4
<1> QED
  BY <1>5, <1>6, Zenon DEF u, v

-----------------------------------------------------------------------------
(* One request at a time                                                    *)

\* Positions are numbers, and a playlist has finitely many of them.
LEMMA PositionsOf ==
    ASSUME TypeOK, IsFiniteSet(Tracks), NEW p \in Playlists
    PROVE  /\ IsFiniteSet(Members(p)) /\ Members(p) \subseteq Tracks
           /\ \A k \in Tracks : rows[p][k] \in Int
           /\ \A k \in Members(p) : rows[p][k] \in Int
<1>1. Members(p) \in SUBSET Tracks
  BY DEF Members
<1>2. \A k \in Tracks : rows[p][k] \in Int
  BY PositionAssumption DEF TypeOK, Absent
<1> QED
  BY <1>1, <1>2, FS_Subset

\* A playlist starts with its tracks in the order they were added.
LEMMA InitSerialInv ==
    ASSUME Init, \A p \in Playlists : \A i, j \in DOMAIN InitOrder[p] :
                    InitOrder[p][i] = InitOrder[p][j] => i = j
    PROVE  /\ SerialInv
           /\ \A p \in Playlists : InOrder(p) = InitOrder[p]
<1>1. ASSUME NEW p \in Playlists
      PROVE  /\ Injective(Members(p), rows[p])
             /\ InOrder(p) = InitOrder[p]
  <2> DEFINE s == InitOrder[p]
  <2>1. s \in Seq(Tracks) /\ Len(s) \in Nat /\ s \in [1 .. Len(s) -> Tracks]
    BY InitAssumption
  <2>2. Members(p) = {s[i] : i \in DOMAIN s}
    BY InitMembers
  <2>3. rows[p] = Positions(s)
    BY DEF Init
  <2>4. \A i, j \in DOMAIN s : s[i] = s[j] => i = j
    OBVIOUS
  <2> HIDE DEF s
  <2>5. ASSUME NEW i \in 1 .. Len(s) PROVE rows[p][s[i]] = i - 1
    BY <2>1, <2>3, <2>4, PlaceOf
  <2>6. Covers(s, Members(p)) /\ s \in [1 .. Len(s) -> Members(p)]
    BY <2>1, <2>2 DEF Covers
  <2>7. \A k \in Members(p) : rows[p][k] \in Int
    BY <2>1, <2>5, <2>6 DEF Covers
  <2>8. Increasing(s, rows[p])
    BY <2>1, <2>5 DEF Increasing
  <2>9. Sorted(Members(p), rows[p]) = s
    BY <2>1, <2>6, <2>7, <2>8, SortedIsUnique
  <2>10. Injective(Members(p), rows[p])
    <3> SUFFICES ASSUME NEW i \in 1 .. Len(s), NEW j \in 1 .. Len(s),
                        rows[p][s[i]] = rows[p][s[j]]
                 PROVE  s[i] = s[j]
      BY <2>1, <2>6 DEF Injective, Covers
    <3>1. i - 1 = j - 1
      BY <2>5
    <3> QED
      BY <3>1
  <2> QED
    BY <2>9, <2>10 DEF InOrder, s
<1>2. \A h \in Handlers : SerialHolds(h)
  BY DEF Init, SerialHolds, Pending, NoWrites
<1> QED
  BY <1>1, <1>2 DEF SerialInv, DistinctPositions, Injective

\* A reorder that is accepted numbers the members, from its first UPDATE on.
LEMMA SerialAccepted ==
    ASSUME TypeOK, LockProtocol, SerialInv, NEW h \in Handlers, ReadMembers(h)
    PROVE  SerialHolds(h)'
<1>1. CASE Rollback(h, "mismatch")
  BY <1>1 DEF Rollback, Answer, Goto, TypeOK, SerialHolds
<1>2. CASE ~Rollback(h, "mismatch")
  <2> DEFINE order == req[h].order
             p == req[h].list
  <2>1. /\ pc[h] = "members" /\ pc'[h] = "update" /\ ExactlyMembers(order, Members(p))
        /\ UNCHANGED <<rows, req, writes, idx>>
    BY <1>2 DEF ReadMembers, At, Goto, TypeOK
  <2>2. order \in Seq(Tracks) /\ req[h].op = "reorder" /\ idx[h] = 0
    BY <2>1, ServingFacts, RequestFields DEF OpsAt, SerialInv, SerialHolds
  <2>3. ExactlyMembers(order, Members(p))'
    BY <2>1 DEF Members, ExactlyMembers
  <2>4. \A i \in DOMAIN order : ~(i <= 0)
    BY <2>2
  <2> QED
    BY <2>1, <2>2, <2>3, <2>4 DEF SerialHolds
<1> QED
  BY <1>1, <1>2

\* Each UPDATE of the loop numbers one track more.
LEMMA SerialUpdated ==
    ASSUME TypeOK, LockProtocol, SerialInv, NEW h \in Handlers, UpdatePosition(h)
    PROVE  SerialHolds(h)'
<1> DEFINE order == req[h].order
           p == req[h].list
           k == order[idx[h] + 1]
<1>1. /\ pc[h] = "update" /\ idx[h] < Len(order) /\ idx'[h] = idx[h] + 1
      /\ IF k \in Members(p) THEN Write(h, k, idx[h]) ELSE UNCHANGED writes
      /\ UNCHANGED <<rows, pc, req>>
  BY DEF UpdatePosition, At, TypeOK
<1>2. order \in Seq(Tracks) /\ req[h].op = "reorder" /\ idx[h] \in Nat
  BY <1>1, ServingFacts, RequestFields DEF OpsAt, TypeOK
<1>3. /\ ExactlyMembers(order, Members(p))
      /\ \A i \in DOMAIN order : i <= idx[h] => writes[h][order[i]] = i - 1
  BY <1>1, <1>2 DEF SerialInv, SerialHolds
<1>4. ExactlyMembers(order, Members(p))'
  BY <1>1, <1>3 DEF Members, ExactlyMembers
<1>5. /\ \A i, j \in DOMAIN order : order[i] = order[j] => i = j
      /\ \A i \in DOMAIN order : order[i] \in Members(p)
  BY <1>3 DEF ExactlyMembers
<1> HIDE DEF order, p
<1>6. k \in Tracks /\ k \in Members(p) /\ idx[h] + 1 \in DOMAIN order
  BY <1>1, <1>2, <1>5 DEF Members
<1>7. \A l \in Tracks : writes'[h][l] = IF l = k THEN idx[h] ELSE writes[h][l]
  BY <1>1, <1>6, WritesOf
<1>8. ASSUME NEW i \in DOMAIN order, i <= idx[h] + 1 PROVE writes'[h][order[i]] = i - 1
  <2>1. order[i] \in Tracks /\ i \in Nat
    BY <1>2
  <2>2. CASE i = idx[h] + 1
    BY <1>2, <1>7, <2>1, <2>2
  <2>3. CASE i # idx[h] + 1
    <3>1. i <= idx[h]
      BY <1>2, <1>8, <2>1, <2>3
    <3>2. order[i] # k
      BY <1>5, <1>6, <2>3
    <3> QED
      BY <1>3, <1>7, <2>1, <3>1, <3>2
  <2> QED
    BY <2>2, <2>3
<1> QED
  BY <1>1, <1>2, <1>4, <1>8 DEF SerialHolds, order, p

\* An add's position is behind all members when it is evaluated.
LEMMA SerialEvaluated ==
    ASSUME TypeOK, LockProtocol, SerialInv, NEW h \in Handlers, EvaluatePosition(h)
    PROVE  SerialHolds(h)'
<1>1. CASE Rollback(h, "error")
  BY <1>1 DEF Rollback, Answer, Goto, TypeOK, SerialHolds
<1>2. CASE ~Rollback(h, "error")
  <2> DEFINE p == req[h].list
  <2>1. PICK last \in Absent .. MaxPosition :
          /\ \A k \in Members(p) : rows[p][k] <= last
          /\ newPos' = [newPos EXCEPT ![h] = last + 1]
    BY <1>2 DEF EvaluatePosition
  <2>2. /\ pc[h] = "position" /\ pc'[h] = "insert" /\ newPos'[h] = last + 1
        /\ UNCHANGED <<rows, req, writes>>
    BY <1>2, <2>1 DEF EvaluatePosition, At, Goto, TypeOK
  <2>3. /\ p \in Playlists /\ req[h].op = "add"
        /\ writes[h] = NoWrites
    BY <2>2, ServingFacts DEF OpsAt, HandlerInv, Clean
  <2>4. \A k \in Members(p) : rows[p][k] \in Int /\ rows[p][k] < last + 1
    <3>1. last \in Int
      BY PositionAssumption DEF Absent
    <3>2. \A k \in Members(p) : rows[p][k] \in Int
      BY <2>3, PositionAssumption DEF TypeOK, Absent, Members
    <3> QED
      BY <2>1, <3>1, <3>2
  <2>5. \A k \in Tracks : ~Pending(h, k)'
    BY <2>2, <2>3 DEF Pending, NoWrites
  <2> QED
    BY <2>2, <2>3, <2>4, <2>5 DEF SerialHolds, Members
<1> QED
  BY <1>1, <1>2

\* Nothing has come behind the position by the time the row is inserted.
LEMMA SerialInserted ==
    ASSUME TypeOK, LockProtocol, SerialInv, NEW h \in Handlers, InsertRow(h)
    PROVE  SerialHolds(h)'
<1> DEFINE p == req[h].list
           k == req[h].track
<1>1. /\ pc[h] = "insert" /\ pc'[h] \in {"foreignKey", "touch"}
      /\ Write(h, k, newPos[h]) \/ UNCHANGED writes
      /\ UNCHANGED <<rows, req>>
  BY DEF InsertRow, At, Goto, TypeOK
<1>2. /\ k \in Tracks /\ req[h].op = "add" /\ writes[h] = NoWrites
  BY <1>1, ServingFacts DEF OpsAt, HandlerInv, Clean
<1>3. \A l \in Members(p) : rows[p][l] < newPos[h]
  BY <1>1 DEF SerialInv, SerialHolds
<1>4. \A l \in Tracks : writes'[h][l] = Untouched \/ writes'[h][l] = newPos[h]
  <2>1. \A l \in Tracks : writes[h][l] = Untouched
    BY <1>2 DEF NoWrites
  <2> HIDE DEF k
  <2>2. CASE Write(h, k, newPos[h])
    BY <1>2, <2>1, <2>2, WritesOf
  <2>3. CASE UNCHANGED writes
    BY <2>1, <2>3
  <2> QED
    BY <1>1, <2>2, <2>3
<1> QED
  BY <1>1, <1>2, <1>3, <1>4 DEF SerialHolds, Members, Pending


\* A handler's own steps.
LEMMA SerialStep ==
    ASSUME TypeOK, LockProtocol, SerialInv,
           NEW h \in Handlers, Receive(h) \/ CreatePlaylist(h) \/ Serve(h) \/ Fail(h)
    PROVE  SerialHolds(h)'
<1>1. SerialHolds(h)
  BY DEF SerialInv
<1>2. CASE \E status \in Replies : Answer(h, status)
  BY <1>2 DEF Answer, Goto, TypeOK, SerialHolds
<1>3. CASE Receive(h)
  <2>1. /\ pc[h] = "idle" /\ pc'[h] \in {"owns", "rename", "delete", "get"}
        /\ UNCHANGED <<rows, writes, idx>>
    BY <1>3 DEF Receive, Goto, FirstStatement, TypeOK
  <2>2. \A k \in Tracks : ~Pending(h, k)'
    BY <2>1 DEF LockProtocol, HandlerInv, Pending, NoWrites
  <2> QED
    BY <1>1, <2>1, <2>2 DEF SerialHolds
<1>4. CASE CreatePlaylist(h)
  BY <1>1, <1>4 DEF CreatePlaylist, SerialHolds, Pending, Members, ExactlyMembers
<1>5. CASE OwnsPlaylist(h) /\ ~\E status \in Replies : Answer(h, status)
  <2>1. /\ pc[h] = "owns" /\ pc'[h] \in {"track", "removeRow", "members"}
        /\ UNCHANGED <<rows, req, writes, idx>>
    BY <1>5 DEF OwnsPlaylist, At, Goto, AfterOwns, Rollback, Replies, TypeOK
  <2>2. \A k \in Tracks : ~Pending(h, k)'
    BY <2>1, ServingFacts DEF HandlerInv, Clean, Pending, NoWrites
  <2> QED
    BY <1>1, <2>1, <2>2 DEF SerialHolds
<1>6. CASE /\ OwnsTrack(h) \/ CheckForeignKey(h)
           /\ ~\E status \in Replies : Answer(h, status)
  <2>1. /\ pc[h] \in {"track", "foreignKey"} /\ pc'[h] \in {"position", "touch"}
        /\ UNCHANGED <<rows, req, writes>>
    BY <1>6 DEF OwnsTrack, CheckForeignKey, At, Goto, Rollback, Replies, TypeOK
  <2>2. req[h].op = "add"
    BY <2>1, ServingFacts DEF OpsAt
  <2> QED
    BY <1>1, <2>1, <2>2 DEF SerialHolds, Pending, Members
<1>7. CASE /\ RemoveRow(h) \/ DeletePlaylist(h) \/ CascadeRow(h) \/ EndOfCascade(h)
              \/ GetPlaylist(h)
           /\ ~\E status \in Replies : Answer(h, status)
  <2>1. /\ pc[h] \in {"removeRow", "delete", "cascade", "get"}
        /\ pc'[h] \in {"touch", "cascade", "commit", "list"} /\ UNCHANGED <<rows, req>>
    BY <1>7 DEF RemoveRow, DeletePlaylist, CascadeRow, EndOfCascade, GetPlaylist, At, Goto,
        Rollback, Replies, TypeOK
  <2>2. req[h].op \in {"remove", "delete", "tracks"}
    BY <2>1, ServingFacts DEF OpsAt
  <2> QED
    BY <2>1, <2>2 DEF SerialHolds
<1>8. CASE EndOfLoop(h)
  <2> DEFINE order == req[h].order
  <2>1. /\ pc[h] = "update" /\ pc'[h] = "touch" /\ idx[h] >= Len(order)
        /\ UNCHANGED <<rows, req, writes>>
    BY <1>8 DEF EndOfLoop, At, Goto, TypeOK
  <2>2. order \in Seq(Tracks) /\ idx[h] \in Nat /\ req[h].op = "reorder"
    BY <2>1, ServingFacts, RequestFields DEF TypeOK, OpsAt
  <2>3. \A i \in DOMAIN order : i <= idx[h]
    BY <2>1, <2>2
  <2> QED
    BY <1>1, <2>1, <2>2, <2>3 DEF SerialHolds, Members, ExactlyMembers
<1>9. CASE TouchPlaylist(h)
  <2>1. /\ pc[h] = "touch" /\ pc'[h] = "commit" /\ UNCHANGED <<rows, req, writes>>
    BY <1>9 DEF TouchPlaylist, At, Goto, TypeOK
  <2> QED
    BY <1>1, <2>1 DEF SerialHolds, Members, ExactlyMembers, Pending
<1>10. CASE RenamePlaylist(h) \/ ListPlaylistTracks(h) \/ DeadlockAbort(h) \/ Fail(h)
  BY <1>2, <1>10 DEF RenamePlaylist, ListPlaylistTracks, DeadlockAbort, Fail, Rollback, Replies
<1>11. CASE Commit(h)
  BY <1>2, <1>11 DEF Commit, Replies
<1> QED
  BY <1>2, <1>3, <1>4, <1>5, <1>6, <1>7, <1>8, <1>9, <1>10, <1>11, SerialAccepted,
     SerialUpdated, SerialEvaluated, SerialInserted DEF Serve

\* What a commit does to the positions of the playlist it is about.
LEMMA CommittedPositions ==
    ASSUME IsFiniteSet(Tracks), TypeOK, LockProtocol, SerialInv,
           NEW h \in Handlers, Commit(h), NEW p \in Playlists, p = req[h].list,
           NEW k \in Tracks, k = req[h].track
    PROVE  \/ rows'[p] = rows[p]
           \/ /\ req[h].op = "add" /\ k \notin Members(p)
              /\ Members(p)' = Members(p) \cup {k}
              /\ \A l \in Members(p) : rows'[p][l] = rows[p][l] /\ rows[p][l] < rows'[p][k]
           \/ /\ req[h].op = "remove" /\ k \in Members(p)
              /\ Members(p)' = Members(p) \ {k}
              /\ \A l \in Members(p)' : rows'[p][l] = rows[p][l]
           \/ /\ req[h].op = "reorder"
              /\ Members(p)' = Members(p)
              /\ Injective(Members(p), rows'[p])
           \/ /\ req[h].op = "delete"
              /\ Members(p)' = {}
<1>1. /\ pc[h] = "commit" /\ HandlerInv(h) /\ req[h] \in Requests
      /\ req[h].op \in {"add", "remove", "reorder", "delete"}
      /\ \A l \in Tracks : rows'[p][l] = IF Pending(h, l) THEN writes[h][l] ELSE rows[p][l]
  BY Committed, ServingFacts
<1>2. \/ rows'[p] = rows[p]
      \/ \E l \in Tracks : Pending(h, l)
  <2> SUFFICES ASSUME \A l \in Tracks : ~Pending(h, l) PROVE rows'[p] = rows[p]
    OBVIOUS
  <2>1. rows[p] \in [Tracks -> Absent .. MaxPosition]
    BY DEF TypeOK
  <2>2. rows'[p] = [l \in Tracks |-> IF writes[h][l] = Untouched THEN rows[p][l] ELSE writes[h][l]]
    BY DEF Commit, TypeOK
  <2>3. rows'[p] = [l \in Tracks |-> rows[p][l]]
    BY <2>2 DEF Pending
  <2> QED
    BY <2>1, <2>3
<1>3. ASSUME req[h].op = "add", NEW o \in Tracks, Pending(h, o)
      PROVE  /\ k \notin Members(p)
             /\ Members(p)' = Members(p) \cup {k}
             /\ \A l \in Members(p) : rows'[p][l] = rows[p][l] /\ rows[p][l] < rows'[p][k]
  <2>1. AddHolds(h)
    BY <1>1, <1>3 DEF HandlerInv
  <2>2. \A l \in Tracks : Pending(h, l) => l = k
    BY <2>1 DEF AddHolds
  <2>3. o = k /\ writes[h][k] # Absent /\ rows[p][k] = Absent
    BY <1>3, <2>1 DEF AddHolds
  <2>4. \A l \in Members(p) : rows[p][l] < writes[h][k]
    BY <1>1, <1>3, <2>3 DEF SerialInv, SerialHolds
  <2> QED
    BY <1>1, <1>3, <2>2, <2>3, <2>4 DEF Members
<1>4. ASSUME req[h].op = "remove", NEW o \in Tracks, Pending(h, o)
      PROVE  /\ k \in Members(p)
             /\ Members(p)' = Members(p) \ {k}
             /\ \A l \in Members(p)' : rows'[p][l] = rows[p][l]
  <2>1. OtherHolds(h)
    BY <1>1, <1>4 DEF HandlerInv
  <2>2. \A l \in Tracks : Pending(h, l) => l = k /\ writes[h][l] = Absent /\ rows[p][l] # Absent
    BY <1>4, <2>1 DEF OtherHolds
  <2> QED
    BY <1>1, <1>4, <2>2 DEF Members
<1>5. ASSUME req[h].op = "reorder"
      PROVE  Members(p)' = Members(p) /\ Injective(Members(p), rows'[p])
  <2> DEFINE order == req[h].order
  <2>1. order \in Seq(Tracks)
    BY <1>1, RequestFields
  <2>2. ExactlyMembers(order, Members(p)) /\ \A i \in DOMAIN order : writes[h][order[i]] = i - 1
    BY <1>1, <1>5 DEF SerialInv, SerialHolds
  <2> HIDE DEF order
  <2>3. Members(p) \in SUBSET Tracks
    BY DEF Members
  <2>4. \A l \in Members(p) : \E i \in DOMAIN order : order[i] = l
    BY <2>1, <2>2, <2>3, ListsMembers
  <2>5. ASSUME NEW i \in DOMAIN order PROVE rows'[p][order[i]] = i - 1 /\ i \in Int
    <3>1. i \in Nat \ {0} /\ order[i] \in Tracks /\ writes[h][order[i]] = i - 1
      BY <2>1, <2>2
    <3>2. Pending(h, order[i])
      BY <3>1 DEF Pending, Untouched
    <3> QED
      BY <1>1, <3>1, <3>2
  <2>6. Members(p)' = Members(p)
    BY <1>5, CommittedMembers
  <2>7. Injective(Members(p), rows'[p])
    <3> SUFFICES ASSUME NEW k1 \in Members(p), NEW k2 \in Members(p),
                        rows'[p][k1] = rows'[p][k2]
                 PROVE  k1 = k2
      BY DEF Injective
    <3>1. PICK i \in DOMAIN order : order[i] = k1
      BY <2>4
    <3>2. PICK j \in DOMAIN order : order[j] = k2
      BY <2>4
    <3>3. i - 1 = j - 1 /\ i \in Int /\ j \in Int
      BY <2>5, <3>1, <3>2
    <3> QED
      BY <3>1, <3>2, <3>3
  <2> QED
    BY <2>6, <2>7
<1>6. req[h].op = "delete" => Members(p)' = {}
  BY CommittedMembers
<1> QED
  BY <1>1, <1>2, <1>3, <1>4, <1>5, <1>6


\* Without rivals, only a commit changes positions, and it keeps them apart.
LEMMA NextSerialInv ==
    ASSUME OneHandler, IsFiniteSet(Tracks), TypeOK, LockProtocol, SerialInv, [Next]_vars
    PROVE  SerialInv'
<1>1. CASE UNCHANGED vars
  BY <1>1 DEF vars, SerialInv, DistinctPositions, SerialHolds, Pending, Members, ExactlyMembers
<1>2. ASSUME NEW h \in Handlers, Receive(h) \/ CreatePlaylist(h) \/ Serve(h) \/ Fail(h)
      PROVE  SerialInv'
  <2>1. \A g \in Handlers : SerialHolds(g)'
    <3> SUFFICES ASSUME NEW g \in Handlers PROVE SerialHolds(g)'
      OBVIOUS
    <3>1. g = h
      BY DEF OneHandler
    <3> QED
      BY <1>2, <3>1, SerialStep
  <2>2. CASE UNCHANGED rows
    BY <2>1, <2>2 DEF SerialInv, DistinctPositions, Members
  <2>3. CASE Commit(h)
    <3> SUFFICES ASSUME NEW p \in Playlists PROVE Injective(Members(p), rows[p])'
      BY <2>1 DEF SerialInv, DistinctPositions, Injective
    <3>1. Injective(Members(p), rows[p])
      BY DEF SerialInv, DistinctPositions, Injective
    <3>2. CASE rows'[p] = rows[p]
      BY <3>1, <3>2 DEF Members, Injective
    <3>3. CASE rows'[p] # rows[p]
      <4>1. p = req[h].list
        BY <2>3, <3>3, Committed
      <4>2. PICK k \in Tracks : k = req[h].track
        BY <2>3, Committed
      <4>3. ASSUME k \notin Members(p), Members(p)' = Members(p) \cup {k},
                   \A l \in Members(p) : rows'[p][l] = rows[p][l] /\ rows[p][l] < rows'[p][k]
            PROVE  Injective(Members(p), rows[p])'
        <5>1. \A l \in Members(p) : rows[p][l] \in Int /\ rows[p][l] # rows'[p][k]
          BY <4>3, PositionsOf
        <5> QED
          BY <3>1, <4>3, <5>1 DEF Injective
      <4>4. ASSUME Members(p)' = Members(p) \ {k},
                   \A l \in Members(p)' : rows'[p][l] = rows[p][l]
            PROVE  Injective(Members(p), rows[p])'
        BY <3>1, <4>4 DEF Injective
      <4>5. ASSUME Members(p)' = Members(p), Injective(Members(p), rows'[p])
            PROVE  Injective(Members(p), rows[p])'
        BY <4>5 DEF Injective
      <4>6. ASSUME Members(p)' = {} PROVE Injective(Members(p), rows[p])'
        BY <4>6 DEF Injective
      <4> QED
        BY <2>3, <3>3, <4>1, <4>2, <4>3, <4>4, <4>5, <4>6, CommittedPositions
    <3> QED
      BY <3>2, <3>3
  <2> QED
    BY <1>2, <2>2, <2>3, QuietSteps DEF CreatePlaylist
<1> QED
  BY <1>1, <1>2 DEF Next

OrderOf == [p \in Playlists |-> InOrder(p)]

\* An order changes only with the rows.
LEMMA SameOrder ==
    ASSUME UNCHANGED rows
    PROVE  OrderOf' = OrderOf
BY DEF OrderOf, InOrder, Members

\* What the order of a playlist is, as long as no two tracks share a position.
LEMMA OrderLists ==
    ASSUME IsFiniteSet(Tracks), TypeOK, DistinctPositions, NEW p \in Playlists
    PROVE  LET s == InOrder(p)
               n == Cardinality(Members(p))
           IN  /\ n \in Nat
               /\ s \in [1 .. n -> Members(p)]
               /\ s \in Seq(Members(p)) /\ Len(s) = n
               /\ Covers(s, Members(p))
               /\ Increasing(s, rows[p])
               /\ Serial!Elements(s) = Members(p)
<1> DEFINE s == InOrder(p)
           n == Cardinality(Members(p))
<1>1. Injective(Members(p), rows[p])
  BY DEF DistinctPositions, Injective
<1>2. /\ IsFiniteSet(Members(p))
      /\ \A k \in Members(p) : rows[p][k] \in Int
  BY PositionsOf
<1>3. /\ n \in Nat /\ s \in [1 .. n -> Members(p)]
      /\ Covers(s, Members(p)) /\ Increasing(s, rows[p])
  BY <1>1, <1>2, SortedLists DEF InOrder
<1> HIDE DEF s, n
<1>4. s \in Seq(Members(p)) /\ Len(s) = n
  BY <1>3
<1>5. Serial!Elements(s) = Members(p)
  BY <1>3 DEF Serial!Elements, Covers
<1> QED
  BY <1>3, <1>4, <1>5 DEF s, n

\* An add appends.
LEMMA AddAppends ==
    ASSUME IsFiniteSet(Tracks), TypeOK, DistinctPositions, TypeOK', NEW p \in Playlists,
           NEW k \in Tracks, k \notin Members(p), Members(p)' = Members(p) \cup {k},
           \A l \in Members(p) : rows'[p][l] = rows[p][l] /\ rows[p][l] < rows'[p][k]
    PROVE  InOrder(p)' = Append(InOrder(p), k)
<1> DEFINE s == InOrder(p)
           n == Cardinality(Members(p))
           t == Append(s, k)
           M == Members(p)'
           position == rows'[p]
<1>1. /\ n \in Nat /\ s \in [1 .. n -> Members(p)] /\ s \in Seq(Members(p)) /\ Len(s) = n
      /\ Covers(s, Members(p)) /\ Increasing(s, rows[p])
  BY OrderLists
<1>2. \A l \in M : position[l] \in Int
  <2>1. \A l \in Tracks : rows'[p][l] \in Int
    BY PositionAssumption DEF TypeOK, Absent
  <2> QED
    BY <2>1 DEF Members
<1>3. /\ M = Members(p) \cup {k}
      /\ \A l \in Members(p) : position[l] = rows[p][l] /\ position[l] < position[k]
  OBVIOUS
<1>4. InOrder(p)' = Sorted(M, position)
  BY DEF InOrder
<1> HIDE DEF s, n, M, position
<1>5. s \in Seq(M)
  BY <1>1, <1>3
<1>6. /\ t \in [1 .. (n + 1) -> M]
      /\ \A i \in 1 .. (n + 1) : t[i] = IF i <= n THEN s[i] ELSE k
  <2>1. /\ t \in Seq(M) /\ Len(t) = n + 1
        /\ \A i \in 1 .. n : t[i] = s[i]
        /\ t[n + 1] = k
    BY <1>1, <1>3, <1>5, AppendProperties
  <2> HIDE DEF t
  <2>2. t \in [1 .. Len(t) -> M]
    BY <2>1
  <2>3. \A i \in 1 .. (n + 1) : i <= n \/ i = n + 1
    BY <1>1
  <2> QED
    BY <1>1, <2>1, <2>2, <2>3
<1> HIDE DEF t
<1>7. Covers(t, M)
  <2> SUFFICES ASSUME NEW l \in M PROVE \E i \in 1 .. (n + 1) : t[i] = l
    BY <1>6 DEF Covers
  <2>1. CASE l = k
    BY <1>1, <1>6, <2>1
  <2>2. CASE l \in Members(p)
    <3>1. PICK i \in 1 .. n : s[i] = l
      BY <1>1, <2>2 DEF Covers
    <3> QED
      BY <1>1, <1>6, <3>1
  <2> QED
    BY <1>3, <2>1, <2>2
<1>8. Increasing(t, position)
  <2> SUFFICES ASSUME NEW i \in 1 .. (n + 1), NEW j \in 1 .. (n + 1), i < j
               PROVE  position[t[i]] < position[t[j]]
    BY <1>6 DEF Increasing
  <2>1. i \in 1 .. n /\ t[i] = s[i] /\ s[i] \in Members(p)
    BY <1>1, <1>6
  <2>2. CASE j = n + 1
    BY <1>1, <1>3, <1>6, <2>1, <2>2
  <2>3. CASE j # n + 1
    <3>1. j \in 1 .. n /\ t[j] = s[j] /\ s[j] \in Members(p)
      BY <1>1, <1>6, <2>3
    <3>2. rows[p][s[i]] < rows[p][s[j]]
      BY <1>1, <2>1, <3>1 DEF Increasing
    <3> QED
      BY <1>3, <2>1, <3>1, <3>2
  <2> QED
    BY <2>2, <2>3
<1>9. Sorted(M, position) = t
  <2>1. n + 1 \in Nat
    BY <1>1
  <2> QED
    BY <1>2, <1>6, <1>7, <1>8, <2>1, SortedIsUnique
<1> QED
  BY <1>4, <1>9 DEF t, s

\* A removal closes the gap in the order, whatever gap it leaves in the positions.
LEMMA RemoveCloses ==
    ASSUME IsFiniteSet(Tracks), TypeOK, DistinctPositions, TypeOK', NEW p \in Playlists,
           NEW k \in Tracks, k \in Members(p), Members(p)' = Members(p) \ {k},
           \A l \in Members(p)' : rows'[p][l] = rows[p][l]
    PROVE  \E at \in DOMAIN InOrder(p) :
                /\ InOrder(p)[at] = k
                /\ InOrder(p)' = SubSeq(InOrder(p), 1, at - 1)
                                 \o SubSeq(InOrder(p), at + 1, Len(InOrder(p)))
<1> DEFINE s == InOrder(p)
           n == Cardinality(Members(p))
           M == Members(p)'
           position == rows'[p]
<1>1. /\ n \in Nat /\ s \in [1 .. n -> Members(p)] /\ s \in Seq(Members(p)) /\ Len(s) = n
      /\ Covers(s, Members(p)) /\ Increasing(s, rows[p])
  BY OrderLists
<1>2. \A l \in M : position[l] \in Int
  <2>1. \A l \in Tracks : rows'[p][l] \in Int
    BY PositionAssumption DEF TypeOK, Absent
  <2> QED
    BY <2>1 DEF Members
<1>3. M = Members(p) \ {k} /\ \A l \in M : position[l] = rows[p][l]
  OBVIOUS
<1>4. InOrder(p)' = Sorted(M, position)
  BY DEF InOrder
<1>5. \A l \in Members(p) : rows[p][l] \in Int
  BY PositionsOf
<1> HIDE DEF s, n, M, position
<1>6. DOMAIN s = 1 .. n
  BY <1>1
<1>7. PICK at \in 1 .. n : s[at] = k
  BY <1>1 DEF Covers
<1> DEFINE t == SubSeq(s, 1, at - 1) \o SubSeq(s, at + 1, Len(s))
<1>8. /\ t \in [1 .. (n - 1) -> Members(p)]
      /\ \A i \in 1 .. (n - 1) : t[i] = IF i < at THEN s[i] ELSE s[i + 1]
  <2>1. at \in 1 .. Len(s) /\ s \in Seq(Members(p))
    BY <1>1, <1>7
  <2>2. /\ t \in [1 .. (Len(s) - 1) -> Members(p)]
        /\ \A i \in 1 .. (Len(s) - 1) : t[i] = IF i < at THEN s[i] ELSE s[i + 1]
    BY <2>1, WithoutAt, Zenon
  <2> HIDE DEF t
  <2> QED
    BY <1>1, <2>2
<1> HIDE DEF t
<1>9. \A i, j \in 1 .. n : s[i] = s[j] => i = j
  <2>1. \A i, j \in 1 .. n : i < j => rows[p][s[i]] < rows[p][s[j]]
    BY <1>1, <1>6 DEF Increasing
  <2>2. \A i \in 1 .. n : rows[p][s[i]] \in Int
    BY <1>1, <1>5
  <2> QED
    BY <2>1, <2>2
<1> DEFINE From(i) == IF i < at THEN i ELSE i + 1
<1>10. \A i \in 1 .. (n - 1) : From(i) \in 1 .. n /\ From(i) # at /\ t[i] = s[From(i)]
  BY <1>1, <1>7, <1>8
<1>11. \A i, j \in 1 .. (n - 1) : i < j => From(i) < From(j)
  BY <1>1, <1>7
<1>12. \A j \in 1 .. n : j # at => \E i \in 1 .. (n - 1) : From(i) = j
  <2> SUFFICES ASSUME NEW j \in 1 .. n, j # at PROVE \E i \in 1 .. (n - 1) : From(i) = j
    OBVIOUS
  <2>1. CASE j < at
    BY <1>1, <1>7, <2>1
  <2>2. CASE at < j
    <3>1. j - 1 \in 1 .. (n - 1) /\ From(j - 1) = j
      BY <1>1, <1>7, <2>2
    <3> QED
      BY <3>1
  <2> QED
    BY <1>7, <2>1, <2>2
<1> HIDE DEF From
<1>13. \A i \in 1 .. (n - 1) : t[i] \in M
  BY <1>1, <1>3, <1>7, <1>9, <1>10
<1>14. t \in [1 .. (n - 1) -> M]
  BY <1>8, <1>13
<1>15. Covers(t, M)
  <2> SUFFICES ASSUME NEW l \in M PROVE \E i \in 1 .. (n - 1) : t[i] = l
    BY <1>8 DEF Covers
  <2>1. PICK j \in 1 .. n : s[j] = l
    BY <1>1, <1>3, <1>6 DEF Covers
  <2>2. j # at
    BY <1>3, <1>7, <2>1
  <2>3. PICK i \in 1 .. (n - 1) : From(i) = j
    BY <1>12, <2>2
  <2> QED
    BY <1>10, <2>1, <2>3
<1>16. Increasing(t, position)
  <2> SUFFICES ASSUME NEW i \in 1 .. (n - 1), NEW j \in 1 .. (n - 1), i < j
               PROVE  position[t[i]] < position[t[j]]
    BY <1>8 DEF Increasing
  <2>1. rows[p][s[From(i)]] < rows[p][s[From(j)]]
    BY <1>1, <1>6, <1>10, <1>11 DEF Increasing
  <2> QED
    BY <1>3, <1>10, <1>13, <2>1
<1>17. Sorted(M, position) = t
  <2>1. n - 1 \in Nat
    BY <1>1, <1>7
  <2> QED
    BY <1>2, <1>14, <1>15, <1>16, <2>1, SortedIsUnique
<1> QED
  BY <1>4, <1>6, <1>7, <1>17 DEF t, s

\* A commit changes the order of its playlist as one operation on a sequence.
LEMMA CommitOrders ==
    ASSUME IsFiniteSet(Tracks), TypeOK, LockProtocol, SerialInv, TypeOK', SerialInv',
           NEW h \in Handlers, Commit(h)
    PROVE  Serial!Next \/ UNCHANGED OrderOf
<1>1. PICK p \in Playlists, k \in Tracks : p = req[h].list /\ k = req[h].track
  BY Committed
<1>2. OrderOf' = [OrderOf EXCEPT ![p] = InOrder(p)']
  <2>1. \A o \in Playlists : o # p => rows'[o] = rows[o]
    BY <1>1, Committed
  <2>2. \A o \in Playlists : o # p => InOrder(o)' = InOrder(o)
    BY <2>1 DEF InOrder, Members
  <2> QED
    BY <2>2 DEF OrderOf
<1>3. DistinctPositions /\ DistinctPositions'
  BY DEF SerialInv
<1>4. OrderOf[p] = InOrder(p)
  BY DEF OrderOf
<1>5. CASE rows'[p] = rows[p]
  <2>1. InOrder(p)' = InOrder(p)
    BY <1>5 DEF InOrder, Members
  <2> QED
    BY <1>2, <1>4, <2>1 DEF OrderOf
<1>6. CASE /\ k \notin Members(p) /\ Members(p)' = Members(p) \cup {k}
           /\ \A l \in Members(p) : rows'[p][l] = rows[p][l] /\ rows[p][l] < rows'[p][k]
  <2>1. InOrder(p)' = Append(InOrder(p), k)
    BY <1>3, <1>6, AddAppends
  <2>2. k \notin Serial!Elements(InOrder(p))
    BY <1>3, <1>6, OrderLists
  <2>3. Serial!Add(p, k)
    BY <1>2, <1>4, <2>1, <2>2 DEF Serial!Add, OrderOf
  <2> QED
    BY <2>3 DEF Serial!Next
<1>7. CASE /\ k \in Members(p) /\ Members(p)' = Members(p) \ {k}
           /\ \A l \in Members(p)' : rows'[p][l] = rows[p][l]
  <2>1. PICK at \in DOMAIN InOrder(p) :
            /\ InOrder(p)[at] = k
            /\ InOrder(p)' = SubSeq(InOrder(p), 1, at - 1)
                             \o SubSeq(InOrder(p), at + 1, Len(InOrder(p)))
    BY <1>3, <1>7, RemoveCloses
  <2>2. Serial!Remove(p, k)
    BY <1>2, <1>4, <2>1 DEF Serial!Remove, OrderOf
  <2> QED
    BY <2>2 DEF Serial!Next
<1>8. CASE Members(p)' = Members(p)
  <2> DEFINE s == InOrder(p)
             t == InOrder(p)'
             n == Cardinality(Members(p))
  <2>1. /\ n \in Nat /\ Len(s) = n /\ Serial!Elements(s) = Members(p)
    BY <1>3, OrderLists
  <2>2. t \in [1 .. n -> Members(p)] /\ Covers(t, Members(p))
    <3>1. Injective(Members(p), rows[p])'
      BY <1>3 DEF DistinctPositions, Injective
    <3>2. IsFiniteSet(Members(p)) /\ \A l \in Members(p) : rows'[p][l] \in Int
      <4>1. \A l \in Tracks : rows'[p][l] \in Int
        BY PositionAssumption DEF TypeOK, Absent
      <4> QED
        BY <4>1, PositionsOf
    <3>3. Injective(Members(p), rows'[p])
      BY <1>8, <3>1 DEF Injective
    <3>4. t = Sorted(Members(p), rows'[p])
      BY <1>8 DEF InOrder
    <3> QED
      BY <3>2, <3>3, <3>4, SortedLists
  <2>3. Serial!Elements(t) = Members(p)
    BY <2>2 DEF Serial!Elements, Covers
  <2>4. Serial!Reorder(p)
    BY <1>2, <1>4, <2>1, <2>2, <2>3 DEF Serial!Reorder, OrderOf
  <2> QED
    BY <2>4 DEF Serial!Next
<1>9. CASE Members(p)' = {}
  <2>1. InOrder(p)' = << >>
    <3> DEFINE s == << >>
    <3>1. s \in [1 .. 0 -> {}] /\ Increasing(s, rows'[p]) /\ Covers(s, {})
      BY DEF Increasing, Covers
    <3>2. Sorted({}, rows'[p]) = s
      BY <3>1, SortedIsUnique
    <3> QED
      BY <1>9, <3>2 DEF InOrder
  <2>2. Serial!Delete(p)
    BY <1>2, <1>4, <2>1 DEF Serial!Delete, OrderOf
  <2> QED
    BY <2>2 DEF Serial!Next
<1> QED
  BY <1>1, <1>5, <1>6, <1>7, <1>8, <1>9, CommittedPositions

\* Where requests are served one at a time, and no playlist starts with a track
\* twice, the rows and positions implement sequences: every commit appends a track,
\* takes one out and closes the gap, permutes or empties, and nothing else changes
\* an order, for any requests and however many gaps removals have left.
THEOREM SerialRefined ==
    ASSUME OneHandler, IsFiniteSet(Tracks),
           \A p \in Playlists : \A i, j \in DOMAIN InitOrder[p] :
                InitOrder[p][i] = InitOrder[p][j] => i = j
    PROVE  Spec => RefinesOrder
<1>1. Init => SerialInv /\ Serial!Init
  <2> SUFFICES ASSUME Init PROVE SerialInv /\ Serial!Init
    OBVIOUS
  <2>1. SerialInv /\ \A p \in Playlists : InOrder(p) = InitOrder[p]
    BY InitSerialInv
  <2>2. InitOrder = [p \in Playlists |-> InitOrder[p]]
    BY InitAssumption
  <2> QED
    BY <2>1, <2>2 DEF Serial!Init
<1>2. IInv /\ SerialInv /\ [Next]_vars => SerialInv'
  BY NextSerialInv DEF IInv
<1>3. IInv /\ IInv' /\ SerialInv /\ SerialInv' /\ [Next]_vars => [Serial!Next]_OrderOf
  <2> SUFFICES ASSUME IInv, IInv', SerialInv, SerialInv', [Next]_vars
               PROVE  Serial!Next \/ UNCHANGED OrderOf
    OBVIOUS
  <2>1. CASE UNCHANGED rows
    BY <2>1, SameOrder
  <2>2. CASE ~UNCHANGED rows
    <3>1. PICK h \in Handlers : Commit(h)
      BY <2>2, QuietSteps DEF Next, vars, CreatePlaylist
    <3> QED
      BY <3>1, CommitOrders DEF IInv
  <2> QED
    BY <2>1, <2>2
<1> QED
  BY <1>1, <1>2, <1>3, Invariance, PTL DEF Spec, RefinesOrder, Serial!Spec, OrderOf
=============================================================================
