--------------------------- MODULE PlaylistStore ---------------------------
(***************************************************************************)
(* The playlist endpoints of the server: the handlers of                   *)
(* internal/api/playlists.go over internal/store/playlists.go, running as  *)
(* concurrent PostgreSQL transactions at the isolation level BeginTx(ctx,  *)
(* nil) gives them, READ COMMITTED.  One action is one SQL statement (or   *)
(* the part of a statement between two points where it can wait).          *)
(*                                                                         *)
(* Committed data: owner (table playlists) and rows (playlist_tracks).     *)
(* Each handler keeps the uncommitted writes of its transaction, which are *)
(* at the same time the row locks it holds, and its lock on the playlist   *)
(* row.  The locks are those PostgreSQL takes for the statements in the    *)
(* source: FOR KEY SHARE by the foreign-key check of an INSERT, FOR NO KEY *)
(* UPDATE by touchPlaylist and RenamePlaylist, FOR UPDATE by DELETE.       *)
(* Tracks are constant: no endpoint deletes a track or changes its owner.  *)
(***************************************************************************)
EXTENDS Integers, Sequences, FiniteSets

CONSTANTS
    Users,
    Tracks,
    Playlists,      \* ids the BIGSERIAL sequence hands out, each at most once
    Handlers,       \* concurrent HTTP requests being served
    TrackOwner,     \* [Tracks -> Users]: tracks.user_id
    Requests,       \* the requests clients may send
    InitOwner,      \* owner of each playlist that exists at the start
    InitOrder,      \* and the tracks added to it so far
    MaxPosition,    \* largest value of playlist_tracks.position (INTEGER)
    Unborn, Gone,   \* a playlist id not handed out yet, and a deleted one
    NoRequest

Ops == {"create", "add", "remove", "reorder", "rename", "delete", "tracks"}

Request == [op: Ops, user: Users, list: Playlists, track: Tracks,
            order: Seq(Tracks)]

Absent    == -1     \* no such row in playlist_tracks
Untouched == -2     \* this transaction has not written the row

Positions(order) ==
    [k \in Tracks |->
        IF \E i \in DOMAIN order : order[i] = k
        THEN (CHOOSE i \in DOMAIN order : order[i] = k) - 1
        ELSE Absent]

ASSUME PositionAssumption == MaxPosition \in Nat

ASSUME RequestAssumption ==
    /\ Requests \subseteq Request
    /\ \A q \in Requests : Len(q.order) <= MaxPosition + 1
    /\ NoRequest \notin Requests

ASSUME OwnerAssumption ==
    /\ TrackOwner \in [Tracks -> Users]
    /\ Unborn \notin Users /\ Gone \notin Users /\ Unborn # Gone

\* The playlists that exist at the start were filled by their owners, one
\* add after the other.
ASSUME InitAssumption ==
    /\ InitOwner \in [Playlists -> Users \cup {Unborn}]
    /\ InitOrder \in [Playlists -> Seq(Tracks)]
    /\ \A p \in Playlists :
        /\ Len(InitOrder[p]) <= MaxPosition + 1
        /\ \A i \in DOMAIN InitOrder[p] :
            InitOwner[p] = TrackOwner[InitOrder[p][i]]

VARIABLES
    owner,      \* playlists: [Playlists -> Users \cup {Unborn, Gone}]
    rows,       \* playlist_tracks: position of each track in each playlist
    pc,         \* the statement each handler is about to run
    req,        \* the request it serves
    writes,     \* rows it has written and not committed; it holds their locks
    lock,       \* its lock on the playlist row
    idx,        \* ReorderPlaylist's loop variable
    newPos,     \* the MAX(position) + 1 an INSERT has evaluated
    reply       \* how it answered the last request it served

vars == <<owner, rows, pc, req, writes, lock, idx, newPos, reply>>

Labels == {"idle", "owns", "track", "position", "insert", "foreignKey",
           "removeRow", "members", "update", "touch", "commit", "rename",
           "delete", "cascade", "get", "list"}
LockModes == {"none", "keyShare", "noKeyUpdate", "update"}
Replies == {"none", "ok", "empty", "notFound", "mismatch", "error"}

Live(p) == owner[p] \in Users
Members(p) == {k \in Tracks : rows[p][k] # Absent}
Owns(h) == owner[req[h].list] = req[h].user
NoWrites == [k \in Tracks |-> Untouched]

TypeOK ==
    /\ owner \in [Playlists -> Users \cup {Unborn, Gone}]
    /\ rows \in [Playlists -> [Tracks -> Absent .. MaxPosition]]
    /\ pc \in [Handlers -> Labels]
    /\ req \in [Handlers -> Requests \cup {NoRequest}]
    /\ writes \in [Handlers -> [Tracks -> Untouched .. MaxPosition]]
    /\ lock \in [Handlers -> LockModes]
    /\ idx \in [Handlers -> Nat]
    /\ newPos \in [Handlers -> 0 .. MaxPosition]
    /\ reply \in [Handlers -> Replies]

Init ==
    /\ owner = InitOwner
    /\ rows = [p \in Playlists |-> Positions(InitOrder[p])]
    /\ pc = [h \in Handlers |-> "idle"]
    /\ req = [h \in Handlers |-> NoRequest]
    /\ writes = [h \in Handlers |-> NoWrites]
    /\ lock = [h \in Handlers |-> "none"]
    /\ idx = [h \in Handlers |-> 0]
    /\ newPos = [h \in Handlers |-> 0]
    /\ reply = [h \in Handlers |-> "none"]

-----------------------------------------------------------------------------
(* Locks                                                                    *)

Rivals(h) == {g \in Handlers \ {h} : pc[g] # "idle" /\ req[g].list = req[h].list}

\* The transactions that have written row k of h's playlist.
RowHolders(h, k) == {g \in Rivals(h) : writes[g][k] # Untouched}

\* The transactions whose lock on the playlist row conflicts with the mode.
LockHolders(h, mode) ==
    {g \in Rivals(h) :
        CASE mode = "keyShare"    -> lock[g] = "update"
          [] mode = "noKeyUpdate" -> lock[g] \in {"noKeyUpdate", "update"}
          [] mode = "update"      -> lock[g] # "none"}

\* Rows DeletePlaylist's ON DELETE CASCADE has still to delete.
ToCascade(h) == {k \in Members(req[h].list) : writes[h][k] = Untouched}

\* An UPDATE or DELETE of a row waits for its lock only if the row exists.
RowBlockers(h, k) == IF k \in Members(req[h].list) THEN RowHolders(h, k) ELSE {}

\* Whom handler h's next statement waits for.
Blockers(h) ==
    CASE pc[h] = "insert"     -> RowHolders(h, req[h].track)
      [] pc[h] = "foreignKey" -> LockHolders(h, "keyShare")
      [] pc[h] = "removeRow"  -> RowBlockers(h, req[h].track)
      [] pc[h] = "update" /\ idx[h] < Len(req[h].order)
                              -> RowBlockers(h, req[h].order[idx[h] + 1])
      [] pc[h] = "touch" /\ Live(req[h].list)
                              -> LockHolders(h, "noKeyUpdate")
      [] pc[h] = "rename" /\ Owns(h) -> LockHolders(h, "noKeyUpdate")
      [] pc[h] = "delete" /\ Owns(h) -> LockHolders(h, "update")
      [] pc[h] = "cascade" /\ (\A k \in ToCascade(h) : RowHolders(h, k) # {})
                              -> UNION {RowHolders(h, k) : k \in ToCascade(h)}
      [] OTHER -> {}

\* h waits, through others, for itself.
Deadlocked(h) ==
    \A S \in SUBSET Handlers :
        (Blockers(h) \subseteq S /\ \A g \in S : Blockers(g) \subseteq S) => h \in S

-----------------------------------------------------------------------------
(* Control flow shared by the handlers                                      *)

At(h, label) == pc[h] = label /\ Blockers(h) = {}

Goto(h, label) == pc' = [pc EXCEPT ![h] = label]

\* The transaction ends, by Commit or by the deferred Rollback: its writes
\* are no longer pending, its locks are released, and the handler answers.
Answer(h, status) ==
    /\ Goto(h, "idle")
    /\ reply' = [reply EXCEPT ![h] = status]
    /\ req' = [req EXCEPT ![h] = NoRequest]
    /\ writes' = [writes EXCEPT ![h] = NoWrites]
    /\ lock' = [lock EXCEPT ![h] = "none"]
    /\ idx' = [idx EXCEPT ![h] = 0]
    /\ newPos' = [newPos EXCEPT ![h] = 0]

\* It ends without effect.
Rollback(h, status) == Answer(h, status) /\ UNCHANGED <<owner, rows>>

Write(h, k, position) == writes' = [writes EXCEPT ![h][k] = position]
Acquire(h, mode) == lock' = [lock EXCEPT ![h] = mode]

FirstStatement(op) ==
    CASE op = "rename" -> "rename"
      [] op = "delete" -> "delete"
      [] op = "tracks" -> "get"
      [] OTHER         -> "owns"

Receive(h) ==
    \E q \in Requests :
        /\ pc[h] = "idle" /\ q.op # "create"
        /\ Goto(h, FirstStatement(q.op))
        /\ req' = [req EXCEPT ![h] = q]
        /\ reply' = [reply EXCEPT ![h] = "none"]
        /\ UNCHANGED <<owner, rows, writes, lock, idx, newPos>>

\* The context is cancelled (the client went away) or the connection fails.
Fail(h) == pc[h] # "idle" /\ Rollback(h, "error")

\* Mutant: a database that lets a cycle of waiting transactions wait.
NoDeadlockAbort(h) == FALSE /\ Rollback(h, "error")

\* PostgreSQL aborts a transaction it finds waiting for itself.
DeadlockAbort(h) == Deadlocked(h) /\ Rollback(h, "error")

-----------------------------------------------------------------------------
(* The statements                                                           *)

\* A single INSERT: it takes effect or fails, or its answer is lost.
CreatePlaylist(h) ==
    \E q \in Requests, p \in Playlists :
        /\ pc[h] = "idle" /\ q.op = "create" /\ owner[p] = Unborn
        /\ \/ /\ owner' = [owner EXCEPT ![p] = q.user]
              /\ \E status \in {"ok", "error"} : reply' = [reply EXCEPT ![h] = status]
           \/ UNCHANGED owner /\ reply' = [reply EXCEPT ![h] = "error"]
        /\ UNCHANGED <<rows, pc, req, writes, lock, idx, newPos>>

AfterOwns(op) ==
    CASE op = "add" -> "track" [] op = "remove" -> "removeRow" [] OTHER -> "members"

OwnsPlaylist(h) ==
    /\ At(h, "owns")
    /\ \/ /\ Owns(h)
          /\ Goto(h, AfterOwns(req[h].op))
          /\ UNCHANGED <<owner, rows, req, writes, lock, idx, newPos, reply>>
       \/ ~Owns(h) /\ Rollback(h, "notFound")

OwnsTrack(h) ==
    /\ At(h, "track")
    /\ \/ /\ TrackOwner[req[h].track] = req[h].user
          /\ Goto(h, "position")
          /\ UNCHANGED <<owner, rows, req, writes, lock, idx, newPos, reply>>
       \/ TrackOwner[req[h].track] # req[h].user /\ Rollback(h, "notFound")

\* Mutant: COUNT(*) for MAX(position) + 1.
EvaluateCount(h) ==
    /\ At(h, "position")
    /\ newPos' = [newPos EXCEPT ![h] = Cardinality(Members(req[h].list))]
    /\ Goto(h, "insert")
    /\ UNCHANGED <<owner, rows, req, writes, lock, idx, reply>>

\* Mutant: a position column without a range.
EvaluateUnbounded(h) ==
    /\ At(h, "position")
    /\ \E last \in Absent .. MaxPosition :
        /\ \A k \in Members(req[h].list) : rows[req[h].list][k] <= last
        /\ last = Absent \/ \E k \in Members(req[h].list) : rows[req[h].list][k] = last
        /\ newPos' = [newPos EXCEPT ![h] = last + 1]
    /\ Goto(h, "insert")
    /\ UNCHANGED <<owner, rows, req, writes, lock, idx, reply>>

\* The INSERT takes its snapshot and evaluates the subquery: uncommitted rows
\* of others do not count.  A position above INTEGER's range is an error.
EvaluatePosition(h) ==
    /\ At(h, "position")
    /\ \E last \in Absent .. MaxPosition :
        /\ \A k \in Members(req[h].list) : rows[req[h].list][k] <= last
        /\ last = Absent \/ \E k \in Members(req[h].list) : rows[req[h].list][k] = last
        /\ \/ /\ last < MaxPosition
              /\ newPos' = [newPos EXCEPT ![h] = last + 1]
              /\ Goto(h, "insert")
              /\ UNCHANGED <<owner, rows, req, writes, lock, idx, reply>>
           \/ last = MaxPosition /\ Rollback(h, "error")

\* Mutant: playlist_tracks without its primary key.
InsertWithoutKey(h) ==
    /\ pc[h] = "insert"
    /\ Write(h, req[h].track, newPos[h])
    /\ Goto(h, "foreignKey")
    /\ UNCHANGED <<owner, rows, req, lock, idx, newPos, reply>>

\* The INSERT waits for every transaction with a pending write of the row,
\* then inserts it or, if it is there by now, does nothing.
InsertRow(h) ==
    /\ At(h, "insert")
    /\ \/ /\ req[h].track \notin Members(req[h].list)
          /\ Write(h, req[h].track, newPos[h])
          /\ Goto(h, "foreignKey")
       \/ /\ req[h].track \in Members(req[h].list)
          /\ Goto(h, "touch")
          /\ UNCHANGED writes
    /\ UNCHANGED <<owner, rows, req, lock, idx, newPos, reply>>

\* Mutant: playlist_tracks without REFERENCES playlists.
NoForeignKey(h) ==
    /\ At(h, "foreignKey")
    /\ Goto(h, "touch")
    /\ UNCHANGED <<owner, rows, req, writes, lock, idx, newPos, reply>>

\* The foreign-key check of the inserted row locks the playlist it names; a
\* playlist deleted in the meantime fails the INSERT.
CheckForeignKey(h) ==
    /\ At(h, "foreignKey")
    /\ \/ /\ Live(req[h].list)
          /\ Acquire(h, "keyShare")
          /\ Goto(h, "touch")
          /\ UNCHANGED <<owner, rows, req, writes, idx, newPos, reply>>
       \/ ~Live(req[h].list) /\ Rollback(h, "error")

RemoveRow(h) ==
    /\ At(h, "removeRow")
    /\ IF req[h].track \in Members(req[h].list)
       THEN Write(h, req[h].track, Absent)
       ELSE UNCHANGED writes
    /\ Goto(h, "touch")
    /\ UNCHANGED <<owner, rows, req, lock, idx, newPos, reply>>

\* The list must name every current member once and nothing else.
ExactlyMembers(order, members) ==
    /\ Len(order) = Cardinality(members)
    /\ \A i \in DOMAIN order : order[i] \in members
    /\ \A i, j \in DOMAIN order : order[i] = order[j] => i = j

ReadMembers(h) ==
    /\ At(h, "members")
    /\ \/ /\ ExactlyMembers(req[h].order, Members(req[h].list))
          /\ Goto(h, "update")
          /\ UNCHANGED <<owner, rows, req, writes, lock, idx, newPos, reply>>
       \/ /\ ~ExactlyMembers(req[h].order, Members(req[h].list))
          /\ Rollback(h, "mismatch")

\* Mutant: an upsert, which brings back a row removed in the meantime.
UpsertPosition(h) ==
    /\ At(h, "update") /\ idx[h] < Len(req[h].order)
    /\ Write(h, req[h].order[idx[h] + 1], idx[h])
    /\ idx' = [idx EXCEPT ![h] = idx[h] + 1]
    /\ UNCHANGED <<owner, rows, pc, req, lock, newPos, reply>>

\* Mutant: the loop runs on s.db, outside the transaction.
UpdateOutsideTx(h) ==
    /\ At(h, "update") /\ idx[h] < Len(req[h].order)
    /\ LET k == req[h].order[idx[h] + 1]
       IN  IF k \in Members(req[h].list)
           THEN rows' = [rows EXCEPT ![req[h].list][k] = idx[h]]
           ELSE UNCHANGED rows
    /\ idx' = [idx EXCEPT ![h] = idx[h] + 1]
    /\ UNCHANGED <<owner, pc, req, writes, lock, newPos, reply>>

\* One UPDATE of ReorderPlaylist's loop.  Its row may be gone since the
\* membership was read; nobody looks at the number of rows affected.
UpdatePosition(h) ==
    /\ At(h, "update") /\ idx[h] < Len(req[h].order)
    /\ LET k == req[h].order[idx[h] + 1]
       IN  IF k \in Members(req[h].list)
           THEN Write(h, k, idx[h])
           ELSE UNCHANGED writes
    /\ idx' = [idx EXCEPT ![h] = idx[h] + 1]
    /\ UNCHANGED <<owner, rows, pc, req, lock, newPos, reply>>

EndOfLoop(h) ==
    /\ At(h, "update") /\ idx[h] >= Len(req[h].order)
    /\ Goto(h, "touch")
    /\ UNCHANGED <<owner, rows, req, writes, lock, idx, newPos, reply>>

\* updated_at itself is not modelled; touching a deleted playlist is no error.
TouchPlaylist(h) ==
    /\ At(h, "touch")
    /\ IF Live(req[h].list) THEN Acquire(h, "noKeyUpdate") ELSE UNCHANGED lock
    /\ Goto(h, "commit")
    /\ UNCHANGED <<owner, rows, req, writes, idx, newPos, reply>>

\* A single UPDATE: the name is not modelled, the lock it waits for is.
RenamePlaylist(h) ==
    /\ At(h, "rename")
    /\ Rollback(h, IF Owns(h) THEN "ok" ELSE "notFound")

DeletePlaylist(h) ==
    /\ At(h, "delete")
    /\ \/ /\ Owns(h)
          /\ Acquire(h, "update")
          /\ Goto(h, "cascade")
          /\ UNCHANGED <<owner, rows, req, writes, idx, newPos, reply>>
       \/ ~Owns(h) /\ Rollback(h, "notFound")

CascadeRow(h) ==
    /\ pc[h] = "cascade"
    /\ \E k \in ToCascade(h) :
        /\ RowHolders(h, k) = {}
        /\ Write(h, k, Absent)
    /\ UNCHANGED <<owner, rows, pc, req, lock, idx, newPos, reply>>

EndOfCascade(h) ==
    /\ pc[h] = "cascade" /\ ToCascade(h) = {}
    /\ Goto(h, "commit")
    /\ UNCHANGED <<owner, rows, req, writes, lock, idx, newPos, reply>>

\* The answer to a COMMIT that took effect may still be lost on the way.
Commit(h) ==
    /\ At(h, "commit")
    /\ rows' = [rows EXCEPT ![req[h].list] =
                   [k \in Tracks |-> IF writes[h][k] = Untouched
                                     THEN rows[req[h].list][k]
                                     ELSE writes[h][k]]]
    /\ owner' = [owner EXCEPT ![req[h].list] =
                   IF req[h].op = "delete" THEN Gone ELSE @]
    /\ \E status \in {"ok", "error"} : Answer(h, status)

\* GET .../tracks runs two statements, each with a snapshot of its own.
GetPlaylist(h) ==
    /\ At(h, "get")
    /\ \/ /\ Owns(h)
          /\ Goto(h, "list")
          /\ UNCHANGED <<owner, rows, req, writes, lock, idx, newPos, reply>>
       \/ ~Owns(h) /\ Rollback(h, "notFound")

ListPlaylistTracks(h) ==
    /\ At(h, "list")
    /\ Rollback(h, IF Owns(h) /\ Members(req[h].list) # {} THEN "ok" ELSE "empty")

-----------------------------------------------------------------------------
(* Specification                                                            *)

\* What the server and the database do to serve the request h has.
Serve(h) ==
    \/ OwnsPlaylist(h) \/ OwnsTrack(h) \/ EvaluatePosition(h) \/ InsertRow(h)
    \/ CheckForeignKey(h) \/ RemoveRow(h) \/ ReadMembers(h) \/ UpdatePosition(h)
    \/ EndOfLoop(h) \/ TouchPlaylist(h) \/ RenamePlaylist(h) \/ DeletePlaylist(h)
    \/ CascadeRow(h) \/ EndOfCascade(h) \/ Commit(h) \/ GetPlaylist(h)
    \/ ListPlaylistTracks(h) \/ DeadlockAbort(h)

Next == \E h \in Handlers : Receive(h) \/ CreatePlaylist(h) \/ Serve(h) \/ Fail(h)

Spec == Init /\ [][Next]_vars

\* A handler's goroutine is scheduled, the database answers, and its lock
\* queues are first come first served, so a waiter is not overtaken forever.
Fairness == \A h \in Handlers : SF_vars(Serve(h))

FairSpec == Spec /\ Fairness
-----------------------------------------------------------------------------
(* Properties                                                               *)

\* Every committed membership row belongs to a playlist that exists, and to a
\* track of the playlist's owner: whatever a DELETE and its cascade, the
\* foreign-key check of an INSERT and the ownership checks of
\* AddTrackToPlaylist do to each other, no orphan and no foreign row is left.
OwnedMembership ==
    \A p \in Playlists : \A k \in Members(p) : owner[p] = TrackOwner[k]

Pending(h, k) == writes[h][k] # Untouched

OpsAt(label) ==
    CASE label \in {"track", "position", "insert", "foreignKey"} -> {"add"}
      [] label = "removeRow"             -> {"remove"}
      [] label \in {"members", "update"} -> {"reorder"}
      [] label \in {"owns", "touch"}     -> {"add", "remove", "reorder"}
      [] label = "commit"  -> {"add", "remove", "reorder", "delete"}
      [] label = "rename"  -> {"rename"}
      [] label \in {"delete", "cascade"} -> {"delete"}
      [] OTHER             -> {"tracks"}

\* Before its first write a handler holds nothing.
Clean(label) == label \notin {"foreignKey", "update", "touch", "commit", "cascade"}

\* What a handler knows of the playlist it has found to be its user's.
StillOwned(h) ==
    pc[h] \notin {"idle", "owns", "rename", "delete", "get"}
    => owner[req[h].list] \in {req[h].user, Gone}

\* A pending write of an add is of an absent row, to be inserted into a
\* playlist that its lock keeps alive once the foreign key is checked.
AddHolds(h) ==
    /\ pc[h] \in {"position", "insert", "foreignKey"}
        => TrackOwner[req[h].track] = req[h].user
    /\ \A k \in Tracks : Pending(h, k) =>
        /\ k = req[h].track
        /\ writes[h][k] # Absent
        /\ rows[req[h].list][k] = Absent
        /\ TrackOwner[k] = req[h].user
        /\ pc[h] # "foreignKey" => lock[h] # "none"

\* A pending write of any other request is of a row that stays there.
OtherHolds(h) ==
    \A k \in Tracks : Pending(h, k) =>
        /\ rows[req[h].list][k] # Absent
        /\ req[h].op = "reorder" => writes[h][k] # Absent
        /\ req[h].op # "reorder" => writes[h][k] = Absent
        /\ req[h].op = "remove" => k = req[h].track

\* A deletion owns the playlist row, and commits with every row deleted.
DeleteHolds(h) ==
    /\ pc[h] \in {"cascade", "commit"} => lock[h] = "update"
    /\ pc[h] = "commit" => ToCascade(h) = {}

HandlerInv(h) ==
    /\ pc[h] = "idle" => writes[h] = NoWrites /\ lock[h] = "none"
    /\ pc[h] # "idle" =>
        /\ req[h] \in Requests
        /\ req[h].op \in OpsAt(pc[h])
        /\ Clean(pc[h]) => writes[h] = NoWrites /\ lock[h] = "none"
        /\ StillOwned(h)
        /\ lock[h] # "none" => Live(req[h].list)
        /\ req[h].op = "add" => AddHolds(h)
        /\ req[h].op # "add" => OtherHolds(h)
        /\ req[h].op = "delete" => DeleteHolds(h)

\* Two transactions on one playlist never write the same row, and while one
\* holds the playlist row for deletion no other holds any lock on it.
Exclusion(g, h) ==
    pc[g] # "idle" /\ pc[h] # "idle" /\ req[g].list = req[h].list =>
        /\ \A k \in Tracks : ~(Pending(g, k) /\ Pending(h, k))
        /\ lock[g] = "update" => lock[h] = "none"

\* The locking discipline the statements follow: every pending write is still
\* right when it commits, because its lock has kept the rows it is about, and
\* the playlist, as the statement found them.
LockProtocol ==
    /\ OwnedMembership
    /\ \A h \in Handlers : HandlerInv(h)
    /\ \A g, h \in Handlers : g # h => Exclusion(g, h)

Membership == INSTANCE PlaylistMembership
              WITH members <- [p \in Playlists |-> Members(p)]

\* Seen from outside, the transactions change which tracks a playlist holds
\* exactly as the atomic operations of PlaylistMembership would: a reorder
\* never adds, drops or revives a track whatever ran beside it, an add or a
\* remove changes one track, and a deletion takes all rows at once.
RefinesMembership == Membership!Spec

\* Every request is answered: lock waits end and deadlocks (of two reorders
\* that name the tracks in different orders, or of a reorder and the cascade
\* of a deletion) are broken.
RequestsAnswered == \A h \in Handlers : pc[h] # "idle" ~> pc[h] = "idle"

Seeded(p) == {InitOrder[p][i] : i \in DOMAIN InitOrder[p]}

\* A partial or mixed renumbering is never observed: the committed positions
\* of the tracks a playlist started with are all from its initial order or
\* all from one and the same requested order (where no request removes one).
CommittedOrderWasRequested ==
    \A p \in Playlists : Live(p) =>
        \E order \in {InitOrder[p]} \cup {q.order : q \in Requests} :
            \A k \in Seeded(p) : rows[p][k] = Positions(order)[k]

\* They stay in the playlist as long as it exists,
Kept(p) == IF Live(p) THEN Seeded(p) ELSE {}

\* if nothing is removed.
NothingRemoved == \A q \in Requests : q.op # "remove"

\* A reorder has written the positions of its order as far as its loop has come,
\* and past the loop those of all tracks the playlist started with: it holds
\* them all when it commits.
ReorderInv(h) ==
    /\ pc[h] \in {"idle", "owns", "members"} => idx[h] = 0
    /\ pc[h] \in {"update", "touch", "commit"} /\ req[h].op = "reorder" =>
        LET order == req[h].order
            kept == Kept(req[h].list)
        IN  /\ \A i, j \in DOMAIN order : order[i] = order[j] => i = j
            /\ kept \subseteq {order[i] : i \in DOMAIN order}
            /\ \A i \in DOMAIN order :
                order[i] \in kept /\ (pc[h] = "update" => i <= idx[h])
                => writes[h][order[i]] = i - 1

\* The inductive invariant of CommittedOrderWasRequested, where nothing is removed.
OrderInv ==
    /\ \A p \in Playlists :
        /\ owner[p] = Unborn => Seeded(p) = {}
        /\ Kept(p) \subseteq Members(p)
    /\ \A h \in Handlers : ReorderInv(h)
    /\ CommittedOrderWasRequested

\* The members, ORDER BY position.
Sorted(members, position) ==
    CHOOSE order \in [1 .. Cardinality(members) -> members] :
        /\ members = {order[i] : i \in DOMAIN order}
        /\ \A i, j \in DOMAIN order : i < j => position[order[i]] <= position[order[j]]

InOrder(p) == Sorted(Members(p), rows[p])

Serial == INSTANCE PlaylistOrder WITH list <- [p \in Playlists |-> InOrder(p)]

\* Served one at a time, the requests treat a playlist as a sequence: adds
\* append, removes keep the rest in order, an accepted reorder permutes, even
\* though the stored positions keep gaps after removals.
RefinesOrder == Serial!Spec

OneHandler == \A g, h \in Handlers : g = h

\* No two tracks of a playlist share a position, and a handler without a rival
\* finds at its commit the rows it has read: an add comes behind all of them, a
\* reorder numbers them all.
DistinctPositions ==
    \A p \in Playlists : \A k, l \in Members(p) : rows[p][k] = rows[p][l] => k = l

SerialHolds(h) ==
    LET order == req[h].order
        p == req[h].list
    IN  /\ pc[h] \in {"idle", "owns", "members"} => idx[h] = 0
        /\ pc[h] = "insert" => \A l \in Members(p) : rows[p][l] < newPos[h]
        /\ pc[h] # "idle" /\ req[h].op = "add" =>
            \A k \in Tracks : Pending(h, k) => \A l \in Members(p) : rows[p][l] < writes[h][k]
        /\ pc[h] \in {"update", "touch", "commit"} /\ req[h].op = "reorder" =>
            /\ ExactlyMembers(order, Members(p))
            /\ \A i \in DOMAIN order :
                (pc[h] = "update" => i <= idx[h]) => writes[h][order[i]] = i - 1

\* The inductive invariant of RefinesOrder, where requests are served one at a time.
SerialInv == DistinctPositions /\ \A h \in Handlers : SerialHolds(h)

\* The step in which the transaction of a request of kind op takes effect.
Commits(h, op) == pc[h] = "commit" /\ req[h].op = op /\ reply'[h] = "ok"

\* What the comment on ReorderPlaylist says: an order is accepted only if it
\* lists exactly the current membership.  The membership is read without a
\* lock, and an add may commit before the reorder does.
ReorderMatchesMembership ==
    [][\A h \in Handlers :
        Commits(h, "reorder") => ExactlyMembers(req[h].order, Members(req[h].list))]_vars
=============================================================================
