----------------------------- MODULE Migrations -----------------------------
(***************************************************************************)
(* Start-up of the server: main.go runs RunMigrations (internal/store/     *)
(* store.go) before it serves and exits if it fails.  RunMigrations takes  *)
(* a session-level advisory lock on a connection of its own and works on   *)
(* other connections of the pool, one transaction per file.  Several       *)
(* processes of different releases start at once; any of them may lose the *)
(* connection that holds the lock, see a statement fail, or be killed.     *)
(*                                                                         *)
(* A server is one process and starts once: a restart is another server.   *)
(* Files are numbers, ordered as their names are.                          *)
(***************************************************************************)
EXTENDS Naturals, Sequences, FiniteSets

CONSTANTS
    Servers,
    NoServer,
    dir,        \* the files of the release each server is started with
    Repeatable  \* files that run again without an error on a schema that
                \* already has them, as 003_uuid_storage.sql does

Files == UNION {dir[s] : s \in Servers}

ASSUME ServersAssumption == NoServer \notin Servers
ASSUME DirAssumption == dir \in [Servers -> SUBSET Nat] /\ \A s \in Servers : IsFiniteSet(dir[s])

VARIABLES
    pc,       \* where each server is
    conn,     \* its dedicated connection
    lock,     \* the server whose session has the advisory lock
    table,    \* whether schema_migrations exists
    todo,     \* files of its directory it still has to handle
    tx,       \* what its open transaction has done
    schema,   \* files whose effect is committed, in the order of the commits
    recorded, \* versions in schema_migrations
    cause     \* why its start failed

vars == <<pc, conn, lock, table, todo, tx, schema, recorded, cause>>
database == <<table, schema, recorded>>

Working == {"table", "list", "check", "exec", "record", "commit"}
Steps == {"off", "lock", "unlock", "abort", "serving", "exited", "dead", "sent"}
            \cup Working

InSchema(file) == \E i \in DOMAIN schema : schema[i] = file

Init ==
    /\ pc = [s \in Servers |-> "off"]
    /\ conn = [s \in Servers |-> "none"]
    /\ lock = NoServer
    /\ table = FALSE
    /\ todo = [s \in Servers |-> {}]
    /\ tx = [s \in Servers |-> {}]
    /\ schema = <<>>
    /\ recorded = {}
    /\ cause = [s \in Servers |-> "none"]

-----------------------------------------------------------------------------
GoTo(s, step) == pc' = [pc EXCEPT ![s] = step]

\* Mutant of Current: the directory is read, but not sorted.
CurrentUnsorted(s) == CHOOSE file \in todo[s] : \A other \in todo[s] : file >= other

\* ReadDir and sort.Strings: the files are handled in the order of their names.
Current(s) == CHOOSE file \in todo[s] : \A other \in todo[s] : file <= other

\* The session of s ends, and with it the lock it may have.
EndSession(s, how) ==
    /\ conn' = [conn EXCEPT ![s] = how]
    /\ lock' = IF lock = s THEN NoServer ELSE lock

\* Mutants of Error: the file is tried again, or the error is only logged.
ErrorRetried(s, why) ==
    /\ GoTo(s, IF pc[s] = "lock" THEN "lock" ELSE "check")
    /\ tx' = [tx EXCEPT ![s] = {}]
    /\ UNCHANGED cause

ErrorLogged(s, why) ==
    /\ GoTo(s, "unlock")
    /\ tx' = [tx EXCEPT ![s] = {}]
    /\ UNCHANGED cause

\* An error: deferred Rollback, then the deferred unlock.
Error(s, why) ==
    /\ GoTo(s, "abort")
    /\ tx' = [tx EXCEPT ![s] = {}]
    /\ cause' = [cause EXCEPT ![s] = why]

\* main opens the pool and reserves the connection of the lock.
Start(s) ==
    /\ pc[s] = "off"
    /\ conn' = [conn EXCEPT ![s] = "open"]
    /\ GoTo(s, "lock")
    /\ UNCHANGED <<lock, todo, tx, cause, database>>

\* Mutant of Lock: pg_try_advisory_lock, whose result is not looked at.
TryLock(s) ==
    /\ pc[s] = "lock"
    /\ lock' = IF lock = NoServer THEN s ELSE lock
    /\ GoTo(s, "table")
    /\ UNCHANGED <<conn, todo, tx, cause, database>>

\* SELECT pg_advisory_lock, which waits while another session has the lock.
Lock(s) ==
    /\ pc[s] = "lock"
    /\ lock = NoServer
    /\ lock' = s
    /\ GoTo(s, "table")
    /\ UNCHANGED <<conn, todo, tx, cause, database>>

\* Mutant of CreateTable: the lock guards nothing but the table.
CreateTableAndUnlock(s) ==
    /\ pc[s] = "table"
    /\ table' = TRUE
    /\ lock' = NoServer
    /\ GoTo(s, "list")
    /\ UNCHANGED <<conn, todo, tx, schema, recorded, cause>>

CreateTable(s) ==
    /\ pc[s] = "table"
    /\ table' = TRUE
    /\ GoTo(s, "list")
    /\ UNCHANGED <<conn, lock, todo, tx, schema, recorded, cause>>

\* Mutant of ListFiles: whatever else is in the directory counts as a file.
ListEverything(s) ==
    /\ pc[s] = "list"
    /\ todo' = [todo EXCEPT ![s] = dir[s] \cup {0}]
    /\ GoTo(s, "check")
    /\ UNCHANGED <<conn, lock, tx, cause, database>>

ListFiles(s) ==
    /\ pc[s] = "list"
    /\ todo' = [todo EXCEPT ![s] = dir[s]]
    /\ GoTo(s, "check")
    /\ UNCHANGED <<conn, lock, tx, cause, database>>

\* SELECT EXISTS, in a statement of its own before the transaction.
CheckApplied(s) ==
    /\ pc[s] = "check"
    /\ IF todo[s] = {} THEN GoTo(s, "unlock") /\ UNCHANGED todo
       ELSE IF Current(s) \in recorded
       THEN todo' = [todo EXCEPT ![s] = @ \ {Current(s)}] /\ UNCHANGED pc
       ELSE GoTo(s, "exec") /\ UNCHANGED todo
    /\ UNCHANGED <<conn, lock, tx, cause, database>>

\* The file of s is part of the uncommitted work of another session.
Busy(s, part) ==
    \E t \in Servers \ {s} : part \in tx[t] /\ Current(t) = Current(s)

\* The SQL of the file.  It waits for an open transaction that runs the same
\* file, and fails if the schema has its effect already, unless it can run again.
ExecFile(s) ==
    /\ pc[s] = "exec"
    /\ ~Busy(s, "effect")
    /\ \/ /\ InSchema(Current(s)) => Current(s) \in Repeatable
          /\ tx' = [tx EXCEPT ![s] = {"effect"}]
          /\ GoTo(s, "record")
          /\ UNCHANGED cause
       \/ InSchema(Current(s)) /\ Error(s, "conflict")
    /\ UNCHANGED <<conn, lock, todo, database>>

\* Mutant of RecordVersion: ON CONFLICT DO NOTHING.
RecordIfAbsent(s) ==
    /\ pc[s] = "record"
    /\ ~Busy(s, "version")
    /\ tx' = [tx EXCEPT ![s] = @ \cup {"version"}]
    /\ GoTo(s, "commit")
    /\ UNCHANGED <<conn, lock, todo, cause, database>>

\* INSERT INTO schema_migrations, whose primary key is the version.
RecordVersion(s) ==
    /\ pc[s] = "record"
    /\ ~Busy(s, "version")
    /\ \/ /\ Current(s) \notin recorded
          /\ tx' = [tx EXCEPT ![s] = @ \cup {"version"}]
          /\ GoTo(s, "commit")
          /\ UNCHANGED cause
       \/ Current(s) \in recorded /\ Error(s, "conflict")
    /\ UNCHANGED <<conn, lock, todo, database>>

\* What the transaction of s has done becomes visible, all of it at once.
CommitWork(s) ==
    /\ schema' = IF "effect" \in tx[s] THEN Append(schema, Current(s)) ELSE schema
    /\ recorded' = IF "version" \in tx[s] THEN recorded \cup {Current(s)}
                   ELSE recorded
    /\ tx' = [tx EXCEPT ![s] = {}]

Commit(s) ==
    /\ pc[s] = "commit"
    /\ CommitWork(s)
    /\ todo' = [todo EXCEPT ![s] = @ \ {Current(s)}]
    /\ GoTo(s, "check")
    /\ UNCHANGED <<conn, lock, table, cause>>

\* The explicit unlock; conn.Close then gives the connection back to the pool.
Unlock(s) ==
    /\ pc[s] = "unlock"
    /\ lock' = IF lock = s THEN NoServer ELSE lock
    /\ conn' = [conn EXCEPT ![s] = IF @ = "open" THEN "closed" ELSE @]
    /\ GoTo(s, "serving")
    /\ UNCHANGED <<todo, tx, cause, database>>

\* The unlock fails and is only logged; the session stays open in the pool.
UnlockFails(s) ==
    /\ pc[s] = "unlock"
    /\ GoTo(s, "serving")
    /\ UNCHANGED <<conn, lock, todo, tx, cause, database>>

\* RunMigrations returned an error: os.Exit(1), which ends every session.
Exit(s) ==
    /\ pc[s] = "abort"
    /\ EndSession(s, IF conn[s] = "open" THEN "closed" ELSE conn[s])
    /\ GoTo(s, "exited")
    /\ UNCHANGED <<todo, tx, cause, database>>

-----------------------------------------------------------------------------
\* Any statement may fail; a COMMIT may take effect although it seems to fail.
StatementFails(s) ==
    /\ pc[s] \in Working \cup {"lock"}
    /\ Error(s, "fault")
    /\ UNCHANGED <<conn, lock, todo, database>>

CommitReplyLost(s) ==
    /\ pc[s] = "commit"
    /\ CommitWork(s)
    /\ GoTo(s, "abort")
    /\ cause' = [cause EXCEPT ![s] = "fault"]
    /\ UNCHANGED <<conn, lock, table, todo>>

\* The connection of the lock breaks; the runner does not use it and goes on.
LoseConnection(s) ==
    /\ pc[s] \in Working \cup {"unlock"}
    /\ conn[s] = "open"
    /\ EndSession(s, "lost")
    /\ UNCHANGED <<pc, todo, tx, cause, database>>

\* The process is killed, possibly with a COMMIT on its way.
Kill(s) ==
    /\ pc[s] \notin {"off", "exited", "dead", "sent"}
    /\ \/ GoTo(s, "dead")
       \/ pc[s] = "commit" /\ GoTo(s, "sent")
    /\ UNCHANGED <<conn, lock, todo, tx, cause, database>>

\* PostgreSQL notices, for each connection on its own, that the process is gone.
DropLockSession(s) ==
    /\ pc[s] \in {"dead", "sent"}
    /\ conn[s] = "open"
    /\ EndSession(s, "lost")
    /\ UNCHANGED <<pc, todo, tx, cause, database>>

DropWorkSession(s) ==
    \/ /\ pc[s] = "dead"
       /\ tx[s] # {}
       /\ tx' = [tx EXCEPT ![s] = {}]
       /\ UNCHANGED <<pc, conn, lock, todo, cause, database>>
    \/ /\ pc[s] = "sent"
       /\ CommitWork(s)
       /\ GoTo(s, "dead")
       /\ UNCHANGED <<conn, lock, table, todo, cause>>

-----------------------------------------------------------------------------
Progress(s) ==
    \/ Lock(s) \/ CreateTable(s) \/ ListFiles(s) \/ CheckApplied(s) \/ ExecFile(s)
    \/ RecordVersion(s) \/ Commit(s) \/ Unlock(s) \/ Exit(s)
    \/ DropLockSession(s) \/ DropWorkSession(s)

Fault(s) ==
    \/ StatementFails(s) \/ CommitReplyLost(s) \/ LoseConnection(s) \/ Kill(s)
    \/ UnlockFails(s)

Next == \E s \in Servers : Start(s) \/ Progress(s) \/ Fault(s)

Spec == Init /\ [][Next]_vars

\* A running process executes its next statement, and PostgreSQL notices the
\* end of a session.  Nobody has to start a server, and no fault has to happen.
FairSpec == Spec /\ \A s \in Servers : WF_vars(Progress(s))

-----------------------------------------------------------------------------
TypeOK ==
    /\ pc \in [Servers -> Steps]
    /\ conn \in [Servers -> {"none", "open", "closed", "lost"}]
    /\ lock \in Servers \cup {NoServer}
    /\ table \in BOOLEAN
    /\ todo \in [Servers -> SUBSET Files]
    /\ tx \in [Servers -> SUBSET {"effect", "version"}]
    /\ schema \in Seq(Files)
    /\ recorded \in SUBSET Files
    /\ cause \in [Servers -> {"none", "fault", "conflict"}]

\* schema_migrations says exactly which files took effect, and none took effect
\* twice, whatever is killed or lost in between: the file and its version are
\* one transaction, and the version is a primary key.
RecordMatchesSchema ==
    /\ \A file \in Files : file \in recorded <=> InSchema(file)
    /\ \A i, j \in DOMAIN schema : schema[i] = schema[j] => i = j

\* A server that serves has every file of its own release in the schema, however
\* many others have failed or been killed on the way (main.go serves only after
\* RunMigrations has returned nil).
ServesMigrated ==
    \A s \in Servers : pc[s] = "serving" => \A file \in dir[s] : InSchema(file)

\* No two servers work on the schema at once, unless the connection that held
\* the lock for one of them is gone.
OneRunner ==
    \A s, t \in Servers :
        (s # t /\ pc[s] \in Working /\ pc[t] \in Working)
            => conn[s] = "lost" \/ conn[t] = "lost"

\* A start fails on a file another server is applying or has applied only if
\* some lock was lost with its connection: this is what the lock is for.
NoSpuriousFailure ==
    (\E s \in Servers : cause[s] = "conflict") => \E t \in Servers : conn[t] = "lost"

\* The inductive invariant of the safety properties above.  What the open
\* transaction of s has done, by where s is:
TxInv(s) ==
    /\ pc[s] = "record" => tx[s] = {"effect"}
    /\ pc[s] \in {"commit", "sent"} => tx[s] = {"effect", "version"}
    /\ pc[s] \notin {"record", "commit", "sent", "dead"} => tx[s] = {}
    /\ pc[s] = "exec" \/ tx[s] # {} => todo[s] # {}

\* A version it has inserted, which the primary key lets no other transaction
\* insert, is not recorded yet.
VersionInv(s) ==
    "version" \in tx[s] =>
        /\ Current(s) \notin recorded
        /\ \A t \in Servers \ {s} : "version" \in tx[t] => Current(t) # Current(s)

\* The files s is through with are applied.
TodoInv(s) ==
    /\ todo[s] \subseteq dir[s]
    /\ pc[s] \in {"check", "exec", "record", "commit", "sent", "unlock", "serving"} =>
        dir[s] \ todo[s] \subseteq recorded
    /\ pc[s] \in {"unlock", "serving"} => todo[s] = {}

\* Whoever works has the lock, or has lost the connection it was taken on; as
\* long as nobody has, the file it found to be missing is still missing.
LockInv(s) ==
    /\ pc[s] \in Working \cup {"unlock", "sent"} => conn[s] = "lost" \/ lock = s
    /\ pc[s] = "off" => conn[s] = "none"
    /\ pc[s] \in {"exec", "record"} /\ (\A t \in Servers : conn[t] # "lost") =>
        Current(s) \notin recorded

MigrationsInv ==
    /\ RecordMatchesSchema
    /\ NoSpuriousFailure
    /\ \A s \in Servers : TxInv(s) /\ VersionInv(s) /\ TodoInv(s) /\ LockInv(s)

\* The schema is what the record and every server that serves take it for.
SchemaConsistent == TypeOK /\ RecordMatchesSchema /\ ServesMigrated

\* Files are applied by one server at a time, unless a lock was lost.
OneAtATime == OneRunner /\ NoSpuriousFailure

\* A file takes effect only after the earlier files of the release of a server
\* that applies it ("in filename order").
InReleaseOrder ==
    [][\A file \in Files : (~InSchema(file) /\ InSchema(file)')
            => \E s \in Servers :
                 /\ tx[s] # {} /\ tx'[s] = {} /\ file \in dir[s]
                 /\ \A earlier \in dir[s] : earlier < file => InSchema(earlier)]_vars

\* Every start ends: the server serves, exits or is killed, unless a server that
\* serves has kept the lock in its pool.
StartUpEnds ==
    \A s \in Servers :
        pc[s] = "lock" ~> \/ pc[s] \in {"serving", "exited", "dead"}
                          \/ lock # NoServer /\ pc[lock] = "serving"

\* The comment on the dedicated connection: closing it releases the lock even if
\* the explicit unlock is skipped.
ClosedReleases == \A s \in Servers : pc[s] = "serving" => lock # s
=============================================================================
