------------------------- MODULE Migrations_proofs -------------------------
(***************************************************************************)
(* Proofs about Migrations, for any set of servers, any releases and any   *)
(* choice of files that can run again.                                     *)
(***************************************************************************)
EXTENDS Migrations, FiniteSetTheorems, WellFoundedInduction, TLAPS

-----------------------------------------------------------------------------
(* The file at hand                                                         *)

LEMMA SmallestFile ==
    ASSUME NEW S \in SUBSET Nat, S # {}
    PROVE  \E file \in S : \A other \in S : file <= other
<1> DEFINE UpTo(n) == {m \in S : m <= n}
           Starts == {UpTo(n) : n \in S}
<1>1. \A n \in S : IsFiniteSet(UpTo(n))
  BY FS_BoundedSetOfNaturals
<1>2. Starts # {} /\ Starts \subseteq FiniteSubsetsOf(S)
  BY <1>1 DEF FiniteSubsetsOf
<1> HIDE DEF Starts
<1>3. PICK least \in Starts : \A U \in Starts : <<U, least>> \notin StrictSubsetOrdering(S)
  BY <1>2, FS_StrictSubsetOrderingWellFounded, WFMin
<1>4. PICK file \in S : least = UpTo(file)
  BY DEF Starts
<1>5. ASSUME NEW other \in S, other < file PROVE FALSE
  <2>1. UpTo(other) \in Starts
    BY DEF Starts
  <2>2. UpTo(other) \subseteq UpTo(file) /\ file \in UpTo(file) /\ file \notin UpTo(other)
    <3>1. other \in Nat /\ file \in Nat
      OBVIOUS
    <3>2. \A m \in S : m <= other => m <= file
      BY <1>5, <3>1
    <3>3. file <= file /\ ~ (file <= other)
      BY <1>5, <3>1
    <3> QED
      BY <3>2, <3>3
  <2>3. UpTo(other) \in SUBSET S /\ UpTo(file) \in SUBSET S
    OBVIOUS
  <2> HIDE DEF UpTo
  <2>4. <<UpTo(other), UpTo(file)>> \in StrictSubsetOrdering(S)
    BY <2>2, <2>3 DEF StrictSubsetOrdering
  <2> QED
    BY <1>3, <1>4, <2>1, <2>4
<1> QED
  BY <1>5

\* A server handles the first of the files that are left.
LEMMA CurrentIsFirst ==
    ASSUME TypeOK, NEW s \in Servers, todo[s] # {}
    PROVE  /\ Current(s) \in todo[s]
           /\ Current(s) \in Files
           /\ \A other \in todo[s] : Current(s) <= other
<1>1. todo[s] \subseteq Files /\ Files \subseteq Nat
  BY DirAssumption DEF TypeOK, Files
<1> QED
  BY <1>1, SmallestFile DEF Current

LEMMA CurrentStays ==
    ASSUME NEW s \in Servers, todo'[s] = todo[s]
    PROVE  Current(s)' = Current(s)
BY Zenon DEF Current
-----------------------------------------------------------------------------
(* Commits                                                                  *)

LEMMA SchemaStays == schema' = schema => \A file : InSchema(file)' <=> InSchema(file)
BY DEF InSchema

\* The transaction of a file and its version, when it commits.
LEMMA CommitsBoth ==
    ASSUME TypeOK, RecordMatchesSchema, NEW s \in Servers, TxInv(s), VersionInv(s),
           pc[s] \in {"commit", "sent"}, CommitWork(s)
    PROVE  /\ Current(s) \in todo[s] /\ Current(s) \in Files
           /\ Current(s) \notin recorded
           /\ schema' \in Seq(Files)
           /\ recorded' = recorded \cup {Current(s)}
           /\ recorded' \in SUBSET Files
           /\ \A file : InSchema(file)' <=> InSchema(file) \/ file = Current(s)
           /\ RecordMatchesSchema'
<1> DEFINE file == Current(s)
<1>1. tx[s] = {"effect", "version"} /\ todo[s] # {} /\ file \notin recorded
  BY DEF TxInv, VersionInv
<1>2. file \in todo[s] /\ file \in Files
  BY <1>1, CurrentIsFirst
<1>3. schema' = Append(schema, file) /\ recorded' = recorded \cup {file}
  BY <1>1 DEF CommitWork
<1> HIDE DEF file
<1>4. /\ schema' \in Seq(Files)
      /\ Len(schema') = Len(schema) + 1
      /\ \A i \in 1..Len(schema) : schema'[i] = schema[i]
      /\ schema'[Len(schema) + 1] = file
      /\ Len(schema) \in Nat
      /\ DOMAIN schema = 1..Len(schema)
      /\ DOMAIN schema' = 1..(Len(schema) + 1)
  BY <1>2, <1>3 DEF TypeOK
<1>5. \A other : InSchema(other)' <=> InSchema(other) \/ other = file
  BY <1>4 DEF InSchema
<1>6. ~InSchema(file)
  BY <1>1, <1>2 DEF RecordMatchesSchema, file
<1>7. \A i \in DOMAIN schema : schema[i] # file
  BY <1>6 DEF InSchema
<1>8. \A i, j \in DOMAIN schema' : schema'[i] = schema'[j] => i = j
  <2> SUFFICES ASSUME NEW i \in DOMAIN schema', NEW j \in DOMAIN schema',
                      schema'[i] = schema'[j]
               PROVE  i = j
    OBVIOUS
  <2>1. i \in 1..Len(schema) \/ i = Len(schema) + 1
    BY <1>4
  <2>2. j \in 1..Len(schema) \/ j = Len(schema) + 1
    BY <1>4
  <2> QED
    BY <1>4, <1>7, <2>1, <2>2 DEF RecordMatchesSchema
<1>9. RecordMatchesSchema'
  BY <1>2, <1>3, <1>5, <1>8 DEF RecordMatchesSchema
<1> QED
  BY <1>1, <1>2, <1>3, <1>4, <1>5, <1>9 DEF file, TypeOK

-----------------------------------------------------------------------------
(* Types                                                                    *)

LEMMA ErrorTyped ==
    ASSUME TypeOK, NEW s \in Servers, NEW why \in {"fault", "conflict"}, Error(s, why)
    PROVE  /\ pc' \in [Servers -> Steps]
           /\ tx' \in [Servers -> SUBSET {"effect", "version"}]
           /\ cause' \in [Servers -> {"none", "fault", "conflict"}]
BY DEF TypeOK, Error, GoTo, Steps

LEMMA NextTyped == ASSUME TypeOK, MigrationsInv, [Next]_vars PROVE TypeOK'
<1> USE DEF TypeOK, GoTo, Steps, Working, EndSession, database
<1>1. ASSUME UNCHANGED vars PROVE TypeOK'
  BY <1>1 DEF vars
<1>2. ASSUME NEW s \in Servers, Start(s) \/ Lock(s) \/ CreateTable(s) PROVE TypeOK'
  BY <1>2 DEF Start, Lock, CreateTable
<1>3. ASSUME NEW s \in Servers, ListFiles(s) \/ CheckApplied(s) PROVE TypeOK'
  BY <1>3 DEF ListFiles, CheckApplied, Files
<1>4. ASSUME NEW s \in Servers, ExecFile(s) \/ RecordVersion(s) \/ StatementFails(s)
      PROVE  TypeOK'
  BY <1>4, ErrorTyped DEF ExecFile, RecordVersion, StatementFails
<1>5. ASSUME NEW s \in Servers, CommitWork(s), pc[s] \in {"commit", "sent"}
      PROVE  /\ schema' \in Seq(Files) /\ recorded' \in SUBSET Files
             /\ tx' \in [Servers -> SUBSET {"effect", "version"}]
  BY <1>5, CommitsBoth DEF MigrationsInv, CommitWork
<1>6. ASSUME NEW s \in Servers, Commit(s) \/ CommitReplyLost(s) PROVE TypeOK'
  <2>1. pc[s] = "commit" /\ CommitWork(s)
    BY <1>6 DEF Commit, CommitReplyLost
  <2>2. /\ schema' \in Seq(Files) /\ recorded' \in SUBSET Files
        /\ tx' \in [Servers -> SUBSET {"effect", "version"}]
    BY <1>5, <2>1
  <2>3. CASE Commit(s)
    BY <2>2, <2>3 DEF Commit
  <2>4. CASE CommitReplyLost(s)
    BY <2>2, <2>4 DEF CommitReplyLost
  <2> QED
    BY <1>6, <2>3, <2>4
<1>7. ASSUME NEW s \in Servers, Unlock(s) \/ UnlockFails(s) \/ Exit(s) PROVE TypeOK'
  BY <1>7 DEF Unlock, UnlockFails, Exit
<1>8. ASSUME NEW s \in Servers, LoseConnection(s) \/ Kill(s) \/ DropLockSession(s)
      PROVE  TypeOK'
  BY <1>8 DEF LoseConnection, Kill, DropLockSession
<1>9. ASSUME NEW s \in Servers, DropWorkSession(s) PROVE TypeOK'
  BY <1>5, <1>9 DEF DropWorkSession
<1> QED
  BY <1>1, <1>2, <1>3, <1>4, <1>6, <1>7, <1>8, <1>9 DEF Next, Progress, Fault
-----------------------------------------------------------------------------
(* What a step leaves alone                                                 *)

Move(s) == Start(s) \/ Progress(s) \/ Fault(s)

LEMMA MovesAreLocal ==
    ASSUME TypeOK, NEW s \in Servers, Move(s), NEW t \in Servers \ {s}
    PROVE  /\ pc'[t] = pc[t] /\ conn'[t] = conn[t] /\ todo'[t] = todo[t]
           /\ tx'[t] = tx[t] /\ cause'[t] = cause[t]
<1> USE DEF TypeOK, GoTo, EndSession, Error, CommitWork, database
<1>1. CASE Start(s) \/ Lock(s) \/ CreateTable(s) \/ ListFiles(s) \/ CheckApplied(s)
  BY <1>1 DEF Start, Lock, CreateTable, ListFiles, CheckApplied
<1>2. CASE ExecFile(s) \/ RecordVersion(s) \/ Commit(s)
  BY <1>2 DEF ExecFile, RecordVersion, Commit
<1>3. CASE Unlock(s) \/ Exit(s) \/ DropLockSession(s) \/ DropWorkSession(s)
  BY <1>3 DEF Unlock, Exit, DropLockSession, DropWorkSession
<1>4. CASE Fault(s)
  BY <1>4 DEF Fault, StatementFails, CommitReplyLost, LoseConnection, Kill, UnlockFails
<1> QED
  BY <1>1, <1>2, <1>3, <1>4 DEF Move, Progress

\* Only a commit writes what others see, and it leaves no transaction.
LEMMA OnlyCommitsWrite ==
    ASSUME NEW s \in Servers, Move(s)
    PROVE  \/ recorded' = recorded /\ schema' = schema
           \/ pc[s] \in {"commit", "sent"} /\ CommitWork(s)
BY DEF Move, Progress, Fault, Start, Lock, CreateTable, ListFiles, CheckApplied, ExecFile,
       RecordVersion, Commit, Unlock, UnlockFails, Exit, StatementFails, CommitReplyLost,
       LoseConnection, Kill, DropLockSession, DropWorkSession, database

\* A connection that was lost stays lost.
LEMMA LostStays ==
    ASSUME TypeOK, MigrationsInv, NEW s \in Servers, Move(s), NEW t \in Servers,
           conn[t] = "lost"
    PROVE  conn'[t] = "lost"
<1>1. CASE t # s
  BY <1>1, MovesAreLocal
<1>2. CASE t = s
  <2> USE DEF TypeOK, EndSession, database
  <2>1. CASE Start(s)
    BY <1>2, <2>1 DEF Start, MigrationsInv, LockInv
  <2>2. CASE Unlock(s) \/ Exit(s) \/ LoseConnection(s) \/ DropLockSession(s)
    BY <1>2, <2>2 DEF Unlock, Exit, LoseConnection, DropLockSession
  <2> QED
    BY <1>2, <2>1, <2>2 DEF Move, Progress, Fault, Lock, CreateTable, ListFiles, CheckApplied,
       ExecFile, RecordVersion, Commit, UnlockFails, StatementFails, CommitReplyLost, Kill,
       DropWorkSession
<1> QED
  BY <1>1, <1>2

-----------------------------------------------------------------------------
(* The inductive invariant                                                  *)

LEMMA RecordKept ==
    ASSUME TypeOK, MigrationsInv, NEW s \in Servers, Move(s)
    PROVE  RecordMatchesSchema' /\ recorded \subseteq recorded'
<1>1. CASE recorded' = recorded /\ schema' = schema
  BY <1>1 DEF MigrationsInv, RecordMatchesSchema, InSchema
<1>2. CASE pc[s] \in {"commit", "sent"} /\ CommitWork(s)
  BY <1>2, CommitsBoth DEF MigrationsInv
<1> QED
  BY <1>1, <1>2, OnlyCommitsWrite

LEMMA ConflictKept ==
    ASSUME TypeOK, MigrationsInv, NEW s \in Servers, Move(s)
    PROVE  NoSpuriousFailure'
<1>1. ASSUME NEW t \in Servers, conn[t] = "lost" PROVE NoSpuriousFailure'
  BY <1>1, LostStays DEF NoSpuriousFailure
<1>2. CASE \A t \in Servers : cause'[t] = "conflict" => cause[t] = "conflict"
  BY <1>1, <1>2 DEF MigrationsInv, NoSpuriousFailure
<1>3. CASE pc[s] \in {"exec", "record"} /\ Current(s) \in recorded
  BY <1>1, <1>3 DEF MigrationsInv, LockInv
<1>4. CASE ExecFile(s) /\ InSchema(Current(s))
  <2>1. Current(s) \in Files
    BY <1>4, CurrentIsFirst DEF ExecFile, MigrationsInv, TxInv
  <2> QED
    BY <1>3, <1>4, <2>1 DEF ExecFile, MigrationsInv, RecordMatchesSchema
<1>5. CASE RecordVersion(s) /\ Current(s) \in recorded
  BY <1>3, <1>5 DEF RecordVersion
<1>6. ASSUME ~ (ExecFile(s) /\ InSchema(Current(s))),
             ~ (RecordVersion(s) /\ Current(s) \in recorded)
      PROVE  cause'[s] = "conflict" => cause[s] = "conflict"
  BY <1>6 DEF Move, Progress, Fault, Start, Lock, CreateTable, ListFiles, CheckApplied,
       ExecFile, RecordVersion, Commit, Unlock, UnlockFails, Exit, StatementFails,
       CommitReplyLost, LoseConnection, Kill, DropLockSession, DropWorkSession, Error, TypeOK
<1> QED
  BY <1>2, <1>4, <1>5, <1>6, MovesAreLocal

LEMMA TxKept ==
    ASSUME TypeOK, MigrationsInv, NEW s \in Servers, Move(s), NEW t \in Servers
    PROVE  TxInv(t)'
<1>0. TxInv(t)
  BY DEF MigrationsInv
<1>1. CASE t # s
  BY <1>0, <1>1, MovesAreLocal DEF TxInv
<1>2. CASE t = s
  <2> USE <1>0, <1>2 DEF TypeOK, TxInv, GoTo, Error, EndSession, CommitWork, database
  <2>1. CASE Start(s) \/ Lock(s) \/ CreateTable(s) \/ ListFiles(s)
    BY <2>1 DEF Start, Lock, CreateTable, ListFiles
  <2>2. CASE CheckApplied(s)
    BY <2>2 DEF CheckApplied
  <2>3. CASE ExecFile(s) \/ RecordVersion(s)
    <3>1. todo[s] # {} /\ todo' = todo
      BY <2>3 DEF ExecFile, RecordVersion
    <3>2. \/ pc'[s] = "abort" /\ tx'[s] = {}
          \/ pc'[s] = "record" /\ tx'[s] = {"effect"}
          \/ pc'[s] = "commit" /\ tx'[s] = {"effect"} \cup {"version"}
      BY <2>3 DEF ExecFile, RecordVersion
    <3> QED
      BY <3>1, <3>2
  <2>4. CASE Commit(s) \/ CommitReplyLost(s)
    BY <2>4 DEF Commit, CommitReplyLost
  <2>5. CASE Unlock(s) \/ UnlockFails(s) \/ Exit(s)
    BY <2>5 DEF Unlock, UnlockFails, Exit
  <2>6. CASE StatementFails(s) \/ LoseConnection(s) \/ Kill(s)
    BY <2>6 DEF StatementFails, LoseConnection, Kill
  <2>7. CASE DropLockSession(s) \/ DropWorkSession(s)
    BY <2>7 DEF DropLockSession, DropWorkSession
  <2> QED
    BY <2>1, <2>2, <2>3, <2>4, <2>5, <2>6, <2>7 DEF Move, Progress, Fault
<1> QED
  BY <1>1, <1>2

LEMMA VersionKept ==
    ASSUME TypeOK, MigrationsInv, NEW s \in Servers, Move(s), NEW t \in Servers
    PROVE  VersionInv(t)'
\* Whoever has inserted a version had inserted it before, but for s.
<1> DEFINE Old(u) == "version" \in tx[u] /\ todo'[u] = todo[u]
<1>1. \A u \in Servers : VersionInv(u) /\ TxInv(u)
  BY DEF MigrationsInv
<1>2. ASSUME NEW u \in Servers, "version" \in tx'[u],
             ~ (u = s /\ RecordVersion(s))
      PROVE  Old(u) /\ ~ (u = s /\ pc[s] \in {"commit", "sent"} /\ CommitWork(s))
  <2>1. CASE u # s
    BY <1>2, <2>1, MovesAreLocal
  <2>2. CASE u = s
    <3> USE <1>1, <1>2, <2>2 DEF TypeOK, TxInv, Error, CommitWork, database
    <3>1. CASE Start(s) \/ Lock(s) \/ CreateTable(s) \/ ListFiles(s) \/ CheckApplied(s)
      BY <3>1 DEF Start, Lock, CreateTable, ListFiles, CheckApplied
    <3>2. CASE ExecFile(s) \/ Commit(s) \/ Unlock(s) \/ Exit(s)
      BY <3>2 DEF ExecFile, Commit, Unlock, Exit
    <3>3. CASE DropLockSession(s) \/ DropWorkSession(s)
      BY <3>3 DEF DropLockSession, DropWorkSession
    <3>4. CASE Fault(s)
      BY <3>4 DEF Fault, StatementFails, CommitReplyLost, LoseConnection, Kill, UnlockFails
    <3> QED
      BY <3>1, <3>2, <3>3, <3>4 DEF Move, Progress
  <2> QED
    BY <2>1, <2>2
<1>3. CASE RecordVersion(s)
  <2>1. recorded' = recorded /\ todo' = todo
    BY <1>3 DEF RecordVersion, database
  <2>2. \A u \in Servers : Current(u)' = Current(u)
    BY <2>1, CurrentStays
  \* The INSERT has waited for every other one of the same version.
  <2>3. "version" \in tx'[s] =>
            /\ Current(s) \notin recorded
            /\ \A u \in Servers \ {s} : "version" \in tx[u] => Current(u) # Current(s)
    BY <1>3 DEF RecordVersion, Busy, Error, TypeOK
  <2>4. \A u \in Servers \ {s} : tx'[u] = tx[u]
    BY MovesAreLocal
  <2>5. CASE t = s
    BY <2>1, <2>2, <2>3, <2>4, <2>5 DEF VersionInv
  <2>6. CASE t # s
    BY <1>1, <2>1, <2>2, <2>3, <2>4, <2>6 DEF VersionInv
  <2> QED
    BY <2>5, <2>6
<1>4. CASE ~RecordVersion(s)
  <2> SUFFICES ASSUME "version" \in tx'[t] PROVE VersionInv(t)'
    BY DEF VersionInv
  <2>1. Old(t) /\ Current(t)' = Current(t)
    BY <1>2, <1>4, CurrentStays
  <2>2. ASSUME NEW u \in Servers \ {t}, "version" \in tx'[u]
        PROVE  Current(u)' # Current(t)'
    <3>1. Old(u) /\ Current(u)' = Current(u)
      BY <1>2, <1>4, <2>2, CurrentStays
    <3> QED
      BY <1>1, <2>1, <3>1 DEF VersionInv
  <2>3. Current(t) \notin recorded'
    <3>1. CASE recorded' = recorded
      BY <1>1, <2>1, <3>1 DEF VersionInv
    <3>2. CASE pc[s] \in {"commit", "sent"} /\ CommitWork(s)
      <4>1. t # s
        BY <1>2, <1>4, <3>2
      <4>2. recorded' = recorded \cup {Current(s)} /\ "version" \in tx[s]
        BY <1>1, <3>2, CommitsBoth DEF MigrationsInv, TxInv
      <4> QED
        BY <1>1, <2>1, <4>1, <4>2 DEF VersionInv
    <3> QED
      BY <3>1, <3>2, OnlyCommitsWrite
  <2> QED
    BY <2>1, <2>2, <2>3 DEF VersionInv
<1> QED
  BY <1>3, <1>4

LEMMA TodoKept ==
    ASSUME TypeOK, MigrationsInv, NEW s \in Servers, Move(s), NEW t \in Servers
    PROVE  TodoInv(t)'
<1>1. TodoInv(t) /\ TxInv(t) /\ recorded \subseteq recorded'
  BY RecordKept DEF MigrationsInv
<1>2. CASE t # s
  BY <1>1, <1>2, MovesAreLocal DEF TodoInv
<1>3. CASE t = s
  <2> USE <1>1, <1>3 DEF TypeOK, TodoInv, GoTo, Error, EndSession, database
  <2>1. CASE Start(s) \/ Lock(s) \/ CreateTable(s) \/ ListFiles(s)
    BY <2>1 DEF Start, Lock, CreateTable, ListFiles
  <2>2. CASE CheckApplied(s)
    BY <2>2 DEF CheckApplied
  <2>3. CASE ExecFile(s) \/ RecordVersion(s)
    BY <2>3 DEF ExecFile, RecordVersion
  <2>4. CASE Commit(s)
    <3>1. recorded' = recorded \cup {Current(s)}
      BY <2>4, CommitsBoth DEF Commit, MigrationsInv
    <3> QED
      BY <2>4, <3>1 DEF Commit
  <2>5. CASE CommitReplyLost(s) \/ DropWorkSession(s)
    BY <2>5 DEF CommitReplyLost, DropWorkSession
  <2>6. CASE Unlock(s) \/ UnlockFails(s) \/ Exit(s)
    BY <2>6 DEF Unlock, UnlockFails, Exit
  <2>7. CASE StatementFails(s) \/ LoseConnection(s) \/ Kill(s) \/ DropLockSession(s)
    BY <2>7 DEF StatementFails, LoseConnection, Kill, DropLockSession
  <2> QED
    BY <2>1, <2>2, <2>3, <2>4, <2>5, <2>6, <2>7 DEF Move, Progress, Fault
<1> QED
  BY <1>2, <1>3

LEMMA LockKept ==
    ASSUME TypeOK, MigrationsInv, NEW s \in Servers, Move(s), NEW t \in Servers
    PROVE  LockInv(t)'
<1>1. /\ \A u \in Servers : LockInv(u) /\ TxInv(u) /\ VersionInv(u)
      /\ RecordMatchesSchema
  BY DEF MigrationsInv
\* The advisory lock is given to one session at a time.
<1>2. /\ pc'[t] \in Working \cup {"unlock", "sent"} => conn'[t] = "lost" \/ lock' = t
      /\ pc'[t] = "off" => conn'[t] = "none"
  <2>1. CASE t # s
    <3>1. UNCHANGED <<pc[t], conn[t]>> /\ (lock = t => lock' = t)
      <4>1. lock' = lock \/ lock = NoServer \/ lock = s
        BY DEF Move, Progress, Fault, Start, Lock, CreateTable, ListFiles, CheckApplied,
           ExecFile, RecordVersion, Commit, Unlock, UnlockFails, Exit, StatementFails,
           CommitReplyLost, LoseConnection, Kill, DropLockSession, DropWorkSession,
           EndSession, database
      <4> QED
        BY <2>1, <4>1, MovesAreLocal, ServersAssumption
    <3> QED
      BY <1>1, <3>1 DEF LockInv
  <2>2. CASE t = s
    <3> USE <1>1, <2>2 DEF TypeOK, LockInv, GoTo, Error, EndSession, Working, CommitWork,
                           database
    <3>1. CASE Start(s) \/ Lock(s) \/ CreateTable(s) \/ ListFiles(s) \/ CheckApplied(s)
      BY <3>1 DEF Start, Lock, CreateTable, ListFiles, CheckApplied
    <3>2. CASE ExecFile(s) \/ RecordVersion(s) \/ Commit(s)
      BY <3>2 DEF ExecFile, RecordVersion, Commit
    <3>3. CASE Unlock(s) \/ UnlockFails(s) \/ Exit(s)
      BY <3>3 DEF Unlock, UnlockFails, Exit
    <3>4. CASE StatementFails(s) \/ CommitReplyLost(s) \/ LoseConnection(s) \/ Kill(s)
      BY <3>4 DEF StatementFails, CommitReplyLost, LoseConnection, Kill
    <3>5. CASE DropLockSession(s) \/ DropWorkSession(s)
      BY <3>5 DEF DropLockSession, DropWorkSession
    <3> QED
      BY <3>1, <3>2, <3>3, <3>4, <3>5 DEF Move, Progress, Fault
  <2> QED
    BY <2>1, <2>2
\* Only t itself could have applied the file it found to be missing.
<1>3. ASSUME pc'[t] \in {"exec", "record"}, \A u \in Servers : conn'[u] # "lost"
      PROVE  Current(t)' \notin recorded'
  <2>1. \A u \in Servers : conn[u] # "lost"
    BY <1>3, LostStays
  <2>2. CASE recorded' = recorded /\ t # s
    BY <1>1, <1>3, <2>1, <2>2, MovesAreLocal, CurrentStays DEF LockInv
  <2>3. CASE recorded' = recorded /\ t = s
    <3> USE <1>3, <2>3 DEF TypeOK, GoTo, Error, EndSession, CommitWork, database
    <3>1. CASE CheckApplied(s)
      <4>1. todo'[s] = todo[s] /\ Current(s) \notin recorded
        BY <3>1 DEF CheckApplied
      <4> QED
        BY <4>1, CurrentStays
    <3>2. CASE ~CheckApplied(s)
      <4>1. pc[s] \in {"exec", "record"} /\ todo'[s] = todo[s]
        <5>1. CASE Start(s) \/ Lock(s) \/ CreateTable(s) \/ ListFiles(s)
          BY <5>1 DEF Start, Lock, CreateTable, ListFiles
        <5>2. CASE ExecFile(s) \/ RecordVersion(s) \/ Commit(s)
          BY <5>2 DEF ExecFile, RecordVersion, Commit
        <5>3. CASE Unlock(s) \/ UnlockFails(s) \/ Exit(s)
          BY <5>3 DEF Unlock, UnlockFails, Exit
        <5>4. CASE StatementFails(s) \/ CommitReplyLost(s) \/ LoseConnection(s) \/ Kill(s)
          BY <5>4 DEF StatementFails, CommitReplyLost, LoseConnection, Kill
        <5>5. CASE DropLockSession(s) \/ DropWorkSession(s)
          BY <5>5 DEF DropLockSession, DropWorkSession
        <5> QED
          BY <3>2, <5>1, <5>2, <5>3, <5>4, <5>5 DEF Move, Progress, Fault
      <4> QED
        BY <1>1, <2>1, <4>1, CurrentStays DEF LockInv
    <3> QED
      BY <3>1, <3>2
  \* Whoever commits has the lock, and t would have it, too.
  <2>4. CASE pc[s] \in {"commit", "sent"} /\ CommitWork(s)
    <3>1. lock = s
      BY <1>1, <2>1, <2>4 DEF LockInv, Working
    <3>2. CASE t # s
      <4>1. lock = t
        BY <1>1, <1>3, <2>1, <3>2, MovesAreLocal DEF LockInv, Working
      <4> QED
        BY <3>1, <3>2, <4>1
    <3>3. CASE t = s
      BY <1>3, <2>4, <3>3 DEF Move, Progress, Fault, Start, Lock, CreateTable, ListFiles,
         CheckApplied, ExecFile, RecordVersion, Commit, Unlock, UnlockFails, Exit,
         StatementFails, CommitReplyLost, LoseConnection, Kill, DropLockSession,
         DropWorkSession, GoTo, Error, TypeOK
    <3> QED
      BY <3>2, <3>3
  <2> QED
    BY <2>2, <2>3, <2>4, OnlyCommitsWrite
<1> QED
  BY <1>2, <1>3 DEF LockInv

LEMMA InitInv == Init => TypeOK /\ MigrationsInv
<1> SUFFICES ASSUME Init PROVE TypeOK /\ MigrationsInv
  OBVIOUS
<1>1. TypeOK
  <2>1. schema \in Seq(Files) /\ recorded \in SUBSET Files
    BY DEF Init
  <2>2. todo \in [Servers -> SUBSET Files] /\ tx \in [Servers -> SUBSET {"effect", "version"}]
    BY DEF Init
  <2> QED
    BY <2>1, <2>2 DEF Init, TypeOK, Steps
<1>2. RecordMatchesSchema /\ NoSpuriousFailure
  BY DEF Init, RecordMatchesSchema, NoSpuriousFailure, InSchema
<1>3. ASSUME NEW s \in Servers PROVE TxInv(s) /\ VersionInv(s) /\ TodoInv(s) /\ LockInv(s)
  BY DEF Init, TxInv, VersionInv, TodoInv, LockInv, Working
<1> QED
  BY <1>1, <1>2, <1>3 DEF MigrationsInv

LEMMA NextInv == ASSUME TypeOK, MigrationsInv, [Next]_vars PROVE MigrationsInv'
<1>1. CASE UNCHANGED vars
  <2>1. \A s \in Servers : Current(s)' = Current(s)
    BY <1>1, CurrentStays DEF vars
  <2>2. RecordMatchesSchema' /\ NoSpuriousFailure'
    BY <1>1 DEF vars, MigrationsInv, RecordMatchesSchema, NoSpuriousFailure, InSchema
  <2>3. ASSUME NEW s \in Servers
        PROVE  TxInv(s)' /\ VersionInv(s)' /\ TodoInv(s)' /\ LockInv(s)'
    BY <1>1, <2>1 DEF vars, MigrationsInv, TxInv, VersionInv, TodoInv, LockInv
  <2> QED
    BY <2>2, <2>3 DEF MigrationsInv
<1>2. ASSUME NEW s \in Servers, Move(s) PROVE MigrationsInv'
  BY <1>2, RecordKept, ConflictKept, TxKept, VersionKept, TodoKept, LockKept
  DEF MigrationsInv
<1> QED
  BY <1>1, <1>2 DEF Next, Move

\* The properties below are not inductive: that a version and its effect are
\* committed together, once and under the lock depends on what the open
\* transaction has done and on who may work.
THEOREM MigrationsInvariant == Spec => [](TypeOK /\ MigrationsInv)
<1>1. Init => TypeOK /\ MigrationsInv
  BY InitInv
<1>2. TypeOK /\ MigrationsInv /\ [Next]_vars => (TypeOK /\ MigrationsInv)'
  BY NextTyped, NextInv
<1> QED
  BY <1>1, <1>2, PTL DEF Spec

-----------------------------------------------------------------------------
(* What follows                                                             *)

\* schema_migrations says which files took effect, each of them once, and a
\* server that serves has all files of its release: whatever fails, loses its
\* connection or is killed.
THEOREM SchemaInOrder == Spec => []SchemaConsistent
<1>1. ASSUME TypeOK, MigrationsInv PROVE ServesMigrated
  <2> SUFFICES ASSUME NEW s \in Servers, pc[s] = "serving", NEW file \in dir[s]
               PROVE  InSchema(file)
    BY DEF ServesMigrated
  <2>1. file \in recorded
    BY <1>1 DEF MigrationsInv, TodoInv
  <2> QED
    BY <1>1, <2>1 DEF TypeOK, MigrationsInv, RecordMatchesSchema
<1>2. TypeOK /\ MigrationsInv => SchemaConsistent
  BY <1>1 DEF MigrationsInv, SchemaConsistent
<1> QED
  BY <1>2, MigrationsInvariant, PTL

\* The advisory lock does what it is for: one server at a time works on the
\* schema and none fails on the work of another, unless the connection that
\* holds the lock is lost.
THEOREM LockExcludes == Spec => []OneAtATime
<1>1. TypeOK /\ MigrationsInv => OneAtATime
  BY DEF MigrationsInv, LockInv, OneAtATime, OneRunner
<1> QED
  BY <1>1, MigrationsInvariant, PTL

\* A file takes effect only after all earlier files of the release that brings
\* it, with other releases starting at the same time.
THEOREM FilesInOrder == Spec => InReleaseOrder
<1> DEFINE Ordered ==
              \A file \in Files : (~InSchema(file) /\ InSchema(file)')
                => \E s \in Servers :
                     /\ tx[s] # {} /\ tx'[s] = {} /\ file \in dir[s]
                     /\ \A earlier \in dir[s] : earlier < file => InSchema(earlier)
<1>1. ASSUME TypeOK, MigrationsInv, NEW s \in Servers, Move(s),
             NEW file \in Files, ~InSchema(file), InSchema(file)'
      PROVE  /\ tx[s] # {} /\ tx'[s] = {} /\ file \in dir[s]
             /\ \A earlier \in dir[s] : earlier < file => InSchema(earlier)
  <2>1. pc[s] \in {"commit", "sent"} /\ CommitWork(s)
    BY <1>1, OnlyCommitsWrite DEF InSchema
  <2>2. TxInv(s) /\ VersionInv(s) /\ TodoInv(s) /\ RecordMatchesSchema
    BY <1>1 DEF MigrationsInv
  <2>3. file = Current(s) /\ Current(s) \in todo[s]
    BY <1>1, <2>1, <2>2, CommitsBoth
  <2>4. tx[s] # {} /\ tx'[s] = {} /\ file \in dir[s]
    BY <1>1, <2>1, <2>2, <2>3 DEF TxInv, TodoInv, CommitWork, TypeOK
  <2>5. ASSUME NEW earlier \in dir[s], earlier < file PROVE InSchema(earlier)
    <3>1. file \in Nat /\ earlier \in Nat /\ earlier \in Files
      BY <2>4, DirAssumption DEF Files
    <3>2. \A other \in todo[s] : file <= other
      BY <1>1, <2>3, CurrentIsFirst
    <3>3. earlier \in recorded
      BY <2>1, <2>2, <2>5, <3>1, <3>2 DEF TodoInv
    <3> QED
      BY <2>2, <3>1, <3>3 DEF RecordMatchesSchema
  <2> QED
    BY <2>4, <2>5
<1>2. TypeOK /\ MigrationsInv /\ Next => Ordered
  BY <1>1 DEF Next, Move
<1>3. TypeOK /\ MigrationsInv /\ [Next]_vars => [Ordered]_vars
  BY <1>2
<1> QED
  BY <1>3, MigrationsInvariant, PTL DEF Spec, InReleaseOrder
=============================================================================
