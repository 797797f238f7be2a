--------------------------- MODULE Ingest_proofs ---------------------------
(***************************************************************************)
(* Proofs about Ingest, for any set of uploads, any bodies, any faults of  *)
(* each upload, and with or without crashes.                               *)
(***************************************************************************)
EXTENDS Ingest, TLAPS

LEMMA InitInv == Init => TypeOK /\ IngestInv
<1> SUFFICES ASSUME Init PROVE TypeOK /\ IngestInv
  OBVIOUS
<1>1. TypeOK
  BY DEF Init, TypeOK, Working, Keys
<1>2. ASSUME NEW u \in Uploads PROVE UploadInv(u)
  BY DEF Init, UploadInv, StagingInv, StorageInv, RowInv, CleanupInv, Stored,
         BeforeAudio, BeforeInsert, Playable
<1> QED
  BY <1>1, <1>2 DEF IngestInv

-----------------------------------------------------------------------------
(* Types                                                                    *)

\* What is written of body, staged, tmp and puts by a step of one upload.
LEMMA BodyParts ==
    ASSUME TypeOK, NEW u \in Uploads, next[u] \in DOMAIN body[u]
    PROVE  /\ next[u] \in Nat \ {0}
           /\ Part(u) = "audio" => <<u, next[u]>> \in AudioParts
<1>1. body[u] \in Seq({"audio", "notAudio", "text"})
  BY BodyAssumption DEF TypeOK
<1> QED
  BY <1>1 DEF AudioParts, Part

LEMMA SameBody == ASSUME body' = body PROVE AudioParts' = AudioParts
BY DEF AudioParts

LEMMA AnswerTyped ==
    ASSUME TypeOK, NEW u \in Uploads, NEW what \in {"created", "failed"},
           Answer(u, what, staged), UNCHANGED <<body, next, tmp>>,
           puts' \subseteq Keys, objects' \subseteq Keys,
           artworkExt' = artworkExt, server' = server,
           row' \in [Uploads -> {"none", "bare", "artwork"}]
    PROVE  TypeOK'
BY SameBody DEF TypeOK, Answer, Goto, Working

LEMMA GotoTyped ==
    ASSUME TypeOK, NEW u \in Uploads, NEW label \in Working, Goto(u, label),
           label \in {"putArtwork", "renameArtwork"} => HasArtwork[u],
           UNCHANGED <<server, body, tmp, staged, answer>>,
           next' \in [Uploads -> Nat],
           puts' \subseteq Keys, objects' \subseteq Keys,
           artworkExt' \in [Uploads -> BOOLEAN],
           row' \in [Uploads -> {"none", "bare", "artwork"}]
    PROVE  TypeOK'
BY SameBody DEF TypeOK, Goto, Working

LEMMA NextTyped == ASSUME TypeOK, [Next]_vars PROVE TypeOK'
<1>1. ASSUME UNCHANGED vars \/ Shutdown \/ Drained \/ Start PROVE TypeOK'
  BY <1>1, SameBody DEF vars, Shutdown, Drained, Start, TypeOK
<1>2. ASSUME NEW u \in Uploads, Receive(u) PROVE TypeOK'
  <2>1. PICK parts \in Bodies[u] : body' = [body EXCEPT ![u] = parts]
    BY <1>2 DEF Receive
  <2>2. /\ body' \in [Uploads -> Seq({"audio", "notAudio", "text"})]
        /\ \A g \in Uploads : body'[g] \in Bodies[g] \cup {<< >>}
    BY <2>1, BodyAssumption DEF TypeOK
  \* A body that has not arrived yet has no parts.
  <2>3. AudioParts \subseteq AudioParts'
    <3>1. body[u] = << >>
      BY <1>2 DEF Receive, TypeOK
    <3> QED
      BY <2>1, <3>1 DEF AudioParts, TypeOK
  <2>4. /\ \A g \in Uploads : tmp'[g] # 0 => <<g, tmp'[g]>> \in AudioParts'
        /\ \A file \in staged' : file \in AudioParts'
    BY <1>2, <2>3 DEF Receive, TypeOK
  <2>5. /\ pc' \in [Uploads -> Working \cup {"new", "done", "killed"}]
        /\ \A g \in Uploads :
            /\ pc'[g] \in {"putArtwork", "renameArtwork"} => HasArtwork[g]
            /\ pc'[g] = "new" => body'[g] = << >>
    BY <1>2, <2>1 DEF Receive, TypeOK, Goto, Working
  <2> QED
    BY <1>2, <2>2, <2>4, <2>5 DEF Receive, TypeOK
<1>3. ASSUME NEW u \in Uploads, StageAudio(u) PROVE TypeOK'
  <2>1. /\ next[u] \in Nat /\ <<u, next[u]>> \in AudioParts
    BY <1>3, BodyParts DEF StageAudio
  <2>2. CASE /\ staged' = staged \cup {<<u, next[u]>>}
             /\ tmp' = [tmp EXCEPT ![u] = next[u]]
             /\ next' = [next EXCEPT ![u] = @ + 1]
             /\ Goto(u, "copy")
             /\ answer' = answer
    <3>1. \A g \in Uploads : tmp'[g] # 0 => <<g, tmp'[g]>> \in AudioParts'
      BY <1>3, <2>1, <2>2, SameBody DEF StageAudio, TypeOK
    <3>2. tmp' \in [Uploads -> Nat] /\ next' \in [Uploads -> Nat]
      BY <2>1, <2>2 DEF TypeOK
    <3>3. \A file \in staged' : file \in AudioParts'
      BY <1>3, <2>1, <2>2, SameBody DEF StageAudio, TypeOK
    <3>4. /\ pc' \in [Uploads -> Working \cup {"new", "done", "killed"}]
          /\ \A g \in Uploads :
                /\ pc'[g] \in {"putArtwork", "renameArtwork"} => HasArtwork[g]
                /\ pc'[g] = "new" => pc[g] = "new"
      BY <2>2 DEF TypeOK, Goto, Working
    <3> QED
      BY <1>3, <2>2, <3>1, <3>2, <3>3, <3>4 DEF StageAudio, TypeOK
  <2>3. CASE Answer(u, "failed", staged) /\ UNCHANGED <<tmp, next>>
    BY <1>3, <2>3, AnswerTyped DEF StageAudio, TypeOK
  <2> QED
    BY <1>3, <2>2, <2>3 DEF StageAudio
<1>16. ASSUME NEW u \in Uploads, CopyAudio(u) PROVE TypeOK'
  BY <1>16, AnswerTyped, GotoTyped DEF CopyAudio, TypeOK, Working
<1>4. ASSUME NEW u \in Uploads, ReadText(u) PROVE TypeOK'
  BY <1>4, SameBody DEF ReadText, TypeOK
<1>5. ASSUME NEW u \in Uploads, RejectBody(u) PROVE TypeOK'
  BY <1>5, AnswerTyped DEF RejectBody, TypeOK
<1>6. ASSUME NEW u \in Uploads, EndOfBody(u) PROVE TypeOK'
  BY <1>6, GotoTyped DEF EndOfBody, TypeOK, Working
<1>7. ASSUME NEW u \in Uploads, Extract(u) PROVE TypeOK'
  BY <1>7, AnswerTyped, GotoTyped DEF Extract, TypeOK, Working
<1>8. ASSUME NEW u \in Uploads, PutAudio(u) PROVE TypeOK'
  <2>1. puts' \subseteq Keys
    BY <1>8 DEF PutAudio, StartPut, TypeOK, Keys
  <2> QED
    BY <1>8, <2>1, GotoTyped DEF PutAudio, StartPut, TypeOK, Working
<1>9. ASSUME NEW u \in Uploads, RenameAudio(u) PROVE TypeOK'
  <2>1. puts' \subseteq Keys /\ objects' \subseteq Keys
    BY <1>9 DEF RenameAudio, TypeOK, Keys
  <2> QED
    BY <1>9, <2>1, AnswerTyped, GotoTyped DEF RenameAudio, TypeOK, Working
<1>10. ASSUME NEW u \in Uploads, PutArtwork(u) PROVE TypeOK'
  <2>1. HasArtwork[u] /\ puts' \subseteq Keys
    BY <1>10 DEF PutArtwork, StartPut, TypeOK, Keys
  <2> QED
    BY <1>10, <2>1, GotoTyped DEF PutArtwork, StartPut, TypeOK, Working
<1>11. ASSUME NEW u \in Uploads, RenameArtwork(u) PROVE TypeOK'
  <2>1. puts' \subseteq Keys /\ objects' \subseteq Keys
    BY <1>11 DEF RenameArtwork, TypeOK, Keys
  <2>2. artworkExt' \in [Uploads -> BOOLEAN]
    BY <1>11 DEF RenameArtwork, TypeOK
  <2> QED
    BY <1>11, <2>1, <2>2, GotoTyped DEF RenameArtwork, TypeOK, Working
<1>12. ASSUME NEW u \in Uploads, InsertTrack(u) PROVE TypeOK'
  <2>1. InsertedRow(u) \in [Uploads -> {"none", "bare", "artwork"}]
    BY DEF InsertedRow, NewRow, TypeOK
  <2> QED
    BY <1>12, <2>1, AnswerTyped, GotoTyped DEF InsertTrack, TypeOK, Working
<1>13. ASSUME NEW u \in Uploads, DeleteAudio(u) PROVE TypeOK'
  <2>1. objects' \subseteq Keys
    BY <1>13 DEF DeleteAudio, TypeOK
  <2> QED
    BY <1>13, <2>1, AnswerTyped, GotoTyped DEF DeleteAudio, TypeOK, Working
<1>14. ASSUME NEW u \in Uploads, DeleteArtwork(u) PROVE TypeOK'
  <2>1. objects' \subseteq Keys
    BY <1>14 DEF DeleteArtwork, TypeOK
  <2> QED
    BY <1>14, <2>1, AnswerTyped DEF DeleteArtwork, TypeOK
<1>15. ASSUME Die PROVE TypeOK'
  BY <1>15, SameBody DEF Die, NewRow, TypeOK
<1> QED
  BY <1>1, <1>2, <1>3, <1>4, <1>5, <1>6, <1>7, <1>8, <1>9, <1>10, <1>11, <1>12,
     <1>13, <1>14, <1>15, <1>16 DEF Next, Step, ReadBody, Save, Kill, ShutdownTimesOut
-----------------------------------------------------------------------------
(* What a step leaves alone                                                 *)

\* Nothing known of upload g changes: neither its handler, nor its files,
\* objects, row or answer.
Untouched(g) ==
    /\ pc'[g] = pc[g] /\ body'[g] = body[g] /\ next'[g] = next[g]
    /\ tmp'[g] = tmp[g] /\ artworkExt'[g] = artworkExt[g]
    /\ row'[g] = row[g] /\ answer'[g] = answer[g]
    /\ \A file \in staged' : file[1] = g => file \in staged
    /\ \A what \in {"audio", "artwork"} :
        /\ <<g, what>> \in puts' <=> <<g, what>> \in puts
        /\ <<g, what>> \in objects' <=> <<g, what>> \in objects

\* Uploads have their objects and files to themselves.
LEMMA StepsAreLocal ==
    ASSUME TypeOK, NEW u \in Uploads, Receive(u) \/ Step(u),
           NEW g \in Uploads \ {u}
    PROVE  Untouched(g)
<1> USE DEF TypeOK, Untouched, Goto, Answer
<1>1. ASSUME Receive(u) PROVE Untouched(g)
  BY <1>1 DEF Receive
<1>2. ASSUME StageAudio(u) PROVE Untouched(g)
  BY <1>2 DEF StageAudio
<1>3. ASSUME CopyAudio(u) \/ ReadText(u) \/ RejectBody(u) \/ EndOfBody(u) \/ Extract(u)
      PROVE  Untouched(g)
  BY <1>3 DEF CopyAudio, ReadText, RejectBody, EndOfBody, Extract
<1>4. ASSUME PutAudio(u) \/ PutArtwork(u) PROVE Untouched(g)
  BY <1>4 DEF PutAudio, PutArtwork, StartPut
<1>5. ASSUME RenameAudio(u) \/ RenameArtwork(u) PROVE Untouched(g)
  BY <1>5 DEF RenameAudio, RenameArtwork
<1>6. ASSUME InsertTrack(u) PROVE Untouched(g)
  BY <1>6 DEF InsertTrack, InsertedRow
<1>7. ASSUME DeleteAudio(u) \/ DeleteArtwork(u) PROVE Untouched(g)
  BY <1>7 DEF DeleteAudio, DeleteArtwork
<1> QED
  BY <1>1, <1>2, <1>3, <1>4, <1>5, <1>6, <1>7 DEF Step, ReadBody, Save

LEMMA UntouchedKept ==
    ASSUME NEW g \in Uploads, UploadInv(g), Untouched(g)
    PROVE  UploadInv(g)'
BY DEF UploadInv, StagingInv, StorageInv, RowInv, CleanupInv, Untouched, Stored,
       Playable, OneAudioPart, BeforeAudio, BeforeInsert

-----------------------------------------------------------------------------
(* The inductive invariant                                                  *)

\* Of a body with one "audio" part, tmpPath names the file staged, until a
\* handler that answers removes it.
LEMMA StagingKept ==
    ASSUME TypeOK, NEW u \in Uploads, StagingInv(u), Receive(u) \/ Step(u)
    PROVE  StagingInv(u)'
<1>1. ASSUME Receive(u) PROVE StagingInv(u)'
  <2>1. \A file \in staged : file[1] # u
    BY <1>1 DEF Receive, TypeOK, AudioParts
  <2> QED
    BY <1>1, <2>1 DEF Receive, StagingInv
<1>2. ASSUME StageAudio(u) PROVE StagingInv(u)'
  <2>1. next[u] \in Nat /\ next[u] \in DOMAIN body[u] /\ body[u][next[u]] = "audio"
    BY <1>2, BodyParts DEF StageAudio, Part
  <2>2. \A file \in staged : file[1] = u =>
            file[2] \in Nat /\ file[2] \in DOMAIN body[u] /\ body[u][file[2]] = "audio"
    BY DEF TypeOK, AudioParts
  \* The first of two "audio" parts would still be there.
  <2>3. ASSUME OneAudioPart(body[u]), NEW file \in staged PROVE file[1] # u
    BY <2>1, <2>2, <2>3 DEF OneAudioPart, StagingInv
  <2>4. body' = body
    BY <1>2 DEF StageAudio
  <2>5. CASE /\ staged' = staged \cup {<<u, next[u]>>}
             /\ tmp' = [tmp EXCEPT ![u] = next[u]]
             /\ next' = [next EXCEPT ![u] = @ + 1]
             /\ Goto(u, "copy")
    <3>1. pc'[u] # "done" /\ next'[u] = next[u] + 1 /\ tmp'[u] = next[u]
      BY <1>2, <2>5 DEF StageAudio, TypeOK, Goto
    <3> QED
      BY <2>1, <2>2, <2>3, <2>4, <2>5, <3>1 DEF StagingInv, OneAudioPart
  <2>6. CASE staged' \subseteq staged /\ next' = next
    BY <2>3, <2>4, <2>6 DEF StagingInv, OneAudioPart
  <2> QED
    BY <1>2, <2>5, <2>6 DEF StageAudio, Answer
<1>3. ASSUME NEW what, Answer(u, what, staged), UNCHANGED <<body, next, tmp>>
      PROVE  StagingInv(u)'
  <2>1. ASSUME NEW file \in staged, file[1] = u, OneAudioPart(body[u])
        PROVE  file = <<u, tmp[u]>>
    BY <2>1 DEF StagingInv, TypeOK, AudioParts
  <2> QED
    BY <1>3, <2>1 DEF StagingInv, Answer, OneAudioPart
<1>4. ASSUME NEW label \in Working, Goto(u, label), UNCHANGED <<body, tmp, staged>>,
             next'[u] = next[u] \/ next'[u] = next[u] + 1
      PROVE  StagingInv(u)'
  <2>1. pc'[u] # "done"
    BY <1>4 DEF Goto, TypeOK, Working
  <2>2. \A file \in staged : file[1] = u => file[2] \in Nat
    BY DEF TypeOK, AudioParts
  <2> QED
    BY <1>4, <2>1, <2>2 DEF StagingInv, OneAudioPart, TypeOK
<1>5. ASSUME ReadText(u) PROVE StagingInv(u)'
  <2>1. Goto(u, "parts")
    BY <1>5 DEF ReadText, Goto, TypeOK
  <2> QED
    BY <1>4, <1>5, <2>1 DEF ReadText, TypeOK, Working
<1>6. ASSUME CopyAudio(u) \/ RejectBody(u) \/ EndOfBody(u) \/ Extract(u)
      PROVE  StagingInv(u)'
  BY <1>3, <1>4, <1>6 DEF CopyAudio, RejectBody, EndOfBody, Extract, Working
<1>7. ASSUME PutAudio(u) \/ PutArtwork(u) \/ RenameAudio(u) \/ RenameArtwork(u)
      PROVE  StagingInv(u)'
  BY <1>3, <1>4, <1>7 DEF PutAudio, PutArtwork, StartPut, RenameAudio, RenameArtwork, Working
<1>8. ASSUME InsertTrack(u) \/ DeleteAudio(u) \/ DeleteArtwork(u) PROVE StagingInv(u)'
  BY <1>3, <1>4, <1>8 DEF InsertTrack, DeleteAudio, DeleteArtwork, Working
<1> QED
  BY <1>1, <1>2, <1>5, <1>6, <1>7, <1>8 DEF Step, ReadBody, Save

\* What an upload has stored and recorded agrees with where it is.
StorageAndRowInv(u) == StorageInv(u) /\ RowInv(u) /\ CleanupInv(u)

LEMMA StorageKept ==
    ASSUME TypeOK, NEW u \in Uploads, StorageAndRowInv(u), Receive(u) \/ Step(u)
    PROVE  StorageAndRowInv(u)'
<1> USE DEF TypeOK, StorageAndRowInv, StorageInv, RowInv, CleanupInv, Stored, Playable,
            BeforeAudio, BeforeInsert, Goto, Answer
<1>1. ASSUME Receive(u) PROVE StorageAndRowInv(u)'
  BY <1>1 DEF Receive
<1>2. ASSUME StageAudio(u) PROVE StorageAndRowInv(u)'
  BY <1>2 DEF StageAudio
<1>3. ASSUME CopyAudio(u) \/ ReadText(u) \/ RejectBody(u) \/ EndOfBody(u) \/ Extract(u)
      PROVE  StorageAndRowInv(u)'
  BY <1>3 DEF CopyAudio, ReadText, RejectBody, EndOfBody, Extract
<1>4. ASSUME PutAudio(u) \/ PutArtwork(u) PROVE StorageAndRowInv(u)'
  BY <1>4 DEF PutAudio, PutArtwork, StartPut
<1>5. ASSUME RenameAudio(u) PROVE StorageAndRowInv(u)'
  BY <1>5 DEF RenameAudio, HonestFaults
<1>6. ASSUME RenameArtwork(u) PROVE StorageAndRowInv(u)'
  BY <1>6 DEF RenameArtwork, HonestFaults
<1>7. ASSUME InsertTrack(u) PROVE StorageAndRowInv(u)'
  BY <1>7 DEF InsertTrack, InsertedRow, NewRow, HonestFaults
<1>8. ASSUME DeleteAudio(u) PROVE StorageAndRowInv(u)'
  BY <1>8 DEF DeleteAudio, HonestFaults
<1>9. ASSUME DeleteArtwork(u) PROVE StorageAndRowInv(u)'
  BY <1>9 DEF DeleteArtwork, HonestFaults
<1> QED
  BY <1>1, <1>2, <1>3, <1>4, <1>5, <1>6, <1>7, <1>8, <1>9 DEF Step, ReadBody, Save

\* The end of the process stops every upload where it is; an INSERT that still
\* commits names only what is stored.
LEMMA DieKept ==
    ASSUME TypeOK, IngestInv, Die, NEW u \in Uploads
    PROVE  UploadInv(u)'
<1>1. UploadInv(u)
  BY DEF IngestInv
<1>2. /\ pc'[u] = IF pc[u] \in Working THEN "killed" ELSE pc[u]
      /\ row'[u] = row[u] \/ (pc[u] = "insert" /\ row'[u] = NewRow(u))
      /\ UNCHANGED <<body, next, tmp, staged, puts, objects, artworkExt, answer>>
  BY DEF Die, Active
<1>3. StagingInv(u)'
  BY <1>1, <1>2 DEF UploadInv, StagingInv, OneAudioPart
<1>4. CASE pc[u] \in Working
  BY <1>1, <1>2, <1>3, <1>4 DEF UploadInv, StorageInv, RowInv, CleanupInv, Stored, Playable,
        NewRow, BeforeAudio, BeforeInsert, Working
<1>5. CASE pc[u] \notin Working
  BY <1>1, <1>2, <1>3, <1>5 DEF UploadInv, StorageInv, RowInv, CleanupInv, Stored,
        Playable, BeforeAudio, BeforeInsert, Working
<1> QED
  BY <1>4, <1>5

LEMMA NextInv == ASSUME TypeOK, IngestInv, [Next]_vars PROVE IngestInv'
<1>1. ASSUME UNCHANGED vars \/ Shutdown \/ Drained \/ Start PROVE IngestInv'
  <2>1. \A g \in Uploads : Untouched(g)
    BY <1>1 DEF vars, Shutdown, Drained, Start, Untouched
  <2> QED
    BY <2>1, UntouchedKept DEF IngestInv
<1>2. ASSUME NEW u \in Uploads, Receive(u) \/ Step(u), NEW g \in Uploads
      PROVE  UploadInv(g)'
  <2>1. CASE g = u
    BY <1>2, <2>1, StagingKept, StorageKept DEF IngestInv, UploadInv, StorageAndRowInv
  <2>2. CASE g # u
    BY <1>2, <2>2, StepsAreLocal, UntouchedKept DEF IngestInv
  <2> QED
    BY <2>1, <2>2
<1>3. ASSUME Die PROVE IngestInv'
  BY <1>3, DieKept DEF IngestInv
<1> QED
  BY <1>1, <1>2, <1>3 DEF Next, IngestInv, Kill, ShutdownTimesOut

\* The properties below are not inductive: that a row names stored objects
\* depends on what its upload has stored, and recorded in artworkExt, before.
THEOREM IngestInvariant == Spec => [](TypeOK /\ IngestInv)
<1>1. Init => TypeOK /\ IngestInv
  BY InitInv
<1>2. TypeOK /\ IngestInv /\ [Next]_vars => (TypeOK /\ IngestInv)'
  BY NextTyped, NextInv
<1> QED
  BY <1>1, <1>2, PTL DEF Spec

-----------------------------------------------------------------------------
(* What follows                                                             *)

\* Every row names objects that are stored, unless the answer of its INSERT may
\* be lost, and no handler leaves its staged file behind: whatever fails, and
\* whenever the process is killed.
THEOREM LibraryInOrder == Spec => []Consistent
<1>1. TypeOK /\ IngestInv => Consistent
  BY DEF IngestInv, UploadInv, StagingInv, RowInv, Consistent, NoDanglingRow,
         StagedFilesRemoved
<1> QED
  BY <1>1, IngestInvariant, PTL

\* A track the client was told was created can be played ever after.
THEOREM CreatedStays == Spec => []CreatedIsPlayable
<1>1. TypeOK /\ IngestInv => CreatedIsPlayable
  BY DEF IngestInv, UploadInv, RowInv, CreatedIsPlayable
<1> QED
  BY <1>1, IngestInvariant, PTL

\* After an upload that failed no object and no half-written file of it is left,
\* if the storage and the database report the truth and the process lives.
THEOREM FailedUploadsCleanedUp == Spec => []FailedLeavesNothing
<1>1. ASSUME TypeOK, IngestInv PROVE FailedLeavesNothing
  <2> SUFFICES ASSUME NEW u \in Uploads,
                      pc[u] = "done", row[u] = "none", Faults[u] \subseteq HonestFaults,
                      NEW key \in objects \cup puts, key[1] = u
               PROVE  FALSE
    BY DEF FailedLeavesNothing
  <2>1. key = <<u, "audio">> \/ key = <<u, "artwork">>
    BY <1>1 DEF TypeOK, Keys
  <2> QED
    BY <1>1, <2>1 DEF IngestInv, UploadInv, StorageInv, CleanupInv, Stored
<1> QED
  BY <1>1, IngestInvariant, PTL
=============================================================================
