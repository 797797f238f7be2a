------------------------------- MODULE Ingest ------------------------------
(***************************************************************************)
(* Uploading a track: handleUpload (internal/api/upload.go) stages the     *)
(* audio part of the multipart body in a local file, IngestFile            *)
(* (internal/library/ingest.go) puts the audio and its artwork into the    *)
(* storage backend and inserts the row of table tracks, and removes the    *)
(* objects again if the insert fails.  The process may be killed between   *)
(* any two steps (a crash, or main.go's os.Exit when Shutdown exceeds its  *)
(* deadline); files, objects and rows survive it, nothing sweeps them.     *)
(* The body comes at the pace of the client, who may stop sending: the     *)
(* http.Server of main.go has no ReadTimeout.                              *)
(*                                                                         *)
(* Every upload has a fresh UUID, so it names its objects itself.          *)
(***************************************************************************)
EXTENDS Naturals, Sequences

CONSTANTS
    Uploads,
    Bodies,     \* bodies each upload may have: sequences of parts, each
                \* "audio", "notAudio" (named audio, but no audio) or "text"
    HasArtwork, \* whether its audio carries a picture
    Faults,     \* what may go wrong with each upload in this instance
    Crashes     \* whether the process may be killed

FaultKinds == {"read",          \* the body or the staged file cannot be read
               "stage",         \* the staged file cannot be written
               "put",           \* a Put fails and stores nothing
               "lostPut",       \* a Put fails although the object is stored
               "insert",        \* the INSERT fails
               "lostInsert",    \* the INSERT commits, its reply is lost
               "delete"}        \* the clean-up cannot delete an object

HonestFaults == {"read", "stage", "put", "insert"}

ASSUME BodyAssumption ==
    /\ \A u \in Uploads : Bodies[u] \subseteq Seq({"audio", "notAudio", "text"})
    /\ HasArtwork \in [Uploads -> BOOLEAN]
    /\ Faults \in [Uploads -> SUBSET FaultKinds]
    /\ Crashes \in BOOLEAN

VARIABLES
    server,     \* "up", "draining" (graceful shutdown) or "down"
    pc,         \* where each upload is
    body,       \* the body it has, empty before its request arrives
    next,       \* the next part of its body
    tmp,        \* tmpPath: the part staged last, 0 if none
    staged,     \* files upload-* on disk, named by upload and part
    puts,       \* files .put-* a FileStorage.Put is writing
    objects,    \* stored objects
    artworkExt, \* whether IngestFile has stored artwork
    row,        \* the row in tracks: "none", "bare", or with "artwork"
    answer      \* what the client was told: "none", "created" or "failed"

vars == <<server, pc, body, next, tmp, staged, puts, objects, artworkExt, row,
          answer>>

\* The objects an upload can have; a part of a body is named by its index.
Keys == {key \in Uploads \X {"audio", "artwork"} :
            key[2] = "artwork" => HasArtwork[key[1]]}
AudioParts == {part \in Uploads \X Nat :
                part[2] \in DOMAIN body[part[1]] /\ body[part[1]][part[2]] = "audio"}

Working == {"parts", "copy", "extract", "putAudio", "renameAudio", "putArtwork",
            "renameArtwork", "insert", "cleanAudio", "cleanArtwork"}

TypeOK ==
    /\ server \in {"up", "draining", "down"}
    /\ pc \in [Uploads -> Working \cup {"new", "done", "killed"}]
    /\ body \in [Uploads -> Seq({"audio", "notAudio", "text"})]
    /\ \A u \in Uploads :
        body[u] \in Bodies[u] \cup {<< >>} /\ (pc[u] = "new" => body[u] = << >>)
    /\ next \in [Uploads -> Nat]
    /\ tmp \in [Uploads -> Nat]
    /\ \A u \in Uploads : tmp[u] # 0 => <<u, tmp[u]>> \in AudioParts
    /\ \A file \in staged : file \in AudioParts
    /\ \A u \in Uploads : pc[u] \in {"putArtwork", "renameArtwork"} => HasArtwork[u]
    /\ puts \subseteq Keys
    /\ objects \subseteq Keys
    /\ artworkExt \in [Uploads -> BOOLEAN]
    /\ row \in [Uploads -> {"none", "bare", "artwork"}]
    /\ answer \in [Uploads -> {"none", "created", "failed"}]

Init ==
    /\ server = "up"
    /\ pc = [u \in Uploads |-> "new"]
    /\ body = [u \in Uploads |-> << >>]
    /\ next = [u \in Uploads |-> 1]
    /\ tmp = [u \in Uploads |-> 0]
    /\ staged = {} /\ puts = {} /\ objects = {}
    /\ artworkExt = [u \in Uploads |-> FALSE]
    /\ row = [u \in Uploads |-> "none"]
    /\ answer = [u \in Uploads |-> "none"]

Goto(u, label) == pc' = [pc EXCEPT ![u] = label]

-----------------------------------------------------------------------------
(* handleUpload                                                             *)

\* The handler answers; its deferred function removes the file tmpPath names.
Answer(u, what, files) ==
    /\ Goto(u, "done")
    /\ answer' = [answer EXCEPT ![u] = what]
    /\ staged' = files \ {<<u, tmp[u]>>}

Receive(u) ==
    /\ server = "up" /\ pc[u] = "new"
    /\ Goto(u, "parts")
    /\ \E parts \in Bodies[u] : body' = [body EXCEPT ![u] = parts]
    /\ UNCHANGED <<server, next, tmp, staged, puts, objects,
                   artworkExt, row, answer>>

Part(u) == body[u][next[u]]

\* An "audio" part goes to a new temporary file, which tmpPath names from then
\* on; if it cannot be created tmpPath still names the one before.
StageAudio(u) ==
    /\ pc[u] = "parts" /\ next[u] \in DOMAIN body[u] /\ Part(u) = "audio"
    /\ \/ /\ tmp' = [tmp EXCEPT ![u] = next[u]]
          /\ next' = [next EXCEPT ![u] = @ + 1]
          /\ staged' = staged \cup {<<u, next[u]>>}
          /\ Goto(u, "copy")
          /\ UNCHANGED answer
       \/ /\ "stage" \in Faults[u]
          /\ Answer(u, "failed", staged)
          /\ UNCHANGED <<tmp, next>>
    /\ UNCHANGED <<body, server, puts, objects, artworkExt, row>>

\* The part is copied, or its body or the file gives an error.
CopyAudio(u) ==
    /\ pc[u] = "copy"
    /\ \/ Goto(u, "parts") /\ UNCHANGED <<staged, answer>>
       \/ {"read", "stage"} \cap Faults[u] # {} /\ Answer(u, "failed", staged)
    /\ UNCHANGED <<body, server, next, tmp, puts, objects, artworkExt, row>>

ReadText(u) ==
    /\ pc[u] = "parts" /\ next[u] \in DOMAIN body[u] /\ Part(u) = "text"
    /\ next' = [next EXCEPT ![u] = @ + 1]
    /\ UNCHANGED <<body, server, pc, tmp, staged, puts, objects,
                   artworkExt, row, answer>>

\* A part that is no audio, a body that cannot be read (too large, cut off),
\* or one without an "audio" part ends the request.
RejectBody(u) ==
    /\ pc[u] = "parts"
    /\ \/ next[u] \in DOMAIN body[u] /\ (Part(u) = "notAudio" \/ "read" \in Faults[u])
       \/ next[u] \notin DOMAIN body[u] /\ tmp[u] = 0
    /\ Answer(u, "failed", staged)
    /\ UNCHANGED <<body, server, next, tmp, puts, objects, artworkExt, row>>

EndOfBody(u) ==
    /\ pc[u] = "parts" /\ next[u] \notin DOMAIN body[u] /\ tmp[u] # 0
    /\ Goto(u, "extract")
    /\ UNCHANGED <<body, server, next, tmp, staged, puts, objects,
                   artworkExt, row, answer>>

-----------------------------------------------------------------------------
(* IngestFile                                                               *)

\* Open, stat, sniff the type, read the tags.
Extract(u) ==
    /\ pc[u] = "extract"
    /\ \/ Goto(u, "putAudio") /\ UNCHANGED <<staged, answer>>
       \/ "read" \in Faults[u] /\ Answer(u, "failed", staged)
    /\ UNCHANGED <<body, server, next, tmp, puts, objects, artworkExt, row>>

\* FileStorage.Put writes a temporary file in the library directory and
\* renames it; an object store takes both steps at once.
StartPut(u, label, key, rename) ==
    /\ pc[u] = label
    /\ puts' = puts \cup {key}
    /\ Goto(u, rename)
    /\ UNCHANGED <<body, server, next, tmp, staged, objects,
                   artworkExt, row, answer>>

PutAudio(u) == StartPut(u, "putAudio", <<u, "audio">>, "renameAudio")
PutArtwork(u) == StartPut(u, "putArtwork", <<u, "artwork">>, "renameArtwork")

\* Mutant: a Put that fails is tried again.
RenameAudioRetried(u) ==
    /\ pc[u] = "renameAudio"
    /\ puts' = puts \ {<<u, "audio">>}
    /\ \/ /\ objects' = objects \cup {<<u, "audio">>}
          /\ Goto(u, IF HasArtwork[u] THEN "putArtwork" ELSE "insert")
       \/ "put" \in Faults[u] /\ UNCHANGED objects /\ Goto(u, "putAudio")
    /\ UNCHANGED <<body, server, next, tmp, staged, artworkExt, row, answer>>

\* The audio is in place, or the upload fails.
RenameAudio(u) ==
    /\ pc[u] = "renameAudio"
    /\ puts' = puts \ {<<u, "audio">>}
    /\ \/ /\ objects' = objects \cup {<<u, "audio">>}
          /\ Goto(u, IF HasArtwork[u] THEN "putArtwork" ELSE "insert")
          /\ UNCHANGED <<staged, answer>>
       \/ /\ \/ "put" \in Faults[u] /\ UNCHANGED objects
             \/ "lostPut" \in Faults[u] /\ objects' = objects \cup {<<u, "audio">>}
          /\ Answer(u, "failed", staged)
    /\ UNCHANGED <<body, server, next, tmp, artworkExt, row>>

\* Mutant: artwork_ext is recorded whether or not the artwork was stored.
RenameArtworkUnchecked(u) ==
    /\ pc[u] = "renameArtwork"
    /\ puts' = puts \ {<<u, "artwork">>}
    /\ artworkExt' = [artworkExt EXCEPT ![u] = TRUE]
    /\ \/ objects' = objects \cup {<<u, "artwork">>}
       \/ "put" \in Faults[u] /\ UNCHANGED objects
    /\ Goto(u, "insert")
    /\ UNCHANGED <<body, server, next, tmp, staged, row, answer>>

\* Artwork that cannot be stored is left out of the row.
RenameArtwork(u) ==
    /\ pc[u] = "renameArtwork"
    /\ puts' = puts \ {<<u, "artwork">>}
    /\ \/ /\ objects' = objects \cup {<<u, "artwork">>}
          /\ artworkExt' = [artworkExt EXCEPT ![u] = TRUE]
       \/ "put" \in Faults[u] /\ UNCHANGED <<objects, artworkExt>>
       \/ /\ "lostPut" \in Faults[u]
          /\ objects' = objects \cup {<<u, "artwork">>}
          /\ UNCHANGED artworkExt
    /\ Goto(u, "insert")
    /\ UNCHANGED <<body, server, next, tmp, staged, row, answer>>

NewRow(u) == IF artworkExt[u] THEN "artwork" ELSE "bare"
InsertedRow(u) == [row EXCEPT ![u] = NewRow(u)]

\* Mutant: a failed INSERT returns at once.
InsertWithoutCleanup(u) ==
    /\ pc[u] = "insert"
    /\ \/ row' = InsertedRow(u) /\ Answer(u, "created", staged)
       \/ "insert" \in Faults[u] /\ UNCHANGED row /\ Answer(u, "failed", staged)
    /\ UNCHANGED <<body, server, next, tmp, puts, objects, artworkExt>>

\* Mutant: the client is told before the INSERT has succeeded.
InsertAfterAnswer(u) ==
    /\ pc[u] = "insert"
    /\ row' = InsertedRow(u) \/ ("insert" \in Faults[u] /\ UNCHANGED row)
    /\ Answer(u, "created", staged)
    /\ UNCHANGED <<body, server, next, tmp, puts, objects, artworkExt>>

InsertTrack(u) ==
    /\ pc[u] = "insert"
    /\ \/ row' = InsertedRow(u) /\ Answer(u, "created", staged)
       \/ /\ \/ "insert" \in Faults[u] /\ UNCHANGED row
             \/ "lostInsert" \in Faults[u] /\ row' = InsertedRow(u)
          /\ Goto(u, "cleanAudio")
          /\ UNCHANGED <<staged, answer>>
    /\ UNCHANGED <<body, server, next, tmp, puts, objects, artworkExt>>

\* Storage.Delete takes the keys in order and stops at the first error, which
\* IngestFile ignores.
DeleteAudio(u) ==
    /\ pc[u] = "cleanAudio"
    /\ \/ /\ objects' = objects \ {<<u, "audio">>}
          /\ IF artworkExt[u]
             THEN Goto(u, "cleanArtwork") /\ UNCHANGED <<staged, answer>>
             ELSE Answer(u, "failed", staged)
       \/ "delete" \in Faults[u] /\ UNCHANGED objects /\ Answer(u, "failed", staged)
    /\ UNCHANGED <<body, server, next, tmp, puts, artworkExt, row>>

DeleteArtwork(u) ==
    /\ pc[u] = "cleanArtwork"
    /\ \/ objects' = objects \ {<<u, "artwork">>}
       \/ "delete" \in Faults[u] /\ UNCHANGED objects
    /\ Answer(u, "failed", staged)
    /\ UNCHANGED <<body, server, next, tmp, puts, artworkExt, row>>

-----------------------------------------------------------------------------
(* The process                                                              *)

Active == {u \in Uploads : pc[u] \in Working}

\* SIGTERM: http.Server.Shutdown accepts no new request and waits for the
\* active ones.
Shutdown ==
    /\ server = "up" /\ server' = "draining"
    /\ UNCHANGED <<body, pc, next, tmp, staged, puts, objects,
                   artworkExt, row, answer>>

Drained ==
    /\ server = "draining" /\ Active = {} /\ server' = "down"
    /\ UNCHANGED <<body, pc, next, tmp, staged, puts, objects,
                   artworkExt, row, answer>>

\* The process ends, no deferred function runs.  An INSERT on its way may still
\* commit.
Die ==
    /\ server' = "down"
    /\ pc' = [u \in Uploads |-> IF u \in Active THEN "killed" ELSE pc[u]]
    /\ \E committed \in SUBSET {u \in Uploads : pc[u] = "insert"} :
        row' = [u \in Uploads |-> IF u \in committed THEN NewRow(u) ELSE row[u]]
    /\ UNCHANGED <<body, next, tmp, staged, puts, objects, artworkExt, answer>>

Kill == Crashes /\ server # "down" /\ Die

\* Mutant: Shutdown is given a context without a deadline.
ShutdownUnbounded == server = "draining" /\ Active = {} /\ Die

\* Uploads are still active when the ten seconds of Shutdown are over: os.Exit.
ShutdownTimesOut == server = "draining" /\ Active # {} /\ Die

Start ==
    /\ server = "down" /\ server' = "up"
    /\ UNCHANGED <<body, pc, next, tmp, staged, puts, objects,
                   artworkExt, row, answer>>

\* Steps that wait for the client to send, ...
ReadBody(u) ==
    \/ StageAudio(u) \/ CopyAudio(u) \/ ReadText(u) \/ RejectBody(u) \/ EndOfBody(u)

\* ... and steps that wait for disk, object store and database.
Save(u) ==
    \/ Extract(u) \/ PutAudio(u) \/ RenameAudio(u) \/ PutArtwork(u)
    \/ RenameArtwork(u) \/ InsertTrack(u) \/ DeleteAudio(u) \/ DeleteArtwork(u)

Step(u) == ReadBody(u) \/ Save(u)

Next ==
    \/ \E u \in Uploads : Receive(u) \/ Step(u)
    \/ Shutdown \/ Drained \/ ShutdownTimesOut \/ Kill \/ Start

Spec == Init /\ [][Next]_vars

\* A handler that has the body goes on as long as the process lives: the calls it
\* makes return.  Nothing is assumed of a client.  main returns from Shutdown once
\* the server is idle or the deadline is over.
FairSpec ==
    /\ Spec
    /\ \A u \in Uploads : WF_vars(Save(u))
    /\ WF_vars(Drained \/ ShutdownTimesOut)

-----------------------------------------------------------------------------
(* Properties                                                               *)

\* What docs/PHASE-2-upload-and-metadata.md says of the clean-up: the library
\* and the database stay consistent.  Every track can be played: the audio its
\* row names is stored, and the artwork if the row has any.
Playable(u) ==
    /\ row[u] # "none" => <<u, "audio">> \in objects
    /\ row[u] = "artwork" => <<u, "artwork">> \in objects
LibraryConsistent == \A u \in Uploads : Playable(u)

\* It is so as long as the answer of the INSERT is never lost, whatever else
\* fails and whenever the process is killed.
NoDanglingRow == \A u \in Uploads : "lostInsert" \notin Faults[u] => Playable(u)

\* A track the client was told was created is there, row and objects, and
\* stays, whatever fails around it and whenever the process is killed.
CreatedIsPlayable ==
    \A u \in Uploads : answer[u] = "created" => row[u] # "none" /\ Playable(u)

\* A failed upload leaves nothing behind, as long as the storage backend and
\* the database report the truth and the process lives.
FailedLeavesNothing ==
    \A u \in Uploads :
        pc[u] = "done" /\ row[u] = "none" /\ Faults[u] \subseteq HonestFaults
        => \A key \in objects \cup puts : key[1] # u

\* The caller of IngestFile removes the staged file, on every path of a body
\* with one "audio" part (of several, only the last one staged is removed).
OneAudioPart(parts) ==
    \A i, j \in DOMAIN parts : parts[i] = "audio" /\ parts[j] = "audio" => i = j
StagedFilesRemoved ==
    \A u \in Uploads :
        pc[u] = "done" /\ OneAudioPart(body[u]) => \A file \in staged : file[1] # u

\* Library and staging directory are in order at every step.
Consistent == TypeOK /\ NoDanglingRow /\ StagedFilesRemoved

\* The inductive invariant of the three properties above: what an upload has
\* stored, staged and recorded, by where it is.
Stored(u, what) == <<u, what>> \in objects
BeforeAudio == {"new", "parts", "copy", "extract", "putAudio", "renameAudio"}
BeforeInsert == BeforeAudio \cup {"putArtwork", "renameArtwork", "insert"}

StagingInv(u) ==
    \A file \in staged : file[1] = u =>
        /\ file[2] < next[u]
        /\ OneAudioPart(body[u]) => file[2] = tmp[u] /\ pc[u] # "done"

\* Until the INSERT there is no row, and what the row will name is stored.
StorageInv(u) ==
    /\ pc[u] \in BeforeAudio =>
            ~Stored(u, "audio") /\ ~Stored(u, "artwork") /\ ~artworkExt[u]
    /\ pc[u] \in {"putArtwork", "renameArtwork"} =>
            ~Stored(u, "artwork") /\ ~artworkExt[u]
    /\ pc[u] \in {"putArtwork", "renameArtwork", "insert", "cleanAudio"} =>
            Stored(u, "audio")
    /\ pc[u] \in {"insert", "cleanAudio", "cleanArtwork"} /\ artworkExt[u] =>
            Stored(u, "artwork")
    /\ <<u, "audio">> \in puts => pc[u] \in {"renameAudio", "killed"}
    /\ <<u, "artwork">> \in puts => pc[u] \in {"renameArtwork", "killed"}

RowInv(u) ==
    /\ pc[u] \in BeforeInsert => row[u] = "none"
    /\ pc[u] \in {"cleanAudio", "cleanArtwork"} =>
            row[u] = "none" \/ "lostInsert" \in Faults[u]
    /\ "lostInsert" \notin Faults[u] => Playable(u)
    /\ answer[u] # "none" => pc[u] = "done"
    /\ answer[u] = "created" => row[u] # "none" /\ Playable(u)

\* With truthful replies artworkExt says exactly whether artwork is stored, so
\* the clean-up deletes all there is.
CleanupInv(u) ==
    Faults[u] \subseteq HonestFaults =>
        /\ Stored(u, "artwork") => artworkExt[u] \/ pc[u] = "killed"
        /\ pc[u] = "cleanArtwork" => ~Stored(u, "audio")
        /\ pc[u] = "done" /\ row[u] = "none" =>
                ~Stored(u, "audio") /\ ~Stored(u, "artwork")

UploadInv(u) == StagingInv(u) /\ StorageInv(u) /\ RowInv(u) /\ CleanupInv(u)
IngestInv == \A u \in Uploads : UploadInv(u)

\* An upload whose body the server has read ends, whatever fails and however
\* often: nothing on its way is tried again.
Saving == Working \ {"parts", "copy"}
SavedUploadsEnd == \A u \in Uploads : pc[u] \in Saving ~> pc[u] \in {"done", "killed"}

\* A shutdown ends, also when a client that has stopped sending keeps its upload
\* active for ever: main gives it a deadline.
ShutdownEnds == server = "draining" ~> server = "down"
=============================================================================
