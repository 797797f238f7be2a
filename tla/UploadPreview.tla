--------------------------- MODULE UploadPreview ---------------------------
(***************************************************************************)
(* From picked files to rows of the catalog (app/upload.tsx,               *)
(* utils/parseFilename.ts, the form of uploadTrack): names are guessed     *)
(* from each file name, shown for editing with one album artist for the    *)
(* whole batch, and sent file by file as overrides of the tags.            *)
(*                                                                         *)
(* A file name is the sequence of its segments between dashes, trimmed and *)
(* not empty.  A segment is a name; it may be a number, or a number and a  *)
(* name after white space.                                                 *)
(***************************************************************************)
EXTENDS Catalog

CONSTANTS
    Files,      \* what can be picked: stem, tags, segments, and what the person
                \* who named the file meant (meaning)
    Texts,      \* what is typed into a field
    Numbers,    \* and into that of the number, if it is one
    MaxBatch,   \* bound on the files picked at once
    MaxBatches, \* bound on how often files are picked
    MaxEdits    \* bound on the edits

SegmentType == [name : Nat \ {Blank, Space}, number : Int \cup {Null},
                rest : (Nat \ {Blank, Space}) \cup {Null}]

FilesAssumption ==
    /\ IsFiniteSet(Files)
    /\ \A file \in Files :
           /\ file.stem \in Nat /\ file.tags \in TagType \cup {Unreadable}
           /\ file.segments \in Seq(SegmentType)
    /\ Texts \subseteq Nat /\ Numbers \subseteq Int
    /\ MaxBatch \in Nat

VARIABLES
    status, rows,
    albumArtist,  \* the field for the whole batch
    current, failures,
    batches, edits,
    typed,        \* history: the album artist typed for this batch
    sent          \* history: the tracks this screen has uploaded

vars == <<tracks, status, rows, albumArtist, current, failures, batches, edits, typed, sent>>

Fields == {"title", "artist", "album", "number"}

Init ==
    /\ tracks = {}
    /\ status = "idle" /\ rows = <<>> /\ albumArtist = Blank
    /\ current = 0 /\ failures = {}
    /\ batches = 0 /\ edits = 0 /\ typed = Blank /\ sent = {}

-----------------------------------------------------------------------------
IsNumeric(segment) == segment.number # Null /\ segment.rest = Null

Guess(title, artist, album, number) ==
    [title |-> title, artist |-> artist, album |-> album, number |-> number]

\* An undefined field is blank in the form; the number field is Null then.
NoGuess == Guess(Blank, Blank, Blank, Null)

\* Mutant of Trailing: the number stays part of the title.
TrailingWhole(last) == [title |-> last.name, number |-> last.number]

\* "01 Title", or a title
Trailing(last) ==
    IF last.rest # Null THEN [title |-> last.rest, number |-> last.number]
    ELSE [title |-> last.name, number |-> Null]

Fallback(segments) ==
    LET numeric == {i \in DOMAIN segments : IsNumeric(segments[i])}
        names == DOMAIN segments \ numeric
        number == IF numeric = {} THEN Null ELSE segments[Min(numeric)].number
        artist == segments[Min(names)].name
        title == segments[Max(names)].name
    IN  CASE Cardinality(names) = 2 -> Guess(title, artist, Blank, number)
          [] Cardinality(names) = 3 ->
                 Guess(title, artist, segments[Min(names \ {Min(names)})].name, number)
          [] OTHER -> NoGuess

ParseFilename(segments) ==
    IF Len(segments) = 3
    THEN LET last == Trailing(segments[3])
         IN  Guess(last.title, segments[1].name, segments[2].name, last.number)
    ELSE IF Len(segments) = 5 /\ IsNumeric(segments[2]) /\ IsNumeric(segments[3])
    THEN Guess(segments[5].name, segments[4].name, segments[1].name, segments[3].number)
    ELSE Fallback(segments)

BuildPreviewRow(file) ==
    [file |-> file, fields |-> ParseFilename(file.segments), edited |-> {}]

-----------------------------------------------------------------------------
\* Mutant of Reset: the album artist of the batch before stays.
ResetNothing == UNCHANGED albumArtist

Reset == albumArtist' = Blank

\* pickFiles, pickFolder
Pick ==
    /\ status = "idle" /\ batches < MaxBatches
    /\ \E S \in SUBSET Files :
           /\ Cardinality(S) \in 1 .. MaxBatch
           /\ rows' = [i \in 1 .. Cardinality(S) |-> BuildPreviewRow(SetToSeq(S)[i])]
    /\ Reset
    /\ typed' = Blank
    /\ status' = "preview" /\ batches' = batches + 1
    /\ UNCHANGED <<tracks, current, failures, edits, sent>>

Edit == status = "preview" /\ edits < MaxEdits /\ edits' = edits + 1

TypeAlbumArtist ==
    /\ Edit
    /\ \E text \in Texts : albumArtist' = text /\ typed' = text
    /\ UNCHANGED <<tracks, status, rows, current, failures, batches, sent>>

UpdateRow ==
    /\ Edit
    /\ \E i \in DOMAIN rows, field \in Fields :
           \E value \in IF field = "number" THEN Numbers \cup {Null, Malformed} ELSE Texts :
               rows' = [rows EXCEPT ![i] =
                   [file |-> @.file, fields |-> [@.fields EXCEPT ![field] = value],
                    edited |-> @.edited \cup {field}]]
    /\ UNCHANGED <<tracks, status, albumArtist, current, failures, batches, typed, sent>>

Cancel ==
    /\ status = "preview"
    /\ status' = "idle"
    /\ UNCHANGED <<tracks, rows, albumArtist, current, failures, batches, edits, typed, sent>>

ConfirmUpload ==
    /\ status = "preview"
    /\ status' = "uploading" /\ current' = 1 /\ failures' = {}
    /\ UNCHANGED <<tracks, rows, albumArtist, batches, edits, typed, sent>>

\* The form of uploadTrack.  No number, 0 or NaN: the field is not sent.
Form(fields) ==
    [title |-> TrimSpace(fields.title), artist |-> TrimSpace(fields.artist),
     album |-> TrimSpace(fields.album), albumArtist |-> TrimSpace(albumArtist),
     number |-> IF fields.number \in {Null, Malformed} THEN 0 ELSE fields.number]

\* Mutant of FormOf: the fields of the row before.
FormOfPrevious == Form(rows[IF current > 1 THEN current - 1 ELSE current].fields)

FormOf == Form(rows[current].fields)

Stored ==
    LET row == rows[current]
    IN  /\ InsertTrack(Me, [stem |-> row.file.stem, tags |-> row.file.tags, form |-> FormOf])
        /\ sent' = sent \cup {[id |-> t.id, batch |-> batches, file |-> row.file,
                               edited |-> row.edited, typed |-> typed] : t \in tracks' \ tracks}

\* One turn of the loop.  An upload whose answer is lost is stored, and counts
\* as a failure.
UploadFile ==
    /\ status = "uploading"
    /\ \/ Stored /\ UNCHANGED failures
       \/ Stored /\ failures' = failures \cup {current}
       \/ UNCHANGED <<tracks, sent>> /\ failures' = failures \cup {current}
    /\ IF current < Len(rows) THEN current' = current + 1 /\ UNCHANGED status
       ELSE status' = "done" /\ UNCHANGED current
    /\ UNCHANGED <<rows, albumArtist, batches, edits, typed>>

UploadMore ==
    /\ status = "done"
    /\ status' = "idle"
    /\ UNCHANGED <<tracks, rows, albumArtist, current, failures, batches, edits, typed, sent>>

Next ==
    \/ Pick \/ TypeAlbumArtist \/ UpdateRow \/ Cancel
    \/ ConfirmUpload \/ UploadFile \/ UploadMore

Spec == Init /\ [][Next]_vars

-----------------------------------------------------------------------------
TypeOK ==
    /\ CatalogTypeOK
    /\ status \in {"idle", "preview", "uploading", "done"}
    /\ \A i \in DOMAIN rows :
           /\ {rows[i].fields.title, rows[i].fields.artist, rows[i].fields.album} \subseteq Nat
           /\ rows[i].edited \subseteq Fields
    /\ {albumArtist, typed} \subseteq Nat
    /\ failures \subseteq 1 .. MaxBatch
    /\ \A s \in sent : \E t \in tracks : t.id = s.id

\* A file name of one of the patterns parseFilename.ts describes is read as it
\* was meant: the preview shows its names and its number, each in its field.
ReadsFileNames ==
    status = "preview" => \A i \in DOMAIN rows : \A field \in Fields \ rows[i].edited :
        rows[i].fields[field] = rows[i].file.meaning[field]

\* What the server makes of a file by itself, with a blank form.
ByItself(file) ==
    Resolve([stem |-> file.stem, tags |-> file.tags,
             form |-> [title |-> Blank, artist |-> Blank, album |-> Blank,
                       albumArtist |-> Blank, number |-> 0]])

NumberOr(number, fallback) ==
    IF number \notin {Null, Malformed} /\ number > 0 THEN number ELSE fallback

\* "an unrecognized filename never silently overrides a real embedded tag"
\* (upload.tsx:66-69): a name or number that neither the file name nor the user has
\* given is stored as the tags have it, or as the server's fallback.
NoSilentOverride ==
    \A s \in sent : \A t \in GetTrack(Me, s.id) :
        /\ \A field \in {"title", "artist", "album"} \ s.edited :
               t[field] = Or(s.file.meaning[field], ByItself(s.file)[field])
        /\ "number" \notin s.edited =>
               t.asked = NumberOr(s.file.meaning.number, ByItself(s.file).number)

\* "a various-artists compilation needs one shared album artist so its tracks
\* group into a single album" (upload.tsx:87-91): what a batch uploads to one
\* album under an album artist is one row of the Albums screen; a batch without
\* one goes by the tags, else by the artist of each track.
BatchGroups ==
    \A s, other \in sent : \A t \in GetTrack(Me, s.id), u \in GetTrack(Me, other.id) :
        /\ s.batch = other.batch /\ TrimSpace(s.typed) # Blank /\ t.album = u.album =>
               \A albums \in ListAlbums(Me) : \E i \in DOMAIN albums :
                   \A list \in ListTracksByAlbum(Me, albums[i].album, albums[i].artist) :
                       {t, u} \subseteq ToSet(list)
        /\ TrimSpace(s.typed) = Blank =>
               t.albumArtist = Or(ByItself(s.file).albumArtist, t.artist)

\* The names that are read as they are meant: the two patterns with a place for
\* the number; any other with two or three names, the first number being that of
\* the track; what is not recognised, which is left to the tags.
Recognised(file) ==
    LET s == file.segments
        names == {i \in DOMAIN s : ~IsNumeric(s[i])}
        means == file.meaning
    IN  \/ /\ Len(s) = 3 /\ names = 1 .. 3
           /\ means = Guess(IF s[3].rest = Null THEN s[3].name ELSE s[3].rest,
                            s[1].name, s[2].name, s[3].number)
        \/ /\ Len(s) = 5 /\ names = {1, 4, 5}
           /\ means = Guess(s[5].name, s[4].name, s[1].name, s[3].number)
        \/ /\ Len(s) # 3 /\ (Len(s) = 5 => names \cap {2, 3} # {})
           /\ \/ names = DOMAIN s /\ means.number = Null
              \/ \E i \in DOMAIN s \ names :
                     1 .. i - 1 \subseteq names /\ means.number = s[i].number
           /\ \/ \E i, j \in names :
                     /\ i < j /\ names = {i, j}
                     /\ means = Guess(s[j].name, s[i].name, Blank, means.number)
              \/ \E i, j, k \in names :
                     /\ i < j /\ j < k /\ names = {i, j, k}
                     /\ means = Guess(s[k].name, s[i].name, s[j].name, means.number)
        \/ /\ Len(s) \notin {3, 5} /\ Cardinality(names) \notin {2, 3}
           /\ means = NoGuess

FilesRecognised == \A file \in Files : Recognised(file)

-----------------------------------------------------------------------------
(* The inductive invariant.  What has not been edited is the guess.         *)
RowInv(row) ==
    /\ row = [file |-> row.file, fields |-> row.fields, edited |-> row.edited]
    /\ row.file \in Files
    /\ row.fields \in [Fields -> Int \cup {Null, Malformed}]
    /\ {row.fields.title, row.fields.artist, row.fields.album} \subseteq Nat
    /\ row.edited \subseteq Fields
    /\ \A field \in Fields \ row.edited :
           row.fields[field] = ParseFilename(row.file.segments)[field]

\* A track has what the file name says, or what the tags do, and the album
\* artist of its batch.
SentInv(s) ==
    /\ \E t \in tracks : t.id = s.id
    /\ s.batch <= batches /\ (status = "preview" => s.batch < batches)
    /\ s.batch = batches => s.typed = typed
    /\ \A t \in tracks : t.id = s.id =>
           /\ \A field \in {"title", "artist", "album"} \ s.edited :
                  t[field] = Or(ParseFilename(s.file.segments)[field], ByItself(s.file)[field])
           /\ "number" \notin s.edited =>
                  t.asked = NumberOr(ParseFilename(s.file.segments).number,
                                     ByItself(s.file).number)
           /\ s.file \in Files
           /\ t.albumArtist = Or(TrimSpace(s.typed), Or(ByItself(s.file).albumArtist, t.artist))

PreviewInv ==
    /\ LibraryInv
    /\ status \in {"idle", "preview", "uploading", "done"} /\ batches \in Nat
    /\ DOMAIN rows = 1 .. Len(rows) /\ Len(rows) \in 0 .. MaxBatch
    /\ \A i \in DOMAIN rows : RowInv(rows[i])
    /\ status = "preview" => rows # <<>>
    /\ status = "uploading" => current \in DOMAIN rows
    /\ failures \subseteq 1 .. MaxBatch
    /\ typed \in Nat /\ albumArtist = typed
    /\ \A s \in sent : SentInv(s) /\ s.batch \in Nat
    /\ \A s, other \in sent : s.batch = other.batch => s.typed = other.typed
=============================================================================
