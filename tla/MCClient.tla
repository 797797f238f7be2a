------------------------------ MODULE MCClient ------------------------------
(***************************************************************************)
(* The client at work: the Albums tab, the Search tab, the screen of a     *)
(* playlist, the upload screen and the player, each on an instance that is *)
(* small for it.  The parts share no state but the catalog, and a behaviour *)
(* uses one part, chosen at the start: what is explored is all of each.    *)
(*                                                                         *)
(* Names stand in the collation as they are listed here.                   *)
(***************************************************************************)
EXTENDS Search, TLC

CONSTANTS
    me, other, short, long, a, b, c, first, second,
    Parts,                    \* the parts that are explored
    LibraryUsers, LibraryIds, LibraryUploads, PickedFiles, Texts, Numbers,
    Queues, PlaylistTracks, NoTrack, Calls,
    MaxFocus, MaxBatch, MaxBatches, MaxEdits, MaxPresses, MaxFrames

VARIABLES
    part,
    albums, opened, listed, loaded, focus, loads,
    order, displayed, banner, focused, call, unsynced, unheard,
    queue, index, shown, status, effect, dep, advanced, native, frames, presses,
    uploadStatus, rows, albumArtist, current, failures, batches, edits, typed, sent

-----------------------------------------------------------------------------
A == 2
B == 3
C == 4
One == 5        \* "01"
OneSong == 6    \* "01 Song"
Album == 7
Artist == 8
Song == 9
MCUnknown == 10

NoForm == [title |-> Blank, artist |-> Blank, album |-> Blank, albumArtist |-> Blank,
           number |-> 0]
Tags(title, artist, album, of, number, picture) ==
    [title |-> title, artist |-> artist, album |-> album, albumArtist |-> of,
     number |-> number, picture |-> picture]

\* Two tracks of a compilation: one with its artwork and a malformed number in
\* the form, one without a number and with a picture that is not kept.  A file
\* without tags, put on an album of the same title with an override of white
\* space.  Another user has an album of that title, too.
MCUploads ==
    me :> {[stem |-> A, tags |-> Tags(B, A, C, B, 1, "jpeg"),
            form |-> [NoForm EXCEPT !.number = Malformed]],
           [stem |-> A, tags |-> Tags(A, C, C, B, -1, "gif"),
            form |-> [NoForm EXCEPT !.number = -1]],
           [stem |-> B, tags |-> Unreadable,
            form |-> [NoForm EXCEPT !.artist = Space, !.album = C, !.number = 3]]}
    @@ other :> {[stem |-> B, tags |-> Unreadable, form |-> [NoForm EXCEPT !.album = C]]}

\* Track numbers at and beyond what the column holds.
MCWideUploads ==
    me :> {[stem |-> A, tags |-> Unreadable, form |-> [NoForm EXCEPT !.number = n]] : n \in {0, 7, 8}}
    @@ other :> {}

Albums == INSTANCE CatalogScreens WITH
    Users <- LibraryUsers, Ids <- LibraryIds, Uploads <- LibraryUploads,
    shown <- listed, requests <- loads

ASSUME ScreensAssumption == Albums!ScreensAssumption

\* Search: two names, a query that is a substring of both and a longer one that
\* is a substring of the second only.
MCNames == me :> {[stem |-> name, tags |-> Unreadable, form |-> NoForm] : name \in {A, B}}
MCContaining == short :> {A, B} @@ long :> {B}

-----------------------------------------------------------------------------
\* Segments of a file name.
Text(name) == [name |-> name, number |-> Null, rest |-> Null]
Number(n) == [name |-> One, number |-> n, rest |-> Null]
Numbered(n, name) == [name |-> OneSong, number |-> n, rest |-> name]

\* Tags that agree with no file name.
OtherTags == Tags(A, A, A, Blank, 2, Null)
Meant(title, artist, album, number) ==
    [title |-> title, artist |-> artist, album |-> album, number |-> number]
File(tags, segments, meaning) ==
    [stem |-> B, tags |-> tags, segments |-> segments, meaning |-> meaning]

\* Artist - Album - 01 Song; Album-01-001-A-Song; Artist - Song;
\* 01 - Artist - Album - Song; a name of one segment.
MCPickedFiles ==
    {File(Unreadable, <<Text(Artist), Text(Album), Numbered(1, Song)>>,
          Meant(Song, Artist, Album, 1)),
     File(OtherTags, <<Text(Album), Number(4), Number(1), Text(A), Text(Song)>>,
          Meant(Song, A, Album, 1)),
     File(OtherTags, <<Text(Artist), Text(Song)>>, Meant(Song, Artist, Blank, Null)),
     File(Unreadable, <<Number(1), Text(Artist), Text(Album), Text(Song)>>,
          Meant(Song, Artist, Album, 1)),
     File(OtherTags, <<Text(B)>>, Meant(Blank, Blank, Blank, Null))}

\* 01 - Artist - Song
MCNumberedFiles ==
    {File(OtherTags, <<Number(1), Text(Artist), Text(Song)>>, Meant(Song, Artist, Blank, 1))}

Preview == INSTANCE UploadPreview WITH
    Files <- PickedFiles, status <- uploadStatus

ASSUME FilesAssumption == Preview!FilesAssumption

\* Two runs are about numbers and names of other kinds.
ASSUME OtherKinds ==
    /\ Albums!NumbersFit \/ LibraryUploads = MCWideUploads
    /\ Preview!FilesRecognised \/ PickedFiles = MCNumberedFiles

MCTexts == {Space, A}

MCQueues == {<<a, b, c>>, <<c, a>>}

\* The playlist: all orders of some of three tracks, two requests in flight.
MCTracks == {a, b, c}
MCCalls == {first, second}
Symmetry == Permutations(MCTracks) \cup Permutations(MCCalls)

List == INSTANCE PlaylistScreen
        WITH Tracks <- PlaylistTracks, shown <- displayed, error <- banner

ASSUME ScreenAssumption == List!ScreenAssumption

Play == INSTANCE Player

ASSUME QueuesAssumption == Play!QueuesAssumption

-----------------------------------------------------------------------------
albumsVars == <<albums, opened, listed, loaded, focus, loads>>
findVars == <<query, effectOf, effects, timer, requests, results, error, known, ended>>
previewVars ==
    <<uploadStatus, rows, albumArtist, current, failures, batches, edits, typed, sent>>
playVars == <<queue, index, shown, status, effect, dep, advanced, native, frames, presses>>
listVars == <<order, displayed, banner, focused, call, unsynced, unheard>>
clientVars == <<part, tracks, albumsVars, findVars, previewVars, playVars, listVars>>

ClientInit ==
    /\ part \in Parts
    /\ Init /\ Albums!Init /\ Preview!Init /\ Play!Init
    /\ List!Init /\ (part # "playlist" => order = <<>>)

ClientNext ==
    /\ UNCHANGED part
    /\ \/ /\ part = "albums" /\ Albums!Next
          /\ UNCHANGED <<findVars, previewVars, playVars, listVars>>
       \/ /\ part = "search" /\ Next
          /\ UNCHANGED <<albumsVars, previewVars, playVars, listVars>>
       \/ /\ part = "upload" /\ Preview!Next
          /\ UNCHANGED <<albumsVars, findVars, playVars, listVars>>
       \/ /\ part = "player" /\ Play!Next
          /\ UNCHANGED <<tracks, albumsVars, findVars, previewVars, listVars>>
       \/ /\ part = "playlist" /\ List!Next
          /\ UNCHANGED <<tracks, albumsVars, findVars, previewVars, playVars>>

ClientSpec == ClientInit /\ [][ClientNext]_clientVars /\ Fairness /\ Play!Fairness

-----------------------------------------------------------------------------
\* Every part keeps its variables in their types, and the tracks within its bound.
ClientTypeOK ==
    /\ part = "albums" => Albums!TypeOK
    /\ part = "search" => TypeOK
    /\ part = "upload" => Preview!TypeOK
    /\ part = "player" => Play!TypeOK

\* Albums: every track of a user is in the listing of one album and one artist,
\* and summaries count what their listings hold (ListAlbums, ListArtists).
\* This is about the tracks alone, all of which come up before the first focus.
SummariesAgree == part = "albums" /\ focus = 0 => Albums!SummariesAgree

\* The catalog holds together, and every part stays in its types.
CatalogConsistent == ClientTypeOK /\ SummariesAgree

\* An album that was tapped shows what its summary, old as it may be, promised.
OpensWhatWasTapped == Albums!OpensWhatWasTapped

\* Whatever a screen says has artwork is served some (handleArtwork).
ArtworkServed == Albums!ArtworkServed

\* An album is listed, and so played, in the order of its track numbers.
ListedAsTagged == Albums!ListedAsTagged

\* A tap opens the album it promises, with its artwork, in the order of its tags.
OpensInOrder == OpensWhatWasTapped /\ ArtworkServed /\ ListedAsTagged

\* No late answer takes a screen back to an earlier library.
NeverBack == Albums!NeverBack

\* Upload: names of the described patterns are read as they were meant.
ReadsFileNames == Preview!ReadsFileNames

\* Embedded tags are overridden by what somebody has given, and only then.
NoSilentOverride == Preview!NoSilentOverride

\* The album artist of a batch groups this batch and no other.
BatchGroups == Preview!BatchGroups

\* What an upload stores is what the names, the tags and the form mean.
UploadsAsMeant == ReadsFileNames /\ NoSilentOverride /\ BatchGroups

\* Playlist: who waits for each request sees what the server has.
ScreenConsistent == List!ScreenConsistent

\* What the server gets are adds, removals and permutations.
RefinesOrder == List!RefinesOrder

\* The screen cannot drift from the database.
CannotDrift == List!CannotDrift

\* Player: one finish, one advance, and the dock keeps up with it.
PlaybackInStep == Play!OneAdvancePerFinish /\ Play!DockFollows

\* The dock shows the track that is loaded.
DockAgrees == Play!DockAgrees

\* An advance leaves a track that has finished.
AdvanceLeavesFinished == Play!AdvanceLeavesFinished

\* A query that stays is answered and a track that finishes is followed by the
\* next one, however effects, frames and presses interleave.
ClientAnswers == SearchEnds /\ Play!FinishAdvances
=============================================================================
