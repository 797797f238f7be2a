--------------------------- MODULE CatalogScreens ---------------------------
(***************************************************************************)
(* The Albums tab over the catalog (app/(tabs)/albums): the list of the    *)
(* albums and, pushed on top of it, the tracks of the album that was       *)
(* tapped.  A screen loads whenever it gains the focus; the answer to a    *)
(* load is ignored once the focus has gone.  Uploads go on meanwhile.      *)
(***************************************************************************)
EXTENDS Catalog

CONSTANT MaxFocus  \* bound on how often a screen gains the focus

ScreensAssumption == CatalogAssumption /\ MaxFocus \in Nat

VARIABLES
    albums,    \* what the list of albums shows
    opened,    \* the parameters of the album on top of it: none, or one summary
    shown,     \* the tracks it shows
    loaded,    \* and whether an answer has been shown
    focus,     \* counts the focus effects: a load belongs to one
    requests   \* loads that have not been answered

vars == <<tracks, albums, opened, shown, loaded, focus, requests>>

Init ==
    /\ tracks = {}
    /\ albums = <<>> /\ opened = {} /\ shown = <<>> /\ loaded = FALSE
    /\ focus = 0 /\ requests = {}

\* The focus effect of the screen that is then on top: its load is sent.
Focus(on) ==
    /\ focus < MaxFocus
    /\ focus' = focus + 1
    /\ requests' = requests \cup {[focus |-> focus + 1, of |-> on, answer |-> Null]}

\* The tab is opened, for the first time or again.
EnterTab ==
    /\ Focus(opened)
    /\ UNCHANGED <<tracks, albums, opened, shown, loaded>>

\* An album that is pushed is shown by a screen of its own.
Mount == shown' = <<>> /\ loaded' = FALSE

Tap ==
    /\ opened = {}
    /\ \E i \in DOMAIN albums :
           /\ opened' = {albums[i]}
           /\ Focus(opened')
    /\ Mount
    /\ UNCHANGED <<tracks, albums>>

Back ==
    /\ opened # {}
    /\ opened' = {}
    /\ Focus({})
    /\ Mount
    /\ UNCHANGED <<tracks, albums>>

\* Mutant of AlbumTracks: the arguments are swapped.
AlbumTracksSwapped(row) == ListTracksByAlbum(Me, row.artist, row.album)

\* getAlbumTracks(name, artist)
AlbumTracks(row) == ListTracksByAlbum(Me, row.album, row.artist)

\* handleListAlbums and handleAlbumTracks: one statement.
Handle ==
    \E r \in requests :
        /\ r.answer = Null
        /\ \E s \in IF r.of = {} THEN ListAlbums(Me) ELSE UNION {AlbumTracks(row) : row \in r.of} :
               requests' = (requests \ {r}) \cup {[r EXCEPT !.answer = s]}
    /\ UNCHANGED <<tracks, albums, opened, shown, loaded, focus>>

\* Mutant of Ignored: no answer is.
NeverIgnored(r) == FALSE

Ignored(r) == r.focus # focus

Receive ==
    \E r \in requests :
        /\ r.answer # Null
        /\ requests' = requests \ {r}
        /\ IF Ignored(r) THEN UNCHANGED <<albums, shown, loaded>>
           ELSE IF r.of = {} THEN albums' = r.answer /\ UNCHANGED <<shown, loaded>>
           ELSE shown' = r.answer /\ loaded' = TRUE /\ UNCHANGED albums
        /\ UNCHANGED <<tracks, opened, focus>>

\* The request fails before or after the server has answered: only the error
\* banner changes.
Fail ==
    /\ \E r \in requests : requests' = requests \ {r}
    /\ UNCHANGED <<tracks, albums, opened, shown, loaded, focus>>

UploadAny == Upload /\ UNCHANGED <<albums, opened, shown, loaded, focus, requests>>

Next == UploadAny \/ EnterTab \/ Tap \/ Back \/ Handle \/ Receive \/ Fail

Spec == Init /\ [][Next]_vars

-----------------------------------------------------------------------------
TypeOK ==
    /\ CatalogTypeOK
    /\ \A i \in DOMAIN albums : albums[i].representative \in Ids
    /\ \A row, other \in opened : row = other
    /\ ToSet(shown) \subseteq tracks
    /\ loaded \in BOOLEAN
    /\ focus \in 0 .. MaxFocus
    /\ \A r \in requests : r.focus \in 1 .. focus

\* What the tables promise for every user: album and artist summaries agree
\* with the listings they lead to, and leave no track out and none in twice.
SummariesAgree ==
    \A user \in Users :
        /\ \A rows \in ListAlbums(user) :
               Partition(user, rows, [i \in DOMAIN rows |->
                   ListTracksByAlbum(user, rows[i].album, rows[i].artist)])
        /\ \A rows \in ListArtists(user) :
               Partition(user, rows, [i \in DOMAIN rows |->
                   ListTracksByArtist(user, rows[i].artist)])

\* An album that has been tapped shows at least what its summary promised when
\* it was loaded, which may be long ago: as many tracks, and the one whose
\* artwork stands for the album (albums/index.tsx:48-53, albums/[name].tsx:22).
OpensWhatWasTapped ==
    loaded => \A row \in opened :
        /\ Len(shown) >= row.count
        /\ \E i \in DOMAIN shown : shown[i].id = row.representative

\* Whatever a screen says has artwork is served some: the query's idea of
\* artwork (artwork_ext IS NOT NULL) is that of the handler (HasArtwork), and
\* the representative is a track that has it (api/artwork.go, albums.go:32).
ArtworkServed ==
    /\ \A i \in DOMAIN albums : albums[i].hasArtwork => ArtworkFound(Me, albums[i].representative)
    /\ \A i \in DOMAIN shown : HasArtwork(shown[i]) => ArtworkFound(Me, shown[i].id)

\* An album plays in the order of its tags: the listing of the screen, which is
\* the queue of the player, has the untagged tracks last and the others by the
\* number they were tagged or uploaded with ("orders by track_number (untagged
\* tracks ... sort after any tagged track)", albums.go:52-53).
InTagOrder(list) ==
    \A i, j \in DOMAIN list :
        i < j /\ list[j].asked > 0 => list[i].asked \in 1 .. list[j].asked

ListedAsTagged == InTagOrder(shown)

\* Every album is still there, with no fewer tracks.
Grows(old, new) ==
    \A i \in DOMAIN old : \E j \in DOMAIN new :
        /\ <<new[j].album, new[j].artist>> = <<old[i].album, old[i].artist>>
        /\ new[j].count >= old[i].count

\* Tracks are only ever added, so what a screen shows only ever grows: no late
\* answer takes it back to an earlier library (the ignore flag of both effects).
NeverBack ==
    [][/\ Grows(albums, albums')
       /\ opened' = opened => ToSet(shown) \subseteq ToSet(shown')]_vars

-----------------------------------------------------------------------------
(* The inductive invariant.  As tracks are only added, what a summary said  *)
(* remains true of the album,                                               *)
Promised(row) ==
    LET S == AlbumOf(Me, row.album, row.artist)
    IN  /\ row.count \in 0 .. Cardinality(S)
        /\ \E t \in S : t.id = row.representative /\ (row.hasArtwork => HasArtwork(t))

\* and every later listing keeps what it promised.
Keeps(list, row) ==
    /\ ToSet(list) \subseteq OnAlbum(Me, row.album, row.artist)
    /\ Len(list) >= row.count
    /\ \E i \in DOMAIN list : list[i].id = row.representative
    /\ NumbersFit => InTagOrder(list)

\* A load of the present focus is of the screen on top and brings no less than
\* is shown.
RequestInv(r) ==
    /\ r = [focus |-> r.focus, of |-> r.of, answer |-> r.answer]
    /\ r.focus \in 1 .. focus
    /\ \A q \in requests : q.focus = r.focus => q = r
    /\ r.focus = focus => r.of = opened
    /\ r.focus = focus /\ r.answer # Null =>
        IF opened = {}
        THEN Grows(albums, r.answer) /\ \A row \in ToSet(r.answer) : Promised(row)
        ELSE /\ \A row \in opened : Keeps(r.answer, row)
             /\ ToSet(shown) \subseteq ToSet(r.answer)

ScreensInv ==
    /\ LibraryInv
    /\ NumbersFit => \A t \in tracks : t.asked > 0 => t.number = t.asked
    /\ focus \in 0 .. MaxFocus /\ loaded \in BOOLEAN
    /\ \A row \in ToSet(albums) : Promised(row)
    /\ \A row, other \in opened : Promised(row) /\ row = other
    /\ \A r \in requests : RequestInv(r)
    /\ IF loaded THEN \E row \in opened : Keeps(shown, row) ELSE shown = <<>>
=============================================================================
