------------------------------ MODULE Catalog -------------------------------
(***************************************************************************)
(* The tracks table as the reading half of the server uses it: the row an  *)
(* upload leaves behind (library/ingest.go, store/tracks.go) and the       *)
(* queries that list it (store/albums.go, store/artists.go).  Artists and  *)
(* albums have no tables of their own: a summary and the listing it leads  *)
(* to are two queries over the same columns.                               *)
(*                                                                         *)
(* A name is a natural number, its place in the collation.  A track number *)
(* is stored in a column of signed integers.  A query orders its rows by a *)
(* key; rows with equal keys come in any order, so a listing is a set of   *)
(* sequences.                                                              *)
(***************************************************************************)
EXTENDS Integers, Sequences, FiniteSets, FiniteSetsExt, SequencesExt

CONSTANTS
    Users,
    Me,         \* the user of the client that is modelled
    Uploads,    \* for each user the files, with the fields of the form, to upload
    Ids,        \* the ids the sequence can hand out: a bound on the tracks
    Unknown,    \* the name "Unknown"
    Half,       \* a stored track number is at least -Half and below it: 2^31
    Unreadable, \* the tags of a file that has none
    Malformed,  \* a track_number field that is not a number
    Null

Blank == 0
Space == 1  \* white space

TagType == [title : Nat, artist : Nat, album : Nat, albumArtist : Nat, number : Int,
            picture : STRING \cup {Null}]
FormType == [title : Nat, artist : Nat, album : Nat, albumArtist : Nat,
             number : Int \cup {Malformed}]
UploadType == [stem : Nat, tags : TagType \cup {Unreadable}, form : FormType]

CatalogAssumption ==
    /\ Me \in Users
    /\ Unknown \in Nat \ {Blank, Space}
    /\ Ids \subseteq Nat \ {0} /\ IsFiniteSet(Ids)
    /\ Half \in Nat \ {0}
    /\ \A user \in Users : Uploads[user] \subseteq UploadType
    /\ Null \notin Int /\ Malformed \notin Int /\ Unreadable \notin TagType

VARIABLE tracks  \* the rows; "asked" is no column: the number before it is stored

-----------------------------------------------------------------------------
\* What ExtractMetadata makes of the tags of a file.
Untagged == [title |-> Blank, artist |-> Blank, album |-> Blank,
             albumArtist |-> Blank, number |-> 0, picture |-> Null]

\* Mutant of ExtractMetadata: a negative track number is taken over.
ExtractMetadataSigned(tags) ==
    IF tags = Unreadable THEN Untagged
    ELSE [tags EXCEPT !.picture = IF @ \in {"jpeg", "png"} THEN @ ELSE Null]

ExtractMetadata(tags) ==
    IF tags = Unreadable THEN Untagged
    ELSE [tags EXCEPT !.number = IF @ > 0 THEN @ ELSE 0,
                      !.picture = IF @ \in {"jpeg", "png"} THEN @ ELSE Null]

TrimSpace(name) == IF name = Space THEN Blank ELSE name
Or(name, fallback) == IF name = Blank THEN fallback ELSE name

\* A malformed number leaves the override unset.
Override(field) == IF field = Malformed THEN 0 ELSE field

\* The metadata IngestFile resolves: the form, else the tags, else a fallback.
Resolve(upload) ==
    LET md == ExtractMetadata(upload.tags)
        form == upload.form
    IN  [title |-> Or(TrimSpace(form.title), Or(md.title, upload.stem)),
         artist |-> Or(TrimSpace(form.artist), Or(md.artist, Unknown)),
         album |-> Or(TrimSpace(form.album), Or(md.album, Unknown)),
         albumArtist |-> Or(TrimSpace(form.albumArtist), md.albumArtist),
         number |-> IF Override(form.number) > 0 THEN Override(form.number) ELSE md.number,
         picture |-> md.picture]

Int32(n) == LET low == n % (2 * Half)
            IN  IF low < Half THEN low ELSE low - 2 * Half

\* Mutant of NullableTrackNumber: 0 is no NULL.
TrackNumberOrZero(n) == IF n >= 0 THEN Int32(n) ELSE Null

NullableTrackNumber(n) == IF n > 0 THEN Int32(n) ELSE Null

NullableString(ext) == IF ext = "" THEN Null ELSE ext

\* Mutant of AlbumArtist: there is no default.
AlbumArtistAsIs(nt) == nt.albumArtist

\* Without an album artist, tag or override, the artist of the track.
AlbumArtist(nt) == Or(nt.albumArtist, nt.artist)

\* The row InsertTrack inserts.
Row(id, user, nt, ext) ==
    [id |-> id, user |-> user, title |-> nt.title, artist |-> nt.artist, album |-> nt.album,
     albumArtist |-> AlbumArtist(nt), number |-> NullableTrackNumber(nt.number),
     artwork |-> NullableString(ext), asked |-> nt.number]

\* Concurrent inserts may commit in another order than that of their ids.  The
\* artwork is left out if it could not be stored.
InsertTrack(user, upload) ==
    LET nt == Resolve(upload)
    IN  \E id \in Ids \ {t.id : t \in tracks} :
            \/ tracks' = tracks \cup {Row(id, user, nt, "")}
            \/ /\ nt.picture # Null
               /\ tracks' = tracks \cup {Row(id, user, nt, nt.picture)}

Upload == \E user \in Users : \E upload \in Uploads[user] : InsertTrack(user, upload)

-----------------------------------------------------------------------------
Of(user) == {t \in tracks : t.user = user}

\* ORDER BY: the key of a row is a tuple of numbers, compared from the left.
Precedes(key, other) ==
    \E i \in DOMAIN key : key[i] < other[i] /\ \A j \in 1 .. i - 1 : key[j] = other[j]

Ordered(key) ==
    {s \in SetToSeqs(DOMAIN key) :
        \A i, j \in DOMAIN s : i < j => ~Precedes(key[s[j]], key[s[i]])}

\* track_number NULLS LAST
NullsLast(number) == IF number = Null THEN <<1, 0>> ELSE <<0, number>>

ListTracks(user) == Ordered([t \in Of(user) |-> <<t.id>>])

\* Mutant of Representative: the first track, with artwork or without.
RepresentativeFirst(S) == Min({t.id : t \in S})

\* (ARRAY_AGG(id ORDER BY (artwork_ext IS NOT NULL) DESC, id))[1]
Representative(S) ==
    LET pictured == {t \in S : t.artwork # Null}
    IN  Min({t.id : t \in IF pictured = {} THEN S ELSE pictured})

AlbumOf(user, album, artist) == {t \in Of(user) : t.album = album /\ t.albumArtist = artist}

AlbumSummary(S, album, artist) ==
    [album |-> album, artist |-> artist, count |-> Cardinality(S),
     representative |-> Representative(S), hasArtwork |-> \E t \in S : t.artwork # Null]

\* The rows of a SELECT ... GROUP BY have keys of their own: they have one order.
ListAlbums(user) ==
    LET Summary(t) == AlbumSummary(AlbumOf(user, t.album, t.albumArtist), t.album, t.albumArtist)
    IN  Ordered([row \in {Summary(t) : t \in Of(user)} |-> <<row.album, row.artist>>])

\* No artist, or a blank one, is the union of the albums of that name.
OnAlbum(user, album, artist) ==
    {t \in Of(user) : t.album = album /\ artist \in {Blank, t.albumArtist}}

ListTracksByAlbum(user, album, artist) ==
    Ordered([t \in OnAlbum(user, album, artist) |-> NullsLast(t.number) \o <<t.title>>])

By(user, artist) == {t \in Of(user) : t.artist = artist}

ListArtists(user) ==
    LET Summary(t) == [artist |-> t.artist, count |-> Cardinality(By(user, t.artist))]
    IN  Ordered([row \in {Summary(t) : t \in Of(user)} |-> <<row.artist>>])

ListTracksByArtist(user, artist) ==
    Ordered([t \in By(user, artist) |-> <<t.album>> \o NullsLast(t.number) \o <<t.title>>])

GetTrack(user, id) == {t \in Of(user) : t.id = id}

HasArtwork(t) == t.artwork \notin {Null, ""}

\* handleArtwork: not found, or the artwork of the track.
ArtworkFound(user, id) == \E t \in GetTrack(user, id) : HasArtwork(t)

-----------------------------------------------------------------------------
CatalogTypeOK ==
    /\ \A t \in tracks :
           /\ t.id \in Ids /\ t.user \in Users
           /\ {t.title, t.artist, t.album, t.albumArtist} \subseteq Nat
           /\ t.number \in {Null} \cup -Half .. Half - 1
           /\ t.asked \in Nat
    /\ \A t, other \in tracks : t.id = other.id => t = other

\* What the statements rely on: names that are grouped by are not blank, and
\* NULL is the only artwork that is none.
LibraryInv ==
    /\ IsFiniteSet(tracks)
    /\ CatalogTypeOK
    /\ \A t \in tracks :
           /\ t.artwork \in {Null, "jpeg", "png"} /\ Blank \notin {t.artist, t.albumArtist}
           /\ t.number = NullableTrackNumber(t.asked)

\* The numbers that are uploaded are some that the column can hold.
NumbersFit ==
    \A user \in Users : \A upload \in Uploads[user] :
        LET n == Resolve(upload).number IN n > 0 => Int32(n) = n

\* The summaries and the listings of a user agree: every track of the user is
\* in the listing of exactly one album and of exactly one artist, and a summary
\* counts what its listing holds (GROUP BY in ListAlbums and ListArtists, WHERE
\* in ListTracksByAlbum and ListTracksByArtist).
Partition(user, rows, listings) ==
    /\ \A i \in DOMAIN rows : \A s \in listings[i] :
           Len(s) = rows[i].count /\ ToSet(s) \subseteq Of(user)
    /\ \A t \in Of(user) : \E i \in DOMAIN rows : \A j \in DOMAIN rows : \A s \in listings[j] :
           t \in ToSet(s) <=> i = j
=============================================================================
