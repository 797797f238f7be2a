# Verification of mu3ic

mu3ic is a self-hosted music locker: a Go server over PostgreSQL and a file or object
store, and an Expo (React Native) client. This directory holds TLA+ models of it, the
TLC configurations that check them on small instances, and theorems about them with
proofs that TLAPS checks. Paths below are relative to `src/`.

## The system

| Component | Code | State | Operations | What is hard |
|---|---|---|---|---|
| Playlists | `server/internal/store/playlists.go`, `internal/api/playlists.go`, migration 008 | tables `playlists`, `playlist_tracks` | create, rename, delete, add, remove, reorder, list | multi-statement READ COMMITTED transactions, row locks, cascades, deadlocks |
| Upload and ingest | `internal/api/upload.go`, `internal/library/*.go`, `InsertTrack` | staged files, stored objects, table `tracks` | stage, extract, put, insert, clean up | three stores without a common transaction; failures, kills, shutdown |
| Rate limiter | `internal/api/ratelimit.go` | a map of token buckets | allow, sweep | lazy refill, a sweeper that reads the clock before it locks |
| Accounts | `internal/api/auth.go`, `internal/store/users.go`, `internal/auth` | table `users`, tokens held by clients | register (three modes), login | concurrent registrations, the first-account bootstrap, lost answers |
| Tokens, middleware | `internal/auth/auth.go`, `internal/api/middleware.go`, `router.go` | none on the server | `withAuth`, logging, CORS, request ids | expiry against sessions the client believes in |
| Catalog | `internal/store/{tracks,albums,artists}.go`, their handlers | reads `tracks` | list, group, search, stream, artwork | grouping and ordering rules, 32-bit track numbers, presigned redirects |
| Migrations | `internal/store/store.go`, `server/migrations` | `schema_migrations` | apply in order at start | a crash between files, two servers starting at once |
| Process | `cmd/server/main.go` | environment | start, drain, exit | the ten-second shutdown deadline |
| Client session | `app/src/api/client.ts`, `tokenStore.ts`, `hooks/useAuth.tsx` | React state, module token, persisted token | restore, login, logout, 401 handler | asynchronous storage, answers to requests of an earlier session |
| Client playlist screen | `app/src/app/(tabs)/playlists/[id].tsx` | optimistic order | move, remove, reload | several requests in flight, answers out of order, failures |
| Client player | `hooks/usePlayer.tsx`, `PlayerDock.tsx` | queue, index | play, next, previous, auto-advance | the finished flag against queue changes |
| Client search | `app/(tabs)/search.tsx` | query, results | debounce, fetch | answers to earlier queries |
| Client upload | `app/upload.tsx`, `utils/parseFilename.ts` | list of files | parse, edit, upload one after the other | partial failure of a batch |

The client calls the server over HTTP; requests run concurrently, one goroutine each. The
handlers share nothing in memory but the rate limiter: everything else meets in
PostgreSQL and in the store of objects. The client keeps state of its own that answers
update when they come.

Properties that make each component correct:

* Playlists: membership rows belong to a live playlist and to its owner's tracks;
  concurrent operations have the effect of atomic ones; an order is never half applied;
  every request is answered.
* Ingest: a row always names stored objects; a failure leaves nothing; what the client was
  told stays true; an upload that is read ends, and so does every shutdown.
* Rate limiter: a bound on allowed requests in every window; sweeping is invisible; the map
  does not grow forever.
* Accounts: a token is held by who presented the account's password; conflicts are real;
  the bootstrap admits few, and only at the start.
* Session: device and app agree about who is logged in; a session that was ended stays
  ended; what an upload screen says of its batch is true.
* Catalog: a summary and the listing it leads to agree about every track; what is tapped
  opens, in the order of its tags, with artwork where artwork is promised; no late answer
  takes a screen back.
* Streaming: a player gets the bytes it asked for, of a track of the user whose token it
  has, and not after token and signature have expired; nobody is turned away without a
  reason.
* Migrations: a file takes effect once and is recorded if it did; who serves is migrated;
  starts do not run at the same time, and end.
* Player: one finish leads to one advance; the dock shows what is loaded; the queue goes on.
* Search: the results on the screen are those of the query typed; a query is answered.
* Upload: file names are read as they are meant; tags are overridden only by names somebody
  gave; the album artist groups its batch and no other.
* Playlist screen: when all requests are answered the screen shows the server's order; no
  stale list changes which tracks are in a playlist.

`PROJECT.json` lists the hazards with their lines.

## Modules

| Module | Models | Notes |
|---|---|---|
| `PlaylistStore` | the playlist endpoints, statement by statement | detailed specification |
| `PlaylistMembership` | which tracks are in which playlist, atomically | abstract specification |
| `PlaylistOrder` | a playlist as a sequence, one request at a time | abstract specification |
| `Ingest` | `handleUpload`, `IngestFile`, `FileStorage.Put`, shutdown and crash | |
| `RateLimiter` | `allow`, `sweepLoop` | detailed specification |
| `TokenBucket` | a bucket refilled at every tick and never forgotten | abstract specification |
| `Accounts` | `handleRegister`, `handleLogin`, table `users` | |
| `Session` | `client.ts`, `useAuth.tsx`, `tokenStore.ts`, the upload loop of `upload.tsx`, `withAuth` | |
| `PlaylistScreen` | `playlists/[id].tsx` before a server that keeps a sequence | over `PlaylistOrder` |
| `Migrations` | `RunMigrations` and the start-up of `main.go`, by several processes | |
| `Catalog` | the row an upload leaves and every query over `tracks` | operators, no behaviour of its own |
| `CatalogScreens` | the Albums tab over `Catalog` | |
| `Search` | `search.tsx` and `SearchTracks` over `Catalog` | |
| `UploadPreview` | `parseFilename.ts`, the preview and form of `upload.tsx`, over `Catalog` | |
| `Player` | `usePlayer.tsx` before a native audio player | |
| `Streaming` | `withAuth`, `handleStream`, `handleArtwork`, presigned URLs | |
| `MCClient` | `CatalogScreens`, `Search`, `PlaylistScreen`, `UploadPreview` and `Player` as one client | composition, constants for TLC |
| `MC*` | constants for TLC | |
| `*_proofs` | theorems and proofs | |

### PlaylistStore

One action is one SQL statement, or the part of one between two points at which it can
wait. `owner` and `rows` are the committed tables; `writes` is what a transaction has
written and not committed, which is at the same time the row locks it holds; `lock` is its
lock on the playlist row. The lock modes are those PostgreSQL takes for the statements in
the source: FOR KEY SHARE by the foreign-key check of an INSERT, FOR NO KEY UPDATE by
`touchPlaylist` and `RenamePlaylist`, FOR UPDATE by DELETE. `Blockers` says whom a
statement waits for, `DeadlockAbort` is PostgreSQL's deadlock detector, `Fail` is a
cancelled context or a broken connection at any statement, and `Commit` may take effect
without its answer arriving. A reader of the code finds its functions as sequences of
actions: `AddTrackToPlaylist` is `OwnsPlaylist`, `OwnsTrack`, `EvaluatePosition` (the
subquery of the INSERT), `InsertRow`, `CheckForeignKey`, `TouchPlaylist`, `Commit`;
`ReorderPlaylist` is `OwnsPlaylist`, `ReadMembers`, `UpdatePosition` per track,
`EndOfLoop`, `TouchPlaylist`, `Commit`.

`CreatePlaylist`, a single INSERT, takes effect, fails, or takes effect without an answer.
Names and timestamps are left out, tracks are constant (no endpoint deletes one).

### Ingest

A request goes through the parts of its body (`StageAudio` and `CopyAudio`, `ReadText`,
`RejectBody`, `EndOfBody`: together `ReadBody`), then through `IngestFile` (`Extract`,
`PutAudio`/`RenameAudio`, `PutArtwork`/`RenameArtwork`, `InsertTrack`, and after a failed
INSERT `DeleteAudio` and `DeleteArtwork`; together `Save`). The two differ in what they wait
for: `ReadBody` waits for the client, who may stop sending, as the server sets no
`ReadTimeout` (`main.go:112`), `Save` for disk, object store and database. `Answer` includes
the deferred removal of the staged file. `Faults` says per upload what may go wrong: calls
that fail, and calls that take effect although they report failure. `Kill` is a crash;
`ShutdownTimesOut` is the exit after the ten seconds main gives to `Shutdown`, with uploads
still active. An INSERT on its way may still commit then. Files, objects and rows survive,
nothing sweeps them. A staged file is removed by name, and a second "audio" part overwrites
the name: that none is left (`StagedFilesRemoved`) is said of bodies with one such part; the
others are sent, too.

### RateLimiter

`allow` is one action (it runs under the mutex); `SweepTick` reads the clock and `Sweep`
works under the mutex, so requests come between the two. Time is counted in ticks and
tokens in what one tick refills, so the arithmetic is exact; the rounding of the code's
float64 arithmetic is not modelled. `start` and `spent` belong to an observer who opens a
window whenever he likes and adds up what the requests allowed in it have cost.

### Accounts

A registration checks the form, hashes, looks at the mode (`CheckPolicy`), and inserts:
`CreateFirstUser` evaluates NOT EXISTS on the statement's snapshot, `InsertUser` waits in
the unique index for a pending INSERT of the same email and finds the email free or taken,
`CommitUser` commits, with or without an answer. A hash is represented by the password it
is of. `origin` is a history variable: the mode in which each account was created.
`Restart` is the operator changing `REGISTRATION_OPEN` or `REGISTRATION_INVITE_CODE`.

### Session

A session is the number of its token; `session` stands for the token and the user in React
state and for `authToken` of `client.ts`, which `apply`, `logout` and the launch set
together in one synchronous block. `stored` is the device's copy. On the web `BeginWrite`
changes it or throws; natively the calls of `saveAuth` and `clearAuth` are in `writes`
until `EndWrite`, in any order, or until the app is killed (`Relaunch`). A launch is
`ReadStored` and `Restore`, the two ends of `loadAuth`; until then the screens show nothing,
except the upload screen. A request keeps the token it was sent with; `HandleAnswer` is the
401 branch of `request`, which looks at no token.

`screen` is the upload screen with its status and the failures it shows, `batch` the run of
`confirmUpload` with its local list of failures; the second outlives the first. The screen is
left (`CloseUpload`: Back, or the redirect when there is no session) and opened again while
the loop goes on. `ConfirmUpload` goes as far as the first await; `KeepAwake` is that await,
whose rejection ends `confirmUpload` with the screen still saying "uploading". `NextFile`
takes the answer for one file and sends the next with the token of that moment: the loop
looks at no session. After the last file `Reported` puts the failures on the screen the batch
was confirmed on, if that is still there, and else nowhere. A screen that is opened during a
batch does not confirm one of its own: one batch at a time is considered.

### PlaylistScreen

`shown` is the state of the screen, `order` the server's playlist, `call` the requests.
`Move` and `RemoveTrack` change `shown` and send; the server takes requests in any order; a
write that fails (refused, lost, or served with its answer lost) becomes a reload. The
clean-up of `useFocusEffect` makes the screen ignore the load it belongs to, but never a
reload, as the code drops that clean-up. `Elsewhere` is a write of another device, and also
one this screen gave up that the server was only late with. The server's side is the atomic
behaviour `PlaylistOrder` describes, which `serial` shows of `PlaylistStore`.

### Migrations

A server is a process that starts once with the files of its release; a restart is another
server. `Start`, `Lock` and `CreateTable` are the statements of `RunMigrations` up to the
table, `ListFiles` the directory, then per file `CheckApplied`, `ExecFile`, `RecordVersion`
and `Commit`, the last three in one transaction on a connection that is not the one with the
lock. `StatementFails`, `CommitReplyLost`, `LoseConnection` (the dedicated connection),
`UnlockFails` and `Kill` may happen wherever the code can meet them. The database notices a
dead client later (`DropLockSession`, `DropWorkSession`), and a COMMIT that was sent may
still take effect. `schema` is the order in which files took effect, `recorded` the table.
What a file does is reduced to whether it can run again on a schema that has it.

### Catalog, CatalogScreens, Search, UploadPreview

`Catalog` translates the queries: `Resolve` and `Row` make the row (form, else tags, else a
fallback; NULLs, the default album artist and `int32`), the summaries of GROUP BY are a set,
`AlbumSummary` of each `AlbumOf`, and `Ordered` is ORDER BY: rows that compare equal come in
any order, so a listing is a set of sequences. A name is its place in the collation. `Upload`
hands out any free id, as concurrent inserts commit in another order than that of their ids.
In `CatalogScreens` every focus counts up and sends a load, and the `ignore` flag of an effect
is `Ignored`. In `Search` a run of the effect is numbered: its clean-up cancels the timer and
makes the answer `Ignored`. Queries are model values with the names they are a substring of.
In `UploadPreview` a field may be typed over with any name or number, or a number field with
something that is none; a file name is the sequence of its segments, a segment a name, a
number, or a number and a name; each file carries what the person who named it meant. The loop
of `confirmUpload` is `UploadFile`; its race with the session is in `Session`.

### Player

`queue` and `index` are the hook's state, `shown` the index of the last render, which the
handlers of the dock use. `native` is the audio player: it reports its status in frames
(`Report`, `Finish`), a frame is rendered later (`RenderFrame`), and the effect of that
render runs later again (`RunEffect`), with the queue and index of its render. A press may
come in between; React runs the effect before a second one. Frames are taken to be rendered
one by one, and the report of a finish to be handled before the next finish.

### Streaming

`WithAuth` checks the token of the header or of the query against the secret and the clock;
`Handle` looks the row up for the user of the token and refuses, opens the object, or
redirects to a signed URL. Each call of the handler may fail: an error of `GetTrack` is
answered 404, like a row that is not there (`tracks.go:37-41`, `artwork.go:22-26`), one of the
store 500, unless it says that the object is missing. `answer` keeps, as a history, which call
has failed. `Follow` is a player that uses such a URL at any later time. The server is stopped
and started with another backend, secret or lifetime (`Stop`, `Start`), and time passes
between any two steps. The object store looks at signature and time only; its own failures,
and those of the database in a login or an upload, are left out here, as they deliver nothing.

### MCClient

The five client parts share no state but the catalog, and each needs an instance of its own
to be small. A behaviour of `MCClient` is one of a single part, chosen at the start, so its
runs explore all behaviours of every part on its instance; they do not explore two parts
that work side by side. The module extends `Search` and has the other parts as instances
with the variables of the client; the `.cfg` gives the catalog of the search and of the
upload screen; `LibraryUsers`, `LibraryIds` and `LibraryUploads` are those of the larger one
of the Albums tab.

## What TLC checks

| Run | Instance | Shows |
|---|---|---|
| `membership` | 3 requests at once, 2 users, 3 tracks, 2 playlists | `LockProtocol` (what every transaction may rely on), `OwnedMembership`, and that `PlaylistStore` implements `PlaylistMembership` |
| `reorder` | 3 requests at once, 3 tracks | no mixed numbering is committed (`CommittedOrderWasRequested`), every request is answered although reorders deadlock (`RequestsAnswered`) |
| `serial` | 1 request at a time, 3 tracks, any order as request | `PlaylistStore` implements `PlaylistOrder`: positions with gaps are a sequence |
| `uploads` | 3 uploads: everything may go wrong, everything but a lost answer of the INSERT, only truthful failures | `Consistent` (no row without its objects, no staged file left), `CreatedIsPlayable`, `FailedLeavesNothing`, `SavedUploadsEnd` (an upload whose body is read ends), `ShutdownEnds` |
| `rate_limit` | 2 IPs, bursts of 2 requests, 6 ticks | `RateBound` in every window, implementation of `TokenBucket`, `IdleBucketsSwept` |
| `registration` | 2 requests at once, 3 emails, 2 passwords, all modes | `TokenHolderKnowsPassword`, `TakenIsTaken`, `ClosedBounded` |
| `session` | both platforms, 2 logins, 2 launches, a batch of 2 files beside a screen's request | `SessionConsistent` (`StorageFollowsSession`), `LogoutIsFinal`, `UploadReport`, `LoopAndLaunchEnd` |
| `playlist_screen` | 3 tracks, any initial order, 2 requests in flight | `ScreenConsistent` (`ShownAgrees`), and that the playlist goes on as `PlaylistOrder` says |
| `migrate` | 3 servers of 2 releases, 2 files, one that cannot run twice | `SchemaConsistent` (`RecordMatchesSchema`, `ServesMigrated`), `OneAtATime`, `InReleaseOrder`, `StartUpEnds` |
| `library` | the other client parts, each by itself: 3 uploads by 2 users and 3 loads; 2 queries changed 3 times; 2 batches of up to 2 of 5 files; 2 queues, 4 presses, 3 frames | `CatalogConsistent`, `OpensInOrder`, `NeverBack`, `ShowsTheQuery`, `UploadsAsMeant`, `PlaybackInStep`, `ClientAnswers` |
| `streaming` | 2 users, 2 tracks, 2 starts of 4 configurations, 2 logins, 1 signed URL | `DeliveryConsistent` (`DeliversWhatWasAsked`), `AccessEnds`, `ServesWhatIsStored` |
| `screen_drift` | as `playlist_screen` | `CannotDrift` is violated |

A property such as `OpensInOrder` is a conjunction of named parts, each with a comment of its
own; the type invariant of a module is one of the parts of its first invariant.

Two requests suffice for every race between two transactions; `membership` and `reorder` have
a third for a waiter behind a waiter. Three tracks give two reorders that lock in opposite
order with a row between. Three emails are one more than the requests that can pass the
bootstrap check at once, so a bound that failed would be seen to fail. In `rate_limit` a
bucket is full after four ticks and swept after more than four, so that both happen, and a
bucket is used again after it was swept. `MaxPosition` stands for INTEGER's range and is
reached in `serial`. A session and its successor, a launch that is killed and one that
restores, and a file with another behind it are what the properties of `Session` speak of. In
`migrate` the newer release has a file that sorts before that of the older one, and its second
server finds what the first has left; two servers at work and one that starts again is the
smallest instance with both. In `library` three uploads give two tracks of one album and a
third beside them, of the same title by another artist or of another user; a third load
follows a late answer to the first; three changes of a query give one that is replaced before
its timer, one before its answer, and one that stays; two batches are one and the one its
album artist must not reach; four presses and three frames give a press between each two of
finish, frame, render and effect. In `streaming` a token and a signed URL of each lifetime
expire before the clock ends.

The bounds on what the code leaves open: `MaxTime` on the clock of `RateLimiter`,
`MaxPosition` on positions, `MaxTokens`, `MaxLaunches` and `BatchSize` on the logins,
launches and files of `Session`, `Calls` on the requests in flight of `PlaylistScreen`,
`Ids` on the tracks of `Catalog`, `MaxFocus`, `MaxChanges`, `MaxBatch`, `MaxBatches`,
`MaxEdits`, `MaxPresses` and `MaxFrames` on what the user and the audio player do in the
client, `MaxTime`, `MaxLogins`, `MaxStarts` and `MaxUrls` on `Streaming`. `Half`, above
the numbers a column holds, is 8 where the code's is 2^31.

Symmetry is used where no liveness is checked and the permuted values are interchangeable:
handlers in `membership`; emails, passwords and handlers in `registration`; tracks and
requests in `playlist_screen`; users and tracks in `streaming`. Deadlock is checked where a
component may not stop; `migrate`, `library` and `streaming` end at their bounds (every server
has started, no press, upload or clock tick is left) and say so.

### Disagreements with the documentation

The run `screen_drift` states what a comment says and is violated by what the code does: two
moves in quick succession are two PUTs in flight; served in the other order both succeed and
the screen keeps an order the server does not have, although it "can't drift from the DB"
(`playlists/[id].tsx:49-50`). Likewise when the answer to the load of a focus arrives after
a move.

Ten more configurations each state one such property, and TLC finds each violated
(`tlc -config <configuration> <module>`):

| Configuration | Property | What the code does |
|---|---|---|
| `MCPlaylistStore_StaleReorder.cfg` | `ReorderMatchesMembership` | `ReorderPlaylist` accepts an order that leaves out a track added since it read the membership, although the list "must be exactly the current membership" (`store/playlists.go:206-208`) |
| `MCIngest_LostInsert.cfg` | `LibraryConsistent` | if the INSERT commits and its answer is lost, the clean-up that is to keep "the library and DB ... consistent" (`docs/PHASE-2-upload-and-metadata.md:96`) deletes the objects of a row that stays |
| `MCAccounts_Bootstrap.cfg` | `BootstrapHasOneWinner` | two first registrations with different emails both succeed, although "two concurrent callers can't both win" (`store/users.go:48-49`) |
| `MCMigrations_Unlock.cfg` | `ClosedReleases` | `Close` of a `sql.Conn` gives the session back to the pool: if the explicit unlock fails the server serves with the lock and every later start waits, although "closing the connection releases the lock even if the explicit unlock is skipped" (`store/store.go:46-48`) |
| `MCSession_LateAnswer.cfg` | `OnlyExpiredEnds` | a request is sent, its session expires, the user logs out and in again, and then its 401 arrives and ends the new session, whose token is valid, although the handler is for a token that "expired or was revoked mid-session" (`client.ts:12-13`) |
| `MCSession_Summary.cfg` | `SummaryAtTheEnd` | the session ends in the middle of a batch: the redirect of `upload.tsx:170` unmounts the screen, the loop goes on, and nobody is told what has failed, where "a summary at the end [...] with the failed filenames" is promised (`docs/PHASE-2-upload-and-metadata.md:117`) |
| `MCClient_Skip.cfg` | `AdvanceLeavesFinished` | a track chosen after the previous one has finished, and before that is rendered, is skipped at once; a queue advances "automatically when a track finishes" (`usePlayer.tsx:11-13`) |
| `MCClient_Dock.cfg` | `DockAgrees` | a queue chosen between the render of a finish and its effect: the effect plays from the earlier queue (`usePlayer.tsx:94`) what the dock looks up in the new one (`usePlayer.tsx:37`) |
| `MCClient_Wrap.cfg` | `ListedAsTagged` | `int32(n)` wraps a track number around (`store/tracks.go:161`) that is read as 64 bits (`api/upload.go:127`), and lists it first; listings are to be in the order of track numbers (`store/albums.go:52-53`) |
| `MCClient_Numbered.cfg` | `ReadsFileNames` | "01 - Artist - Title" is read as artist, album, title; the fallback that would drop the number (`parseFilename.ts:47-49`) is not reached for three segments (`parseFilename.ts:32`); `docs/DECISIONS.md:83` admits wrong guesses |

The passing runs check what stays true nevertheless: `RefinesMembership`, `Consistent`
without a lost INSERT, `ClosedBounded`, `StartUpEnds` but for the server that keeps the lock,
`LogoutIsFinal` and `UploadReport` with late answers and lost screens in between,
`PlaybackInStep` but for the effect a press has overtaken, `OpensInOrder` for the numbers a
column holds, and `UploadsAsMeant` for the other patterns.

Met while modelling, without a configuration of their own: two concurrent adds evaluate the
same `MAX(position) + 1`, so the later is not "at the end of the playlist"
(`store/playlists.go:142`); the rest of a batch goes to whoever has logged in meanwhile
(`upload.tsx:151`); a device that cannot be kept awake leaves the upload screen at
"uploading", with nothing sent (`upload.tsx:139`); a stream or artwork of a stored track is
"not found" when the database fails (`tracks.go:37-41`); an upload whose client has stopped
sending keeps its goroutine and its staged file until the connection breaks or the process
ends (`main.go:112`); a second "audio" part in a body leaks the file staged for the first
(`upload.go:86`); a playlist deleted between the two statements of GET `.../tracks` is
answered with an empty list instead of 404 (`api/playlists.go:107-109`); with an invite code
configured the first account needs it, too, where `server/README.md:39` says it is always
allowed (`docs/DECISIONS.md:193` corrects this); the comment at `upload.go:44` speaks of a
rename `IngestFile` no longer does.

## Fairness

* `PlaylistStore`: strong fairness of `Serve(h)`. A goroutine is scheduled, the database
  answers, and PostgreSQL's lock queues are first come first served: a statement that can
  run again and again is not overtaken forever. `Receive` and `Fail` are not fair: clients
  need not come, nothing has to break.
* `Ingest`: weak fairness of every upload's `Save`, whose steps wait for nothing but calls
  that return, and of the end of a shutdown (`Drained`, or `ShutdownTimesOut` when the ten
  seconds are over). `ReadBody` waits for the client and is not fair, so no upload is claimed
  to end before its body is read. A crash is never required.
* `RateLimiter`: weak fairness of `SweepTick` and `Sweep`, the ticker loop and the mutex,
  which is held for a few instructions. The clock and the clients are not fair.
* `Session`: weak fairness of reading the storage: `getItem` returns. The network is not
  fair, as `fetch` is called without a timeout (`client.ts:92`): a server that never answers
  keeps the loop for ever. That the loop ends is therefore claimed under the hypothesis, stated
  in `BatchEnds`, that the calls it waits for are answered or fail. Users and the clock are not
  fair.
* `Migrations`: weak fairness of every server's `Progress`, the next statement of a process
  that runs, and of the database noticing that a client is gone. Nothing has to start, and
  nothing to fail.
* `Search`: weak fairness of the effect, the timer, the server and of answers or failures;
  the client sets no timeout, so that a request ends is asked of the network. `Player`: weak
  fairness of rendering a frame that has come and of running an effect. Nobody has to type
  or to press, and no track to come to its end.
* `Accounts`, `PlaylistScreen`, `CatalogScreens`, `UploadPreview`, `Streaming`: no liveness
  is claimed.

## What is proved

TLAPS proves, for every value of the constants that satisfies the named assumptions (these
describe the environment only: well-typed requests, tracks owned by users, initial playlists
filled by their owners, `Cap <= IdleTTL`):

* `PlaylistStore_proofs`: `TypeCorrect`, `LockingCorrect`, `OwnershipCorrect`,
  `MembershipRefined`. `OwnedMembership` is not inductive: that an INSERT commits into a
  playlist that still exists depends on what its transaction has checked and locked.
  `LockProtocol` adds that, per statement (`HandlerInv`) and between transactions
  (`Exclusion`): a pending write is of a row the transaction holds, a pending insert past
  its foreign-key check holds the playlist, a deletion excludes every other lock and
  commits with all rows written. Each action preserves it; from it every `Commit` is one
  atomic step of `PlaylistMembership` (a reorder and a duplicate add are stutters there).
* `RateLimiter_proofs`: `TypeCorrect`, `RateBounded`, `BucketRefined`. The invariant is
  `LimiterInv`: spent plus level never exceeds burst plus elapsed time (`Paid`), and a
  waiting sweeper's cutoff is at least `IdleTTL` old (`CutoffOld`), so that a swept bucket
  was full. This is where `Cap <= IdleTTL` is needed.
* `Accounts_proofs`: `TypeCorrect`, `TokensHeldByOwners`, `ConflictsAreReal`,
  `ClosedAdmitsFew` (for finitely many handlers). `AccountsInv` says what the unique index
  gives a handler: an account about to be committed does not exist and is nobody else's to
  commit. `ClosedInv` counts accounts bootstrapped and handlers past the check together.

* `Ingest_proofs`: `IngestInvariant`, `LibraryInOrder`, `CreatedStays`,
  `FailedUploadsCleanedUp`. That a row names stored objects depends on what its upload has
  done before the INSERT: `IngestInv` says per step what is staged (`StagingInv`), which
  objects are stored and that `artworkExt` tells (`StorageInv`), when there is a row
  (`RowInv`), and that the clean-up finds all there is if replies are truthful (`CleanupInv`).
* `Migrations_proofs`: `MigrationsInvariant`, `SchemaInOrder`, `LockExcludes`,
  `FilesInOrder`. `MigrationsInv` adds to the properties what an open transaction has done
  (`TxInv`), that the version it has inserted is recorded by nobody else (`VersionInv`), that
  the files a server is through with are recorded (`TodoInv`), and that whoever works has the
  lock or has lost its connection (`LockInv`).
* `Session_proofs`: `SessionInvariant`, `StorageAgrees`, `LogoutsAreFinal`,
  `ReportsAreTrue`. `SessionInv` says what pending writes and the token a launch has read may
  be (`StorageInv`), that nothing is under way before the session is loaded (`LoadingInv`), and
  which request the upload loop waits for and that every file it has passed is stored or noted
  (`LoopInv`), which is what a report is made of.
* `Streaming_proofs`: `StreamingInvariant`, `DeliversInOrder`, and the action properties
  `AccessIsBounded` and `StoredIsServed`. `StreamingInv` says that what a request or a signed
  URL was made of still holds when it is used: rows stay with their user, the token was in
  force, the lifetime is that of some configuration (`UrlInv`), artwork is stored only for
  rows that say so.
* `PlaylistStore_proofs`, over the invariant of `LockingCorrect`: `OrderIsWhole`. It assumes
  that tracks are finitely many and that no request removes one, as the property is about the
  positions of the tracks a playlist started with and means nothing once one has gone.
  `OrderInv` says that these tracks stay (`Kept`), and that a reorder past its loop has
  written, and so locked, all of them with the positions of its order (`ReorderInv`); a
  second reorder that wants any of the rows waits for its commit.
* `PlaylistStore_proofs`, over the same: `SerialRefined`. It assumes one request at a time
  (`OneHandler`), finitely many tracks, and that no playlist starts with a track twice.
  `SerialInv` says that no two tracks of a playlist share a position, that an add still comes
  behind all members when it commits, and that a reorder past its loop has numbered each of
  them. A playlist without shared positions can be listed in exactly one increasing way
  (`SortedLists`, `SortedIsUnique`, by counting the members up to each), so that the list
  after a commit is found by giving it: the old one with a track behind (`AddAppends`) or
  with one left out (`RemoveCloses`). Of concurrent requests it is false: two adds may
  commit with the same position.
* `MCClient_proofs`: `PlaybackStaysInStep` and `SettledSearchShows`, of every behaviour of
  the client. For the first, `PlayerInv` says what the hook has still to hear of: the
  frames, and the closure of the effect that is due. The reports of one finish follow each
  other (`OneFinish`), none has ended while the player still makes them (`Reporting`), and
  while a track plays that an advance has started, what still reports a finish repeats the
  one before (`NoneLeft`): so the next advance needs a new finish. `DockInv` says that a
  closure which no press has overtaken has the present queue and index. For the second,
  `SearchInv` says that a request of the present run of the effect asks for the query that
  run was started with (`RequestInv`), and is answered by matches, all of them or as many as
  the limit admits; a match stays one while uploads go on. That a search returns every match
  that fits rests on a counting argument (`SeqsHaveAll`), as rows come in any order.
* `MCClient_proofs`: `ScreenAgrees` and `OrderRefined`, for any number of tracks and of
  requests in flight. `ShownAgrees` speaks of a screen with nothing in flight; `ScreenInv`
  says what leads there while no request has met another and nobody else has written: at
  most one is in flight (`Alone`), a load of the present focus brings what the server has
  (`LoadsCurrent`), and a write that is not served will be accepted and make the server's
  list what is shown, or has done so (`WritesShown`). The mapping to `PlaylistOrder` is the
  list itself; every step of it comes down to one of three writes (`ServerWrites`), whose
  lists have no repetition, so that a list over the same tracks is a permutation.

* `MCClient_proofs`: `AlbumsOpenInOrder` and `AlbumsNeverBack`, for any users, uploads and
  number of loads in flight. What an old summary promises has to outlive every upload:
  `ScreensInv` says that the tracks of the album have only grown since (`Promised`: at least
  as many, the representative still among them, its artwork still stored), of the list that
  is shown and of every answer on its way; that what is listed of an album is as many of its
  tracks as were promised, in tag order (`Keeps`); and that an answer to the present focus,
  which is not ignored, takes nothing away from what is shown (`RequestInv`, `Grows`). The
  first theorem assumes `NumbersFit`, that the numbers uploaded are some the column holds.
* `MCClient_proofs`: `CatalogStaysConsistent`. Every track is in the listing of exactly one
  album and one artist because its album artist is never blank (`LibraryInv`): a blank one in
  the query of `ListTracksByAlbum` is no condition, and would list the albums of that title
  together. It also states the types of all parts, for which `SearchTyped` is the inductive
  form of the search's.
* `MCClient_proofs`: `UploadsKeepMeaning`, for any tags, edits, batches and failures and any
  names and numbers in the names of the files. `PreviewInv` says that a field nobody has
  edited still is the guess (`RowInv`), that a track of an earlier upload has what its file
  name says, or else what its tags do, and the album artist of its batch (`SentInv`), and that
  a batch has one album artist. The theorem assumes `FilesRecognised`: every name is of a
  pattern that `Recognised` describes, by the places of its names and numbers. That
  `ParseFilename` reads those as they are meant is `NamesAreRead`.

`OtherKinds` in `MCClient` says that the instances of all runs meet the hypotheses
`NumbersFit` and `FilesRecognised`, but for those of `MCClient_Wrap.cfg` and
`MCClient_Numbered.cfg`, which show what happens otherwise.

The assumptions on constants are that sets have the types the modules say, that the parts of
a body are audio, another file or text, that a release has finitely many files, that the
app is launched at least once, that lifetimes of tokens and signed URLs are positive, that
a queue that is played is not empty, that a query is not blank, that the tracks of a
playlist are finitely many and none of them is the value for no track; of the catalog
(`CatalogAssumption`), that the ids and the files to pick from are finitely many, that the
name "Unknown" is not blank, and that what stands for NULL and for unreadable tags is
neither a number nor tags.

Only model-checked: liveness (`RequestsAnswered`, `SavedUploadsEnd`, `ShutdownEnds`,
`IdleBucketsSwept`, `LoopAndLaunchEnd`, `StartUpEnds`, `ClientAnswers`), which is out of the
prover's reach. Every other property of a passing run is the subject of a theorem.

## Not modelled

* The reading of tags and of MIME types, JSON and multipart syntax: data the properties do
  not tell apart.
* Logging, CORS, request ids, the health check and the reading of the environment (but for
  the storage backend and the lifetime of signed URLs): they keep no state.
* HTTP ranges and caching, which are `http.ServeContent`'s and the object store's; how the
  clients of the two object stores are built, which differ in nothing the code relies on.
* Rendering, layout, the seek bar's arithmetic, the list of playlists and the modals: state
  of one render, or of one request with nothing beside it.
* The deployment: configuration of third-party services.
* PostgreSQL, the object store, the operating system's secure storage, React and the native
  audio player are external: modelled as far as the code relies on them.

## Plan

Done: `PlaylistStore` with its two abstractions, `Ingest`, `RateLimiter` over `TokenBucket`,
`Accounts`, `Session`, `PlaylistScreen`, `Migrations`, `Catalog` with `CatalogScreens`,
`Search` and `UploadPreview`, `Player`, `Streaming`; proofs of `PlaylistStore`,
`RateLimiter`, `Accounts`, `Ingest`, `Migrations`, `Session`, `Streaming`, `Player`, `Search`,
`PlaylistScreen`, `CatalogScreens`, `Catalog` and `UploadPreview`.

Nothing of the plan is left. What would come next is the order of a playlist under
concurrent adds: what is promised of two tracks that share a position.
