------------------------------ MODULE Session ------------------------------
(***************************************************************************)
(* The client's session: the token in React state and in api/client.ts     *)
(* (useAuth sets them together), its copy in the device's storage          *)
(* (tokenStore.ts), the requests that carry it, and the upload screen,     *)
(* whose loop goes on when the screen is gone.                             *)
(*                                                                         *)
(* A session is the number of its token; the user in it comes and goes     *)
(* with the token.  Tokens expire in the order they were issued in.        *)
(***************************************************************************)
EXTENDS Naturals

CONSTANTS
  Fetches,      \* requests of the screens that can be in flight at once
  Platforms,    \* of the behaviours considered: a subset of {"web", "native"}
  MaxTokens,    \* bound on the logins and registrations that succeed
  MaxLaunches,  \* bound on the launches of the app
  BatchSize     \* files in an upload batch (without any it cannot be confirmed)

ASSUME SessionAssumption ==
  /\ "upload" \notin Fetches
  /\ Platforms \subseteq {"web", "native"}
  /\ MaxTokens \in Nat
  /\ MaxLaunches \in Nat \ {0}
  /\ BatchSize \in Nat \ {0}

None == 0
Tokens == 1..MaxTokens
Screens == {"login", "register"}
Requests == Fetches \cup {"upload"}
Files == 1..BatchSize

VARIABLES
  platform,  \* "web": storage is synchronous; "native": it is not
  session,   \* token and user of AuthProvider, authToken of client.ts
  load,      \* "unread", "read", "done": isLoading is load # "done"
  found,     \* what loadAuth has read
  busy,      \* the screens whose login or registration is not answered yet
  wire,      \* the authenticated requests
  screen,    \* the upload screen: its status, and the failures it was told of
  batch,     \* confirmUpload: where it is, its file, and its local list of failures
  stored,    \* what the device's storage holds
  writes,    \* saveAuth (a token) and clearAuth (None) calls in progress
  issued,    \* tokens issued by the server so far
  expired,   \* tokens up to this one have expired
  accepted,  \* history: files of the last batch the server has stored
  launches,
  ended,     \* history: the sessions that were ended by logout
  tangled    \* history: the last write of storage overlapped or failed

client == <<session, load, found, busy, wire, screen, batch>>
storage == <<stored, writes, tangled>>
server == <<issued, expired, accepted>>
vars == <<platform, client, storage, server, launches, ended>>

Idle == [state |-> "idle", token |-> None]
NoBatch == [phase |-> "none", at |-> 0, failed |-> {}]
NoScreen == [status |-> "none", failures |-> {}]

Init ==
  /\ platform \in Platforms
  /\ session = None
  /\ load = "unread"
  /\ found = None
  /\ busy = {}
  /\ wire = [r \in Requests |-> Idle]
  /\ screen = NoScreen
  /\ batch = NoBatch
  /\ stored = None
  /\ writes = {}
  /\ issued = 0
  /\ expired = 0
  /\ accepted = {}
  /\ launches = 1
  /\ ended = {}
  /\ tangled = FALSE

-----------------------------------------------------------------------------
(* tokenStore.ts.  localStorage is synchronous and may throw.  SecureStore  *)
(* runs its calls beside each other, so they take effect in any order.      *)
(* Two pending clears are one: the same saves come before or after both.    *)

BeginWrite(t) ==
  IF platform = "web"
  THEN \/ stored' = t /\ tangled' = FALSE /\ UNCHANGED writes
       \/ tangled' = TRUE /\ UNCHANGED <<stored, writes>>
  ELSE /\ writes' = writes \cup {t}
       /\ tangled' = (writes # {} \/ load # "done")
       /\ UNCHANGED stored

EndWrite(t) ==
  /\ t \in writes
  /\ writes' = writes \ {t}
  /\ \/ stored' = t /\ UNCHANGED tangled
     \/ tangled' = TRUE /\ UNCHANGED stored
  /\ UNCHANGED <<platform, client, server, launches, ended>>

\* getItem; anything it throws is caught and counts as "not logged in".
ReadStored ==
  /\ load = "unread"
  /\ load' = "read"
  /\ \/ found' = stored /\ UNCHANGED tangled
     \/ found' = None /\ tangled' = TRUE
  /\ UNCHANGED <<platform, session, busy, wire, screen, batch, stored, writes,
                 server, launches, ended>>

\* The then and finally of the effect in AuthProvider.
Restore ==
  /\ load = "read"
  /\ load' = "done"
  /\ session' = IF found # None THEN found ELSE session
  /\ found' = None
  /\ UNCHANGED <<platform, busy, wire, screen, batch, storage, server, launches, ended>>

-----------------------------------------------------------------------------
(* useAuth.tsx and the screens of (auth).                                   *)

\* Mutant: the storage is not cleared.
LogoutInMemory ==
  /\ session' = None
  /\ ended' = ended \cup ({session} \ {None})
  /\ UNCHANGED storage

Logout ==
  /\ session' = None
  /\ ended' = ended \cup ({session} \ {None})
  /\ BeginWrite(None)

\* The account menu of Header, on every screen behind the login.
PressLogout ==
  /\ load = "done"
  /\ session # None
  /\ Logout
  /\ UNCHANGED <<platform, load, found, busy, wire, screen, batch, server, launches>>

\* A screen of (auth) is shown when nothing is loading and nobody logged in; it
\* has replaced the upload screen.
Submit(s) ==
  /\ load = "done"
  /\ session = None
  /\ screen.status \in {"none", "replaced"}
  /\ s \notin busy
  /\ busy' = busy \cup {s}
  /\ UNCHANGED <<platform, session, load, found, wire, screen, batch, storage, server,
                 launches, ended>>

\* Mutant: the new session is not saved.
ApplyUnsaved(s) ==
  /\ s \in busy
  /\ issued < MaxTokens
  /\ issued' = issued + 1
  /\ session' = issued'
  /\ busy' = busy \ {s}
  /\ UNCHANGED <<platform, load, found, wire, screen, batch, storage, expired, accepted,
                 launches, ended>>

\* The login succeeds, apply puts its result everywhere.
Apply(s) ==
  /\ s \in busy
  /\ issued < MaxTokens
  /\ issued' = issued + 1
  /\ session' = issued'
  /\ busy' = busy \ {s}
  /\ BeginWrite(issued')
  /\ UNCHANGED <<platform, load, found, wire, screen, batch, expired, accepted,
                 launches, ended>>

Refused(s) ==
  /\ s \in busy
  /\ busy' = busy \ {s}
  /\ UNCHANGED <<platform, session, load, found, wire, screen, batch, storage, server,
                 launches, ended>>

-----------------------------------------------------------------------------
(* client.ts: request, with the header authHeaders builds when it is sent.  *)

Sent == [state |-> "sent", token |-> session]

\* A screen of (tabs), shown to who is logged in, fetches.
Fetch(r) ==
  /\ load = "done"
  /\ session # None
  /\ wire[r] = Idle
  /\ wire' = [wire EXCEPT ![r] = Sent]
  /\ UNCHANGED <<platform, session, load, found, busy, screen, batch, storage, server,
                 launches, ended>>

\* ParseToken, as far as expiry goes.
Authorized(r) == wire[r].token > expired

\* The answer on its way to the client, where nobody asks for the token any more.
AnswerTo(r) ==
  [state |-> IF Authorized(r) THEN "ok" ELSE "unauthorized", token |-> None]

\* withAuth, and the handler behind it when it succeeds.
Serve(r) ==
  /\ wire[r].state = "sent"
  /\ wire' = [wire EXCEPT ![r] = AnswerTo(r)]
  /\ accepted' = IF r = "upload" /\ Authorized(r)
                 THEN accepted \cup {batch.at} ELSE accepted
  /\ UNCHANGED <<platform, session, load, found, busy, screen, batch, storage, issued,
                 expired, launches, ended>>

\* What becomes of a request: its answer, or, when the handler fails or the
\* request or its answer is lost, an error.
Outcomes(r) ==
  CASE wire[r].state = "idle" -> {}
    [] wire[r].state = "sent" -> {"failed"}
    [] OTHER                  -> {wire[r].state, "failed"}

\* What request does with it: onUnauthorized on a 401.
HandleAnswer(answer) ==
  IF answer = "unauthorized" THEN Logout ELSE UNCHANGED <<session, storage, ended>>

Receive(r) ==
  /\ \E answer \in Outcomes(r) : HandleAnswer(answer)
  /\ wire' = [wire EXCEPT ![r] = Idle]
  /\ UNCHANGED <<platform, load, found, busy, screen, batch, server, launches>>

-----------------------------------------------------------------------------
(* upload.tsx.  Its screen is outside (tabs) and shown while the session is *)
(* being loaded, too (on the web nothing can happen before it is).  One     *)
(* batch at a time is considered, so a screen that says "uploading" is the  *)
(* one its batch was confirmed on.                                          *)

\* Pushed from the songs, or opened by its address; choosing files and changing
\* their fields is part of "idle".
OpenUpload ==
  /\ screen.status \in {"none", "replaced"}
  /\ load = "done" => session # None
  /\ platform = "web" => load = "done"
  /\ screen' = [status |-> "idle", failures |-> {}]
  /\ UNCHANGED <<platform, session, load, found, busy, wire, batch, storage, server,
                 launches, ended>>

\* The header's Back, also in the middle of a batch; and the Redirect to the login.
CloseUpload ==
  /\ screen.status \notin {"none", "replaced"}
  /\ \/ screen' = NoScreen
     \/ /\ load = "done" /\ session = None
        /\ screen' = [status |-> "replaced", failures |-> {}]
  /\ UNCHANGED <<platform, session, load, found, busy, wire, batch, storage, server,
                 launches, ended>>

\* "Upload more", under the report.
UploadMore ==
  /\ screen.status = "done"
  /\ load = "done" => session # None
  /\ screen' = [status |-> "idle", failures |-> screen.failures]
  /\ UNCHANGED <<platform, session, load, found, busy, wire, batch, storage, server,
                 launches, ended>>

\* confirmUpload, as far as its first await.
ConfirmUpload ==
  /\ screen.status = "idle"
  /\ batch.phase = "none"
  /\ load = "done" => session # None
  /\ screen' = [status |-> "uploading", failures |-> {}]
  /\ batch' = [phase |-> "waking", at |-> 0, failed |-> {}]
  /\ accepted' = {}
  /\ UNCHANGED <<platform, session, load, found, busy, wire, storage, issued, expired,
                 launches, ended>>

\* activateKeepAwakeAsync is outside the try: if it rejects, confirmUpload is over
\* and the screen stays as it is.
KeepAwake ==
  /\ batch.phase = "waking"
  /\ \/ batch' = NoBatch /\ UNCHANGED wire
     \/ /\ batch' = [phase |-> "files", at |-> 1, failed |-> {}]
        /\ wire' = [wire EXCEPT !["upload"] = Sent]
  /\ UNCHANGED <<platform, session, load, found, busy, screen, storage, server,
                 launches, ended>>

\* setFailures and setStatus: they reach the screen if it is still mounted.
Reported(failures) ==
  IF screen.status = "uploading"
  THEN [status |-> "done", failures |-> failures] ELSE screen

\* The loop after a file, given its failures so far and whether that was the last.
Continue(failed, done) ==
  /\ wire' = [wire EXCEPT !["upload"] = IF done THEN Idle ELSE Sent']
  /\ batch' = IF done THEN NoBatch
              ELSE [phase |-> "files", at |-> batch.at + 1, failed |-> failed]
  /\ screen' = IF done THEN Reported(failed) ELSE screen
  /\ UNCHANGED <<platform, load, found, busy, server, launches>>

\* Mutants: only a 401 counts as a failure; a file that failed is tried again.
NextFileUnchecked ==
  \E answer \in Outcomes("upload") :
    /\ HandleAnswer(answer)
    /\ Continue(IF answer = "unauthorized" THEN batch.failed \cup {batch.at}
                ELSE batch.failed,
                batch.at = BatchSize)

NextFileRetried ==
  \E answer \in Outcomes("upload") :
    /\ HandleAnswer(answer)
    /\ IF answer = "ok" THEN Continue(batch.failed, batch.at = BatchSize)
       ELSE /\ wire' = [wire EXCEPT !["upload"] = Sent']
            /\ UNCHANGED <<platform, load, found, busy, screen, batch, server, launches>>

\* The answer for one file, and the request for the next one with the token
\* there is then: the loop catches every error and looks at no session.
NextFile ==
  \E answer \in Outcomes("upload") :
    /\ HandleAnswer(answer)
    /\ Continue(IF answer = "ok" THEN batch.failed ELSE batch.failed \cup {batch.at},
                batch.at = BatchSize)

-----------------------------------------------------------------------------
(* The environment.                                                         *)

Expire ==
  /\ expired < issued
  /\ expired' = expired + 1
  /\ UNCHANGED <<platform, client, storage, issued, accepted, launches, ended>>

\* The app is killed and started again.
Relaunch ==
  /\ launches < MaxLaunches
  /\ launches' = launches + 1
  /\ session' = None
  /\ load' = "unread"
  /\ found' = None
  /\ busy' = {}
  /\ wire' = [r \in Requests |-> Idle]
  /\ screen' = NoScreen
  /\ batch' = NoBatch
  /\ writes' = {}
  /\ tangled' = (tangled \/ writes # {})
  /\ UNCHANGED <<platform, stored, server, ended>>

Upload == KeepAwake \/ Serve("upload") \/ NextFile

Next ==
  \/ \E t \in Tokens \cup {None} : EndWrite(t)
  \/ ReadStored
  \/ Restore
  \/ PressLogout
  \/ \E s \in Screens : Submit(s) \/ Apply(s) \/ Refused(s)
  \/ \E r \in Fetches : Fetch(r) \/ Serve(r) \/ Receive(r)
  \/ OpenUpload \/ CloseUpload \/ UploadMore \/ ConfirmUpload
  \/ Upload
  \/ Expire
  \/ Relaunch

\* Reading the device's storage ends.  Nothing is assumed of the network: fetch is
\* called without a timeout.
Fairness == WF_vars(ReadStored) /\ WF_vars(Restore)

Spec == Init /\ [][Next]_vars /\ Fairness

-----------------------------------------------------------------------------
(* Properties.                                                              *)

RequestType ==
  [state : {"idle", "sent", "ok", "unauthorized"}, token : Tokens \cup {None}]

ScreenType ==
  [status : {"none", "replaced", "idle", "uploading", "done"}, failures : SUBSET Files]

BatchType ==
  [phase : {"none", "waking", "files"}, at : Files \cup {0}, failed : SUBSET Files]

\* Every variable has its type; the loop is at a file of the batch.
TypeOK ==
  /\ platform \in Platforms
  /\ session \in 0..issued
  /\ load \in {"unread", "read", "done"}
  /\ found \in 0..issued
  /\ busy \subseteq Screens
  /\ wire \in [Requests -> RequestType]
  /\ screen \in ScreenType
  /\ batch \in BatchType
  /\ stored \in 0..issued
  /\ writes \subseteq 0..issued
  /\ issued \in 0..MaxTokens
  /\ expired \in 0..issued
  /\ accepted \subseteq Files
  /\ launches \in 0..MaxLaunches
  /\ ended \subseteq 1..issued
  /\ tangled \in BOOLEAN

\* Unless writes of the storage overlapped, failed or were cut off, the device
\* remembers what the app believes, whichever of apply, logout and the 401
\* handler came last.
StorageFollowsSession ==
  load = "done" /\ writes = {} /\ ~tangled => stored = session

\* Device and app agree, and nothing leaves its range.
SessionConsistent == TypeOK /\ StorageFollowsSession

\* Under the same condition a session that was ended never comes back, in this
\* launch or a later one.
LogoutIsFinal == session \in ended => tangled

\* What a screen says of its batch is true.  A screen with a report: every file is
\* stored by the server or among the failures shown, whatever happened to requests
\* and session meanwhile.  A screen at "uploading": its batch is under way, or has
\* not sent anything (the device could not be kept awake).
UploadReport ==
  /\ screen.status = "done" => \A f \in Files : f \in accepted \cup screen.failures
  /\ screen.status = "uploading" /\ batch.phase = "none" => accepted = {}

\* The inductive invariant of the three.  Until the session is loaded there is
\* none, and on the web nothing is under way.
LoadingInv ==
  load # "done" =>
    /\ session = None
    /\ busy = {}
    /\ platform = "web" =>
         /\ \A r \in Requests : wire[r].state = "idle"
         /\ batch.phase = "none"
         /\ screen.status = "none"

\* Storage that nothing has tangled: what is still to be written is the session,
\* and what is to be restored is neither outdated nor ended.
StorageInv ==
  /\ platform = "web" => writes = {}
  /\ ~tangled =>
       /\ session \notin ended
       /\ writes # {} => load = "done" /\ writes = {session}
       /\ load = "read" => found = stored
       /\ load # "done" => stored \notin ended
       /\ load = "done" /\ writes = {} => stored = session

\* The loop has a request under way, for the file it is at, and has stored or
\* noted every file before.
LoopInv ==
  /\ batch.at = 0 <=> wire["upload"].state = "idle"
  /\ batch.phase = "files" <=> batch.at # 0
  /\ batch.phase = "waking" => accepted = {}
  /\ wire["upload"].state = "ok" => batch.at \in accepted
  /\ batch.at # 0 => \A f \in 1..(batch.at - 1) : f \in accepted \cup batch.failed
  /\ batch.phase # "none" => screen.status # "done"
  /\ UploadReport

SessionInv == LoadingInv /\ StorageInv /\ LoopInv

\* A batch ends, also when its session or its screen does, if the calls it waits
\* for are answered or fail: a server that never answers keeps it for ever.
BatchEnds == WF_vars(Upload) => (batch.phase # "none" ~> batch.phase = "none")

\* The app does not stay on its empty first screen.
LaunchCompletes == load # "done" ~> load = "done"

\* Neither loop nor launch hangs by itself.
LoopAndLaunchEnd == BatchEnds /\ LaunchCompletes

\* "Called when any authenticated request comes back 401 -- i.e. the token expired
\* or was revoked mid-session" (client.ts:12-13): an answer ends a session only if
\* that session has expired.
OnlyExpiredEnds ==
  [][session # None /\ session' = None /\ wire' # wire /\ UNCHANGED launches
        => session <= expired]_vars

\* "show a summary at the end [...] with the failed filenames"
\* (PHASE-2-upload-and-metadata.md:117): a batch of which files are stored does not
\* end behind the login screen that has replaced the upload screen.
SummaryAtTheEnd ==
  [][batch.phase = "files" /\ batch'.phase = "none" /\ UNCHANGED launches /\ accepted # {}
        => screen'.status # "replaced"]_vars
=============================================================================
