-------------------------- MODULE Session_proofs --------------------------
(***************************************************************************)
(* Proofs about Session, on both platforms, for any number of requests,    *)
(* logins, launches and files of a batch.                                  *)
(***************************************************************************)
EXTENDS Session, TLAPS

LEMMA InitInv == Init => TypeOK /\ SessionInv
<1> SUFFICES ASSUME Init PROVE TypeOK /\ SessionInv
  OBVIOUS
<1> USE SessionAssumption DEF Init, Idle, NoBatch, NoScreen, None, Requests
<1>1. TypeOK
  <2>1. wire \in [Requests -> RequestType]
    BY DEF RequestType, Tokens
  <2>2. batch \in BatchType /\ screen \in ScreenType
    BY DEF BatchType, ScreenType
  <2>3. launches \in 0..MaxLaunches /\ issued \in 0..MaxTokens
    OBVIOUS
  <2>4. 0 \in 0..0
    OBVIOUS
  <2>5. /\ session \in 0..issued /\ found \in 0..issued /\ stored \in 0..issued
        /\ expired \in 0..issued
    BY <2>4
  <2>6. /\ busy \subseteq Screens /\ writes \subseteq 0..issued /\ accepted \subseteq Files
        /\ ended \subseteq 1..issued
    OBVIOUS
  <2> QED
    BY <2>1, <2>2, <2>3, <2>5, <2>6 DEF TypeOK
<1>2. LoadingInv /\ StorageInv
  BY DEF LoadingInv, StorageInv
<1>3. LoopInv
  BY DEF LoopInv, UploadReport
<1> QED
  BY <1>1, <1>2, <1>3 DEF SessionInv

-----------------------------------------------------------------------------
(* Storage                                                                  *)

LEMMA WriteTyped ==
    ASSUME TypeOK, NEW t \in 0..issued', issued' \in Nat, issued <= issued', BeginWrite(t)
    PROVE  /\ stored' \in 0..issued' /\ writes' \subseteq 0..issued' /\ tangled' \in BOOLEAN
<1>1. stored \in 0..issued' /\ writes \subseteq 0..issued'
  BY SessionAssumption DEF TypeOK
<1>2. CASE platform = "web"
  BY <1>1, <1>2 DEF BeginWrite, TypeOK
<1>3. CASE platform # "web"
  <2>1. stored' = stored /\ writes' = writes \cup {t} /\ tangled' \in BOOLEAN
    BY <1>3 DEF BeginWrite
  <2> QED
    BY <1>1, <2>1
<1> QED
  BY <1>2, <1>3

\* A write that begins alone, with the session loaded, will store the session it
\* is for; any other one is known to tangle the storage.
LEMMA WriteKept ==
    ASSUME TypeOK, StorageInv, NEW t, BeginWrite(t),
           session' = t, t \notin ended', load' = load, platform' = platform,
           platform = "web" => load = "done"
    PROVE  StorageInv'
<1>1. CASE platform = "web"
  BY <1>1 DEF StorageInv, BeginWrite
<1>2. CASE platform # "web"
  BY <1>2 DEF StorageInv, BeginWrite
<1> QED
  BY <1>1, <1>2

\* Ending the session: nobody is logged in, and the storage is being cleared.
LEMMA LogoutTyped ==
    ASSUME TypeOK, Logout, issued' = issued
    PROVE  /\ session' \in 0..issued /\ ended' \subseteq 1..issued
           /\ stored' \in 0..issued /\ writes' \subseteq 0..issued /\ tangled' \in BOOLEAN
<1>1. issued \in Nat
  BY SessionAssumption DEF TypeOK
<1>2. stored' \in 0..issued /\ writes' \subseteq 0..issued /\ tangled' \in BOOLEAN
  BY <1>1, WriteTyped DEF Logout, None
<1> QED
  BY <1>1, <1>2 DEF TypeOK, Logout, None

LEMMA LogoutKept ==
    ASSUME TypeOK, StorageInv, Logout, load' = load, platform' = platform,
           platform = "web" => load = "done"
    PROVE  StorageInv'
<1>1. session' = None /\ None \notin ended'
  BY DEF TypeOK, Logout, None
<1> QED
  BY <1>1, WriteKept DEF Logout

\* What request does with an answer: a logout, or nothing.
LEMMA AnswerTyped ==
    ASSUME TypeOK, NEW answer, HandleAnswer(answer), issued' = issued
    PROVE  /\ session' \in 0..issued /\ ended' \subseteq 1..issued
           /\ stored' \in 0..issued /\ writes' \subseteq 0..issued /\ tangled' \in BOOLEAN
BY LogoutTyped DEF HandleAnswer, storage, TypeOK

LEMMA AnswerKept ==
    ASSUME TypeOK, SessionInv, NEW r \in Requests, wire[r].state # "idle",
           NEW answer, HandleAnswer(answer),
           UNCHANGED <<platform, load, found, busy>>
    PROVE  /\ StorageInv'
           /\ load # "done" => session' = None /\ busy' = {} /\ platform # "web"
<1>1. platform = "web" => load = "done"
  BY DEF SessionInv, LoadingInv
<1>2. CASE Logout
  BY <1>1, <1>2, LogoutKept DEF SessionInv, LoadingInv, Logout
<1>3. CASE UNCHANGED <<session, storage, ended>>
  BY <1>1, <1>3 DEF SessionInv, LoadingInv, StorageInv, storage
<1> QED
  BY <1>2, <1>3 DEF HandleAnswer

-----------------------------------------------------------------------------
(* Types                                                                    *)

\* Requests carry the session they are sent in.
LEMMA SentTyped ==
    ASSUME TypeOK PROVE Sent \in RequestType /\ Idle \in RequestType
BY SessionAssumption DEF TypeOK, Sent, Idle, RequestType, Tokens, None

LEMMA SentLaterTyped ==
    ASSUME TypeOK, session' \in 0..issued PROVE Sent' \in RequestType
BY SessionAssumption DEF TypeOK, Sent, RequestType, Tokens, None

LEMMA NextTyped == ASSUME TypeOK, SessionInv, [Next]_vars PROVE TypeOK'
<1> USE SessionAssumption DEF TypeOK, client, storage, server
<1>1. CASE UNCHANGED vars
  BY <1>1 DEF vars
<1>2. ASSUME NEW t \in Tokens \cup {None}, EndWrite(t) PROVE TypeOK'
  BY <1>2 DEF EndWrite
<1>3. CASE ReadStored \/ Restore
  <2>1. None \in 0..issued
    BY DEF None
  <2>2. found' \in 0..issued /\ session' \in 0..issued
    BY <1>3, <2>1 DEF ReadStored, Restore
  <2> QED
    BY <1>3, <2>2 DEF ReadStored, Restore
<1>4. CASE PressLogout
  BY <1>4, LogoutTyped DEF PressLogout
<1>5. ASSUME NEW s \in Screens, Submit(s) \/ Refused(s) PROVE TypeOK'
  BY <1>5 DEF Submit, Refused
<1>6. ASSUME NEW s \in Screens, Apply(s) PROVE TypeOK'
  <2>1. issued' \in 0..MaxTokens /\ issued' = issued + 1 /\ issued \in Nat
    BY <1>6 DEF Apply
  <2>2. stored' \in 0..issued' /\ writes' \subseteq 0..issued' /\ tangled' \in BOOLEAN
    BY <1>6, <2>1, WriteTyped DEF Apply
  <2>3. session' \in 0..issued' /\ found' \in 0..issued' /\ expired' \in 0..issued'
        /\ ended' \subseteq 1..issued'
    BY <1>6, <2>1 DEF Apply
  <2> QED
    BY <1>6, <2>1, <2>2, <2>3 DEF Apply
<1>7. ASSUME NEW r \in Fetches, Fetch(r) PROVE TypeOK'
  BY <1>7, SentTyped DEF Fetch, Requests
<1>8. ASSUME NEW r \in Requests, Serve(r) PROVE TypeOK'
  <2>1. wire' \in [Requests -> RequestType]
    BY <1>8 DEF Serve, AnswerTo, RequestType
  <2>2. accepted' \subseteq Files
    <3>1. r = "upload" => batch.at \in Files
      BY <1>8 DEF Serve, SessionInv, LoopInv, BatchType
    <3> QED
      BY <1>8, <3>1 DEF Serve
  <2> QED
    BY <1>8, <2>1, <2>2 DEF Serve
<1>9. ASSUME NEW r \in Fetches, Receive(r) PROVE TypeOK'
  <2>1. PICK answer \in Outcomes(r) : HandleAnswer(answer)
    BY <1>9 DEF Receive
  <2>2. wire' \in [Requests -> RequestType]
    BY <1>9, SentTyped DEF Receive
  <2> QED
    BY <1>9, <2>1, <2>2, AnswerTyped DEF Receive
<1>10. CASE OpenUpload \/ CloseUpload \/ UploadMore \/ ConfirmUpload
  <2>1. screen' \in ScreenType
    BY <1>10 DEF OpenUpload, CloseUpload, UploadMore, ConfirmUpload, NoScreen, ScreenType
  <2>2. batch' \in BatchType /\ accepted' \subseteq Files
    BY <1>10 DEF OpenUpload, CloseUpload, UploadMore, ConfirmUpload, NoBatch, BatchType
  <2> QED
    BY <1>10, <2>1, <2>2 DEF OpenUpload, CloseUpload, UploadMore, ConfirmUpload
<1>11. CASE KeepAwake
  <2>1. wire' \in [Requests -> RequestType]
    BY <1>11, SentTyped DEF KeepAwake
  <2>2. batch' \in BatchType
    BY <1>11 DEF KeepAwake, SessionInv, LoopInv, NoBatch, BatchType, Files
  <2> QED
    BY <1>11, <2>1, <2>2 DEF KeepAwake
<1>14. CASE NextFile
  <2>1. PICK answer \in Outcomes("upload") :
            /\ HandleAnswer(answer)
            /\ Continue(IF answer = "ok" THEN batch.failed ELSE batch.failed \cup {batch.at},
                        batch.at = BatchSize)
    BY <1>14 DEF NextFile
  <2>2. UNCHANGED <<platform, load, found, busy, issued, expired, accepted, launches>>
    BY <2>1 DEF Continue
  <2>3. batch.at \in 1..BatchSize
    BY <2>1 DEF SessionInv, LoopInv, Outcomes, BatchType, Files
  <2>4. /\ batch.failed \subseteq Files /\ batch.failed \cup {batch.at} \subseteq Files
        /\ batch.at # BatchSize => batch.at + 1 \in Files
    BY <2>3 DEF BatchType, Files
  <2>5. batch' \in BatchType /\ screen' \in ScreenType
    BY <2>1, <2>4 DEF Continue, Reported, NoBatch, BatchType, ScreenType
  <2>6. /\ session' \in 0..issued /\ ended' \subseteq 1..issued
        /\ stored' \in 0..issued /\ writes' \subseteq 0..issued /\ tangled' \in BOOLEAN
    BY <2>1, <2>2, AnswerTyped
  <2>7. wire' \in [Requests -> RequestType]
    BY <2>1, <2>6, SentTyped, SentLaterTyped DEF Continue
  <2> QED
    BY <2>2, <2>5, <2>6, <2>7
<1>12. CASE Expire
  BY <1>12 DEF Expire
<1>13. CASE Relaunch
  <2>1. wire' \in [Requests -> RequestType]
    BY <1>13, SentTyped DEF Relaunch
  <2> QED
    BY <1>13, <2>1 DEF Relaunch, NoBatch, NoScreen, BatchType, ScreenType, Files, None
<1> QED
  BY <1>1, <1>2, <1>3, <1>4, <1>5, <1>6, <1>7, <1>8, <1>9, <1>10, <1>11, <1>12, <1>13,
     <1>14 DEF Next, Upload, Requests
-----------------------------------------------------------------------------
(* The inductive invariant                                                  *)

LEMMA LoadingAndStorageKept ==
    ASSUME TypeOK, SessionInv, [Next]_vars PROVE LoadingInv' /\ StorageInv'
<1> USE DEF client, storage, server
<1>0. TypeOK /\ LoadingInv /\ StorageInv
  BY DEF SessionInv
<1>1. CASE UNCHANGED vars
  BY <1>0, <1>1 DEF vars, LoadingInv, StorageInv
<1>2. ASSUME NEW t \in Tokens \cup {None}, EndWrite(t) PROVE LoadingInv' /\ StorageInv'
  BY <1>0, <1>2 DEF EndWrite, LoadingInv, StorageInv
<1>3. CASE ReadStored
  BY <1>0, <1>3 DEF ReadStored, LoadingInv, StorageInv
<1>4. CASE Restore
  <2>1. session' = IF found # None THEN found ELSE None
    BY <1>0, <1>4 DEF Restore, LoadingInv
  <2>2. session' = found
    BY <2>1
  <2> QED
    BY <1>0, <1>4, <2>2 DEF Restore, LoadingInv, StorageInv
<1>5. CASE PressLogout
  <2>1. StorageInv'
    BY <1>0, <1>5, LogoutKept DEF PressLogout
  <2> QED
    BY <1>5, <2>1 DEF PressLogout, LoadingInv
<1>6. ASSUME NEW s \in Screens, Submit(s) \/ Refused(s) PROVE LoadingInv' /\ StorageInv'
  BY <1>0, <1>6 DEF Submit, Refused, LoadingInv, StorageInv
<1>7. ASSUME NEW s \in Screens, Apply(s) PROVE LoadingInv' /\ StorageInv'
  <2>1. load = "done" /\ load' = load /\ platform' = platform
    BY <1>0, <1>7 DEF Apply, LoadingInv
  <2>2. session' = issued' /\ issued' \notin ended'
    BY <1>7, SessionAssumption DEF Apply, TypeOK
  <2>3. StorageInv'
    BY <1>0, <1>7, <2>1, <2>2, WriteKept DEF Apply
  <2> QED
    BY <2>1, <2>3 DEF LoadingInv
<1>8. ASSUME NEW r \in Fetches, Fetch(r) PROVE LoadingInv' /\ StorageInv'
  BY <1>0, <1>8 DEF Fetch, LoadingInv, StorageInv
<1>9. ASSUME NEW r \in Requests, Serve(r) PROVE LoadingInv' /\ StorageInv'
  <2>1. platform = "web" => load = "done"
    BY <1>0, <1>9 DEF Serve, LoadingInv
  <2>2. UNCHANGED <<platform, session, load, found, busy, screen, batch, storage, ended>>
    BY <1>9 DEF Serve
  <2> QED
    BY <1>0, <2>1, <2>2 DEF LoadingInv, StorageInv
<1>10. ASSUME NEW r \in Fetches, Receive(r) PROVE LoadingInv' /\ StorageInv'
  <2>1. PICK answer \in Outcomes(r) : HandleAnswer(answer)
    BY <1>10 DEF Receive
  <2>2. wire[r].state # "idle" /\ r \in Requests
    BY <2>1 DEF Outcomes, Requests
  <2>3. /\ StorageInv'
        /\ load # "done" => session' = None /\ busy' = {} /\ platform # "web"
    BY <1>10, <2>1, <2>2, AnswerKept DEF Receive
  <2> QED
    BY <1>10, <2>3 DEF Receive, LoadingInv
<1>11. CASE OpenUpload \/ CloseUpload \/ UploadMore \/ ConfirmUpload
  <2>1. platform = "web" => load = "done"
    BY <1>0, <1>11 DEF OpenUpload, CloseUpload, UploadMore, ConfirmUpload, LoadingInv
  <2> QED
    BY <1>0, <1>11, <2>1
    DEF OpenUpload, CloseUpload, UploadMore, ConfirmUpload, LoadingInv, StorageInv
<1>15. CASE KeepAwake
  <2>1. platform = "web" => load = "done"
    BY <1>0, <1>15 DEF KeepAwake, LoadingInv
  <2> QED
    BY <1>0, <1>15, <2>1 DEF KeepAwake, LoadingInv, StorageInv
<1>12. CASE NextFile
  <2>1. PICK answer \in Outcomes("upload") : HandleAnswer(answer)
    BY <1>12 DEF NextFile
  <2>2. wire["upload"].state # "idle" /\ "upload" \in Requests
    BY <2>1 DEF Outcomes, Requests
  <2>3. UNCHANGED <<platform, load, found, busy>>
    BY <1>12 DEF NextFile, Continue
  <2>4. /\ StorageInv'
        /\ load # "done" => session' = None /\ busy' = {} /\ platform # "web"
    BY <2>1, <2>2, <2>3, AnswerKept
  <2> QED
    BY <2>3, <2>4 DEF LoadingInv
<1>13. CASE Expire
  BY <1>0, <1>13 DEF Expire, LoadingInv, StorageInv
<1>14. CASE Relaunch
  <2>1. None \notin ended
    BY <1>0 DEF TypeOK, None
  <2>2. ~tangled' => stored \notin ended
    BY <1>0, <1>14 DEF Relaunch, StorageInv
  <2> QED
    BY <1>0, <1>14, <2>1, <2>2
    DEF Relaunch, LoadingInv, StorageInv, Idle, NoBatch, NoScreen
<1> QED
  BY <1>1, <1>2, <1>3, <1>4, <1>5, <1>6, <1>7, <1>8, <1>9, <1>10, <1>11, <1>12, <1>13,
     <1>14, <1>15 DEF Next, Upload, Requests

\* Whatever becomes of its requests, the loop accounts for each file it passes,
\* and tells the screen if it is still there.
LEMMA LoopKept == ASSUME TypeOK, SessionInv, [Next]_vars PROVE LoopInv'
<1> USE DEF client, storage, server
<1>1. TypeOK /\ LoopInv /\ "upload" \in Requests /\ "upload" \notin Fetches
  BY SessionAssumption DEF SessionInv, Requests
<1>2. ASSUME batch' = batch, screen' = screen, accepted' = accepted,
             wire'["upload"] = wire["upload"]
      PROVE  LoopInv'
  BY <1>1, <1>2 DEF LoopInv, UploadReport
<1>3. CASE UNCHANGED vars \/ ReadStored \/ Restore \/ PressLogout \/ Expire
  BY <1>2, <1>3 DEF vars, ReadStored, Restore, PressLogout, Expire
<1>4. ASSUME NEW t \in Tokens \cup {None}, EndWrite(t) PROVE LoopInv'
  BY <1>2, <1>4 DEF EndWrite
<1>5. ASSUME NEW s \in Screens, Submit(s) \/ Refused(s) \/ Apply(s) PROVE LoopInv'
  BY <1>2, <1>5 DEF Submit, Refused, Apply
<1>6. ASSUME NEW r \in Fetches, Fetch(r) \/ Receive(r) PROVE LoopInv'
  BY <1>1, <1>2, <1>6 DEF Fetch, Receive, TypeOK
<1>7. ASSUME NEW r \in Fetches, Serve(r) PROVE LoopInv'
  BY <1>1, <1>2, <1>7 DEF Serve, TypeOK
<1>8. CASE Serve("upload")
  <2>1. /\ batch' = batch /\ screen' = screen /\ accepted \subseteq accepted'
        /\ wire["upload"].state = "sent"
        /\ wire'["upload"].state \in {"ok", "unauthorized"}
        /\ wire'["upload"].state = "ok" => batch.at \in accepted'
    BY <1>1, <1>8 DEF Serve, AnswerTo, TypeOK, RequestType
  <2>2. batch.at # 0 /\ batch.phase = "files"
    BY <1>1, <2>1 DEF LoopInv
  <2> QED
    BY <1>1, <2>1, <2>2 DEF LoopInv, UploadReport
<1>9. CASE OpenUpload \/ CloseUpload \/ UploadMore
  <2>1. /\ screen'.status \in {"none", "replaced", "idle"}
        /\ UNCHANGED <<batch, wire, accepted>>
    BY <1>1, <1>9 DEF OpenUpload, CloseUpload, UploadMore, NoScreen, TypeOK, ScreenType
  <2> QED
    BY <1>1, <2>1 DEF LoopInv, UploadReport
<1>12. CASE ConfirmUpload
  <2>1. /\ batch.phase = "none" /\ batch'.phase = "waking" /\ batch'.at = 0
        /\ screen'.status = "uploading" /\ accepted' = {} /\ wire' = wire
    BY <1>12 DEF ConfirmUpload, NoBatch
  <2> QED
    BY <1>1, <2>1 DEF LoopInv, UploadReport
<1>13. CASE KeepAwake
  <2>1. batch.phase = "waking" /\ screen' = screen /\ accepted' = accepted
    BY <1>13 DEF KeepAwake
  <2>2. CASE batch' = NoBatch /\ wire' = wire
    BY <1>1, <2>1, <2>2 DEF LoopInv, UploadReport, NoBatch
  <2>3. CASE batch'.phase = "files" /\ batch'.at = 1 /\ wire'["upload"].state = "sent"
    BY <1>1, <2>1, <2>3 DEF LoopInv, UploadReport
  <2> QED
    BY <1>1, <1>13, <2>2, <2>3 DEF KeepAwake, Sent, TypeOK
<1>10. CASE NextFile
  <2>1. PICK answer \in Outcomes("upload") :
            Continue(IF answer = "ok" THEN batch.failed ELSE batch.failed \cup {batch.at},
                     batch.at = BatchSize)
    BY <1>10 DEF NextFile
  <2> DEFINE failed == IF answer = "ok" THEN batch.failed ELSE batch.failed \cup {batch.at}
  <2>2. /\ batch.at \in Nat /\ batch.at # 0 /\ batch.phase = "files"
        /\ answer = "ok" => batch.at \in accepted
    BY <1>1, <2>1 DEF Outcomes, LoopInv, TypeOK, BatchType, Files
  <2>3. \A f \in 1..batch.at : f = batch.at \/ f \in 1..(batch.at - 1)
    BY <2>2
  <2>4. \A f \in 1..batch.at : f \in accepted \cup failed
    BY <1>1, <2>2, <2>3 DEF LoopInv
  <2>5. accepted' = accepted
    BY <2>1 DEF Continue
  <2>6. CASE batch.at = BatchSize
    <3>1. batch' = NoBatch /\ screen' = Reported(failed) /\ wire'["upload"].state = "idle"
      BY <1>1, <2>1, <2>6 DEF Continue, Idle, TypeOK
    <3>2. screen'.status # "uploading"
      BY <3>1 DEF Reported
    <3>3. screen'.status = "done" => screen'.failures = failed
      BY <1>1, <2>2, <3>1 DEF Reported, LoopInv
    <3> QED
      BY <2>4, <2>5, <2>6, <3>1, <3>2, <3>3 DEF LoopInv, UploadReport, NoBatch, Files
  <2>7. CASE batch.at # BatchSize
    <3>1. /\ wire'["upload"].state = "sent" /\ screen' = screen
          /\ batch'.at = batch.at + 1 /\ batch'.phase = "files" /\ batch'.failed = failed
      BY <1>1, <2>1, <2>7 DEF Continue, Sent, TypeOK
    <3>2. batch'.at - 1 = batch.at /\ batch'.at # 0
      BY <2>2, <3>1
    <3> QED
      BY <1>1, <2>2, <2>4, <2>5, <3>1, <3>2 DEF LoopInv, UploadReport
  <2> QED
    BY <2>6, <2>7
<1>11. CASE Relaunch
  BY <1>1, <1>11 DEF Relaunch, Idle, NoBatch, NoScreen, LoopInv, UploadReport
<1> QED
  BY <1>3, <1>4, <1>5, <1>6, <1>7, <1>8, <1>9, <1>10, <1>11, <1>12, <1>13 DEF Next, Upload

\* Storage that follows the session is not inductive, as what is still to be
\* written or restored decides it; nor is what a screen says of its batch, as the
\* loop knows it before the screen.
THEOREM SessionInvariant == Spec => [](TypeOK /\ SessionInv)
<1>1. Init => TypeOK /\ SessionInv
  BY InitInv
<1>2. TypeOK /\ SessionInv /\ [Next]_vars => (TypeOK /\ SessionInv)'
  BY NextTyped, LoadingAndStorageKept, LoopKept DEF SessionInv
<1> QED
  BY <1>1, <1>2, PTL DEF Spec

-----------------------------------------------------------------------------
(* What follows                                                             *)

\* Unless writes of the device's storage overlapped, failed or were cut off, it
\* holds the session of the app once this is loaded and all writes have ended.
THEOREM StorageAgrees == Spec => []SessionConsistent
<1>1. TypeOK /\ SessionInv => SessionConsistent
  BY DEF SessionInv, StorageInv, SessionConsistent, StorageFollowsSession
<1> QED
  BY <1>1, SessionInvariant, PTL

\* Under the same condition a session that was logged out of is over, also for
\* later launches of the app.
THEOREM LogoutsAreFinal == Spec => []LogoutIsFinal
<1>1. TypeOK /\ SessionInv => LogoutIsFinal
  BY DEF SessionInv, StorageInv, LogoutIsFinal, TypeOK
<1> QED
  BY <1>1, SessionInvariant, PTL

\* What an upload screen says of its batch is true: with its report every file is
\* stored or shown as failed, the last one included, whatever happened to the
\* session; one that stays at "uploading" without a loop has sent nothing.
THEOREM ReportsAreTrue == Spec => []UploadReport
<1>1. TypeOK /\ SessionInv => UploadReport
  BY DEF SessionInv, LoopInv
<1> QED
  BY <1>1, SessionInvariant, PTL
=============================================================================
