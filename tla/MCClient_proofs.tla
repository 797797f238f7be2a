--------------------------- MODULE MCClient_proofs ---------------------------
(***************************************************************************)
(* Proofs about the client.  Its player advances once per finish and its   *)
(* dock follows; a search that has settled shows the query typed; the      *)
(* screen of a playlist agrees with the server whatever requests fail, who *)
(* gets nothing from it but adds, removals and permutations; an album that *)
(* is tapped opens as its summary promised, and no late answer takes it    *)
(* back; summaries and listings agree; and an upload stores what the file  *)
(* name, the tags and the form mean.                                       *)
(***************************************************************************)
EXTENDS MCClient, FiniteSetTheorems, SequenceTheorems, WellFoundedInduction, TLAPS

\* What the player's proofs use of the constants.
LEMMA PlayerConstants ==
    /\ \A q \in Queues : q \in Seq(Play!Tracks) /\ q # <<>>
    /\ NoTrack \notin Play!Tracks
    /\ MaxPresses \in Nat /\ MaxFrames \in Nat \ {0}
BY QueuesAssumption DEF Play!QueuesAssumption

\* A queue is empty or one that is played.
LEMMA QueueTyped ==
    ASSUME NEW q \in {<<>>} \cup Queues
    PROVE  q \in Seq(Play!Tracks) /\ Len(q) \in Nat
<1>1. CASE q = <<>>
  BY <1>1
<1>2. CASE q \in Queues
  BY <1>2, PlayerConstants
<1> QED
  BY <1>1, <1>2

\* An index within a queue is that of a track.
LEMMA TrackTyped ==
    ASSUME NEW q \in {<<>>} \cup Queues, NEW at \in 0 .. Len(q) - 1
    PROVE  Play!TrackAt(q, at) \in Play!Tracks
BY QueueTyped DEF Play!TrackAt

\* What a press leaves of the component.
LEMMA PressTyped ==
    ASSUME Play!TypeOK, NEW at \in Nat, Play!Press(at)
    PROVE  /\ index' \in Nat /\ shown' \in Nat /\ status' \in Play!Frame
           /\ effect' \subseteq Play!Closure
           /\ \A one, two \in effect' : one = two
           /\ dep' \in BOOLEAN /\ advanced' \in BOOLEAN
           /\ frames' \in Seq(Play!Frame) /\ Len(frames') <= MaxFrames
           /\ presses' \in 0 .. MaxPresses
<1>1. effect' \subseteq Play!Closure
  BY DEF Play!TypeOK, Play!Press, Play!Closure
<1>2. \A one, two \in effect' : one = two
  BY DEF Play!TypeOK, Play!Press
<1> QED
  BY <1>1, <1>2, PlayerConstants DEF Play!TypeOK, Play!Press

\* An advance plays the track behind the closure's, if there is one.
LEMMA AdvanceTyped ==
    ASSUME Play!TypeOK, NEW closure \in Play!Closure, Play!Advance(closure)
    PROVE  /\ native' \in Play!Player /\ index' \in Nat
           /\ \/ UNCHANGED <<index, native>>
              \/ /\ Play!HasNext(closure.queue, closure.index)
                 /\ index' = closure.index + 1
                 /\ native' = [track |-> Play!TrackAt(closure.queue, closure.index + 1),
                               phase |-> "playing", reporting |-> FALSE,
                               announced |-> FALSE, auto |-> TRUE]
<1>1. /\ closure.queue \in {<<>>} \cup Queues /\ closure.index \in Nat
      /\ native \in Play!Player /\ index \in Nat
  BY DEF Play!Closure, Play!TypeOK
<1>2. CASE Play!HasNext(closure.queue, closure.index)
  <2>1. Play!PlayAt(closure.queue, closure.index + 1, TRUE) /\ index' = closure.index + 1
    BY <1>2 DEF Play!Advance
  <2>2. closure.index + 1 \in 0 .. Len(closure.queue) - 1
    BY <1>1, <1>2, QueueTyped DEF Play!HasNext
  <2> QED
    BY <1>1, <1>2, <2>1, <2>2, TrackTyped DEF Play!PlayAt, Play!Player
<1>3. CASE ~Play!HasNext(closure.queue, closure.index)
  BY <1>1, <1>3 DEF Play!Advance
<1> QED
  BY <1>2, <1>3

\* The player starts in its types and stays in them.
LEMMA PlayerTypeInit == Play!Init => Play!TypeOK
<1> SUFFICES ASSUME Play!Init PROVE Play!TypeOK
  OBVIOUS
<1>1. native \in Play!Player /\ status \in Play!Frame
  BY DEF Play!Init, Play!Player, Play!Frame
<1>2. frames \in Seq(Play!Frame) /\ Len(frames) = 0
  BY DEF Play!Init
<1>3. 0 <= MaxFrames /\ 0 \in 0 .. MaxPresses
  BY PlayerConstants
<1> QED
  BY <1>1, <1>2, <1>3 DEF Play!Init, Play!TypeOK

\* A frame is queued behind the others.
LEMMA Queued ==
    ASSUME Play!TypeOK, NEW n \in Play!Player, frames' = Append(frames, Play!FrameOf(n))
    PROVE  /\ frames' \in Seq(Play!Frame) /\ Len(frames') = Len(frames) + 1
           /\ \A i \in DOMAIN frames : frames'[i] = frames[i]
           /\ DOMAIN frames' = DOMAIN frames \cup {Len(frames) + 1}
           /\ DOMAIN frames \subseteq 1 .. Len(frames)
           /\ Len(frames) \in Nat
           /\ frames'[Len(frames) + 1].didJustFinish = n.reporting
<1>1. Play!FrameOf(n) \in Play!Frame /\ Play!FrameOf(n).didJustFinish = n.reporting
  BY DEF Play!FrameOf, Play!Frame, Play!Player
<1>2. frames \in Seq(Play!Frame) /\ Len(frames) \in Nat /\ DOMAIN frames = 1 .. Len(frames)
  BY DEF Play!TypeOK
<1> QED
  BY <1>1, <1>2

\* Every step of the player keeps its types.
LEMMA PlayerTypeStep == Play!TypeOK /\ [Play!Next]_(Play!vars) => Play!TypeOK'
<1> SUFFICES ASSUME Play!TypeOK, [Play!Next]_(Play!vars) PROVE Play!TypeOK'
  OBVIOUS
<1>1. CASE Play!PlayQueue
  <2>0. PICK q \in Queues : \E at \in 0 .. Len(q) - 1 :
            Play!Press(at) /\ queue' = q /\ Play!PlayAt(q, at, FALSE)
    BY <1>1 DEF Play!PlayQueue
  <2>1. PICK at \in 0 .. Len(q) - 1 : Play!Press(at) /\ queue' = q /\ Play!PlayAt(q, at, FALSE)
    BY <2>0
  <2>2. at \in Nat /\ native \in Play!Player
    BY <2>1, QueueTyped DEF Play!TypeOK
  <2>3. native' \in Play!Player
    BY <2>1, <2>2, TrackTyped DEF Play!PlayAt, Play!Player
  <2> QED
    BY <2>1, <2>2, <2>3, PressTyped DEF Play!TypeOK
<1>2. CASE Play!PlayNext
  <2>0. shown + 1 \in Nat /\ native \in Play!Player /\ queue \in {<<>>} \cup Queues
    BY <1>2 DEF Play!PlayNext, Play!TypeOK
  <2>1. Play!Press(shown + 1) /\ Play!PlayAt(queue, shown + 1, FALSE) /\ queue' = queue
    BY <1>2, Zenon DEF Play!PlayNext
  <2>2. native' \in Play!Player
    BY <2>0, <2>1, TrackTyped DEF Play!PlayAt, Play!Player
  <2> QED
    BY <2>0, <2>1, <2>2, PressTyped DEF Play!TypeOK
<1>3. CASE Play!PlayPrevious
  <2>0. shown - 1 \in Nat /\ native \in Play!Player /\ queue \in {<<>>} \cup Queues
    BY <1>3 DEF Play!PlayPrevious, Play!TypeOK
  <2>1. Play!Press(shown - 1) /\ Play!PlayAt(queue, shown - 1, FALSE) /\ queue' = queue
    BY <1>3, Zenon DEF Play!PlayPrevious
  <2>2. native' \in Play!Player
    BY <2>0, <2>1, TrackTyped DEF Play!PlayAt, Play!Player
  <2> QED
    BY <2>0, <2>1, <2>2, PressTyped DEF Play!TypeOK
<1>4. CASE Play!TogglePlayPause
  <2>1. Play!Press(index) /\ queue' = queue /\ index \in Nat /\ native \in Play!Player
    BY <1>4 DEF Play!TogglePlayPause, Play!TypeOK
  <2>2. native' \in Play!Player
    BY <1>4, <2>1 DEF Play!TogglePlayPause, Play!Restarted, Play!Player
  <2> QED
    BY <2>1, <2>2, PressTyped DEF Play!TypeOK
<1>5. CASE Play!Seek
  <2>1. Play!Press(index) /\ queue' = queue /\ index \in Nat /\ native \in Play!Player
    BY <1>5 DEF Play!Seek, Play!TypeOK
  <2>2. native' \in Play!Player
    BY <1>5, <2>1 DEF Play!Seek, Play!Restarted, Play!Player
  <2> QED
    BY <2>1, <2>2, PressTyped DEF Play!TypeOK
<1>6. CASE Play!Report \/ Play!Finish
  <2>1. native' \in Play!Player /\ UNCHANGED <<Play!component, presses>> /\ Len(frames) < MaxFrames
    BY <1>6 DEF Play!Report, Play!Finish, Play!TypeOK, Play!Player
  <2>2. frames' = Append(frames, Play!FrameOf(native'))
    BY <1>6 DEF Play!Report, Play!Finish
  <2>3. frames' \in Seq(Play!Frame) /\ Len(frames') = Len(frames) + 1 /\ Len(frames) \in Nat
    BY <2>1, <2>2, Queued
  <2> QED
    BY <2>1, <2>3, PlayerConstants DEF Play!TypeOK, Play!component
<1>7. CASE Play!RenderFrame
  <2>1. Head(frames) \in Play!Frame /\ frames' = Tail(frames) /\ frames' \in Seq(Play!Frame)
        /\ Len(frames') <= MaxFrames
    BY <1>7, PlayerConstants DEF Play!RenderFrame, Play!TypeOK
  <2>2. [queue |-> queue, index |-> index, late |-> FALSE,
         didJustFinish |-> Head(frames).didJustFinish] \in Play!Closure
    BY <2>1 DEF Play!Closure, Play!Frame, Play!TypeOK
  <2> QED
    BY <1>7, <2>1, <2>2 DEF Play!RenderFrame, Play!TypeOK
<1>8. CASE Play!RenderIndex
  BY <1>8 DEF Play!RenderIndex, Play!TypeOK
<1>9. CASE Play!RunEffect
  <2>1. PICK closure \in effect :
            /\ effect' = {}
            /\ dep' = closure.didJustFinish
            /\ \/ UNCHANGED <<index, advanced, native>>
               \/ advanced' = FALSE /\ UNCHANGED <<index, native>>
               \/ advanced' = TRUE /\ Play!Advance(closure)
            /\ UNCHANGED <<queue, shown, status, frames, presses>>
    BY <1>9 DEF Play!RunEffect
  <2>2. closure \in Play!Closure /\ dep' \in BOOLEAN
    BY <2>1 DEF Play!TypeOK, Play!Closure
  <2>3. native' \in Play!Player /\ index' \in Nat /\ advanced' \in BOOLEAN
    BY <2>1, <2>2, AdvanceTyped DEF Play!TypeOK
  <2> QED
    BY <2>1, <2>2, <2>3 DEF Play!TypeOK
<1>10. CASE UNCHANGED Play!vars
  BY <1>10 DEF Play!vars, Play!TypeOK
<1> QED
  BY <1>1, <1>2, <1>3, <1>4, <1>5, <1>6, <1>7, <1>8, <1>9, <1>10 DEF Play!Next

-----------------------------------------------------------------------------
(* One advance per finish                                                   *)

\* A press hears of nothing new, and what it starts is no automatic advance.
LEMMA PressKeepsFinish ==
    ASSUME Play!TypeOK, Play!FinishInv,
           UNCHANGED <<dep, advanced, frames>>,
           \A closure \in effect' :
               \E before \in effect : closure.didJustFinish = before.didJustFinish,
           native'.reporting => native.reporting /\ native'.phase = "finished",
           native'.auto /\ native'.phase # "finished"
               => native.auto /\ native.phase # "finished"
    PROVE  Play!FinishInv'
<1>1. Play!OneFinish'
  BY DEF Play!FinishInv, Play!OneFinish, Play!Fall, Play!Says
<1>2. Play!Reporting'
  BY DEF Play!FinishInv, Play!Reporting, Play!Rise, Play!Says
<1>3. Play!NoneLeft'
  BY DEF Play!FinishInv, Play!NoneLeft, Play!Fall, Play!Says
<1> QED
  BY <1>1, <1>2, <1>3 DEF Play!FinishInv

\* None of the buttons starts, or hears of, an automatic advance.
LEMMA PressFinish ==
    ASSUME Play!TypeOK, Play!FinishInv,
           Play!PlayQueue \/ Play!PlayNext \/ Play!PlayPrevious \/ Play!TogglePlayPause \/ Play!Seek
    PROVE  Play!FinishInv'
<1>1. PICK at : Play!Press(at)
  BY Zenon DEF Play!PlayQueue, Play!PlayNext, Play!PlayPrevious, Play!TogglePlayPause, Play!Seek
<1>2. \A closure \in effect' :
          \E before \in effect : closure.didJustFinish = before.didJustFinish
  BY <1>1 DEF Play!Press, Play!TypeOK, Play!Closure
<1>3. native \in Play!Player /\ (native.reporting => native.phase = "finished")
  BY DEF Play!TypeOK, Play!FinishInv, Play!Reporting
<1>4. /\ native'.reporting => native.reporting /\ native'.phase = "finished"
      /\ native'.auto /\ native'.phase # "finished"
             => native.auto /\ native.phase # "finished"
  <2>1. CASE Play!PlayQueue
    BY <1>3, <2>1 DEF Play!PlayQueue, Play!PlayAt
  <2>2. CASE Play!PlayNext
    BY <1>3, <2>2 DEF Play!PlayNext, Play!PlayAt
  <2>3. CASE Play!PlayPrevious
    BY <1>3, <2>3 DEF Play!PlayPrevious, Play!PlayAt
  <2>4. CASE Play!TogglePlayPause
    BY <1>3, <2>4 DEF Play!TogglePlayPause, Play!Restarted, Play!Player
  <2>5. CASE Play!Seek
    BY <1>3, <2>5 DEF Play!Seek, Play!Restarted, Play!Player
  <2> QED
    BY <2>1, <2>2, <2>3, <2>4, <2>5
<1> QED
  BY <1>1, <1>2, <1>4, PressKeepsFinish DEF Play!Press

\* A further frame repeats what the player reports.
LEMMA ReportFinish ==
    ASSUME Play!TypeOK, Play!FinishInv, Play!Report
    PROVE  Play!FinishInv'
<1>1. /\ native' \in Play!Player /\ frames' = Append(frames, Play!FrameOf(native'))
      /\ UNCHANGED Play!component
      /\ native'.phase = native.phase /\ native'.auto = native.auto
      /\ native'.reporting => native.reporting
  BY DEF Play!Report, Play!TypeOK, Play!Player
<1>2. PICK last \in Nat :
          /\ \A i \in DOMAIN frames' : i \in DOMAIN frames \/ i = last
          /\ \A i \in DOMAIN frames : i \in Nat /\ i < last /\ frames'[i] = frames[i]
          /\ frames'[last].didJustFinish = native'.reporting
  BY <1>1, Queued
<1>3. /\ \A i \in DOMAIN frames : Play!Says(i)' <=> Play!Says(i)
      /\ Play!Says(last)' <=> native'.reporting
  BY <1>2 DEF Play!Says
<1>4. Play!OneFinish'
  BY <1>1, <1>2, <1>3 DEF Play!FinishInv, Play!OneFinish, Play!Fall, Play!Reporting, Play!Rise, Play!component
<1>5. Play!Reporting'
  BY <1>1, <1>2, <1>3 DEF Play!FinishInv, Play!Reporting, Play!Rise, Play!component
<1>6. Play!NoneLeft'
  BY <1>1, <1>2, <1>3 DEF Play!FinishInv, Play!NoneLeft, Play!Reporting, Play!Fall, Play!component
<1> QED
  BY <1>1, <1>4, <1>5, <1>6 DEF Play!FinishInv, Play!component

\* A track finishes when no report of an earlier finish is left.
LEMMA FinishFinish ==
    ASSUME Play!TypeOK, Play!FinishInv, Play!Finish
    PROVE  Play!FinishInv'
<1>1. /\ native' \in Play!Player /\ frames' = Append(frames, Play!FrameOf(native'))
      /\ UNCHANGED Play!component
      /\ native'.phase = "finished" /\ native'.reporting = TRUE
  BY DEF Play!Finish, Play!TypeOK, Play!Player
<1>2. PICK last \in Nat :
          /\ \A i \in DOMAIN frames' : i \in DOMAIN frames \/ i = last
          /\ \A i \in DOMAIN frames : i \in Nat /\ i < last /\ frames'[i] = frames[i]
          /\ frames'[last].didJustFinish = native'.reporting
  BY <1>1, Queued
<1>3. /\ \A i \in DOMAIN frames : ~Play!Says(i)'
      /\ Play!Says(last)'
      /\ \A closure \in effect' : ~closure.didJustFinish
  BY <1>1, <1>2 DEF Play!Says, Play!Finish, Play!component
<1>4. Play!OneFinish' /\ Play!Rise'
  BY <1>2, <1>3 DEF Play!OneFinish, Play!Rise
<1> QED
  BY <1>1, <1>2, <1>3, <1>4 DEF Play!FinishInv, Play!Reporting, Play!NoneLeft, Play!component

\* A render takes the first frame for the closure of its effect.
LEMMA RenderFinish ==
    ASSUME Play!TypeOK, Play!FinishInv, Play!RenderFrame
    PROVE  Play!FinishInv'
<1>1. /\ UNCHANGED <<dep, advanced, native>>
      /\ \A closure \in effect' : closure.didJustFinish = Play!Says(1)
      /\ effect = {} /\ frames' = Tail(frames) /\ frames # <<>>
      /\ frames \in Seq(Play!Frame)
  BY DEF Play!RenderFrame, Play!TypeOK, Play!Says
<1>2. /\ 1 \in DOMAIN frames
      /\ \A i \in DOMAIN frames' :
             i + 1 \in DOMAIN frames /\ i \in Nat \ {0} /\ Play!Says(i)' = Play!Says(i + 1)
  BY <1>1 DEF Play!Says
<1>3. Play!OneFinish'
  <2>1. ASSUME NEW i \in DOMAIN frames', NEW j \in DOMAIN frames', NEW k \in DOMAIN frames',
               i < j, j < k, Play!Says(i)', Play!Says(k)'
        PROVE  Play!Says(j)'
    BY <1>2, <2>1 DEF Play!FinishInv, Play!OneFinish
  <2>2. ASSUME Play!Says(1), NEW i \in DOMAIN frames', NEW j \in DOMAIN frames', i < j, Play!Says(j)'
        PROVE  Play!Says(i)'
    BY <1>2, <2>2 DEF Play!FinishInv, Play!OneFinish
  <2> QED
    BY <1>1, <2>1, <2>2 DEF Play!OneFinish, Play!Fall
<1>4. Play!Reporting'
  BY <1>1, <1>2 DEF Play!FinishInv, Play!Reporting, Play!Rise
<1>5. Play!NoneLeft'
  <2>1. ASSUME native.auto, native.phase # "finished"
        PROVE  /\ \A i, j \in DOMAIN frames' : i < j /\ Play!Says(j)' => Play!Says(i)'
               /\ Play!Says(1) => dep
               /\ ~Play!Says(1) => \A i \in DOMAIN frames' : ~Play!Says(i)'
               /\ ~dep => \A i \in DOMAIN frames' : ~Play!Says(i)'
    BY <1>2, <2>1 DEF Play!FinishInv, Play!NoneLeft, Play!Fall
  <2> QED
    BY <1>1, <2>1 DEF Play!NoneLeft, Play!Fall
<1> QED
  BY <1>1, <1>3, <1>4, <1>5 DEF Play!FinishInv

\* What RunEffect does with the closure of its render.
Runs(closure) ==
    /\ effect' = {} /\ dep' = closure.didJustFinish
    /\ UNCHANGED <<queue, shown, status, frames, presses>>
    /\ \/ /\ closure.didJustFinish => dep
          /\ advanced' = closure.didJustFinish
          /\ UNCHANGED <<index, native>>
       \/ closure.didJustFinish /\ ~dep /\ advanced' = TRUE /\ Play!Advance(closure)

\* The ref is what the effect has last been run for.
LEMMA EffectRuns ==
    ASSUME Play!TypeOK, advanced = dep, Play!RunEffect
    PROVE  \E closure \in effect : Runs(closure)
<1>1. PICK closure \in effect :
        /\ effect' = {}
        /\ dep' = closure.didJustFinish
        /\ IF closure.didJustFinish = dep THEN UNCHANGED <<index, advanced, native>>
           ELSE IF ~closure.didJustFinish
           THEN advanced' = FALSE /\ UNCHANGED <<index, native>>
           ELSE IF advanced THEN UNCHANGED <<index, advanced, native>>
           ELSE advanced' = TRUE /\ Play!Advance(closure)
        /\ UNCHANGED <<queue, shown, status, frames, presses>>
  BY DEF Play!RunEffect
<1>2. closure.didJustFinish \in BOOLEAN /\ dep \in BOOLEAN /\ advanced \in BOOLEAN
  BY DEF Play!TypeOK, Play!Closure
<1>3. CASE closure.didJustFinish = dep
  BY <1>1, <1>2, <1>3 DEF Runs
<1>4. CASE closure.didJustFinish # dep /\ ~closure.didJustFinish
  BY <1>1, <1>2, <1>4 DEF Runs
<1>5. CASE closure.didJustFinish # dep /\ closure.didJustFinish
  <2>1. dep = FALSE /\ advanced = FALSE
    BY <1>2, <1>5
  <2>2. advanced' = TRUE /\ Play!Advance(closure)
    BY <1>1, <1>5, <2>1, Zenon
  <2> QED
    BY <1>1, <1>5, <2>1, <2>2 DEF Runs
<1> QED
  BY <1>2, <1>3, <1>4, <1>5

\* After an advance, what is on its way repeats the finish before it.
LEMMA RunFinish ==
    ASSUME Play!TypeOK, Play!FinishInv, Play!RunEffect
    PROVE  Play!FinishInv'
<1>1. PICK closure \in effect : Runs(closure)
  BY EffectRuns DEF Play!FinishInv
<1>2. closure \in Play!Closure /\ UNCHANGED frames /\ effect' = {} /\ dep' = closure.didJustFinish
  BY <1>1 DEF Runs, Play!TypeOK
<1>3. Play!OneFinish'
  BY <1>2 DEF Play!FinishInv, Play!OneFinish, Play!Says
<1>4. CASE ~closure.didJustFinish \/ dep
  <2>1. UNCHANGED native /\ advanced' = dep'
    BY <1>1, <1>4 DEF Runs
  <2>2. Play!Reporting'
    BY <1>2, <2>1 DEF Play!FinishInv, Play!Reporting, Play!Rise, Play!Says
  <2>3. Play!NoneLeft'
    BY <1>2, <2>1 DEF Play!FinishInv, Play!NoneLeft, Play!Fall, Play!Says
  <2> QED
    BY <1>3, <2>1, <2>2, <2>3 DEF Play!FinishInv
<1>5. CASE closure.didJustFinish /\ ~dep
  <2>1. advanced' = TRUE /\ dep' = TRUE /\ Play!Advance(closure)
    BY <1>1, <1>5 DEF Runs, Play!Closure, Play!TypeOK
  <2>2. UNCHANGED native \/ (native'.reporting = FALSE)
    BY <1>2, <2>1, AdvanceTyped
  <2>3. Play!Fall
    BY <1>5 DEF Play!FinishInv, Play!OneFinish
  <2>4. Play!Reporting'
    BY <1>2, <2>2 DEF Play!FinishInv, Play!Reporting, Play!Rise, Play!Says
  <2>5. Play!NoneLeft'
    BY <1>2, <2>1, <2>3 DEF Play!NoneLeft, Play!Fall, Play!Says
  <2> QED
    BY <1>3, <2>1, <2>4, <2>5 DEF Play!FinishInv
<1> QED
  BY <1>4, <1>5

\* FinishInv is inductive.
LEMMA FinishStep == Play!TypeOK /\ Play!FinishInv /\ [Play!Next]_(Play!vars) => Play!FinishInv'
<1> SUFFICES ASSUME Play!TypeOK, Play!FinishInv, [Play!Next]_(Play!vars) PROVE Play!FinishInv'
  OBVIOUS
<1>1. CASE Play!RenderIndex \/ UNCHANGED Play!vars
  BY <1>1 DEF Play!RenderIndex, Play!vars, Play!FinishInv, Play!OneFinish, Play!Reporting, Play!NoneLeft, Play!Fall, Play!Rise, Play!Says
<1> QED
  BY <1>1, PressFinish, ReportFinish, FinishFinish, RenderFinish, RunFinish DEF Play!Next

-----------------------------------------------------------------------------
(* The dock                                                                 *)

\* A press overtakes the effect that is due.
LEMMA PressDock ==
    ASSUME Play!TypeOK, Play!DockInv, NEW at \in Nat, Play!Press(at),
           \/ at < Len(queue')
           \/ queue' = queue /\ (at < Len(queue) \/ at < index \/ at = index)
    PROVE  Play!DockInv'
<1>1. shown' = at /\ index' = at /\ Len(queue) \in Nat
  BY QueueTyped DEF Play!Press, Play!TypeOK
<1>2. ASSUME NEW closure \in effect'
      PROVE  /\ closure.late
             /\ Play!HasNext(closure.queue, closure.index) => shown' < Len(queue')
  <2>1. PICK before \in effect : closure = [before EXCEPT !.late = TRUE]
    BY <1>2 DEF Play!Press
  <2>2. /\ before \in Play!Closure /\ ~before.late
        /\ before.queue = queue /\ before.index = index /\ index \in Nat
    BY <2>1 DEF Play!Press, Play!TypeOK, Play!DockInv, Play!Closure
  <2>3. closure.late /\ closure.queue = queue /\ closure.index = index
    BY <2>1, <2>2 DEF Play!Closure
  <2> QED
    BY <1>1, <2>2, <2>3 DEF Play!HasNext
<1> QED
  BY <1>1, <1>2 DEF Play!DockInv

\* Every button leaves the handlers' index at one of the queue, or at the present.
LEMMA PressesDock ==
    ASSUME Play!TypeOK, Play!DockInv,
           Play!PlayQueue \/ Play!PlayNext \/ Play!PlayPrevious \/ Play!TogglePlayPause \/ Play!Seek
    PROVE  Play!DockInv'
<1>1. shown \in Nat /\ index \in Nat /\ Len(queue) \in Nat
  BY QueueTyped DEF Play!TypeOK
<1>2. CASE Play!PlayQueue
  <2>1. PICK q \in Queues : \E at \in 0 .. Len(q) - 1 : Play!Press(at) /\ queue' = q
    BY <1>2, Zenon DEF Play!PlayQueue
  <2>2. PICK at \in 0 .. Len(q) - 1 : Play!Press(at) /\ queue' = q
    BY <2>1
  <2>3. at \in Nat /\ at < Len(q) /\ Play!Press(at)
    BY <2>2, QueueTyped
  <2>4. at < Len(queue')
    BY <2>2, <2>3
  <2> QED
    BY <2>3, <2>4, PressDock, Zenon
<1>3. ASSUME Play!PlayNext PROVE Play!DockInv'
  <2>1. Play!Press(shown + 1) /\ queue' = queue
    BY <1>3, Zenon DEF Play!PlayNext
  <2>2. shown + 1 \in Nat /\ shown + 1 < Len(queue)
    BY <1>1, <1>3 DEF Play!PlayNext, Play!HasNext
  <2> QED
    BY <2>1, <2>2, PressDock
<1>4. ASSUME Play!PlayPrevious PROVE Play!DockInv'
  <2>1. Play!Press(shown - 1) /\ queue' = queue
    BY <1>4, Zenon DEF Play!PlayPrevious
  <2>2. shown - 1 \in Nat /\ (shown - 1 < Len(queue) \/ shown - 1 < index)
    BY <1>1, <1>4 DEF Play!PlayPrevious, Play!DockInv
  <2> QED
    BY <2>1, <2>2, PressDock
<1>5. ASSUME Play!TogglePlayPause \/ Play!Seek PROVE Play!DockInv'
  <2>1. Play!Press(index) /\ queue' = queue
    BY <1>5, Zenon DEF Play!TogglePlayPause, Play!Seek
  <2> QED
    BY <1>1, <2>1, PressDock
<1> QED
  BY <1>2, <1>3, <1>4, <1>5

\* DockInv is inductive.
LEMMA DockStep == Play!TypeOK /\ Play!FinishInv /\ Play!DockInv /\ [Play!Next]_(Play!vars) => Play!DockInv'
<1> SUFFICES ASSUME Play!TypeOK, Play!FinishInv, Play!DockInv, [Play!Next]_(Play!vars) PROVE Play!DockInv'
  OBVIOUS
<1>1. CASE Play!Report \/ Play!Finish \/ UNCHANGED Play!vars
  BY <1>1 DEF Play!Report, Play!Finish, Play!component, Play!vars, Play!DockInv
<1>2. CASE Play!RenderFrame
  <2>1. /\ shown' = index' /\ UNCHANGED <<queue, index>>
        /\ \A closure \in effect' : closure.queue = queue /\ closure.index = index
    BY <1>2 DEF Play!RenderFrame
  <2>2. index \in Nat /\ Len(queue) \in Nat
    BY QueueTyped DEF Play!TypeOK
  <2> QED
    BY <2>1, <2>2 DEF Play!DockInv, Play!HasNext
<1>3. CASE Play!RenderIndex
  BY <1>3 DEF Play!RenderIndex, Play!DockInv
<1>4. CASE Play!RunEffect
  <2>1. PICK closure \in effect : Runs(closure)
    BY <1>4, EffectRuns DEF Play!FinishInv
  <2>2. closure \in Play!Closure /\ UNCHANGED <<queue, shown>> /\ effect' = {}
    BY <2>1 DEF Runs, Play!TypeOK
  <2>3. UNCHANGED index \/ Play!HasNext(closure.queue, closure.index)
    BY <2>1, <2>2, AdvanceTyped DEF Runs
  <2> QED
    BY <2>2, <2>3 DEF Play!DockInv
<1> QED
  BY <1>1, <1>2, <1>3, <1>4, PressesDock DEF Play!Next

-----------------------------------------------------------------------------
(* The player                                                               *)

\* The player's invariant holds at the start and after every step.
LEMMA PlayerInit == Play!Init => Play!TypeOK /\ Play!PlayerInv
<1> SUFFICES ASSUME Play!Init PROVE Play!TypeOK /\ Play!PlayerInv
  OBVIOUS
<1>1. Play!FinishInv
  <2>1. frames = <<>> /\ effect = {} /\ dep = FALSE /\ advanced = FALSE
    BY DEF Play!Init
  <2>2. native.reporting = FALSE /\ native.auto = FALSE
    BY DEF Play!Init
  <2>3. \A i : i \notin DOMAIN frames
    BY <2>1
  <2> QED
    BY <2>1, <2>2, <2>3 DEF Play!FinishInv, Play!OneFinish, Play!Reporting, Play!NoneLeft, Play!Fall
<1>2. Play!DockInv
  BY DEF Play!Init, Play!DockInv
<1> QED
  BY <1>1, <1>2, PlayerTypeInit DEF Play!PlayerInv

\* And its invariant.
LEMMA PlayerStep == Play!TypeOK /\ Play!PlayerInv /\ [Play!Next]_(Play!vars) => (Play!TypeOK /\ Play!PlayerInv)'
BY PlayerTypeStep, FinishStep, DockStep DEF Play!PlayerInv

\* A step of the client is one of the player, or leaves the player alone.
LEMMA PlayerSteps ==
    [ClientNext]_clientVars => [Play!Next]_(Play!vars)
BY DEF ClientNext, clientVars, playVars, Play!vars

\* It holds throughout, whatever the other parts do.
LEMMA PlayerInvariance == ClientSpec => [](Play!TypeOK /\ Play!PlayerInv)
<1>1. ClientInit => Play!TypeOK /\ Play!PlayerInv
  BY PlayerInit DEF ClientInit
<1>2. Play!TypeOK /\ Play!PlayerInv
      /\ [ClientNext]_clientVars
      => (Play!TypeOK /\ Play!PlayerInv)'
  BY PlayerStep, PlayerSteps
<1> QED
  BY <1>1, <1>2, PTL DEF ClientSpec

\* A step that advances from a track that an advance started leaves a finished one.
LEMMA OneAdvanceStep ==
    ASSUME Play!TypeOK, Play!PlayerInv, [Play!Next]_(Play!vars), Play!AutoAdvances, native.auto
    PROVE  native.phase = "finished"
<1>1. CASE Play!RunEffect
  <2>1. PICK closure \in effect : Runs(closure)
    BY <1>1, EffectRuns DEF Play!PlayerInv, Play!FinishInv
  <2>2. closure.didJustFinish /\ ~dep
    BY <2>1 DEF Runs, Play!AutoAdvances
  <2> QED
    BY <2>1, <2>2 DEF Play!PlayerInv, Play!FinishInv, Play!NoneLeft
<1>2. CASE ~Play!RunEffect
  <2>1. CASE Play!PlayQueue \/ Play!PlayNext \/ Play!PlayPrevious \/ Play!TogglePlayPause \/ Play!Seek
    <3>1. PICK at : Play!Press(at)
      BY <2>1, Zenon DEF Play!PlayQueue, Play!PlayNext, Play!PlayPrevious, Play!TogglePlayPause, Play!Seek
    <3> QED
      BY <3>1 DEF Play!Press, Play!AutoAdvances
  <2>2. CASE Play!Report \/ Play!Finish \/ Play!RenderFrame \/ Play!RenderIndex \/ UNCHANGED Play!vars
    BY <2>2 DEF Play!Report, Play!Finish, Play!RenderFrame, Play!RenderIndex, Play!vars, Play!component, Play!AutoAdvances
  <2> QED
    BY <1>2, <2>1, <2>2 DEF Play!Next
<1> QED
  BY <1>1, <1>2

\* A step takes the dock from the loaded track only by an overtaken effect.
LEMMA DockFollowsStep ==
    ASSUME Play!TypeOK, Play!PlayerInv, [Play!Next]_(Play!vars), Play!DockAgrees
    PROVE  Play!DockAgrees' \/ \E closure \in effect : closure.late
<1>1. /\ shown \in Nat /\ index \in Nat /\ Len(queue) \in Nat /\ native \in Play!Player
      /\ queue # <<>> => index < Len(queue) /\ native.track = Play!TrackAt(queue, index)
      /\ queue = <<>> => Len(queue) = 0
  BY QueueTyped DEF Play!TypeOK, Play!DockAgrees
<1>2. CASE Play!PlayQueue
  <2>1. PICK q \in Queues : \E at \in 0 .. Len(q) - 1 :
            Play!Press(at) /\ queue' = q /\ Play!PlayAt(q, at, FALSE)
    BY <1>2 DEF Play!PlayQueue
  <2>2. PICK at \in 0 .. Len(q) - 1 : Play!Press(at) /\ queue' = q /\ Play!PlayAt(q, at, FALSE)
    BY <2>1
  <2>3. index' < Len(queue') /\ native'.track = Play!TrackAt(q, at) /\ index' = at
    BY <2>2, QueueTyped DEF Play!Press, Play!PlayAt
  <2> QED
    BY <2>2, <2>3 DEF Play!DockAgrees, Play!TrackAt
<1>3. CASE Play!PlayNext
  <2>1. queue' = queue /\ index' = shown + 1 /\ shown + 1 < Len(queue)
    BY <1>3 DEF Play!PlayNext, Play!Press, Play!HasNext
  <2>2. native'.track = Play!TrackAt(queue, shown + 1)
    BY <1>1, <1>3, <2>1 DEF Play!PlayNext, Play!PlayAt
  <2> QED
    BY <2>1, <2>2 DEF Play!DockAgrees, Play!TrackAt
<1>4. CASE Play!PlayPrevious
  <2>1. queue' = queue /\ index' = shown - 1 /\ shown > 0
    BY <1>4 DEF Play!PlayPrevious, Play!Press
  <2>2. CASE queue # <<>>
    <3>1. shown - 1 \in 0 .. Len(queue) - 1
      BY <1>1, <2>1, <2>2 DEF Play!PlayerInv, Play!DockInv
    <3>2. native'.track = Play!TrackAt(queue, shown - 1)
      BY <1>4, <3>1 DEF Play!PlayPrevious, Play!PlayAt
    <3> QED
      BY <1>1, <2>1, <3>1, <3>2 DEF Play!DockAgrees, Play!TrackAt
  <2> QED
    BY <2>1, <2>2 DEF Play!DockAgrees
<1>5. CASE Play!TogglePlayPause \/ Play!Seek \/ Play!Report \/ Play!Finish
  <2>1. UNCHANGED <<queue, index>>
    BY <1>5 DEF Play!TogglePlayPause, Play!Seek, Play!Press, Play!Report, Play!Finish, Play!component
  <2>2. native'.track = native.track
    BY <1>1, <1>5 DEF Play!TogglePlayPause, Play!Seek, Play!Restarted, Play!Report, Play!Finish, Play!Player
  <2> QED
    BY <2>1, <2>2 DEF Play!DockAgrees, Play!TrackAt
<1>6. CASE Play!RenderFrame \/ Play!RenderIndex \/ UNCHANGED Play!vars
  BY <1>6 DEF Play!RenderFrame, Play!RenderIndex, Play!vars, Play!DockAgrees, Play!TrackAt
<1>7. CASE Play!RunEffect
  <2>1. PICK closure \in effect : Runs(closure)
    BY <1>7, EffectRuns DEF Play!PlayerInv, Play!FinishInv
  <2>2. CASE ~closure.late
    <3>1. closure \in Play!Closure /\ closure.queue = queue /\ closure.index = index
          /\ queue' = queue
      BY <2>1, <2>2 DEF Runs, Play!TypeOK, Play!PlayerInv, Play!DockInv
    <3>2. \/ UNCHANGED <<index, native>>
          \/ /\ Play!HasNext(queue, index) /\ index' = index + 1
             /\ native'.track = Play!TrackAt(queue, index + 1)
      BY <2>1, <3>1, AdvanceTyped DEF Runs
    <3> QED
      BY <1>1, <3>1, <3>2 DEF Play!DockAgrees, Play!TrackAt, Play!HasNext
  <2> QED
    BY <2>1, <2>2
<1> QED
  BY <1>2, <1>3, <1>4, <1>5, <1>6, <1>7 DEF Play!Next

\* One finish leads to one advance, however many frames repeat the report and
\* whatever presses come between a frame, its render and its effect; and the dock
\* shows what is loaded unless an effect that a press has overtaken has run.
THEOREM PlaybackStaysInStep == ClientSpec => PlaybackInStep
<1>1. Play!TypeOK /\ Play!PlayerInv
      /\ [ClientNext]_clientVars
      => /\ [Play!AutoAdvances /\ native.auto => native.phase = "finished"]_(Play!vars)
         /\ [Play!DockAgrees => Play!DockAgrees' \/ \E closure \in effect : closure.late]_(Play!vars)
  BY PlayerSteps, OneAdvanceStep, DockFollowsStep
<1> QED
  BY <1>1, PlayerInvariance, PTL
     DEF ClientSpec, PlaybackInStep, Play!OneAdvancePerFinish, Play!DockFollows

-----------------------------------------------------------------------------
(* What a search is answered                                                *)

\* A sequence of the elements of a finite set has them all.
LEMMA SeqsHaveAll ==
    ASSUME NEW S, IsFiniteSet(S), NEW s \in SetToSeqs(S)
    PROVE  s \in Seq(S) /\ \A x \in S : \E i \in DOMAIN s : s[i] = x
<1> DEFINE D == 1 .. Cardinality(S)
<1>1. Cardinality(S) \in Nat
  BY FS_CardinalityType
<1>2. s \in [D -> S] /\ \A i, j \in D : i # j => s[i] # s[j]
  BY DEF SetToSeqs
<1>3. ASSUME NEW x \in S, \A i \in D : s[i] # x
      PROVE  FALSE
  <2> DEFINE T == S \ {x}
  <2>1. s \in [D -> T]
    BY <1>2, <1>3
  <2>2. IsFiniteSet(T) /\ Cardinality(T) = Cardinality(S) - 1
    BY FS_RemoveElement
  <2>3. IsFiniteSet(D) /\ Cardinality(D) = Cardinality(S)
    BY <1>1, FS_Interval
  <2>4. Cardinality(T) < Cardinality(D)
    BY <1>1, <2>2, <2>3
  <2> HIDE DEF T, D
  <2>5. \E i, j \in D : i # j /\ s[i] = s[j]
    BY <2>1, <2>2, <2>3, <2>4, FS_PigeonHole, Zenon
  <2> QED
    BY <1>2, <2>5
<1>4. s \in Seq(S)
  BY <1>1, <1>2
<1>5. \A x \in S : \E i \in D : s[i] = x
  BY <1>3
<1> QED
  BY <1>2, <1>4, <1>5

\* The least and the greatest of two numbers.
LEMMA MinOfTwo ==
    ASSUME NEW m \in Nat, NEW n \in Nat
    PROVE  Min({m, n}) = IF m <= n THEN m ELSE n
<1> DEFINE least == IF m <= n THEN m ELSE n
<1>1. least \in {m, n} /\ \A y \in {m, n} : least <= y
  OBVIOUS
<1>2. \A x \in {m, n} : (\A y \in {m, n} : x <= y) => x = least
  OBVIOUS
<1> QED
  BY <1>1, <1>2 DEF Min

\* Of a number and one that is not greater, the greatest is the number.
LEMMA MaxOfTwo ==
    ASSUME NEW n \in Nat, NEW m \in 0 .. n
    PROVE  Max({m, n}) = n
<1>1. n \in {m, n} /\ \A y \in {m, n} : n >= y
  OBVIOUS
<1>2. \A x \in {m, n} : (\A y \in {m, n} : x >= y) => x = n
  OBVIOUS
<1> QED
  BY <1>1, <1>2 DEF Max

\* The limit is a number.
LEMMA LimitTyped == Limit \in Nat
BY QueriesAssumption DEF QueriesAssumption

\* LIMIT: all rows, or as many as fit.
LEMMA SearchFits ==
    ASSUME IsFiniteSet(tracks), NEW q, NEW s \in SearchTracks(Me, q)
    PROVE  /\ ToSet(s) \subseteq Matching(Me, q)
           /\ Matching(Me, q) \subseteq ToSet(s) \/ Len(s) = Limit
           /\ Len(s) <= Limit
<1> DEFINE matches == Matching(Me, q)
<1>1. IsFiniteSet(matches)
  <2>1. matches \in SUBSET tracks
    BY DEF Matching, Of
  <2> QED
    BY <2>1, FS_Subset
<1>2. PICK all \in SetToSeqs(matches) : s = SubSeq(all, 1, Min({Limit, Len(all)}))
  BY DEF SearchTracks, Ordered
<1>3. all \in Seq(matches) /\ \A x \in matches : \E i \in DOMAIN all : all[i] = x
  BY <1>1, SeqsHaveAll
<1>4. Limit \in Nat /\ Len(all) \in Nat
  BY <1>3, LimitTyped
<1>5. Min({Limit, Len(all)}) = IF Limit <= Len(all) THEN Limit ELSE Len(all)
  BY <1>4, MinOfTwo
<1> HIDE DEF matches
<1>6. CASE Limit <= Len(all)
  <2>1. s = SubSeq(all, 1, Limit)
    BY <1>2, <1>5, <1>6
  <2>2. s \in Seq(matches) /\ Len(s) = Limit
    BY <1>3, <1>4, <1>6, <2>1
  <2> QED
    BY <2>2 DEF ToSet, matches
<1>7. CASE ~(Limit <= Len(all))
  <2>1. s = SubSeq(all, 1, Len(all))
    BY <1>2, <1>5, <1>7
  <2>2. s = all
    BY <1>3, <2>1
  <2>3. Len(s) <= Limit
    BY <1>4, <1>7, <2>2
  <2> QED
    BY <1>3, <2>2, <2>3 DEF ToSet, matches
<1> QED
  BY <1>4, <1>6, <1>7

\* An answer to the query on the screen is fit to be shown.
LEMMA AnswerShows ==
    ASSUME SearchInv, NEW s \in SearchAnswer(Me, query)
    PROVE  Shows(s, query)
<1>1. CASE query = Blank
  BY <1>1 DEF SearchAnswer, Shows
<1>2. CASE query # Blank
  BY <1>2, SearchFits DEF SearchInv, SearchAnswer, Shows
<1> QED
  BY <1>1, <1>2

-----------------------------------------------------------------------------
(* Search                                                                   *)

\* The search starts in its invariant.
LEMMA SearchInitial == Init => SearchInv
BY FS_EmptySet DEF Init, SearchInv, ShowsTheQuery, Shows

\* An upload adds a track: what matched does still.
LEMMA UploadSearch ==
    ASSUME SearchInv, UploadAny
    PROVE  SearchInv'
<1>1. UNCHANGED <<screen, requests>> /\ \E row : tracks' = tracks \cup {row}
  BY DEF UploadAny, Upload, InsertTrack
<1>2. IsFiniteSet(tracks') /\ tracks \subseteq tracks'
  BY <1>1, FS_AddElement DEF SearchInv
<1>3. \A q : Matching(Me, q) \subseteq Matching(Me, q)'
  BY <1>2 DEF Matching, Of
<1>4. \A list, q : Shows(list, q) => Shows(list, q)'
  BY <1>1, <1>3 DEF Shows, screen
<1>5. ShowsTheQuery'
  BY <1>1, <1>4 DEF SearchInv, ShowsTheQuery, Settled, screen
<1>6. \A r \in requests : RequestInv(r)'
  BY <1>1, <1>4 DEF SearchInv, RequestInv, screen
<1> QED
  BY <1>1, <1>2, <1>3, <1>5, <1>6 DEF SearchInv, screen

\* A changed query is not settled before its effect has run.
LEMMA TypeSearch ==
    ASSUME SearchInv, Type
    PROVE  SearchInv'
<1>1. /\ query' # effectOf
      /\ query' # Blank => known' = Matching(Me, query')
      /\ UNCHANGED <<tracks, effectOf, effects, timer, requests, results, error, ended>>
  BY DEF Type
<1>2. Matching(Me, query') = Matching(Me, query)'
  BY <1>1 DEF Matching, Of
<1>3. \A r \in requests : RequestInv(r)'
  BY <1>1 DEF SearchInv, RequestInv
<1> QED
  BY <1>1, <1>2, <1>3 DEF SearchInv, ShowsTheQuery, Settled

\* A run of the effect leaves every earlier request behind.
LEMMA EffectSearch ==
    ASSUME SearchInv, RunEffect
    PROVE  SearchInv'
<1>1. /\ effectOf' = query /\ effects' = effects + 1
      /\ \/ query = Blank /\ timer' = {} /\ results' = <<>> /\ error' = FALSE /\ ended' = effects'
         \/ query # Blank /\ timer' = {query} /\ UNCHANGED <<results, error, ended>>
      /\ UNCHANGED <<tracks, query, requests, known>>
  BY DEF RunEffect
<1>2. effects \in Nat /\ ended \in 0 .. effects
  BY DEF SearchInv
<1>3. \A r \in requests : RequestInv(r)'
  BY <1>1, <1>2 DEF SearchInv, RequestInv
<1>4. ShowsTheQuery'
  BY <1>1, <1>2 DEF ShowsTheQuery, Settled, Shows
<1>5. query' # Blank => known' \subseteq Matching(Me, query)'
  BY <1>1 DEF SearchInv, Matching, Of
<1> QED
  BY <1>1, <1>2, <1>3, <1>4, <1>5 DEF SearchInv

\* The server: what a request asks for is what the effect ran for.
LEMMA RequestSearch ==
    ASSUME SearchInv, TimerFires \/ Handle
    PROVE  SearchInv'
<1>1. UNCHANGED <<tracks, query, effectOf, effects, results, error, known, ended>>
      /\ timer' \subseteq timer
  BY DEF TimerFires, Handle, screen
<1>2. \A list, q : Shows(list, q)' <=> Shows(list, q)
  BY <1>1 DEF Shows, Matching, Of
<1>3. \A r \in requests : RequestInv(r)'
  BY <1>1, <1>2 DEF SearchInv, RequestInv
<1>4. \A r \in requests' : RequestInv(r)'
  <2>1. CASE TimerFires
    <3>1. PICK r : /\ r \in {[effect |-> effects, query |-> q, answer |-> Null] : q \in timer}
                   /\ requests' = requests \cup {r}
      BY <2>1 DEF TimerFires
    <3>2. RequestInv(r)'
      BY <1>1, <3>1 DEF SearchInv, RequestInv
    <3> QED
      BY <1>3, <3>1, <3>2
  <2>2. CASE Handle
    <3>0. PICK r \in requests : \E s \in SearchAnswer(Me, r.query) :
              requests' = (requests \ {r}) \cup {[r EXCEPT !.answer = s]}
      BY <2>2 DEF Handle
    <3>1. PICK s \in SearchAnswer(Me, r.query) :
              requests' = (requests \ {r}) \cup {[r EXCEPT !.answer = s]}
      BY <3>0
    <3>2. [r EXCEPT !.answer = s] = [effect |-> r.effect, query |-> r.query, answer |-> s]
      BY <3>1 DEF SearchInv, RequestInv
    <3>3. r.effect = effects /\ query = effectOf => Shows(s, query)
      BY <3>1, AnswerShows DEF SearchInv, RequestInv
    <3>4. RequestInv([effect |-> r.effect, query |-> r.query, answer |-> s])'
      BY <1>1, <1>2, <3>1, <3>3 DEF SearchInv, RequestInv
    <3> QED
      BY <1>3, <3>1, <3>2, <3>4
  <2> QED
    BY <2>1, <2>2
<1>5. ShowsTheQuery'
  BY <1>1, <1>2 DEF SearchInv, ShowsTheQuery, Settled
<1>6. query' # Blank => known' \subseteq Matching(Me, query)'
  BY <1>1 DEF SearchInv, Matching, Of
<1> QED
  BY <1>1, <1>4, <1>5, <1>6 DEF SearchInv

\* An answer that is not ignored is of the present run of the effect.
LEMMA AnswerSearch ==
    ASSUME SearchInv, NEW r \in requests, Receive(r) \/ Fail(r)
    PROVE  SearchInv'
<1>1. /\ UNCHANGED <<tracks, query, effectOf, effects, timer, known>>
      /\ requests' \subseteq requests
  BY DEF Receive, Fail
<1>2. /\ RequestInv(r) /\ effects \in Nat /\ ended \in 0 .. effects
      /\ r.effect = effects => Max({ended, r.effect}) = effects
  BY MaxOfTwo DEF SearchInv, RequestInv
<1>3. \A list, q : Shows(list, q)' <=> Shows(list, q)
  BY <1>1 DEF Shows, Matching, Of
<1>4. \/ UNCHANGED <<results, error, ended>>
      \/ error' = TRUE /\ ended' = effects
      \/ /\ r.effect = effects /\ r.answer # Null
         /\ results' = r.answer /\ error' = FALSE /\ ended' = effects
  BY <1>2 DEF Receive, Fail, Ignored
<1>5. ShowsTheQuery'
  BY <1>1, <1>2, <1>3, <1>4 DEF SearchInv, RequestInv, ShowsTheQuery, Settled
<1>6. \A one \in requests' : RequestInv(one)'
  BY <1>1, <1>3 DEF SearchInv, RequestInv
<1>7. query' # Blank => known' \subseteq Matching(Me, query)'
  BY <1>1 DEF SearchInv, Matching, Of
<1> QED
  BY <1>1, <1>2, <1>4, <1>5, <1>6, <1>7 DEF SearchInv

\* SearchInv is inductive.
LEMMA SearchStep == SearchInv /\ Next => SearchInv'
BY UploadSearch, TypeSearch, EffectSearch, RequestSearch, AnswerSearch DEF Next

\* A step that changes nothing the search reads keeps its invariant.
LEMMA SearchUnchanged == SearchInv /\ UNCHANGED vars => SearchInv'
<1> SUFFICES ASSUME SearchInv, UNCHANGED vars
             PROVE  SearchInv'
  OBVIOUS
<1>1. \A list, q : Shows(list, q)' <=> Shows(list, q)
  BY DEF Shows, Matching, Of, vars
<1>2. \A r \in requests' : RequestInv(r)'
  BY <1>1 DEF SearchInv, RequestInv, vars
<1>3. ShowsTheQuery'
  BY <1>1 DEF SearchInv, ShowsTheQuery, Settled, vars
<1>4. query' # Blank => known' \subseteq Matching(Me, query)'
  BY DEF SearchInv, Matching, Of, vars
<1> QED
  BY <1>2, <1>3, <1>4 DEF SearchInv, vars

\* Search holds its invariant while it is the part in use; until then, nothing
\* has been typed.
Searched ==
    IF part = "search" THEN SearchInv ELSE query = Blank /\ results = <<>>

\* It holds throughout, whatever the other parts do.
LEMMA SearchInvariance == ClientSpec => []Searched
<1>1. ClientInit => Searched
  BY SearchInitial DEF ClientInit, Searched, Init
<1>2. Searched /\ [ClientNext]_clientVars => Searched'
  <2> SUFFICES ASSUME Searched, [ClientNext]_clientVars
               PROVE  Searched'
    OBVIOUS
  <2>1. part' = part
    BY DEF ClientNext, clientVars
  <2>2. CASE part = "search" /\ Next
    BY <2>1, <2>2, SearchStep DEF Searched
  <2>3. CASE part # "search" /\ UNCHANGED findVars
    BY <2>1, <2>3 DEF Searched, findVars
  <2>4. CASE UNCHANGED clientVars
    <3>1. UNCHANGED vars
      BY <2>4 DEF clientVars, findVars, vars
    <3>2. SearchInv => SearchInv'
      BY <3>1, SearchUnchanged
    <3> QED
      BY <2>1, <3>1, <3>2 DEF Searched, vars
  <2> QED
    BY <2>2, <2>3, <2>4 DEF ClientNext
<1> QED
  BY <1>1, <1>2, PTL DEF ClientSpec

\* Once the search has settled without an error, the results on the screen are
\* those of the query that is typed: only matches, and every match there was when
\* it was typed unless the limit cuts them off.
THEOREM SettledSearchShows == ClientSpec => []ShowsTheQuery
<1>1. Searched => ShowsTheQuery
  BY DEF Searched, SearchInv, ShowsTheQuery, Shows
<1> QED
  BY <1>1, SearchInvariance, PTL

-----------------------------------------------------------------------------
(* Orders                                                                   *)

\* There are as many places as tracks, at most.
LEMMA NotLonger ==
    ASSUME NEW S, IsFiniteSet(S), NEW n \in Nat, NEW s \in [1 .. n -> S],
           \A i, j \in 1 .. n : s[i] = s[j] => i = j
    PROVE  n <= Cardinality(S)
<1> DEFINE D == 1 .. n
<1>1. Cardinality(S) \in Nat
  BY FS_CardinalityType
<1>2. IsFiniteSet(D) /\ Cardinality(D) = n
  BY FS_Interval
<1>3. SUFFICES ASSUME Cardinality(S) < n PROVE FALSE
  BY <1>1
<1>4. s \in [D -> S] /\ Cardinality(S) < Cardinality(D)
  BY <1>2, <1>3
<1> HIDE DEF D
<1>5. \E i, j \in D : i # j /\ s[i] = s[j]
  BY <1>2, <1>4, FS_PigeonHole
<1> QED
  BY <1>5 DEF D

\* PlaylistScreen has its own instances of these two operators; they say the same.
LEMMA ListSizes == \A S : /\ List!IsFiniteSet(S) <=> IsFiniteSet(S)
                          /\ List!Cardinality(S) = Cardinality(S)
<1>1. \A S : List!IsFiniteSet(S) <=> IsFiniteSet(S)
  BY DEF List!IsFiniteSet, IsFiniteSet
<1>2. \A S : List!Cardinality(S) = Cardinality(S)
  BY Zenon DEF List!Cardinality, Cardinality
<1> QED
  BY <1>1, <1>2

\* An order is a list of tracks without repetition.
LEMMA OrderIs ==
    ASSUME NEW s
    PROVE  s \in List!Orders <=>
               s \in Seq(PlaylistTracks) /\ \A i, j \in 1 .. Len(s) : s[i] = s[j] => i = j
<1>1. IsFiniteSet(PlaylistTracks) /\ Cardinality(PlaylistTracks) \in Nat
  BY ScreenAssumption, ListSizes, FS_CardinalityType DEF List!ScreenAssumption
<1>2. ASSUME s \in List!Orders
      PROVE  s \in Seq(PlaylistTracks) /\ \A i, j \in 1 .. Len(s) : s[i] = s[j] => i = j
  <2>1. PICK n \in 0 .. Cardinality(PlaylistTracks) : s \in [1 .. n -> PlaylistTracks]
    BY <1>2, ListSizes DEF List!Orders
  <2>2. \A i, j \in DOMAIN s : s[i] = s[j] => i = j
    BY <1>2 DEF List!Orders, List!IsInjective
  <2>3. n \in Nat
    BY <1>1, <2>1
  <2>4. s \in Seq(PlaylistTracks) /\ DOMAIN s = 1 .. Len(s)
    BY <2>1, <2>3
  <2> QED
    BY <2>2, <2>4
<1>3. ASSUME s \in Seq(PlaylistTracks), \A i, j \in 1 .. Len(s) : s[i] = s[j] => i = j
      PROVE  s \in List!Orders
  <2>1. Len(s) \in Nat /\ s \in [1 .. Len(s) -> PlaylistTracks]
    BY <1>3
  <2>2. Len(s) <= Cardinality(PlaylistTracks)
    BY <1>1, <1>3, <2>1, NotLonger
  <2>3. Len(s) \in 0 .. Cardinality(PlaylistTracks)
    BY <1>1, <2>1, <2>2
  <2>4. \A i, j \in DOMAIN s : s[i] = s[j] => i = j
    BY <1>3, <2>1
  <2> QED
    BY <2>1, <2>3, <2>4, ListSizes DEF List!Orders, List!IsInjective
<1> QED
  BY <1>2, <1>3

\* A list without the place at.
LEMMA Cut ==
    ASSUME NEW s \in Seq(PlaylistTracks), NEW at \in 1 .. Len(s)
    PROVE  \E t : /\ t = SubSeq(s, 1, at - 1) \o SubSeq(s, at + 1, Len(s))
                  /\ t \in Seq(PlaylistTracks) /\ Len(t) = Len(s) - 1
                  /\ \A i \in 1 .. Len(t) : t[i] = s[IF i < at THEN i ELSE i + 1]
<1>1. PICK front, back, t : /\ front = SubSeq(s, 1, at - 1)
                            /\ back = SubSeq(s, at + 1, Len(s))
                            /\ t = front \o back
  OBVIOUS
<1>2. /\ Len(s) \in Nat /\ {at - 1, at + 1, Len(s), 1} \subseteq Int
      /\ \A i \in 1 .. Len(s) : s[i] \in PlaylistTracks
  OBVIOUS
<1>3. front \in Seq(PlaylistTracks) /\ Len(front) = at - 1 /\ \A i \in 1 .. at - 1 : front[i] = s[i]
  <2>1. \A i \in 1 .. at - 1 : s[i] \in PlaylistTracks
    BY <1>2
  <2>2. /\ front \in Seq(PlaylistTracks)
        /\ Len(front) = IF 1 <= at - 1 THEN (at - 1) - 1 + 1 ELSE 0
        /\ \A i \in 1 .. (at - 1) - 1 + 1 : front[i] = s[1 + i - 1]
    BY <1>1, <1>2, <2>1, SubSeqProperties
  <2> QED
    BY <1>2, <2>2
<1>4. /\ back \in Seq(PlaylistTracks) /\ Len(back) = Len(s) - at
      /\ \A i \in 1 .. Len(s) - at : back[i] = s[at + i]
  <2>1. \A i \in at + 1 .. Len(s) : s[i] \in PlaylistTracks
    BY <1>2
  <2>2. /\ back \in Seq(PlaylistTracks)
        /\ Len(back) = IF at + 1 <= Len(s) THEN Len(s) - (at + 1) + 1 ELSE 0
        /\ \A i \in 1 .. Len(s) - (at + 1) + 1 : back[i] = s[(at + 1) + i - 1]
    BY <1>1, <1>2, <2>1, SubSeqProperties
  <2>3. Len(back) = Len(s) - at
    BY <1>2, <2>2
  <2>4. ASSUME NEW i \in 1 .. Len(s) - at
        PROVE  back[i] = s[at + i]
    <3>1. i \in 1 .. Len(s) - (at + 1) + 1 /\ (at + 1) + i - 1 = at + i
      BY <1>2
    <3> QED
      BY <2>2, <3>1
  <2> QED
    BY <2>2, <2>3, <2>4
<1>5. /\ t \in Seq(PlaylistTracks) /\ Len(t) = Len(front) + Len(back)
      /\ \A i \in 1 .. Len(front) + Len(back) :
             t[i] = IF i <= Len(front) THEN front[i] ELSE back[i - Len(front)]
  <2>1. front \in Seq(PlaylistTracks) /\ back \in Seq(PlaylistTracks) /\ t = front \o back
    BY <1>1, <1>3, <1>4
  <2> QED
    BY <2>1, ConcatProperties
<1>6. Len(t) = Len(s) - 1
  BY <1>2, <1>3, <1>4, <1>5
<1>7. ASSUME NEW i \in 1 .. Len(t)
      PROVE  t[i] = s[IF i < at THEN i ELSE i + 1]
  <2>0. t[i] = IF i <= at - 1 THEN front[i] ELSE back[i - (at - 1)]
    BY <1>2, <1>3, <1>4, <1>5
  <2>1. CASE i < at
    BY <1>2, <1>3, <2>0, <2>1
  <2>2. CASE ~(i < at)
    <3>1. i - (at - 1) \in 1 .. Len(s) - at /\ at + (i - (at - 1)) = i + 1
      <4>1. i \in Int /\ 1 <= i /\ i <= Len(s) - 1 /\ at \in Int /\ Len(s) \in Int
        BY <1>2, <1>6
      <4> QED
        BY <2>2, <4>1
    <3>2. t[i] = back[i - (at - 1)]
      BY <2>0, <2>2
    <3>3. back[i - (at - 1)] = s[at + (i - (at - 1))]
      BY <1>4, <3>1
    <3> QED
      BY <2>2, <3>1, <3>2, <3>3
  <2> QED
    BY <2>1, <2>2
<1> QED
  BY <1>1, <1>5, <1>6, <1>7, Zenon

\* The list without one of its tracks.
LEMMA WithoutIs ==
    ASSUME NEW s \in List!Orders, NEW k \in List!Range(s)
    PROVE  \E at \in 1 .. Len(s) :
               /\ s[at] = k
               /\ List!Without(s, k) = SubSeq(s, 1, at - 1) \o SubSeq(s, at + 1, Len(s))
<1>1. s \in Seq(PlaylistTracks) /\ DOMAIN s = 1 .. Len(s)
  BY OrderIs
<1>2. \E at \in DOMAIN s : s[at] = k
  BY DEF List!Range
<1> DEFINE at == CHOOSE i \in DOMAIN s : s[i] = k
<1>3. at \in DOMAIN s /\ s[at] = k
  BY <1>2
<1>4. List!Without(s, k) = SubSeq(s, 1, at - 1) \o SubSeq(s, at + 1, Len(s))
  BY DEF List!Without
<1> HIDE DEF at
<1> QED
  BY <1>1, <1>3, <1>4

\* An order without one of its tracks is an order.
LEMMA WithoutOrder ==
    ASSUME NEW s \in List!Orders, NEW k
    PROVE  List!Without(s, k) \in List!Orders
<1>1. CASE k \notin List!Range(s)
  BY <1>1 DEF List!Without
<1>2. CASE k \in List!Range(s)
  <2>1. /\ s \in Seq(PlaylistTracks) /\ Len(s) \in Nat
        /\ \A i, j \in 1 .. Len(s) : s[i] = s[j] => i = j
    BY OrderIs
  <2>2. PICK at \in 1 .. Len(s) :
            List!Without(s, k) = SubSeq(s, 1, at - 1) \o SubSeq(s, at + 1, Len(s))
    BY <1>2, WithoutIs
  <2>3. PICK t : /\ t = SubSeq(s, 1, at - 1) \o SubSeq(s, at + 1, Len(s))
                 /\ t \in Seq(PlaylistTracks) /\ Len(t) = Len(s) - 1
                 /\ \A i \in 1 .. Len(t) : t[i] = s[IF i < at THEN i ELSE i + 1]
    BY <2>1, Cut, Zenon
  <2>4. /\ t \in Seq(PlaylistTracks) /\ Len(t) = Len(s) - 1
        /\ \A i \in 1 .. Len(t) : t[i] = s[IF i < at THEN i ELSE i + 1]
        /\ t = List!Without(s, k)
    BY <2>2, <2>3, Zenon
  <2>5. ASSUME NEW i \in 1 .. Len(t), NEW j \in 1 .. Len(t), t[i] = t[j]
        PROVE  i = j
    <3> DEFINE m == IF i < at THEN i ELSE i + 1
               n == IF j < at THEN j ELSE j + 1
    <3>1. m \in 1 .. Len(s) /\ n \in 1 .. Len(s)
      BY <2>1, <2>4
    <3>2. s[m] = s[n]
      BY <2>4, <2>5
    <3>3. m = n
      BY <2>1, <3>1, <3>2
    <3> QED
      BY <2>1, <2>4, <3>3
  <2> QED
    BY <2>4, <2>5, OrderIs
<1> QED
  BY <1>1, <1>2

\* So is one with a track appended that it lacked,
LEMMA AppendOrder ==
    ASSUME NEW s \in List!Orders, NEW k \in PlaylistTracks \ List!Range(s)
    PROVE  Append(s, k) \in List!Orders
<1>1. s \in Seq(PlaylistTracks) /\ Len(s) \in Nat /\ \A i, j \in 1 .. Len(s) : s[i] = s[j] => i = j
  BY OrderIs
<1>2. \A i \in 1 .. Len(s) : s[i] # k
  BY <1>1 DEF List!Range
<1> DEFINE t == Append(s, k)
<1>3. t \in Seq(PlaylistTracks) /\ Len(t) = Len(s) + 1
  BY <1>1
<1>4. \A i \in 1 .. Len(t) : t[i] = IF i = Len(t) THEN k ELSE s[i]
  BY <1>1
<1>5. ASSUME NEW i \in 1 .. Len(t), NEW j \in 1 .. Len(t), t[i] = t[j]
      PROVE  i = j
  BY <1>1, <1>2, <1>3, <1>4, <1>5
<1> QED
  BY <1>3, <1>5, OrderIs

\* and one with two places swapped, which has the same tracks.
LEMMA SwappedOrder ==
    ASSUME NEW s \in List!Orders, NEW i \in DOMAIN s, NEW j \in DOMAIN s
    PROVE  /\ List!Swapped(s, i, j) \in List!Orders
           /\ List!Range(List!Swapped(s, i, j)) = List!Range(s)
<1>1. /\ s \in Seq(PlaylistTracks) /\ Len(s) \in Nat /\ DOMAIN s = 1 .. Len(s)
      /\ \A m, n \in 1 .. Len(s) : s[m] = s[n] => m = n
  BY OrderIs
<1> DEFINE t == List!Swapped(s, i, j)
<1>2. t \in Seq(PlaylistTracks) /\ Len(t) = Len(s) /\ DOMAIN t = 1 .. Len(s)
  BY <1>1 DEF List!Swapped
<1>3. \A m \in 1 .. Len(s) : t[m] = s[IF m = j THEN i ELSE IF m = i THEN j ELSE m]
  BY <1>1 DEF List!Swapped
<1> HIDE DEF t
<1>4. ASSUME NEW m \in 1 .. Len(t), NEW n \in 1 .. Len(t), t[m] = t[n]
      PROVE  m = n
  BY <1>1, <1>2, <1>3, <1>4
<1>5. t \in List!Orders
  BY <1>2, <1>4, OrderIs
<1>6. List!Range(t) = List!Range(s)
  <2>1. \A x : x \in List!Range(t) <=> \E m \in 1 .. Len(s) : t[m] = x
    BY <1>2 DEF List!Range
  <2>2. \A x : x \in List!Range(s) <=> \E m \in 1 .. Len(s) : s[m] = x
    BY <1>1 DEF List!Range
  <2>3. ASSUME NEW m \in 1 .. Len(s)
        PROVE  (\E n \in 1 .. Len(s) : t[n] = s[m]) /\ (\E n \in 1 .. Len(s) : s[n] = t[m])
    <3> DEFINE n == IF m = j THEN i ELSE IF m = i THEN j ELSE m
    <3>1. n \in 1 .. Len(s) /\ t[n] = s[m] /\ s[n] = t[m]
      BY <1>1, <1>3
    <3> QED
      BY <3>1
  <2>4. \A x : x \in List!Range(t) <=> x \in List!Range(s)
    BY <2>1, <2>2, <2>3
  <2> QED
    BY <2>4
<1> QED
  BY <1>5, <1>6 DEF t

\* Orders of the same tracks are of one length.
LEMMA SameLength ==
    ASSUME NEW s \in List!Orders, NEW t \in List!Orders, List!Range(s) = List!Range(t)
    PROVE  Len(s) = Len(t)
<1>1. ASSUME NEW one \in List!Orders, NEW two \in List!Orders, List!Range(one) = List!Range(two)
      PROVE  Len(one) <= Len(two)
  <2>1. /\ one \in Seq(PlaylistTracks) /\ two \in Seq(PlaylistTracks)
        /\ Len(one) \in Nat /\ Len(two) \in Nat
        /\ DOMAIN one = 1 .. Len(one) /\ DOMAIN two = 1 .. Len(two)
        /\ \A i, j \in 1 .. Len(one) : one[i] = one[j] => i = j
    BY OrderIs
  <2>2. \A i \in 1 .. Len(one) : \E j \in 1 .. Len(two) : two[j] = one[i]
    BY <1>1, <2>1 DEF List!Range
  <2> DEFINE place == [i \in 1 .. Len(one) |-> CHOOSE j \in 1 .. Len(two) : two[j] = one[i]]
  <2>3. \A i \in 1 .. Len(one) : place[i] \in 1 .. Len(two) /\ two[place[i]] = one[i]
    BY <2>2
  <2>4. place \in [1 .. Len(one) -> 1 .. Len(two)]
    BY <2>3
  <2> HIDE DEF place
  <2>5. \A i, j \in 1 .. Len(one) : place[i] = place[j] => i = j
    BY <2>1, <2>3
  <2>6. IsFiniteSet(1 .. Len(two)) /\ Cardinality(1 .. Len(two)) = Len(two)
    <3> DEFINE last == Len(two)
    <3>1. last \in Int /\ 1 \in Int
      BY <2>1
    <3> HIDE DEF last
    <3>2. IsFiniteSet(1 .. last) /\ Cardinality(1 .. last) = IF 1 > last THEN 0 ELSE last - 1 + 1
      BY <3>1, FS_Interval
    <3> QED
      BY <2>1, <3>2 DEF last
  <2> QED
    <3>1. Len(one) <= Cardinality(1 .. Len(two))
      BY <2>1, <2>4, <2>5, <2>6, NotLonger, Zenon
    <3> QED
      BY <2>6, <3>1
<1>2. Len(s) \in Nat /\ Len(t) \in Nat
  BY OrderIs
<1> QED
  BY <1>1, <1>2

-----------------------------------------------------------------------------
(* The screen of a playlist                                                 *)

\* The empty playlist is an order.
LEMMA NoTracks == << >> \in List!Orders
<1>1. << >> \in Seq(PlaylistTracks) /\ \A i : i \notin 1 .. Len(<< >>)
  OBVIOUS
<1> QED
  BY <1>1, OrderIs

\* An order of the same tracks is one PlaylistOrder allows.
LEMMA Permuted ==
    ASSUME NEW s \in List!Orders, NEW t \in List!Orders, List!Range(t) = List!Range(s)
    PROVE  /\ t \in [1 .. Len(s) -> List!ServerOrder!Elements(s)]
           /\ List!ServerOrder!Elements(t) = List!ServerOrder!Elements(s)
<1>1. /\ List!ServerOrder!Elements(t) = List!Range(t)
      /\ List!ServerOrder!Elements(s) = List!Range(s)
  BY DEF List!ServerOrder!Elements, List!Range
<1>2. Len(t) = Len(s)
  BY SameLength
<1>3. t \in Seq(PlaylistTracks) /\ DOMAIN t = 1 .. Len(t)
  BY OrderIs
<1>4. \A i \in DOMAIN t : t[i] \in List!Range(t)
  BY DEF List!Range
<1>5. t \in [DOMAIN t -> List!Range(t)]
  BY <1>3, <1>4
<1> QED
  BY <1>1, <1>2, <1>3, <1>5

\* A request that is not in flight.
LEMMA NoCallTyped == List!NoCall \in List!CallType
BY NoTracks DEF List!NoCall, List!CallType

\* The requests as they are sent, and an answer.
LEMMA CallsTyped ==
    /\ \A ignore \in {"never", "no", "yes"} :
           /\ List!Load(ignore) \in List!CallType
           /\ List!Load(ignore).kind = "load" /\ List!Load(ignore).state = "sent"
           /\ List!Load(ignore).ignore = ignore
    /\ \A s \in List!Orders :
           /\ List!Reorder(s) \in List!CallType
           /\ List!Reorder(s).kind = "write" /\ List!Reorder(s).state = "sent"
           /\ List!Reorder(s).order = s /\ List!Reorder(s).track = NoTrack
           /\ List!Reorder(s).ignore = "never"
    /\ \A k \in PlaylistTracks :
           /\ List!Remove(k) \in List!CallType
           /\ List!Remove(k).kind = "write" /\ List!Remove(k).state = "sent"
           /\ List!Remove(k).track = k
           /\ List!Remove(k).ignore = "never"
BY NoTracks DEF List!NoCall, List!CallType, List!Load, List!Reorder, List!Remove

\* An answer keeps what it is an answer to.
LEMMA AnswerTyped ==
    ASSUME List!TypeOK, NEW r \in Calls, NEW state \in {"done", "failed"}
    PROVE  /\ List!Answered(r, state) \in List!CallType
           /\ List!Answered(r, state).kind = call[r].kind
           /\ List!Answered(r, state).state = state
           /\ List!Answered(r, state).ignore = call[r].ignore
BY NoTracks DEF List!TypeOK, List!NoCall, List!CallType, List!Answered

\* What the server writes is an order.
LEMMA WrittenOrder ==
    ASSUME order \in List!Orders, NEW request \in List!CallType
    PROVE  List!Written(request) \in List!Orders
BY WithoutOrder DEF List!Written, List!CallType

\* Every step of the server's playlist, from the screen or from elsewhere.
ServerWrites ==
    \/ \E request \in List!CallType : List!Accepts(request) /\ order' = List!Written(request)
    \/ \E k \in PlaylistTracks \ List!Range(order) : order' = Append(order, k)
    \/ UNCHANGED order

\* There is no other one.
LEMMA ScreenWrites == List!TypeOK /\ [List!Next]_(List!vars) => ServerWrites
<1> SUFFICES ASSUME List!TypeOK, [List!Next]_(List!vars) PROVE ServerWrites
  OBVIOUS
<1>1. CASE List!Elsewhere
  <2>1. CASE \E request \in {List!Remove(k) : k \in List!Range(order)} \cup
                            {List!Reorder(s) : s \in List!Orders} :
                 List!Accepts(request) /\ order' = List!Written(request)
    <3>1. \A k \in List!Range(order) : k \in PlaylistTracks
      BY OrderIs DEF List!TypeOK, List!Range
    <3>2. {List!Remove(k) : k \in List!Range(order)} \cup
          {List!Reorder(s) : s \in List!Orders} \subseteq List!CallType
      BY <3>1, CallsTyped
    <3> QED
      BY <2>1, <3>2, Zenon DEF ServerWrites
  <2> QED
    BY <1>1, <2>1 DEF List!Elsewhere, ServerWrites
<1>2. ASSUME NEW r \in Calls, List!Serve(r)
      PROVE  ServerWrites
  <2>1. call[r] \in List!CallType
    BY DEF List!TypeOK
  <2> QED
    BY <1>2, <2>1 DEF List!Serve, List!ServeLoad, List!ServeWrite, ServerWrites
<1>3. ASSUME NEW r \in Calls, List!Receive(r)
      PROVE  UNCHANGED order
  BY <1>3 DEF List!Receive, List!ReceiveTracks, List!ReceiveLoadError, List!ReceiveDone, List!Reload
<1>4. ASSUME NEW r \in Calls,
             List!Focus(r) \/ (\E i, j : List!Move(r, i, j)) \/ \E k : List!RemoveTrack(r, k)
      PROVE  UNCHANGED order
  BY <1>4 DEF List!Focus, List!Move, List!RemoveTrack
<1>5. CASE List!Blur \/ UNCHANGED List!vars
  BY <1>5 DEF List!Blur, List!vars, ServerWrites
<1> QED
  BY <1>1, <1>2, <1>3, <1>4, <1>5 DEF List!Next, ServerWrites

\* They keep the server's playlist an order.
LEMMA ServerTyped ==
    ASSUME order \in List!Orders, ServerWrites
    PROVE  order' \in List!Orders
BY WrittenOrder, AppendOrder DEF ServerWrites

\* A write is an add, a removal or a permutation of the abstract playlist.
LEMMA ServerRefines ==
    ASSUME order \in List!Orders, ServerWrites
    PROVE  [List!ServerOrder!Next]_order
<1> DEFINE before == [p \in {"it"} |-> order]
           after == [p \in {"it"} |-> order']
<1>0. order \in Seq(PlaylistTracks) /\ DOMAIN order = 1 .. Len(order) /\ order' \in List!Orders
  BY OrderIs, ServerTyped
<1>1. ASSUME NEW k \in PlaylistTracks \ List!Range(order), order' = Append(order, k)
      PROVE  List!ServerOrder!Add("it", k)
  BY <1>1 DEF List!ServerOrder!Add, List!ServerOrder!Elements, List!Range
<1>2. ASSUME NEW request \in List!CallType, List!Accepts(request),
             order' = List!Written(request), request.track = NoTrack
      PROVE  List!ServerOrder!Reorder("it")
  <2>1. order' \in List!Orders /\ List!Range(order') = List!Range(order)
    BY <1>0, <1>2 DEF List!Accepts, List!Written
  <2>2. PICK next : next = order'
    OBVIOUS
  <2>3. /\ next \in [1 .. Len(order) -> List!ServerOrder!Elements(order)]
        /\ List!ServerOrder!Elements(next) = List!ServerOrder!Elements(order)
    BY <2>1, <2>2, Permuted
  <2>4. [p \in {"it"} |-> order'] = [[p \in {"it"} |-> order] EXCEPT !["it"] = next]
    BY <2>2
  <2> QED
    BY <2>3, <2>4 DEF List!ServerOrder!Reorder
<1>3. ASSUME NEW request \in List!CallType,
             order' = List!Written(request), request.track # NoTrack
      PROVE  UNCHANGED order \/ List!ServerOrder!Remove("it", request.track)
  <2>1. order' = List!Without(order, request.track)
    BY <1>3 DEF List!Written
  <2>2. CASE request.track \notin List!Range(order)
    BY <2>1, <2>2 DEF List!Without
  <2>3. CASE request.track \in List!Range(order)
    <3>1. PICK at \in 1 .. Len(order) :
              /\ order[at] = request.track
              /\ order' = SubSeq(order, 1, at - 1) \o SubSeq(order, at + 1, Len(order))
      BY <2>1, <2>3, WithoutIs
    <3> QED
      BY <1>0, <3>1 DEF List!ServerOrder!Remove
  <2> QED
    BY <2>2, <2>3
<1>4. \A request \in List!CallType :
          request.track \in PlaylistTracks \/ request.track = NoTrack
  BY DEF List!CallType
<1> QED
  BY <1>1, <1>2, <1>3, <1>4 DEF ServerWrites, List!ServerOrder!Next

\* The steps of the screen that are not the server's: what they make of a request.
LEMMA ScreenTyped == List!TypeOK /\ [List!Next]_(List!vars) => List!TypeOK'
<1> SUFFICES ASSUME List!TypeOK, [List!Next]_(List!vars) PROVE List!TypeOK'
  OBVIOUS
<1>1. order' \in List!Orders
  BY ScreenWrites, ServerTyped DEF List!TypeOK
<1>2. /\ call \in [Calls -> List!CallType] /\ displayed \in List!Orders
      /\ {banner, focused, unsynced, unheard} \subseteq BOOLEAN
  BY DEF List!TypeOK
<1>3. ASSUME NEW r \in Calls, NEW request \in List!CallType, call' = [call EXCEPT ![r] = request],
             displayed' \in List!Orders,
             {banner', focused', unsynced', unheard'} \subseteq BOOLEAN
      PROVE  List!TypeOK'
  BY <1>1, <1>2, <1>3 DEF List!TypeOK
<1>4. ASSUME NEW r \in Calls
      PROVE  List!Others(r) \in BOOLEAN
  BY DEF List!Others
<1>5. ASSUME NEW r \in Calls, List!Focus(r)
      PROVE  List!TypeOK'
  <2>1. List!Load("no") \in List!CallType
    BY CallsTyped
  <2> QED
    BY <1>2, <1>3, <1>4, <1>5, <2>1 DEF List!Focus
<1>6. CASE List!Blur
  <2>1. \A r \in Calls : [call[r] EXCEPT !.ignore = "yes"] \in List!CallType
    BY <1>2 DEF List!CallType
  <2>2. call' \in [Calls -> List!CallType]
    BY <1>2, <1>6, <2>1 DEF List!Blur
  <2> QED
    BY <1>1, <1>2, <1>6, <2>2 DEF List!Blur, List!TypeOK
<1>7. ASSUME NEW r \in Calls, NEW i, NEW j, List!Move(r, i, j)
      PROVE  List!TypeOK'
  <2>1. displayed' \in List!Orders
    BY <1>2, <1>7, SwappedOrder DEF List!Move
  <2>2. List!Reorder(displayed') \in List!CallType
    BY <2>1, CallsTyped
  <2> QED
    BY <1>2, <1>3, <1>4, <1>7, <2>1, <2>2 DEF List!Move
<1>8. ASSUME NEW r \in Calls, NEW k \in PlaylistTracks, List!RemoveTrack(r, k)
      PROVE  List!TypeOK'
  BY <1>2, <1>3, <1>4, <1>8, CallsTyped, WithoutOrder DEF List!RemoveTrack
<1>9. ASSUME NEW r \in Calls, List!Serve(r)
      PROVE  List!TypeOK'
  <2>1. List!Answered(r, "done") \in List!CallType /\ List!Answered(r, "failed") \in List!CallType
    BY AnswerTyped
  <2>2. [List!Answered(r, "done") EXCEPT !.order = order] \in List!CallType
    BY <2>1 DEF List!CallType, List!TypeOK
  <2>3. PICK request \in List!CallType : call' = [call EXCEPT ![r] = request]
    BY <1>9, <2>1, <2>2 DEF List!Serve, List!ServeLoad, List!ServeWrite
  <2> QED
    BY <1>2, <1>3, <1>9, <2>3 DEF List!Serve
<1>10. ASSUME NEW r \in Calls, List!Receive(r)
      PROVE  List!TypeOK'
  <2>1. PICK request \in List!CallType : call' = [call EXCEPT ![r] = request]
    BY <1>10, NoCallTyped, CallsTyped
       DEF List!Receive, List!ReceiveTracks, List!ReceiveLoadError, List!ReceiveDone, List!Reload
  <2>2. call[r].order \in List!Orders
    BY <1>2 DEF List!CallType
  <2>3. /\ displayed' \in List!Orders
        /\ {banner', focused', unsynced', unheard'} \subseteq BOOLEAN
    BY <1>2, <1>4, <1>10, <2>2
       DEF List!Receive, List!ReceiveTracks, List!ReceiveLoadError, List!ReceiveDone, List!Reload
  <2> QED
    BY <1>3, <2>1, <2>3
<1>11. CASE List!Elsewhere \/ UNCHANGED List!vars
  BY <1>1, <1>2, <1>11 DEF List!Elsewhere, List!vars, List!TypeOK
<1> QED
  BY <1>5, <1>6, <1>7, <1>8, <1>9, <1>10, <1>11 DEF List!Next

\* A request that is sent has met another one, or is alone.
LEMMA Begun ==
    ASSUME List!TypeOK, List!Alone, NEW r \in Calls, NEW request,
           call' = [call EXCEPT ![r] = request], request.kind # "none",
           List!Others(r) => unsynced'
    PROVE  List!Alone' /\ (~unsynced' => call'[r] = request
                                         /\ \A d \in Calls \ {r} : call'[d].kind = "none")
<1>1. call'[r] = request /\ \A d \in Calls \ {r} : call'[d] = call[d]
  BY DEF List!TypeOK
<1>2. List!NoCall.kind = "none"
  BY DEF List!NoCall
<1>3. ~unsynced' => \A d \in Calls \ {r} : call[d] = List!NoCall
  BY DEF List!Others, List!Free
<1> QED
  BY <1>1, <1>2, <1>3 DEF List!Alone, List!Free

\* An answer takes the place of its request, or ends it.
LEMMA Continued ==
    ASSUME List!TypeOK, List!Alone, NEW r \in Calls, NEW request,
           call' = [call EXCEPT ![r] = request], call[r].kind # "none",
           request = List!NoCall \/ request.kind # "none",
           UNCHANGED unsynced
    PROVE  List!Alone' /\ (~unsynced' => call'[r] = request
                                         /\ \A d \in Calls \ {r} : call'[d] = List!NoCall)
<1>1. call'[r] = request /\ \A d \in Calls \ {r} : call'[d] = call[d]
  BY DEF List!TypeOK
<1>2. List!NoCall.kind = "none"
  BY DEF List!NoCall
<1>3. ~unsynced' => \A d \in Calls \ {r} : call[d] = List!NoCall
  BY <1>2 DEF List!Alone, List!Free
<1> QED
  BY <1>1, <1>2, <1>3 DEF List!Alone, List!Free

\* A load begins.
LEMMA LoadBegins ==
    ASSUME List!TypeOK, List!Alone, NEW r \in Calls, NEW ignore \in {"never", "no"},
           call' = [call EXCEPT ![r] = List!Load(ignore)], unsynced' = List!Others(r)
    PROVE  List!ScreenInv'
<1>1. /\ List!Load(ignore).kind = "load" /\ List!Load(ignore).state = "sent"
      /\ List!Load(ignore).ignore = ignore
  BY CallsTyped
<1>2. List!Alone' /\ (~unsynced' => call'[r] = List!Load(ignore)
                                    /\ \A d \in Calls \ {r} : call'[d].kind = "none")
  BY <1>1, Begun
<1>3. List!NoCall.kind = "none"
  BY DEF List!NoCall
<1>4. ASSUME ~unsynced'
      PROVE  List!LoadsCurrent' /\ List!WritesShown'
  BY <1>1, <1>2, <1>3, <1>4 DEF List!LoadsCurrent, List!WritesShown, List!Free
<1> QED
  BY <1>2, <1>4 DEF List!ScreenInv

\* A write begins, of what is shown if the screen was right.
LEMMA WriteBegins ==
    ASSUME List!TypeOK, List!ScreenInv, NEW r \in Calls, NEW request, focused, List!Free(r),
           request.kind = "write", request.state = "sent",
           call' = [call EXCEPT ![r] = request], unsynced' = (unsynced \/ List!Others(r)),
           displayed = order => List!Accepts(request) /\ List!Written(request) = displayed',
           UNCHANGED <<order, banner, focused, unheard>>
    PROVE  List!ScreenInv'
<1>1. List!Alone' /\ (~unsynced' => call'[r] = request
                                    /\ \A d \in Calls \ {r} : call'[d].kind = "none")
  BY Begun DEF List!ScreenInv
<1>2. List!NoCall.kind = "none"
  BY DEF List!NoCall
<1>3. ASSUME focused', ~unsynced', ~unheard'
      PROVE  List!LoadsCurrent' /\ (banner' \/ List!WritesShown')
  <2>1. List!LoadsCurrent'
    BY <1>1, <1>3 DEF List!LoadsCurrent
  <2>2. ASSUME ~banner'
        PROVE  List!WritesShown'
    <3>1. \A d \in Calls : List!Free(d)
      BY <1>3 DEF List!Others
    <3>2. displayed = order
      BY <1>3, <2>2, <3>1 DEF List!ScreenInv, List!WritesShown
    <3>3. List!Accepts(request)' /\ List!Written(request)' = displayed'
      BY <3>2 DEF List!Accepts, List!Written
    <3> QED
      BY <1>1, <1>2, <1>3, <3>3 DEF List!WritesShown, List!Free
  <2> QED
    BY <2>1, <2>2
<1> QED
  BY <1>1, <1>3 DEF List!ScreenInv

\* The server answers.
LEMMA ServeScreen ==
    ASSUME List!TypeOK, List!ScreenInv, NEW r \in Calls, List!Serve(r)
    PROVE  List!ScreenInv'
<1>1. call[r].state = "sent" /\ UNCHANGED <<displayed, banner, focused, unsynced, unheard>>
  BY DEF List!Serve
<1>2. List!NoCall.kind = "none"
  BY DEF List!NoCall
<1>3. CASE List!ServeLoad(r)
  <2> DEFINE blank == List!Answered(r, "done")
  <2>1. blank \in List!CallType /\ blank.kind = call[r].kind /\ blank.ignore = call[r].ignore
    BY AnswerTyped
  <2> DEFINE brought == [blank EXCEPT !.order = order]
  <2>2. /\ brought.kind = blank.kind /\ brought.order = order
        /\ brought.ignore = blank.ignore
    <3> HIDE DEF blank
    <3> QED
      BY <2>1 DEF List!CallType
  <2>3. call' = [call EXCEPT ![r] = brought] /\ call[r].kind = "load"
    BY <1>3 DEF List!ServeLoad
  <2> HIDE DEF blank, brought
  <2>4. PICK answer : /\ call' = [call EXCEPT ![r] = answer]
                      /\ answer.kind = "load" /\ answer.order = order
                      /\ answer.ignore = call[r].ignore
    BY <2>1, <2>2, <2>3
  <2>5. List!Alone' /\ (~unsynced' => call'[r] = answer
                                      /\ \A d \in Calls \ {r} : call'[d] = List!NoCall)
    BY <1>1, <1>3, <2>4, Continued DEF List!ScreenInv, List!ServeLoad
  <2>6. ASSUME focused', ~unsynced', ~unheard'
        PROVE  List!LoadsCurrent' /\ List!WritesShown'
    <3>1. List!LoadsCurrent /\ order' = order /\ call[r].kind = "load"
      BY <1>1, <1>3, <2>6 DEF List!ScreenInv, List!ServeLoad
    <3> QED
      BY <1>2, <2>4, <2>5, <2>6, <3>1 DEF List!LoadsCurrent, List!WritesShown, List!Free
  <2> QED
    BY <2>5, <2>6 DEF List!ScreenInv
<1>4. CASE List!ServeWrite(r)
  <2>1. PICK answer : /\ call' = [call EXCEPT ![r] = answer] /\ answer.kind = "write"
                      /\ List!Accepts(call[r])
                             => answer.state = "done" /\ order' = List!Written(call[r])
    BY <1>4, AnswerTyped DEF List!ServeWrite
  <2>2. List!Alone' /\ (~unsynced' => call'[r] = answer
                                      /\ \A d \in Calls \ {r} : call'[d] = List!NoCall)
    BY <1>1, <1>4, <2>1, Continued DEF List!ScreenInv, List!ServeWrite
  <2>3. ASSUME focused', ~unsynced', ~unheard'
        PROVE  List!LoadsCurrent' /\ (banner' \/ List!WritesShown')
    <3>1. List!LoadsCurrent'
      BY <1>2, <2>1, <2>2, <2>3 DEF List!LoadsCurrent
    <3>2. ASSUME ~banner'
          PROVE  List!WritesShown'
      <4>1. List!WritesShown /\ call[r].kind = "write"
        BY <1>1, <1>4, <2>3, <3>2 DEF List!ScreenInv, List!ServeWrite
      <4>2. List!Accepts(call[r]) /\ List!Written(call[r]) = displayed
        BY <1>1, <4>1 DEF List!WritesShown
      <4> QED
        BY <1>1, <1>2, <2>1, <2>2, <2>3, <4>2 DEF List!WritesShown, List!Free
    <3> QED
      BY <3>1, <3>2
  <2> QED
    BY <2>2, <2>3 DEF List!ScreenInv
<1> QED
  BY <1>3, <1>4 DEF List!Serve

\* The screen hears of it, or gives up.
LEMMA ReceiveScreen ==
    ASSUME List!TypeOK, List!ScreenInv, NEW r \in Calls, List!Receive(r)
    PROVE  List!ScreenInv'
<1>1. CASE List!Reload(r)
  BY <1>1, LoadBegins DEF List!Reload, List!ScreenInv
<1>2. CASE List!ReceiveTracks(r) \/ List!ReceiveLoadError(r) \/ List!ReceiveDone(r)
  <2>1. /\ call' = [call EXCEPT ![r] = List!NoCall] /\ call[r].kind # "none"
        /\ UNCHANGED <<order, focused, unsynced, unheard>>
    BY <1>2 DEF List!ReceiveTracks, List!ReceiveLoadError, List!ReceiveDone
  <2>2. List!Alone' /\ (~unsynced' => \A d \in Calls : call'[d] = List!NoCall)
    BY <2>1, Continued DEF List!ScreenInv
  <2>3. ASSUME focused', ~unsynced', ~unheard'
        PROVE  List!LoadsCurrent' /\ (banner' \/ List!WritesShown')
    <3>1. List!LoadsCurrent /\ (banner \/ List!WritesShown)
      BY <2>1, <2>3 DEF List!ScreenInv
    <3>2. \A d \in Calls : call'[d].kind = "none"
      BY <2>2, <2>3 DEF List!NoCall
    <3>3. CASE List!ReceiveTracks(r)
      <4>1. call[r].kind = "load" /\ call[r].state = "done"
        BY <3>3 DEF List!ReceiveTracks
      <4>2. call[r].ignore # "yes" /\ call[r].order = order
        BY <3>1, <4>1 DEF List!LoadsCurrent
      <4> QED
        BY <2>1, <3>3, <3>2, <4>2 DEF List!ReceiveTracks, List!LoadsCurrent, List!WritesShown
    <3>4. CASE List!ReceiveLoadError(r)
      <4>1. call[r].kind = "load"
        BY <3>4 DEF List!ReceiveLoadError
      <4>2. call[r].ignore # "yes"
        BY <3>1, <4>1 DEF List!LoadsCurrent
      <4>3. banner'
        BY <3>4, <4>2 DEF List!ReceiveLoadError
      <4> QED
        BY <3>2, <4>3 DEF List!LoadsCurrent
    <3>5. CASE List!ReceiveDone(r)
      <4>1. call[r].kind = "write" /\ call[r].state = "done" /\ UNCHANGED <<displayed, banner>>
        BY <3>5 DEF List!ReceiveDone
      <4>2. banner \/ displayed = order
        BY <3>1, <4>1 DEF List!WritesShown
      <4> QED
        BY <2>1, <3>2, <4>1, <4>2 DEF List!LoadsCurrent, List!WritesShown
    <3> QED
      BY <1>2, <3>3, <3>4, <3>5
  <2> QED
    BY <2>2, <2>3 DEF List!ScreenInv
<1> QED
  BY <1>1, <1>2 DEF List!Receive

\* ScreenInv is inductive.
LEMMA ScreenStep ==
    ASSUME List!TypeOK, List!ScreenInv, [List!Next]_(List!vars)
    PROVE  List!ScreenInv'
<1>1. ASSUME NEW r \in Calls, List!Focus(r)
      PROVE  List!ScreenInv'
  BY <1>1, LoadBegins DEF List!Focus, List!ScreenInv
<1>2. ASSUME NEW r \in Calls, NEW i, NEW j, List!Move(r, i, j)
      PROVE  List!ScreenInv'
  <2>1. PICK request : /\ request = List!Reorder(displayed')
                       /\ call' = [call EXCEPT ![r] = request]
    BY <1>2 DEF List!Move
  <2>2. /\ displayed' \in List!Orders
        /\ displayed = order => List!Range(displayed') = List!Range(order)
    BY <1>2, SwappedOrder DEF List!Move, List!TypeOK
  <2>3. /\ request.kind = "write" /\ request.state = "sent"
        /\ request.order = displayed' /\ request.track = NoTrack
    BY <2>1, <2>2, CallsTyped
  <2>4. displayed = order => List!Accepts(request) /\ List!Written(request) = displayed'
    BY <2>2, <2>3 DEF List!Accepts, List!Written
  <2>5. /\ focused /\ List!Free(r) /\ unsynced' = (unsynced \/ List!Others(r))
        /\ UNCHANGED <<order, banner, focused, unheard>>
    BY <1>2 DEF List!Move
  <2> QED
    BY <2>1, <2>3, <2>4, <2>5, WriteBegins
<1>3. ASSUME NEW r \in Calls, NEW k \in PlaylistTracks, List!RemoveTrack(r, k)
      PROVE  List!ScreenInv'
  <2>1. PICK request : /\ request = List!Remove(k)
                       /\ call' = [call EXCEPT ![r] = request]
    BY <1>3 DEF List!RemoveTrack
  <2>2. request.kind = "write" /\ request.state = "sent" /\ request.track = k
    BY <2>1, CallsTyped
  <2>3. k # NoTrack
    BY ScreenAssumption DEF List!ScreenAssumption
  <2>4. displayed = order => List!Accepts(request) /\ List!Written(request) = displayed'
    BY <1>3, <2>2, <2>3 DEF List!Accepts, List!Written, List!RemoveTrack
  <2>5. /\ focused /\ List!Free(r) /\ unsynced' = (unsynced \/ List!Others(r))
        /\ UNCHANGED <<order, banner, focused, unheard>>
    BY <1>3 DEF List!RemoveTrack
  <2> QED
    BY <2>1, <2>2, <2>4, <2>5, WriteBegins
<1>4. CASE List!Blur
  <2>1. /\ focused' = FALSE /\ unsynced' = unsynced
        /\ \A r \in Calls : /\ call[r].ignore # "no" => call'[r] = call[r]
                            /\ call'[r].kind = call[r].kind
    BY <1>4 DEF List!Blur, List!TypeOK, List!CallType
  <2>2. List!NoCall.ignore # "no"
    BY DEF List!NoCall
  <2>3. List!Alone'
    BY <2>1, <2>2 DEF List!ScreenInv, List!Alone, List!Free
  <2> QED
    BY <2>1, <2>3 DEF List!ScreenInv
<1>5. CASE List!Elsewhere
  BY <1>5 DEF List!Elsewhere, List!ScreenInv, List!Alone, List!Free
<1>6. CASE UNCHANGED List!vars
  BY <1>6 DEF List!vars, List!ScreenInv, List!Alone, List!Free, List!LoadsCurrent,
              List!WritesShown, List!Accepts, List!Written
<1> QED
  BY <1>1, <1>2, <1>3, <1>4, <1>5, <1>6, ServeScreen, ReceiveScreen DEF List!Next

\* ScreenInv holds before the screen is opened.
LEMMA ScreenInit == List!Init => List!TypeOK /\ List!ScreenInv
<1> SUFFICES ASSUME List!Init PROVE List!TypeOK /\ List!ScreenInv
  OBVIOUS
<1>1. List!TypeOK
  BY NoTracks, NoCallTyped DEF List!Init, List!TypeOK
<1>2. List!ScreenInv
  BY DEF List!Init, List!ScreenInv, List!Alone, List!Free
<1> QED
  BY <1>1, <1>2

\* A step of the client is one of the screen, or leaves the screen alone.
LEMMA ScreenSteps == [ClientNext]_clientVars => [List!Next]_(List!vars)
BY DEF ClientNext, clientVars, listVars, List!vars

\* The invariant holds throughout, whatever the other parts do.
LEMMA ScreenInvariance == ClientSpec => [](List!TypeOK /\ List!ScreenInv)
<1>1. ClientInit => List!TypeOK /\ List!ScreenInv
  BY ScreenInit DEF ClientInit
<1>2. List!TypeOK /\ List!ScreenInv /\ [ClientNext]_clientVars
      => (List!TypeOK /\ List!ScreenInv)'
  BY ScreenTyped, ScreenStep, ScreenSteps
<1> QED
  BY <1>1, <1>2, PTL DEF ClientSpec

\* Screen and server agree once every request has been answered that was sent
\* alone, unless a write from elsewhere came in between or the banner is shown;
\* and neither lists a track twice.
THEOREM ScreenAgrees == ClientSpec => []ScreenConsistent
<1>1. List!TypeOK /\ List!ScreenInv => ScreenConsistent
  BY DEF ScreenConsistent, List!ScreenConsistent, List!ShownAgrees, List!Settled,
         List!ScreenInv, List!WritesShown
<1> QED
  BY <1>1, ScreenInvariance, PTL

\* What the server gets from the screen and from elsewhere are adds, removals and
\* permutations, however requests overlap: every write is a step of PlaylistOrder.
THEOREM OrderRefined == ClientSpec => RefinesOrder
<1>1. List!TypeOK /\ List!ScreenInv /\ [ClientNext]_clientVars => [List!ServerOrder!Next]_order
  BY ScreenSteps, ScreenWrites, ServerRefines DEF List!TypeOK
<1> QED
  BY <1>1, ScreenInvariance, PTL DEF ClientSpec, RefinesOrder, List!RefinesOrder

-----------------------------------------------------------------------------
(* Listings                                                                 *)

\* A set of natural numbers has a least element.
LEMMA Least ==
    ASSUME NEW S, S \subseteq Nat, S # {}
    PROVE  \E n \in S : \A m \in S : n <= m
<1> DEFINE R == OpToRel(<, Nat)
<1>1. IsWellFoundedOn(R, Nat)
  BY NatLessThanWellFounded, Zenon
<1>2. \A m, n \in Nat : <<m, n>> \in R <=> m < n
  BY SMT DEF OpToRel
<1> HIDE DEF R
<1>3. PICK n \in S : \A m \in S : <<m, n>> \notin R
  BY <1>1, WFMin, Zenon
<1>4. \A m \in S : ~(m < n)
  BY <1>2, <1>3
<1>5. \A m \in S : n <= m
  BY <1>4
<1> QED
  BY <1>5

\* Which is what Min says.
LEMMA MinIs ==
    ASSUME NEW S, S \subseteq Nat, S # {}
    PROVE  Min(S) \in S /\ \A m \in S : Min(S) <= m
BY Least DEF Min

\* An instance of the catalog has the operators of the libraries from its own.
LEMMA SameCatalog ==
    /\ \A key : Albums!Ordered(key) = Ordered(key)
    /\ \A user : Albums!Of(user) = Of(user)
    /\ \A n : Albums!NullsLast(n) = NullsLast(n)
    /\ \A list : Albums!ToSet(list) = ToSet(list)
    /\ \A S : Albums!Representative(S) = Representative(S)
    /\ \A S : Albums!Cardinality(S) = Cardinality(S)
    /\ \A S : Albums!IsFiniteSet(S) = IsFiniteSet(S)
<1>1. \A S : Albums!Cardinality(S) = Cardinality(S)
  BY Zenon DEF Albums!Cardinality, Cardinality
<1>2. \A S : Albums!SetToSeqs(S) = SetToSeqs(S)
  BY <1>1, Zenon DEF Albums!SetToSeqs, SetToSeqs
<1>3. \A k, l : Albums!Precedes(k, l) <=> Precedes(k, l)
  BY DEF Albums!Precedes, Precedes
<1>4. \A key : Albums!Ordered(key) = Ordered(key)
  BY <1>2, <1>3, Zenon DEF Albums!Ordered, Ordered
<1>5. \A user : Albums!Of(user) = Of(user)
  BY DEF Albums!Of, Of
<1>6. \A n : Albums!NullsLast(n) = NullsLast(n)
  BY DEF Albums!NullsLast, NullsLast
<1>7. \A list : Albums!ToSet(list) = ToSet(list)
  BY DEF Albums!ToSet, ToSet
<1>8. \A S : Albums!Min(S) = Min(S)
  BY DEF Albums!Min, Min
<1>9. \A S : Albums!Representative(S) = Representative(S)
  BY <1>8, Zenon DEF Albums!Representative, Representative
<1>10. \A S : Albums!IsFiniteSet(S) = IsFiniteSet(S)
  BY Zenon DEF Albums!IsFiniteSet, IsFiniteSet
<1> QED
  BY <1>1, <1>4, <1>5, <1>6, <1>7, <1>9, <1>10

\* A listing has every row once, none before one that it should follow.
LEMMA OrderedIs ==
    ASSUME NEW key, IsFiniteSet(DOMAIN key), NEW s \in Ordered(key)
    PROVE  /\ s \in Seq(DOMAIN key) /\ ToSet(s) = DOMAIN key
           /\ Len(s) = Cardinality(DOMAIN key) /\ Len(s) \in Nat
           /\ DOMAIN s = 1 .. Len(s)
           /\ \A i, j \in DOMAIN s : i < j => ~Precedes(key[s[j]], key[s[i]])
           /\ \A i, j \in DOMAIN s : s[i] = s[j] => i = j
<1> DEFINE S == DOMAIN key
<1>1. /\ s \in SetToSeqs(S)
      /\ \A i, j \in DOMAIN s : i < j => ~Precedes(key[s[j]], key[s[i]])
  BY DEF Ordered
<1>2. Cardinality(S) \in Nat
  BY FS_CardinalityType
<1>3. /\ s \in [1 .. Cardinality(S) -> S]
      /\ \A i, j \in 1 .. Cardinality(S) : i # j => s[i] # s[j]
  BY <1>1 DEF SetToSeqs
<1>4. s \in Seq(S) /\ \A x \in S : \E i \in DOMAIN s : s[i] = x
  BY <1>1, SeqsHaveAll
<1> HIDE DEF S
<1>5. Len(s) = Cardinality(S) /\ DOMAIN s = 1 .. Len(s)
  BY <1>2, <1>3, <1>4
<1>6. ToSet(s) = S
  BY <1>3, <1>4, <1>5 DEF ToSet
<1> QED
  BY <1>1, <1>2, <1>3, <1>4, <1>5, <1>6 DEF S

\* ORDER BY track_number NULLS LAST, title: a row without a number does not come
\* before one with a number, nor a greater number before a less.
LEMMA NumberFirst ==
    ASSUME NEW m \in {Null} \cup Int, NEW n \in Int, NEW x, NEW y,
           Null \notin Int,
           ~Precedes(NullsLast(n) \o <<x>>, NullsLast(m) \o <<y>>)
    PROVE  m # Null /\ m <= n
<1> DEFINE k == NullsLast(n) \o <<x>>
           l == NullsLast(m) \o <<y>>
<1>1. DOMAIN k = 1 .. 3 /\ k[1] = 0 /\ k[2] = n
  BY DEF NullsLast
<1>2. CASE m = Null
  <2>1. l[1] = 1
    BY <1>2 DEF NullsLast
  <2>2. Precedes(k, l)
    BY <1>1, <2>1 DEF Precedes
  <2> QED
    BY <2>2
<1>3. CASE m # Null /\ n < m
  <2>1. l[1] = 0 /\ l[2] = m
    BY <1>3 DEF NullsLast
  <2> HIDE DEF k, l
  <2>2. 2 \in DOMAIN k /\ k[2] < l[2] /\ \A j \in 1 .. 2 - 1 : k[j] = l[j]
    BY <1>1, <1>3, <2>1
  <2>3. Precedes(k, l)
    BY <2>2 DEF Precedes
  <2> QED
    BY <2>3 DEF k, l
<1> QED
  BY <1>2, <1>3

\* What the catalog's proofs use of the constants.
LEMMA CatalogConstants ==
    /\ CatalogAssumption /\ Albums!CatalogAssumption
    /\ Unknown \in Nat \ {Blank, Space} /\ Half \in Nat \ {0}
    /\ Null \notin Int /\ Malformed \notin Int /\ Unreadable \notin TagType
    /\ Me \in Users /\ Me \in LibraryUsers
    /\ \A user \in Users : Uploads[user] \subseteq UploadType
    /\ \A user \in LibraryUsers : LibraryUploads[user] \subseteq UploadType
    /\ MaxFocus \in Nat
<1>1. CatalogAssumption /\ Albums!CatalogAssumption /\ MaxFocus \in Nat
  BY QueriesAssumption, ScreensAssumption DEF QueriesAssumption, Albums!ScreensAssumption
<1>2. Albums!UploadType = UploadType
  BY DEF Albums!UploadType, UploadType, Albums!TagType, TagType, Albums!FormType, FormType
<1> QED
  BY <1>1, <1>2 DEF CatalogAssumption, Albums!CatalogAssumption

\* The metadata of a track as it is inserted.
Metadata ==
    [title : Nat, artist : Nat \ {Blank}, album : Nat, albumArtist : Nat, number : Nat,
     picture : {Null, "jpeg", "png"}]

\* What is resolved from a file and its form is of that kind.
LEMMA ResolvedTyped ==
    ASSUME NEW upload \in UploadType
    PROVE  Resolve(upload) \in Metadata
<1> DEFINE md == ExtractMetadata(upload.tags)
           form == upload.form
<1>1. upload.stem \in Nat /\ form \in FormType
      /\ upload.tags \in TagType \cup {Unreadable}
  BY DEF UploadType
<1>2. md \in [title : Nat, artist : Nat, album : Nat, albumArtist : Nat, number : Nat,
              picture : {Null, "jpeg", "png"}]
  <2>1. CASE upload.tags = Unreadable
    BY <2>1 DEF ExtractMetadata, Untagged, Blank
  <2>2. CASE upload.tags \in TagType
    <3> DEFINE tags == upload.tags
               one == [tags EXCEPT !.number = IF @ > 0 THEN @ ELSE 0]
               two == [one EXCEPT !.picture = IF @ \in {"jpeg", "png"} THEN @ ELSE Null]
    <3>1. tags # Unreadable
      BY <2>2, CatalogConstants
    <3>2. md = [tags EXCEPT !.number = IF @ > 0 THEN @ ELSE 0,
                            !.picture = IF @ \in {"jpeg", "png"} THEN @ ELSE Null]
      BY <3>1, Zenon DEF ExtractMetadata
    <3>3. md = two
      BY <3>2, Zenon
    <3> HIDE DEF md, tags
    <3>4. one \in [title : Nat, artist : Nat, album : Nat, albumArtist : Nat, number : Nat,
                   picture : STRING \cup {Null}]
      BY <2>2 DEF TagType, tags
    <3> HIDE DEF one
    <3> QED
      BY <3>3, <3>4
  <2> QED
    BY <1>1, <2>1, <2>2
<1>3. \A n \in Nat : TrimSpace(n) \in Nat
  BY DEF TrimSpace, Blank
<1>4. \A m, n \in Nat : Or(m, n) \in Nat /\ (n # Blank => Or(m, n) # Blank)
  BY DEF Or
<1>5. Override(form.number) \in Int
  BY <1>1 DEF Override, FormType
<1>6. /\ form.title \in Nat /\ form.artist \in Nat /\ form.album \in Nat
      /\ form.albumArtist \in Nat
  BY <1>1 DEF FormType
<1>7. Unknown \in Nat /\ Unknown # Blank
  BY CatalogConstants
<1> DEFINE nt == Resolve(upload)
<1>8. nt = [title |-> Or(TrimSpace(form.title), Or(md.title, upload.stem)),
            artist |-> Or(TrimSpace(form.artist), Or(md.artist, Unknown)),
            album |-> Or(TrimSpace(form.album), Or(md.album, Unknown)),
            albumArtist |-> Or(TrimSpace(form.albumArtist), md.albumArtist),
            number |-> IF Override(form.number) > 0 THEN Override(form.number) ELSE md.number,
            picture |-> md.picture]
  BY DEF Resolve
<1> HIDE DEF md, form
<1>9. /\ md.title \in Nat /\ md.artist \in Nat /\ md.album \in Nat /\ md.albumArtist \in Nat
      /\ md.number \in Nat /\ md.picture \in {Null, "jpeg", "png"}
  BY <1>2
<1>10. /\ Or(TrimSpace(form.title), Or(md.title, upload.stem)) \in Nat
       /\ Or(TrimSpace(form.artist), Or(md.artist, Unknown)) \in Nat \ {Blank}
       /\ Or(TrimSpace(form.album), Or(md.album, Unknown)) \in Nat
       /\ Or(TrimSpace(form.albumArtist), md.albumArtist) \in Nat
  <2>1. TrimSpace(form.title) \in Nat /\ TrimSpace(form.artist) \in Nat
        /\ TrimSpace(form.album) \in Nat /\ TrimSpace(form.albumArtist) \in Nat
    BY <1>3, <1>6
  <2>2. Or(md.title, upload.stem) \in Nat /\ Or(md.artist, Unknown) \in Nat \ {Blank}
        /\ Or(md.album, Unknown) \in Nat
    BY <1>1, <1>4, <1>7, <1>9
  <2> QED
    BY <1>4, <1>9, <2>1, <2>2
<1>11. (IF Override(form.number) > 0 THEN Override(form.number) ELSE md.number) \in Nat
  BY <1>5, <1>9
<1> QED
  BY <1>8, <1>9, <1>10, <1>11 DEF Metadata

\* A number is wrapped to one that the column holds.
LEMMA Wrapped ==
    ASSUME NEW n \in Nat
    PROVE  Int32(n) \in -Half .. Half - 1
<1> DEFINE low == n % (2 * Half)
<1>1. Half \in Nat \ {0}
  BY CatalogConstants
<1>2. low \in 0 .. 2 * Half - 1
  BY <1>1
<1>3. Int32(n) = IF low < Half THEN low ELSE low - 2 * Half
  BY DEF Int32
<1> HIDE DEF low
<1> QED
  BY <1>1, <1>2, <1>3

\* A row of the table, as inserted.
RowFits(t) ==
    /\ t.title \in Nat /\ t.artist \in Nat /\ t.album \in Nat /\ t.albumArtist \in Nat
    /\ t.artist # Blank /\ t.albumArtist # Blank
    /\ t.number \in {Null} \cup -Half .. Half - 1
    /\ t.asked \in Nat
    /\ t.artwork \in {Null, "jpeg", "png"}
    /\ t.number = NullableTrackNumber(t.asked)

\* It is of these types, with artwork or without.
LEMMA RowTyped ==
    ASSUME NEW id, NEW user, NEW nt \in Metadata, NEW ext,
           ext = "" \/ (ext = nt.picture /\ ext # Null)
    PROVE  RowFits(Row(id, user, nt, ext))
<1> DEFINE t == Row(id, user, nt, ext)
<1>1. t = [id |-> id, user |-> user, title |-> nt.title, artist |-> nt.artist,
           album |-> nt.album, albumArtist |-> AlbumArtist(nt),
           number |-> NullableTrackNumber(nt.number),
           artwork |-> NullableString(ext), asked |-> nt.number]
  BY DEF Row
<1>2. /\ nt.title \in Nat /\ nt.artist \in Nat /\ nt.artist # Blank /\ nt.album \in Nat
      /\ nt.albumArtist \in Nat /\ nt.number \in Nat /\ nt.picture \in {Null, "jpeg", "png"}
  BY DEF Metadata
<1>3. AlbumArtist(nt) \in Nat /\ AlbumArtist(nt) # Blank
  BY <1>2 DEF AlbumArtist, Or
<1>4. NullableTrackNumber(nt.number) \in {Null} \cup -Half .. Half - 1
  BY <1>2, Wrapped DEF NullableTrackNumber
<1>5. NullableString(ext) \in {Null, "jpeg", "png"}
  BY <1>2 DEF NullableString
<1> HIDE DEF t
<1>6. /\ t.id = id /\ t.user = user /\ t.title = nt.title /\ t.artist = nt.artist
      /\ t.album = nt.album /\ t.albumArtist = AlbumArtist(nt)
      /\ t.number = NullableTrackNumber(nt.number)
      /\ t.artwork = NullableString(ext) /\ t.asked = nt.number
  BY <1>1
<1>7. RowFits(t)
  BY <1>2, <1>3, <1>4, <1>5, <1>6 DEF RowFits
<1> QED
  BY <1>6, <1>7 DEF t

\* What InsertTrack does to the table, and what that adds to it.
Inserts(ids, user, upload) ==
    \E id \in ids \ {t.id : t \in tracks} :
        \/ tracks' = tracks \cup {Row(id, user, Resolve(upload), "")}
        \/ /\ Resolve(upload).picture # Null
           /\ tracks' = tracks \cup {Row(id, user, Resolve(upload), Resolve(upload).picture)}

Adds(ids, user, upload, new) ==
    /\ tracks' = tracks \cup {new}
    /\ new.id \in ids /\ \A t \in tracks : t.id # new.id
    /\ RowFits(new) /\ new.user = user
    /\ new.asked = Resolve(upload).number
    /\ \E ext : new = Row(new.id, user, Resolve(upload), ext)

\* An insert adds such a row.
LEMMA Inserted ==
    ASSUME NEW ids, NEW user, NEW upload \in UploadType, Inserts(ids, user, upload)
    PROVE  \E new : Adds(ids, user, upload, new)
<1> DEFINE nt == Resolve(upload)
<1>1. nt \in Metadata
  BY ResolvedTyped
<1>2. PICK id \in ids \ {t.id : t \in tracks} :
          \/ tracks' = tracks \cup {Row(id, user, nt, "")}
          \/ nt.picture # Null /\ tracks' = tracks \cup {Row(id, user, nt, nt.picture)}
  BY DEF Inserts
<1> HIDE DEF nt
<1>3. ASSUME NEW new, NEW ext, new = Row(id, user, nt, ext), RowFits(new),
             tracks' = tracks \cup {new}
      PROVE  Adds(ids, user, upload, new)
  <2>1. new.id = id /\ new.user = user /\ new.asked = nt.number
    BY <1>3 DEF Row
  <2>2. \A t \in tracks : t.id # new.id
    BY <1>2, <2>1
  <2> QED
    BY <1>2, <1>3, <2>1, <2>2, Zenon DEF Adds, nt
<1>4. CASE tracks' = tracks \cup {Row(id, user, nt, "")}
  BY <1>1, <1>3, <1>4, RowTyped, Zenon
<1>5. CASE nt.picture # Null /\ tracks' = tracks \cup {Row(id, user, nt, nt.picture)}
  BY <1>1, <1>3, <1>5, RowTyped, Zenon
<1> QED
  BY <1>2, <1>4, <1>5

-----------------------------------------------------------------------------
(* The library                                                              *)

\* So have its inserts: both resolve and store alike.
LEMMA SameInserts ==
    /\ \A upload : Albums!Resolve(upload) = Resolve(upload)
    /\ \A id, user, nt, ext : Albums!Row(id, user, nt, ext) = Row(id, user, nt, ext)
    /\ \A n : Albums!NullableTrackNumber(n) = NullableTrackNumber(n)
    /\ \A n : Albums!Int32(n) = Int32(n)
    /\ \A t : Albums!HasArtwork(t) <=> HasArtwork(t)
    /\ Albums!Blank = Blank
<1>1. Albums!Blank = Blank /\ Albums!Space = Space
  BY DEF Albums!Blank, Blank, Albums!Space, Space
<1>2. \A m, n : Albums!Or(m, n) = Or(m, n)
  BY <1>1, Zenon DEF Albums!Or, Or
<1>3. \A n : Albums!TrimSpace(n) = TrimSpace(n)
  BY <1>1, Zenon DEF Albums!TrimSpace, TrimSpace
<1>4. \A x : Albums!Override(x) = Override(x)
  BY Zenon DEF Albums!Override, Override
<1>5. \A x : Albums!ExtractMetadata(x) = ExtractMetadata(x)
  BY <1>1, Zenon DEF Albums!ExtractMetadata, ExtractMetadata, Albums!Untagged, Untagged
<1>6. \A upload : Albums!Resolve(upload) = Resolve(upload)
  BY <1>2, <1>3, <1>4, <1>5, Zenon DEF Albums!Resolve, Resolve
<1>7. \A n : Albums!Int32(n) = Int32(n)
  BY Zenon DEF Albums!Int32, Int32
<1>8. \A n : Albums!NullableTrackNumber(n) = NullableTrackNumber(n)
  BY <1>7, Zenon DEF Albums!NullableTrackNumber, NullableTrackNumber
<1>9. \A x : Albums!NullableString(x) = NullableString(x)
  BY Zenon DEF Albums!NullableString, NullableString
<1>10. \A nt : Albums!AlbumArtist(nt) = AlbumArtist(nt)
  BY <1>2, Zenon DEF Albums!AlbumArtist, AlbumArtist
<1>11. \A id, user, nt, ext : Albums!Row(id, user, nt, ext) = Row(id, user, nt, ext)
  BY <1>8, <1>9, <1>10, Zenon DEF Albums!Row, Row
<1>12. \A t : Albums!HasArtwork(t) <=> HasArtwork(t)
  BY Zenon DEF Albums!HasArtwork, HasArtwork
<1> QED
  BY <1>1, <1>6, <1>7, <1>8, <1>11, <1>12

\* The invariant of the library, row by row.
Library(users, ids) ==
    /\ IsFiniteSet(tracks)
    /\ \A t \in tracks : t.id \in ids /\ t.user \in users /\ RowFits(t)
    /\ \A t, u \in tracks : t.id = u.id => t = u

\* The libraries of the search and of the Albums tab, row by row.
LEMMA LibraryRows ==
    /\ LibraryInv <=> Library(Users, Ids)
    /\ Albums!LibraryInv <=> Library(LibraryUsers, LibraryIds)
<1>1. LibraryInv <=> Library(Users, Ids)
  BY DEF LibraryInv, CatalogTypeOK, Library, RowFits
<1>2. Albums!LibraryInv <=> Library(LibraryUsers, LibraryIds)
  BY SameCatalog, SameInserts
  DEF Albums!LibraryInv, Albums!CatalogTypeOK, Library, RowFits
<1> QED
  BY <1>1, <1>2

\* An upload adds a row of its own.
LEMMA LibraryGrows ==
    ASSUME NEW users, NEW ids, Library(users, ids),
           NEW user \in users, NEW upload, NEW new, Adds(ids, user, upload, new)
    PROVE  Library(users, ids)'
<1>1. IsFiniteSet(tracks')
  BY FS_AddElement DEF Library, Adds
<1>2. \A t \in tracks' : t.id \in ids /\ t.user \in users /\ RowFits(t)
  BY DEF Library, Adds
<1>3. \A t, u \in tracks' : t.id = u.id => t = u
  BY DEF Library, Adds
<1> QED
  BY <1>1, <1>2, <1>3 DEF Library

\* The uploads of the Albums tab.
LEMMA AlbumsUpload ==
    ASSUME Albums!Upload
    PROVE  \E user \in LibraryUsers : \E upload \in LibraryUploads[user] : \E new :
               Adds(LibraryIds, user, upload, new)
<1>1. PICK user \in LibraryUsers :
          \E upload \in LibraryUploads[user] : Albums!InsertTrack(user, upload)
  BY DEF Albums!Upload
<1>2. PICK upload \in LibraryUploads[user] : Albums!InsertTrack(user, upload)
  BY <1>1
<1>3. upload \in UploadType
  BY <1>2, CatalogConstants
<1>4. Inserts(LibraryIds, user, upload)
  BY <1>2, SameInserts, Zenon DEF Albums!InsertTrack, Inserts
<1> QED
  BY <1>2, <1>3, <1>4, Inserted

\* The ids that rows have are numbers.
LEMMA LibraryIdsTyped ==
    ASSUME Library(LibraryUsers, LibraryIds)
    PROVE  \A t \in tracks : t.id \in Nat
BY CatalogConstants DEF Library, Albums!CatalogAssumption

\* The representative of an album is one of its tracks, and has artwork if any has.
LEMMA RepresentativeIs ==
    ASSUME NEW S, S # {}, \A t \in S : t.id \in Nat /\ RowFits(t)
    PROVE  \E t \in S : /\ t.id = Representative(S)
                        /\ (\E u \in S : u.artwork # Null) => HasArtwork(t)
<1> DEFINE pictured == {t \in S : t.artwork # Null}
           T == IF pictured = {} THEN S ELSE pictured
           ids == {t.id : t \in T}
<1>1. T # {} /\ T \subseteq S
  OBVIOUS
<1>2. ids \subseteq Nat /\ ids # {}
  BY <1>1
<1>3. Min(ids) \in ids
  BY <1>2, MinIs
<1>4. PICK t \in T : t.id = Min(ids)
  BY <1>3
<1>5. Representative(S) = Min(ids)
  BY Zenon DEF Representative
<1>6. ASSUME NEW u \in S, u.artwork # Null
      PROVE  HasArtwork(t)
  <2>1. t \in pictured
    BY <1>6
  <2> QED
    BY <1>1, <2>1 DEF HasArtwork, RowFits
<1> QED
  BY <1>1, <1>4, <1>5, <1>6

\* The tracks of an album, and those of all albums of a title.
LEMMA AlbumTracksOf ==
    ASSUME IsFiniteSet(tracks), NEW user, NEW album, NEW artist
    PROVE  /\ Albums!AlbumOf(user, album, artist) \subseteq Albums!OnAlbum(user, album, artist)
           /\ Albums!OnAlbum(user, album, artist) \subseteq tracks
           /\ \A t \in Albums!OnAlbum(user, album, artist) : t.user = user /\ t.album = album
           /\ IsFiniteSet(Albums!AlbumOf(user, album, artist))
           /\ IsFiniteSet(Albums!OnAlbum(user, album, artist))
           /\ Cardinality(Albums!AlbumOf(user, album, artist)) \in Nat
           /\ Cardinality(Albums!OnAlbum(user, album, artist)) \in Nat
           /\ Cardinality(Albums!AlbumOf(user, album, artist))
                <= Cardinality(Albums!OnAlbum(user, album, artist))
<1> DEFINE S == Albums!AlbumOf(user, album, artist)
           T == Albums!OnAlbum(user, album, artist)
<1>1. S \subseteq T /\ T \subseteq tracks /\ \A t \in T : t.user = user /\ t.album = album
  BY DEF Albums!AlbumOf, Albums!OnAlbum, Albums!Of
<1> HIDE DEF S, T
<1>2. IsFiniteSet(T)
  BY <1>1, FS_Subset
<1>3. IsFiniteSet(S) /\ Cardinality(S) <= Cardinality(T)
  BY <1>1, <1>2, FS_Subset
<1>4. Cardinality(S) \in Nat /\ Cardinality(T) \in Nat
  BY <1>2, <1>3, FS_CardinalityType
<1> QED
  BY <1>1, <1>2, <1>3, <1>4 DEF S, T

\* The summary of the album of a track, or of the one of a title and an artist.
SummaryOf(user, t) ==
    Albums!AlbumSummary(Albums!AlbumOf(user, t.album, t.albumArtist), t.album, t.albumArtist)

\* A summary has the name and the artist of its album.
LEMMA SummaryIs ==
    ASSUME NEW user, NEW t
    PROVE  LET S == Albums!AlbumOf(user, t.album, t.albumArtist)
           IN  SummaryOf(user, t) = [album |-> t.album, artist |-> t.albumArtist,
                   count |-> Cardinality(S), representative |-> Representative(S),
                   hasArtwork |-> \E u \in S : u.artwork # Null]
BY SameCatalog, Zenon DEF SummaryOf, Albums!AlbumSummary

\* The list of the albums holds a summary of every album and of nothing else.
LEMMA ListsAlbums ==
    ASSUME IsFiniteSet(tracks), NEW user, NEW s \in Albums!ListAlbums(user)
    PROVE  /\ DOMAIN s = 1 .. Len(s) /\ Len(s) \in Nat
           /\ \A i \in DOMAIN s : \E t \in Of(user) : s[i] = SummaryOf(user, t)
           /\ \A t \in Of(user) : \E i \in DOMAIN s : s[i] = SummaryOf(user, t)
           /\ \A i, j \in DOMAIN s : s[i] = s[j] => i = j
<1> DEFINE all == {SummaryOf(user, t) : t \in Of(user)}
           key == [row \in all |-> <<row.album, row.artist>>]
<1>1. s \in Ordered(key)
  BY SameCatalog, Zenon DEF Albums!ListAlbums, SummaryOf
<1>2. IsFiniteSet(all)
  <2> DEFINE f == [t \in Of(user) |-> SummaryOf(user, t)]
  <2>1. IsFiniteSet(Of(user))
    BY FS_Subset DEF Of
  <2>2. f \in Surjection(Of(user), all)
    BY DEF Surjection
  <2> HIDE DEF f, all
  <2> QED
    BY <2>1, <2>2, FS_Surjection
<1>3. DOMAIN key = all
  OBVIOUS
<1> HIDE DEF key, all
<1>4. /\ ToSet(s) = all /\ DOMAIN s = 1 .. Len(s) /\ Len(s) \in Nat
      /\ \A i, j \in DOMAIN s : s[i] = s[j] => i = j
  BY <1>1, <1>2, <1>3, OrderedIs
<1>5. \A i \in DOMAIN s : s[i] \in all
  BY <1>4 DEF ToSet
<1>6. \A row \in all : \E i \in DOMAIN s : s[i] = row
  BY <1>4 DEF ToSet
<1> QED
  BY <1>4, <1>5, <1>6 DEF all

\* The tracks of an album are listed once each, in the order of their numbers.
LEMMA ListsTracks ==
    ASSUME IsFiniteSet(tracks), NEW user, NEW album, NEW artist,
           NEW s \in Albums!ListTracksByAlbum(user, album, artist)
    PROVE  /\ DOMAIN s = 1 .. Len(s) /\ Len(s) \in Nat
           /\ ToSet(s) = Albums!OnAlbum(user, album, artist)
           /\ Len(s) = Cardinality(Albums!OnAlbum(user, album, artist))
           /\ \A i \in DOMAIN s : s[i] \in tracks
           /\ \A i, j \in DOMAIN s : i < j =>
                ~Precedes(NullsLast(s[j].number) \o <<s[j].title>>,
                          NullsLast(s[i].number) \o <<s[i].title>>)
<1> DEFINE S == Albums!OnAlbum(user, album, artist)
           key == [t \in S |-> NullsLast(t.number) \o <<t.title>>]
<1>1. s \in Ordered(key)
  BY SameCatalog, Zenon DEF Albums!ListTracksByAlbum
<1>2. IsFiniteSet(S) /\ S \subseteq tracks
  BY AlbumTracksOf
<1>3. DOMAIN key = S /\ \A t \in S : key[t] = NullsLast(t.number) \o <<t.title>>
  OBVIOUS
<1> HIDE DEF key, S
<1>4. /\ ToSet(s) = S /\ Len(s) = Cardinality(S) /\ DOMAIN s = 1 .. Len(s) /\ Len(s) \in Nat
      /\ \A i, j \in DOMAIN s : i < j => ~Precedes(key[s[j]], key[s[i]])
  BY <1>1, <1>2, <1>3, OrderedIs
<1>5. \A i \in DOMAIN s : s[i] \in S
  BY <1>4 DEF ToSet
<1> QED
  BY <1>2, <1>3, <1>4, <1>5 DEF S

\* Numbers that fit are listed as they were asked for, the tracks without one last.
LEMMA ListsInOrder ==
    ASSUME Library(LibraryUsers, LibraryIds),
           \A t \in tracks : t.asked > 0 => t.number = t.asked,
           NEW user, NEW album, NEW artist,
           NEW s \in Albums!ListTracksByAlbum(user, album, artist)
    PROVE  Albums!InTagOrder(s)
<1>1. SUFFICES ASSUME NEW i \in DOMAIN s, NEW j \in DOMAIN s, i < j, s[j].asked > 0
               PROVE  s[i].asked \in 1 .. s[j].asked
  BY DEF Albums!InTagOrder
<1> DEFINE t == s[i]
           u == s[j]
<1>2. /\ t \in tracks /\ u \in tracks
      /\ ~Precedes(NullsLast(u.number) \o <<u.title>>, NullsLast(t.number) \o <<t.title>>)
  BY <1>1, ListsTracks DEF Library
<1>3. RowFits(t) /\ RowFits(u)
  BY <1>2 DEF Library
<1> HIDE DEF t, u
<1>4. u.asked \in Nat /\ u.asked > 0 /\ u.number = u.asked /\ t.asked \in Nat
  BY <1>1, <1>2, <1>3 DEF RowFits, u
<1>5. Null \notin Int /\ Half \in Nat
  BY CatalogConstants
<1>6. t.number \in {Null} \cup Int
  BY <1>3, <1>5 DEF RowFits
<1>7. t.number # Null /\ t.number <= u.number
  BY <1>2, <1>4, <1>5, <1>6, NumberFirst
<1>8. t.asked > 0
  BY <1>3, <1>4, <1>7 DEF RowFits, NullableTrackNumber
<1>9. t.number = t.asked
  BY <1>2, <1>8
<1> QED
  BY <1>4, <1>7, <1>8, <1>9 DEF t, u

\* As tracks are only added, what a summary promised and a listing keeps remain so.
LEMMA PromisesStay ==
    ASSUME tracks \subseteq tracks', IsFiniteSet(tracks')
    PROVE  /\ \A row : Albums!Promised(row) => Albums!Promised(row)'
           /\ \A list, row : Albums!Keeps(list, row) => Albums!Keeps(list, row)'
<1>1. ASSUME NEW album, NEW artist
      PROVE  /\ Albums!AlbumOf(Me, album, artist) \subseteq Albums!AlbumOf(Me, album, artist)'
             /\ Albums!OnAlbum(Me, album, artist) \subseteq Albums!OnAlbum(Me, album, artist)'
             /\ Cardinality(Albums!AlbumOf(Me, album, artist)) \in Nat
             /\ Cardinality(Albums!AlbumOf(Me, album, artist)') \in Nat
             /\ Cardinality(Albums!AlbumOf(Me, album, artist))
                  <= Cardinality(Albums!AlbumOf(Me, album, artist)')
  <2> DEFINE S == Albums!AlbumOf(Me, album, artist)
             T == Albums!AlbumOf(Me, album, artist)'
  <2>1. S \subseteq T /\ T \subseteq tracks'
    BY DEF Albums!AlbumOf, Albums!Of
  <2>2. Albums!OnAlbum(Me, album, artist) \subseteq Albums!OnAlbum(Me, album, artist)'
    BY DEF Albums!OnAlbum, Albums!Of
  <2> HIDE DEF S, T
  <2>3. IsFiniteSet(T)
    BY <2>1, FS_Subset
  <2>4. IsFiniteSet(S) /\ Cardinality(S) <= Cardinality(T)
    BY <2>1, <2>3, FS_Subset
  <2>5. Cardinality(S) \in Nat /\ Cardinality(T) \in Nat
    BY <2>3, <2>4, FS_CardinalityType
  <2> QED
    BY <2>1, <2>2, <2>4, <2>5 DEF S, T
<1>2. ASSUME NEW row, Albums!Promised(row)
      PROVE  Albums!Promised(row)'
  <2> DEFINE S == Albums!AlbumOf(Me, row.album, row.artist)
             T == Albums!AlbumOf(Me, row.album, row.artist)'
  <2>1. /\ row.count \in 0 .. Cardinality(S)
        /\ \E t \in S : t.id = row.representative /\ (row.hasArtwork => HasArtwork(t))
    BY <1>2, SameCatalog, SameInserts DEF Albums!Promised
  <2>2. S \subseteq T /\ Cardinality(S) \in Nat /\ Cardinality(T) \in Nat
        /\ Cardinality(S) <= Cardinality(T)
    BY <1>1
  <2> HIDE DEF S, T
  <2>3. row.count \in 0 .. Cardinality(T)
    BY <2>1, <2>2
  <2>4. \E t \in T : t.id = row.representative /\ (row.hasArtwork => HasArtwork(t))
    BY <2>1, <2>2
  <2> QED
    BY <2>3, <2>4, SameCatalog, SameInserts DEF Albums!Promised, T
<1>3. ASSUME NEW list, NEW row, Albums!Keeps(list, row)
      PROVE  Albums!Keeps(list, row)'
  BY <1>1, <1>3 DEF Albums!Keeps
<1> QED
  BY <1>2, <1>3

\* A summary promises what is there.
LEMMA SummaryPromised ==
    ASSUME Library(LibraryUsers, LibraryIds), NEW t \in Of(Me)
    PROVE  Albums!Promised(SummaryOf(Me, t))
<1> DEFINE S == Albums!AlbumOf(Me, t.album, t.albumArtist)
           row == SummaryOf(Me, t)
<1>1. row = [album |-> t.album, artist |-> t.albumArtist, count |-> Cardinality(S),
             representative |-> Representative(S), hasArtwork |-> \E u \in S : u.artwork # Null]
  BY SummaryIs
<1>2. Cardinality(S) \in Nat /\ S \subseteq tracks
  BY AlbumTracksOf DEF Library
<1>3. S # {}
  BY DEF Albums!AlbumOf, Albums!Of, Of
<1>4. \A u \in S : u.id \in Nat /\ RowFits(u)
  BY <1>2, LibraryIdsTyped DEF Library
<1>5. /\ row.album = t.album /\ row.artist = t.albumArtist /\ row.count = Cardinality(S)
      /\ row.representative = Representative(S)
      /\ row.hasArtwork <=> \E u \in S : u.artwork # Null
  BY <1>1
<1> HIDE DEF row
<1>6. S = Albums!AlbumOf(Me, row.album, row.artist)
  BY <1>5
<1> HIDE DEF S
<1>7. \E u \in S : u.id = Representative(S) /\ ((\E v \in S : v.artwork # Null) => HasArtwork(u))
  BY <1>3, <1>4, RepresentativeIs
<1>8. row.count \in 0 .. Cardinality(S)
  BY <1>2, <1>5
<1>9. \E u \in S : u.id = row.representative /\ (row.hasArtwork => HasArtwork(u))
  BY <1>5, <1>7
<1> QED
  BY <1>6, <1>8, <1>9, SameCatalog, SameInserts DEF Albums!Promised, row

\* The list of the albums promises what is there, and as least as much as before.
LEMMA AlbumsAnswer ==
    ASSUME Library(LibraryUsers, LibraryIds), NEW s \in Albums!ListAlbums(Me),
           NEW old, \A row \in Albums!ToSet(old) : Albums!Promised(row)
    PROVE  /\ \A row \in Albums!ToSet(s) : Albums!Promised(row)
           /\ Albums!Grows(old, s)
<1>1. /\ \A i \in DOMAIN s : \E t \in Of(Me) : s[i] = SummaryOf(Me, t)
      /\ \A t \in Of(Me) : \E i \in DOMAIN s : s[i] = SummaryOf(Me, t)
  BY ListsAlbums DEF Library
<1>2. \A row \in Albums!ToSet(s) : Albums!Promised(row)
  BY <1>1, SummaryPromised DEF Albums!ToSet
<1>3. ASSUME NEW i \in DOMAIN old
      PROVE  \E j \in DOMAIN s :
                 /\ <<s[j].album, s[j].artist>> = <<old[i].album, old[i].artist>>
                 /\ s[j].count >= old[i].count
  <2> DEFINE row == old[i]
             S == Albums!AlbumOf(Me, row.album, row.artist)
  <2>1. Albums!Promised(row)
    BY DEF Albums!ToSet
  <2> HIDE DEF row
  <2>2. row.count \in 0 .. Cardinality(S) /\ \E t \in S : t.id = row.representative
    BY <2>1, SameCatalog DEF Albums!Promised
  <2>3. PICK t \in S : t.id = row.representative
    BY <2>2
  <2>4. t \in Of(Me) /\ t.album = row.album /\ t.albumArtist = row.artist
    BY <2>3 DEF Albums!AlbumOf, Albums!Of, Of
  <2>5. PICK j \in DOMAIN s : s[j] = SummaryOf(Me, t)
    BY <1>1, <2>4
  <2>6. /\ s[j].album = row.album /\ s[j].artist = row.artist
        /\ s[j].count = Cardinality(S)
    BY <2>4, <2>5, SummaryIs
  <2>7. Cardinality(S) \in Nat
    BY AlbumTracksOf DEF Library
  <2>8. s[j].count >= row.count
    BY <2>2, <2>6, <2>7
  <2> QED
    BY <2>6, <2>8 DEF row
<1>4. Albums!Grows(old, s)
  BY <1>3 DEF Albums!Grows
<1> QED
  BY <1>2, <1>4

\* The numbers of the tracks, as far as the instance has only some that fit.
AsAsked == Albums!NumbersFit => \A t \in tracks : t.asked > 0 => t.number = t.asked

\* The listing of an album keeps what its summary promised.
LEMMA TracksAnswer ==
    ASSUME Library(LibraryUsers, LibraryIds), AsAsked,
           NEW row, Albums!Promised(row), NEW s \in Albums!AlbumTracks(row)
    PROVE  /\ Albums!Keeps(s, row)
           /\ ToSet(s) = Albums!OnAlbum(Me, row.album, row.artist)
<1> DEFINE S == Albums!AlbumOf(Me, row.album, row.artist)
           T == Albums!OnAlbum(Me, row.album, row.artist)
<1>1. s \in Albums!ListTracksByAlbum(Me, row.album, row.artist)
  BY DEF Albums!AlbumTracks
<1>2. ToSet(s) = T /\ Len(s) = Cardinality(T)
  BY <1>1, ListsTracks DEF Library
<1>3. /\ S \subseteq T /\ Cardinality(S) \in Nat /\ Cardinality(T) \in Nat
      /\ Cardinality(S) <= Cardinality(T)
  BY AlbumTracksOf DEF Library
<1>4. row.count \in 0 .. Cardinality(S) /\ \E t \in S : t.id = row.representative
  BY SameCatalog DEF Albums!Promised
<1> HIDE DEF S, T
<1>5. Len(s) >= row.count
  BY <1>2, <1>3, <1>4
<1>6. \E t \in ToSet(s) : t.id = row.representative
  BY <1>2, <1>3, <1>4
<1>7. \E i \in DOMAIN s : s[i].id = row.representative
  BY <1>6 DEF ToSet
<1>8. Albums!NumbersFit => Albums!InTagOrder(s)
  BY <1>1, ListsInOrder DEF AsAsked
<1> QED
  BY <1>2, <1>5, <1>7, <1>8, SameCatalog DEF Albums!Keeps, T

-----------------------------------------------------------------------------
(* The Albums tab                                                           *)

\* The Albums tab starts in its invariant.
LEMMA AlbumsInitial == Albums!Init => Albums!ScreensInv
<1> SUFFICES ASSUME Albums!Init PROVE Albums!ScreensInv
  OBVIOUS
<1>1. IsFiniteSet({})
  BY FS_EmptySet
<1>2. Library(LibraryUsers, LibraryIds)
  BY <1>1 DEF Albums!Init, Library
<1>3. loaded \in BOOLEAN /\ ~loaded
  BY Zenon DEF Albums!Init
<1> QED
  BY <1>2, <1>3, LibraryRows, CatalogConstants, SameCatalog
  DEF Albums!Init, Albums!ScreensInv, Albums!ToSet

\* What the steps read of the invariant.
LEMMA ScreensFacts ==
    ASSUME Albums!ScreensInv
    PROVE  /\ Library(LibraryUsers, LibraryIds) /\ IsFiniteSet(tracks) /\ AsAsked
           /\ focus \in 0 .. MaxFocus /\ MaxFocus \in Nat /\ loaded \in BOOLEAN
           /\ \A row \in Albums!ToSet(albums) : Albums!Promised(row)
           /\ \A row, that \in opened : Albums!Promised(row) /\ row = that
           /\ \A r \in loads : Albums!RequestInv(r)
           /\ IF loaded THEN \E row \in opened : Albums!Keeps(listed, row) ELSE listed = <<>>
BY LibraryRows, CatalogConstants DEF Albums!ScreensInv, Library, AsAsked

\* All but the requests, after a step that adds tracks at most.
LEMMA ScreensStay ==
    ASSUME Albums!ScreensInv, tracks \subseteq tracks', Library(LibraryUsers, LibraryIds)',
           AsAsked', focus' \in 0 .. MaxFocus, loaded' \in BOOLEAN,
           \A row \in Albums!ToSet(albums') : Albums!Promised(row),
           \A row, that \in opened' : Albums!Promised(row) /\ row = that,
           \A r \in loads' : Albums!RequestInv(r)',
           IF loaded' THEN \E row \in opened' : Albums!Keeps(listed', row) ELSE listed' = <<>>
    PROVE  Albums!ScreensInv'
<1>1. IsFiniteSet(tracks')
  BY DEF Library
<1>2. /\ \A row : Albums!Promised(row) => Albums!Promised(row)'
      /\ \A list, row : Albums!Keeps(list, row) => Albums!Keeps(list, row)'
  BY <1>1, PromisesStay
<1>3. Albums!LibraryInv'
  BY LibraryRows, PTL
<1> QED
  BY <1>2, <1>3 DEF Albums!ScreensInv, AsAsked

\* A request, after a step of another.
LEMMA RequestStays ==
    ASSUME tracks \subseteq tracks', IsFiniteSet(tracks'),
           UNCHANGED <<albums, opened, listed, focus>>,
           NEW r \in loads, Albums!RequestInv(r),
           \A q \in loads' : q.focus = r.focus => q = r
    PROVE  Albums!RequestInv(r)'
<1>1. /\ \A row : Albums!Promised(row) => Albums!Promised(row)'
      /\ \A list, row : Albums!Keeps(list, row) => Albums!Keeps(list, row)'
  BY PromisesStay
<1> QED
  BY <1>1 DEF Albums!RequestInv

\* A request of an earlier focus is ignored.
LEMMA RequestPasses ==
    ASSUME focus \in Nat, focus' = focus + 1,
           NEW on, loads' = loads \cup {[focus |-> focus + 1, of |-> on, answer |-> Null]},
           NEW r \in loads, Albums!RequestInv(r)
    PROVE  Albums!RequestInv(r)'
<1>1. r.focus \in 1 .. focus /\ \A q \in loads : q.focus = r.focus => q = r
  BY DEF Albums!RequestInv
<1>2. r.focus \in 1 .. focus' /\ r.focus # focus'
  BY <1>1
<1>3. \A q \in loads' : q.focus = r.focus => q = r
  BY <1>1, <1>2
<1> QED
  BY <1>2, <1>3 DEF Albums!RequestInv

\* The screen on top gains the focus.
LEMMA FocusRequests ==
    ASSUME Albums!ScreensInv, NEW on, Albums!Focus(on), opened' = on
    PROVE  focus' \in 0 .. MaxFocus /\ \A r \in loads' : Albums!RequestInv(r)'
<1>0. PICK new : new = [focus |-> focus + 1, of |-> on, answer |-> Null]
  OBVIOUS
<1>1. /\ focus \in Nat /\ focus' = focus + 1 /\ focus' \in 0 .. MaxFocus
      /\ loads' = loads \cup {new} /\ \A r \in loads : Albums!RequestInv(r)
  BY <1>0, ScreensFacts DEF Albums!Focus
<1>2. ASSUME NEW r \in loads
      PROVE  Albums!RequestInv(r)'
  BY <1>0, <1>1, RequestPasses
<1>3. Albums!RequestInv(new)'
  <2>1. \A q \in loads : q.focus \in 1 .. focus
    BY <1>1 DEF Albums!RequestInv
  <2>2. new.focus = focus' /\ new.of = opened' /\ new.answer = Null
        /\ new = [focus |-> new.focus, of |-> new.of, answer |-> new.answer]
    BY <1>0, <1>1
  <2>3. new.focus \in 1 .. focus' /\ \A q \in loads' : q.focus = new.focus => q = new
    BY <1>1, <2>1, <2>2
  <2> QED
    BY <2>2, <2>3 DEF Albums!RequestInv
<1> QED
  BY <1>1, <1>2, <1>3

\* The tab is entered: a request for the albums.
LEMMA EnterTabScreens == Albums!ScreensInv /\ Albums!EnterTab => Albums!ScreensInv'
<1> SUFFICES ASSUME Albums!ScreensInv, Albums!EnterTab PROVE Albums!ScreensInv'
  OBVIOUS
<1>1. UNCHANGED <<tracks, albums, opened, listed, loaded>> /\ Albums!Focus(opened)
  BY DEF Albums!EnterTab
<1>2. focus' \in 0 .. MaxFocus /\ \A r \in loads' : Albums!RequestInv(r)'
  BY <1>1, FocusRequests
<1>3. Library(LibraryUsers, LibraryIds)' /\ AsAsked'
  BY <1>1, ScreensFacts DEF Library, AsAsked
<1> QED
  BY <1>1, <1>2, <1>3, ScreensFacts, ScreensStay

\* An album is tapped: a request for its tracks.
LEMMA TapScreens == Albums!ScreensInv /\ Albums!Tap => Albums!ScreensInv'
<1> SUFFICES ASSUME Albums!ScreensInv, Albums!Tap PROVE Albums!ScreensInv'
  OBVIOUS
<1>1. UNCHANGED <<tracks, albums>> /\ listed' = <<>> /\ loaded' = FALSE
      /\ \E i \in DOMAIN albums : opened' = {albums[i]} /\ Albums!Focus(opened')
  BY DEF Albums!Tap, Albums!Mount
<1>2. focus' \in 0 .. MaxFocus /\ \A r \in loads' : Albums!RequestInv(r)'
  BY <1>1, FocusRequests
<1>3. Library(LibraryUsers, LibraryIds)' /\ AsAsked'
  BY <1>1, ScreensFacts DEF Library, AsAsked
<1>4. \A row, that \in opened' : Albums!Promised(row) /\ row = that
  BY <1>1, ScreensFacts DEF Albums!ToSet
<1> QED
  BY <1>1, <1>2, <1>3, <1>4, ScreensFacts, ScreensStay

\* And left again: a request for the albums.
LEMMA BackScreens == Albums!ScreensInv /\ Albums!Back => Albums!ScreensInv'
<1> SUFFICES ASSUME Albums!ScreensInv, Albums!Back PROVE Albums!ScreensInv'
  OBVIOUS
<1>1. UNCHANGED <<tracks, albums>> /\ listed' = <<>> /\ loaded' = FALSE
      /\ opened' = {} /\ Albums!Focus({})
  BY DEF Albums!Back, Albums!Mount
<1>2. focus' \in 0 .. MaxFocus /\ \A r \in loads' : Albums!RequestInv(r)'
  BY <1>1, FocusRequests
<1>3. Library(LibraryUsers, LibraryIds)' /\ AsAsked'
  BY <1>1, ScreensFacts DEF Library, AsAsked
<1> QED
  BY <1>1, <1>2, <1>3, ScreensFacts, ScreensStay

\* A statement answers a request of the focus with no less than is shown.
LEMMA HandleScreens == Albums!ScreensInv /\ Albums!Handle => Albums!ScreensInv'
<1> SUFFICES ASSUME Albums!ScreensInv, Albums!Handle PROVE Albums!ScreensInv'
  OBVIOUS
<1>1. UNCHANGED <<tracks, albums, opened, listed, loaded, focus>>
  BY DEF Albums!Handle
<1>2. PICK r \in loads :
          /\ r.answer = Null
          /\ \E s \in IF r.of = {} THEN Albums!ListAlbums(Me)
                      ELSE UNION {Albums!AlbumTracks(row) : row \in r.of} :
                 loads' = (loads \ {r}) \cup {[r EXCEPT !.answer = s]}
  BY DEF Albums!Handle
<1>3. PICK s \in IF r.of = {} THEN Albums!ListAlbums(Me)
                 ELSE UNION {Albums!AlbumTracks(row) : row \in r.of} :
          loads' = (loads \ {r}) \cup {[r EXCEPT !.answer = s]}
  BY <1>2
<1> DEFINE new == [r EXCEPT !.answer = s]
<1>4. /\ r = [focus |-> r.focus, of |-> r.of, answer |-> r.answer]
      /\ r.focus \in 1 .. focus
      /\ \A q \in loads : q.focus = r.focus => q = r
      /\ r.focus = focus => r.of = opened
  BY ScreensFacts DEF Albums!RequestInv
<1>5. /\ new = [focus |-> new.focus, of |-> new.of, answer |-> new.answer]
      /\ new.focus = r.focus /\ new.of = r.of /\ new.answer = s
  BY <1>4
<1>6. loads' = (loads \ {r}) \cup {new}
  BY <1>3
<1> HIDE DEF new
<1>7. \A q \in loads' : q.focus = new.focus => q = new
  BY <1>4, <1>5, <1>6
<1>8. ASSUME NEW q \in loads \ {r}
      PROVE  Albums!RequestInv(q)'
  <2>1. Albums!RequestInv(q) /\ IsFiniteSet(tracks')
    BY <1>1, ScreensFacts
  <2>2. \A p \in loads : p.focus = q.focus => p = q
    BY <2>1 DEF Albums!RequestInv
  <2>3. \A p \in loads' : p.focus = q.focus => p = q
    BY <1>5, <1>6, <2>2
  <2> QED
    BY <1>1, <2>1, <2>3, RequestStays
<1>9. Albums!RequestInv(new)'
  <2>1. CASE new.focus # focus
    BY <1>1, <1>4, <1>5, <1>7, <2>1 DEF Albums!RequestInv
  <2>2. CASE new.focus = focus /\ opened = {}
    <3>1. s \in Albums!ListAlbums(Me)
      BY <1>3, <1>4, <1>5, <2>2
    <3>2. Albums!Grows(albums, s) /\ \A row \in Albums!ToSet(s) : Albums!Promised(row)
      BY <3>1, ScreensFacts, AlbumsAnswer
    <3>3. \A row \in Albums!ToSet(s) : Albums!Promised(row)'
      BY <1>1, <3>2, ScreensFacts, PromisesStay
    <3> QED
      BY <1>1, <1>4, <1>5, <1>7, <2>2, <3>2, <3>3 DEF Albums!RequestInv
  <2>3. CASE new.focus = focus /\ opened # {}
    <3>1. PICK row \in opened : s \in Albums!AlbumTracks(row)
      BY <1>3, <1>4, <1>5, <2>3
    <3>2. opened = {row} /\ Albums!Promised(row)
      BY ScreensFacts
    <3>3. Albums!Keeps(s, row) /\ ToSet(s) = Albums!OnAlbum(Me, row.album, row.artist)
      BY <3>1, <3>2, ScreensFacts, TracksAnswer
    <3>4. Albums!ToSet(listed) \subseteq Albums!ToSet(s)
      <4>1. CASE loaded
        BY <3>2, <3>3, <4>1, ScreensFacts, SameCatalog DEF Albums!Keeps
      <4>2. CASE ~loaded
        BY <4>2, ScreensFacts DEF Albums!ToSet
      <4> QED
        BY <4>1, <4>2
    <3>5. Albums!Keeps(s, row)'
      BY <1>1, <3>3, ScreensFacts, PromisesStay
    <3> QED
      BY <1>1, <1>4, <1>5, <1>7, <2>3, <3>2, <3>4, <3>5 DEF Albums!RequestInv
  <2> QED
    BY <2>1, <2>2, <2>3
<1>10. \A q \in loads' : Albums!RequestInv(q)'
  BY <1>6, <1>8, <1>9
<1>11. Library(LibraryUsers, LibraryIds)' /\ AsAsked'
  BY <1>1, ScreensFacts DEF Library, AsAsked
<1> QED
  BY <1>1, <1>10, <1>11, ScreensFacts, ScreensStay

\* The answers that have not been shown are of the screen on top, or are ignored.
LEMMA ReceiveScreens == Albums!ScreensInv /\ Albums!Receive => Albums!ScreensInv'
<1> SUFFICES ASSUME Albums!ScreensInv, Albums!Receive PROVE Albums!ScreensInv'
  OBVIOUS
<1>1. PICK r \in loads :
          /\ r.answer # Null
          /\ loads' = loads \ {r}
          /\ IF Albums!Ignored(r) THEN UNCHANGED <<albums, listed, loaded>>
             ELSE IF r.of = {} THEN albums' = r.answer /\ UNCHANGED <<listed, loaded>>
             ELSE listed' = r.answer /\ loaded' = TRUE /\ UNCHANGED albums
          /\ UNCHANGED <<tracks, opened, focus>>
  BY DEF Albums!Receive
<1>2. Library(LibraryUsers, LibraryIds)' /\ AsAsked' /\ IsFiniteSet(tracks')
  BY <1>1, ScreensFacts DEF Library, AsAsked
<1>3. Albums!RequestInv(r)
  BY ScreensFacts
<1>4. \A q \in loads : /\ Albums!RequestInv(q)
                       /\ \A p \in loads : p.focus = q.focus => p = q
  BY ScreensFacts DEF Albums!RequestInv
<1>5. CASE Albums!Ignored(r)
  <2>1. UNCHANGED <<albums, opened, listed, focus, loaded>>
    BY <1>1, <1>5
  <2>2. \A q \in loads' : Albums!RequestInv(q)'
    BY <1>1, <1>2, <1>4, <2>1, RequestStays
  <2> QED
    BY <1>1, <1>2, <2>1, <2>2, ScreensFacts, ScreensStay
<1>6. CASE ~Albums!Ignored(r)
  <2>1. r.focus = focus /\ r.of = opened
    BY <1>3, <1>6 DEF Albums!Ignored, Albums!RequestInv
  <2>2. \A q \in loads' : Albums!RequestInv(q)'
    <3> SUFFICES ASSUME NEW q \in loads' PROVE Albums!RequestInv(q)'
      OBVIOUS
    <3>1. q \in loads /\ q # r /\ q.focus # focus
      BY <1>1, <1>4, <2>1
    <3> QED
      BY <1>1, <1>4, <3>1 DEF Albums!RequestInv
  <2>3. CASE opened = {}
    <3>1. albums' = r.answer /\ UNCHANGED <<listed, loaded>>
      BY <1>1, <1>6, <2>1, <2>3
    <3>2. \A row \in Albums!ToSet(r.answer) : Albums!Promised(row)
      BY <1>1, <1>3, <2>1, <2>3 DEF Albums!RequestInv
    <3> QED
      BY <1>1, <1>2, <2>2, <3>1, <3>2, ScreensFacts, ScreensStay
  <2>4. CASE opened # {}
    <3>1. listed' = r.answer /\ loaded' = TRUE /\ UNCHANGED albums
      BY <1>1, <1>6, <2>1, <2>4
    <3>2. \A row \in opened : Albums!Keeps(r.answer, row)
      BY <1>1, <1>3, <2>1, <2>4 DEF Albums!RequestInv
    <3> QED
      BY <1>1, <1>2, <2>2, <2>4, <3>1, <3>2, ScreensFacts, ScreensStay
  <2> QED
    BY <2>3, <2>4
<1> QED
  BY <1>5, <1>6

\* A request fails: the screen stays as it is.
LEMMA FailScreens == Albums!ScreensInv /\ Albums!Fail => Albums!ScreensInv'
<1> SUFFICES ASSUME Albums!ScreensInv, Albums!Fail PROVE Albums!ScreensInv'
  OBVIOUS
<1>1. UNCHANGED <<tracks, albums, opened, listed, loaded, focus>> /\ loads' \subseteq loads
  BY DEF Albums!Fail
<1>2. Library(LibraryUsers, LibraryIds)' /\ AsAsked' /\ IsFiniteSet(tracks')
  BY <1>1, ScreensFacts DEF Library, AsAsked
<1>3. \A q \in loads : /\ Albums!RequestInv(q)
                       /\ \A p \in loads : p.focus = q.focus => p = q
  BY ScreensFacts DEF Albums!RequestInv
<1>4. \A q \in loads' : Albums!RequestInv(q)'
  BY <1>1, <1>2, <1>3, RequestStays
<1> QED
  BY <1>1, <1>2, <1>4, ScreensFacts, ScreensStay

\* A track is uploaded from anywhere: what was promised is kept.
LEMMA UploadScreens == Albums!ScreensInv /\ Albums!UploadAny => Albums!ScreensInv'
<1> SUFFICES ASSUME Albums!ScreensInv, Albums!UploadAny PROVE Albums!ScreensInv'
  OBVIOUS
<1>1. UNCHANGED <<albums, opened, listed, loaded, focus, loads>> /\ Albums!Upload
  BY DEF Albums!UploadAny
<1>2. PICK user \in LibraryUsers : \E upload \in LibraryUploads[user] : \E new :
          Adds(LibraryIds, user, upload, new)
  BY <1>1, AlbumsUpload
<1>3. PICK upload \in LibraryUploads[user] : \E new : Adds(LibraryIds, user, upload, new)
  BY <1>2
<1>4. PICK new : Adds(LibraryIds, user, upload, new)
  BY <1>3
<1>5. Library(LibraryUsers, LibraryIds)'
  BY <1>4, ScreensFacts, LibraryGrows
<1>6. AsAsked'
  <2> SUFFICES ASSUME Albums!NumbersFit, NEW t \in tracks', t.asked > 0
               PROVE  t.number = t.asked
    BY DEF AsAsked
  <2>1. CASE t \in tracks
    BY <2>1, ScreensFacts DEF AsAsked
  <2>2. CASE t = new
    <3>1. t.number = NullableTrackNumber(t.asked) /\ t.asked = Resolve(upload).number
      BY <1>4, <2>2 DEF Adds, RowFits
    <3>2. Int32(Resolve(upload).number) = Resolve(upload).number
      BY <1>3, <3>1, SameInserts DEF Albums!NumbersFit
    <3> QED
      BY <3>1, <3>2 DEF NullableTrackNumber
  <2> QED
    BY <1>4, <2>1, <2>2 DEF Adds
<1>7. tracks \subseteq tracks' /\ IsFiniteSet(tracks')
  BY <1>4, <1>5 DEF Adds, Library
<1>8. \A q \in loads : /\ Albums!RequestInv(q)
                       /\ \A p \in loads : p.focus = q.focus => p = q
  BY ScreensFacts DEF Albums!RequestInv
<1>9. \A q \in loads' : Albums!RequestInv(q)'
  BY <1>1, <1>7, <1>8, RequestStays
<1> QED
  BY <1>1, <1>5, <1>6, <1>7, <1>9, ScreensFacts, ScreensStay

\* ScreensInv is inductive.
LEMMA ScreensStep == Albums!ScreensInv /\ Albums!Next => Albums!ScreensInv'
BY UploadScreens, EnterTabScreens, TapScreens, BackScreens, HandleScreens, ReceiveScreens,
   FailScreens DEF Albums!Next

\* A step of another part leaves all that.
LEMMA ScreensUnchanged == Albums!ScreensInv /\ UNCHANGED Albums!vars => Albums!ScreensInv'
<1> SUFFICES ASSUME Albums!ScreensInv, UNCHANGED Albums!vars PROVE Albums!ScreensInv'
  OBVIOUS
<1>1. UNCHANGED <<tracks, albums, opened, listed, loaded, focus, loads>>
  BY DEF Albums!vars
<1>2. Library(LibraryUsers, LibraryIds)' /\ AsAsked' /\ IsFiniteSet(tracks')
  BY <1>1, ScreensFacts DEF Library, AsAsked
<1>3. \A q \in loads : /\ Albums!RequestInv(q)
                       /\ \A p \in loads : p.focus = q.focus => p = q
  BY ScreensFacts DEF Albums!RequestInv
<1>4. \A q \in loads' : Albums!RequestInv(q)'
  BY <1>1, <1>2, <1>3, RequestStays
<1> QED
  BY <1>1, <1>2, <1>4, ScreensFacts, ScreensStay

-----------------------------------------------------------------------------
(* What the Albums tab shows                                                *)

\* The Albums tab holds its invariant while it is the part in use; the others
\* leave its screens as they were at the start.
Browsed ==
    IF part = "albums" THEN Albums!ScreensInv
    ELSE albums = <<>> /\ opened = {} /\ listed = <<>> /\ loaded = FALSE

\* So it does throughout, whatever the other parts do.
LEMMA AlbumsInvariance == ClientSpec => []Browsed
<1>1. ClientInit => Browsed
  BY AlbumsInitial DEF ClientInit, Browsed, Albums!Init
<1>2. Browsed /\ [ClientNext]_clientVars => Browsed'
  <2> SUFFICES ASSUME Browsed, [ClientNext]_clientVars
               PROVE  Browsed'
    OBVIOUS
  <2>1. part' = part
    BY DEF ClientNext, clientVars
  <2>2. CASE part = "albums" /\ Albums!Next
    BY <2>1, <2>2, ScreensStep DEF Browsed
  <2>3. CASE part # "albums" /\ UNCHANGED albumsVars
    BY <2>1, <2>3 DEF Browsed, albumsVars
  <2>4. CASE UNCHANGED clientVars
    <3>1. UNCHANGED Albums!vars
      BY <2>4 DEF clientVars, albumsVars, Albums!vars
    <3>2. Albums!ScreensInv => Albums!ScreensInv'
      BY <3>1, ScreensUnchanged
    <3> QED
      BY <2>1, <3>1, <3>2 DEF Browsed, Albums!vars
  <2> QED
    BY <2>2, <2>3, <2>4 DEF ClientNext
<1> QED
  BY <1>1, <1>2, PTL DEF ClientSpec

\* Where the column holds the track numbers that are uploaded, an album that was
\* tapped shows what its summary promised, however old it is, with artwork that is
\* served, in the order of its tags.
THEOREM AlbumsOpenInOrder ==
    ASSUME Albums!NumbersFit
    PROVE  ClientSpec => []OpensInOrder
<1>1. Browsed => OpensInOrder
  <2> SUFFICES ASSUME Browsed PROVE OpensInOrder
    OBVIOUS
  <2>1. CASE part # "albums"
    BY <2>1 DEF Browsed, OpensInOrder, OpensWhatWasTapped, ArtworkServed, ListedAsTagged,
       Albums!OpensWhatWasTapped, Albums!ArtworkServed, Albums!ListedAsTagged, Albums!InTagOrder
  <2>2. CASE part = "albums"
    <3>1. /\ Library(LibraryUsers, LibraryIds)
          /\ \A row \in Albums!ToSet(albums) : Albums!Promised(row)
          /\ \A row, that \in opened : row = that
          /\ IF loaded THEN \E row \in opened : Albums!Keeps(listed, row) ELSE listed = <<>>
      BY <2>2, ScreensFacts DEF Browsed
    <3>2. OpensWhatWasTapped
      BY <3>1 DEF OpensWhatWasTapped, Albums!OpensWhatWasTapped, Albums!Keeps
    <3>3. ListedAsTagged
      BY <3>1 DEF ListedAsTagged, Albums!ListedAsTagged, Albums!Keeps, Albums!InTagOrder
    <3>4. \A i \in DOMAIN albums : albums[i].hasArtwork =>
              Albums!ArtworkFound(Me, albums[i].representative)
      <4> SUFFICES ASSUME NEW i \in DOMAIN albums, albums[i].hasArtwork
                   PROVE  Albums!ArtworkFound(Me, albums[i].representative)
        OBVIOUS
      <4>1. Albums!Promised(albums[i])
        BY <3>1 DEF Albums!ToSet
      <4> QED
        BY <4>1 DEF Albums!Promised, Albums!ArtworkFound, Albums!GetTrack, Albums!AlbumOf
    <3>5. \A i \in DOMAIN listed : listed[i] \in Albums!Of(Me)
      BY <3>1 DEF Albums!Keeps, Albums!OnAlbum, Albums!ToSet
    <3>6. ArtworkServed
      BY <3>4, <3>5
      DEF ArtworkServed, Albums!ArtworkServed, Albums!ArtworkFound, Albums!GetTrack
    <3> QED
      BY <3>2, <3>3, <3>6 DEF OpensInOrder
  <2> QED
    BY <2>1, <2>2
<1> QED
  BY <1>1, AlbumsInvariance, PTL

\* An answer that is shown takes nothing away.
LEMMA ReceiveGrows ==
    ASSUME Albums!ScreensInv, Albums!Receive
    PROVE  /\ albums' = albums \/ Albums!Grows(albums, albums')
           /\ Albums!ToSet(listed) \subseteq Albums!ToSet(listed')
<1>1. PICK r \in loads :
          /\ r.answer # Null
          /\ IF Albums!Ignored(r) THEN UNCHANGED <<albums, listed, loaded>>
             ELSE IF r.of = {} THEN albums' = r.answer /\ UNCHANGED <<listed, loaded>>
             ELSE listed' = r.answer /\ loaded' = TRUE /\ UNCHANGED albums
  BY DEF Albums!Receive
<1>2. Albums!RequestInv(r)
  BY ScreensFacts
<1>3. CASE Albums!Ignored(r)
  BY <1>1, <1>3
<1>4. CASE ~Albums!Ignored(r)
  <2>1. r.focus = focus /\ r.of = opened
    BY <1>2, <1>4 DEF Albums!Ignored, Albums!RequestInv
  <2>2. CASE opened = {}
    BY <1>1, <1>2, <1>4, <2>1, <2>2 DEF Albums!RequestInv
  <2>3. CASE opened # {}
    BY <1>1, <1>2, <1>4, <2>1, <2>3 DEF Albums!RequestInv
  <2> QED
    BY <2>2, <2>3
<1> QED
  BY <1>3, <1>4

\* What is promised by the list of albums is a number of tracks: the list grows into itself.
LEMMA GrowsItself == Albums!ScreensInv => Albums!Grows(albums, albums)
<1> SUFFICES ASSUME Albums!ScreensInv, NEW i \in DOMAIN albums
             PROVE  albums[i].count >= albums[i].count
  BY DEF Albums!Grows
<1>1. Albums!Promised(albums[i]) /\ IsFiniteSet(tracks)
  BY ScreensFacts DEF Albums!ToSet
<1>2. albums[i].count \in Int
  BY <1>1, AlbumTracksOf, SameCatalog DEF Albums!Promised
<1> QED
  BY <1>2

\* No late answer takes a screen of the Albums tab back to an earlier library.
THEOREM AlbumsNeverBack == ClientSpec => NeverBack
<1> DEFINE Forward == /\ Albums!Grows(albums, albums')
                      /\ opened' = opened => Albums!ToSet(listed) \subseteq Albums!ToSet(listed')
<1>1. Browsed /\ [ClientNext]_clientVars => [Forward]_(Albums!vars)
  <2> SUFFICES ASSUME Browsed, [ClientNext]_clientVars, ~UNCHANGED Albums!vars
               PROVE  Forward
    OBVIOUS
  <2>1. CASE part # "albums" /\ UNCHANGED albumsVars
    BY <2>1 DEF Browsed, albumsVars, Albums!Grows
  <2>2. CASE part = "albums" /\ Albums!Next
    <3>1. Albums!ScreensInv /\ Albums!Grows(albums, albums)
      BY <2>2, GrowsItself DEF Browsed
    <3>2. CASE Albums!UploadAny \/ Albums!EnterTab \/ Albums!Handle \/ Albums!Fail
      <4>1. UNCHANGED <<albums, listed>>
        BY <3>2 DEF Albums!UploadAny, Albums!EnterTab, Albums!Handle, Albums!Fail
      <4> QED
        BY <3>1, <4>1
    <3>3. CASE Albums!Tap \/ Albums!Back
      <4>1. opened' # opened /\ UNCHANGED albums
        BY <3>3 DEF Albums!Tap, Albums!Back
      <4> QED
        BY <3>1, <4>1
    <3>4. CASE Albums!Receive
      BY <3>1, <3>4, ReceiveGrows
    <3> QED
      BY <2>2, <3>2, <3>3, <3>4 DEF Albums!Next
  <2>3. UNCHANGED clientVars => UNCHANGED Albums!vars
    BY DEF clientVars, albumsVars, Albums!vars
  <2> QED
    BY <2>1, <2>2, <2>3 DEF ClientNext
<1>2. NeverBack <=> [][Forward]_(Albums!vars)
  BY Zenon DEF NeverBack, Albums!NeverBack
<1> QED
  BY <1>1, <1>2, AlbumsInvariance, PTL DEF ClientSpec

-----------------------------------------------------------------------------
(* Summaries and listings                                                   *)

\* An album that tracks are listed by has an artist: its title is not enough.
LEMMA OneAlbum ==
    ASSUME Library(LibraryUsers, LibraryIds), NEW user, NEW t \in Of(user)
    PROVE  Albums!OnAlbum(user, t.album, t.albumArtist) = Albums!AlbumOf(user, t.album, t.albumArtist)
<1>1. t.albumArtist # Blank
  BY DEF Library, RowFits, Of
<1> QED
  BY <1>1, SameInserts DEF Albums!OnAlbum, Albums!AlbumOf

\* The summaries of the albums and their listings agree.
LEMMA AlbumsPartition ==
    ASSUME Library(LibraryUsers, LibraryIds), NEW user, NEW list \in Albums!ListAlbums(user)
    PROVE  Albums!Partition(user, list, [i \in DOMAIN list |->
               Albums!ListTracksByAlbum(user, list[i].album, list[i].artist)])
<1> DEFINE Listing(i) == Albums!ListTracksByAlbum(user, list[i].album, list[i].artist)
<1>1. IsFiniteSet(tracks)
  BY DEF Library
<1>2. /\ \A i \in DOMAIN list : \E t \in Of(user) : list[i] = SummaryOf(user, t)
      /\ \A t \in Of(user) : \E i \in DOMAIN list : list[i] = SummaryOf(user, t)
      /\ \A i, j \in DOMAIN list : list[i] = list[j] => i = j
  BY <1>1, ListsAlbums
<1>3. ASSUME NEW i \in DOMAIN list
      PROVE  /\ \A s \in Listing(i) : Len(s) = list[i].count /\ ToSet(s) \subseteq Of(user)
             /\ \A t \in Of(user), s \in Listing(i) :
                    t \in ToSet(s) <=> list[i] = SummaryOf(user, t)
  <2>1. PICK u \in Of(user) : list[i] = SummaryOf(user, u)
    BY <1>2
  <2> DEFINE S == Albums!AlbumOf(user, u.album, u.albumArtist)
  <2>2. list[i].album = u.album /\ list[i].artist = u.albumArtist /\ list[i].count = Cardinality(S)
    BY <2>1, SummaryIs
  <2>3. ASSUME NEW s \in Listing(i)
        PROVE  ToSet(s) = S /\ Len(s) = Cardinality(S)
    <3>1. s \in Albums!ListTracksByAlbum(user, u.album, u.albumArtist)
      BY <2>2
    <3>2. ToSet(s) = Albums!OnAlbum(user, u.album, u.albumArtist)
          /\ Len(s) = Cardinality(Albums!OnAlbum(user, u.album, u.albumArtist))
      BY <1>1, <3>1, ListsTracks
    <3> QED
      BY <3>2, OneAlbum
  <2>4. S \subseteq Of(user)
    BY DEF Albums!AlbumOf, Albums!Of, Of
  <2>5. ASSUME NEW t \in Of(user)
        PROVE  t \in S <=> list[i] = SummaryOf(user, t)
    <3>1. t \in S <=> t.album = u.album /\ t.albumArtist = u.albumArtist
      BY DEF Albums!AlbumOf, Albums!Of, Of
    <3>2. SummaryOf(user, t).album = t.album /\ SummaryOf(user, t).artist = t.albumArtist
      BY SummaryIs
    <3>3. t \in S => SummaryOf(user, t) = SummaryOf(user, u)
      BY <3>1 DEF SummaryOf
    <3> QED
      BY <2>1, <2>2, <3>1, <3>2, <3>3
  <2> HIDE DEF S
  <2> QED
    BY <2>2, <2>3, <2>4, <2>5
<1>4. ASSUME NEW t \in Of(user)
      PROVE  \E i \in DOMAIN list : \A j \in DOMAIN list : \A s \in Listing(j) :
                 t \in ToSet(s) <=> i = j
  BY <1>2, <1>3
<1> HIDE DEF Listing
<1>5. Albums!Partition(user, list, [i \in DOMAIN list |-> Listing(i)])
  BY <1>3, <1>4, SameCatalog DEF Albums!Partition
<1> QED
  BY <1>5 DEF Listing

\* The artists of a user, as the summaries have them.
ArtistSummary(user, t) == [artist |-> t.artist, count |-> Cardinality(Albums!By(user, t.artist))]

\* The summaries of the artists and their listings agree.
LEMMA ArtistsPartition ==
    ASSUME Library(LibraryUsers, LibraryIds), NEW user, NEW list \in Albums!ListArtists(user)
    PROVE  Albums!Partition(user, list, [i \in DOMAIN list |->
               Albums!ListTracksByArtist(user, list[i].artist)])
<1> DEFINE Listing(i) == Albums!ListTracksByArtist(user, list[i].artist)
           all == {ArtistSummary(user, t) : t \in Of(user)}
           key == [row \in all |-> <<row.artist>>]
<1>1. IsFiniteSet(tracks)
  BY DEF Library
<1>2. list \in Ordered(key)
  BY SameCatalog, Zenon DEF Albums!ListArtists, ArtistSummary
<1>3. IsFiniteSet(all) /\ DOMAIN key = all
  <2> DEFINE f == [t \in Of(user) |-> ArtistSummary(user, t)]
  <2>1. IsFiniteSet(Of(user))
    BY <1>1, FS_Subset DEF Of
  <2>2. f \in Surjection(Of(user), all)
    BY DEF Surjection
  <2> HIDE DEF f, all
  <2> QED
    BY <2>1, <2>2, FS_Surjection
<1> HIDE DEF key, all
<1>4. ToSet(list) = all /\ \A i, j \in DOMAIN list : list[i] = list[j] => i = j
  BY <1>2, <1>3, OrderedIs
<1>5. /\ \A i \in DOMAIN list : \E t \in Of(user) : list[i] = ArtistSummary(user, t)
      /\ \A t \in Of(user) : \E i \in DOMAIN list : list[i] = ArtistSummary(user, t)
  BY <1>4 DEF ToSet, all
<1>6. ASSUME NEW i \in DOMAIN list
      PROVE  /\ \A s \in Listing(i) : Len(s) = list[i].count /\ ToSet(s) \subseteq Of(user)
             /\ \A t \in Of(user), s \in Listing(i) :
                    t \in ToSet(s) <=> list[i] = ArtistSummary(user, t)
  <2>1. PICK u \in Of(user) : list[i] = ArtistSummary(user, u)
    BY <1>5
  <2> DEFINE S == Albums!By(user, u.artist)
             order_ == [t \in S |-> <<t.album>> \o NullsLast(t.number) \o <<t.title>>]
  <2>2. list[i].artist = u.artist /\ list[i].count = Cardinality(S)
    BY <2>1 DEF ArtistSummary
  <2>3. S \subseteq Of(user)
    BY DEF Albums!By, Albums!Of, Of
  <2>4. IsFiniteSet(S)
    BY <1>1, <2>3, FS_Subset DEF Of
  <2>5. ASSUME NEW s \in Listing(i)
        PROVE  ToSet(s) = S /\ Len(s) = Cardinality(S)
    <3>1. s \in Albums!ListTracksByArtist(user, u.artist)
      BY <2>2
    <3>2. s \in Ordered(order_)
      BY <3>1, SameCatalog, Zenon DEF Albums!ListTracksByArtist
    <3>3. DOMAIN order_ = S
      OBVIOUS
    <3> HIDE DEF order_, S
    <3> QED
      BY <2>4, <3>2, <3>3, OrderedIs
  <2>6. ASSUME NEW t \in Of(user)
        PROVE  t \in S <=> list[i] = ArtistSummary(user, t)
    <3>1. t \in S <=> t.artist = u.artist
      BY DEF Albums!By, Albums!Of, Of
    <3> QED
      BY <2>1, <3>1 DEF ArtistSummary
  <2> HIDE DEF S
  <2> QED
    BY <2>2, <2>3, <2>5, <2>6
<1>7. ASSUME NEW t \in Of(user)
      PROVE  \E i \in DOMAIN list : \A j \in DOMAIN list : \A s \in Listing(j) :
                 t \in ToSet(s) <=> i = j
  BY <1>4, <1>5, <1>6
<1> HIDE DEF Listing
<1>8. Albums!Partition(user, list, [i \in DOMAIN list |-> Listing(i)])
  BY <1>6, <1>7, SameCatalog DEF Albums!Partition
<1> QED
  BY <1>8 DEF Listing

\* The Albums tab keeps its types, and what the tables promise is kept.
LEMMA AlbumsTyped ==
    ASSUME Albums!ScreensInv
    PROVE  Albums!TypeOK /\ Albums!SummariesAgree
<1>1. Library(LibraryUsers, LibraryIds) /\ Albums!CatalogTypeOK
  BY ScreensFacts DEF Albums!ScreensInv, Albums!LibraryInv
<1>2. Albums!SummariesAgree
  BY <1>1, AlbumsPartition, ArtistsPartition DEF Albums!SummariesAgree
<1>3. \A i \in DOMAIN albums : albums[i].representative \in LibraryIds
  <2> SUFFICES ASSUME NEW i \in DOMAIN albums
               PROVE  albums[i].representative \in LibraryIds
    OBVIOUS
  <2>1. Albums!Promised(albums[i])
    BY ScreensFacts DEF Albums!ToSet
  <2>2. \E t \in tracks : t.id = albums[i].representative
    BY <2>1 DEF Albums!Promised, Albums!AlbumOf, Albums!Of
  <2> QED
    BY <1>1, <2>2 DEF Library
<1>4. Albums!ToSet(listed) \subseteq tracks
  <2>1. CASE loaded
    <3>1. PICK row \in opened : Albums!Keeps(listed, row)
      BY <2>1, ScreensFacts
    <3> QED
      BY <3>1 DEF Albums!Keeps, Albums!OnAlbum, Albums!Of
  <2>2. CASE ~loaded
    BY <2>2, ScreensFacts DEF Albums!ToSet
  <2> QED
    BY <2>1, <2>2
<1>5. \A r \in loads : r.focus \in 1 .. focus
  BY ScreensFacts DEF Albums!RequestInv
<1>6. loaded \in BOOLEAN
  BY DEF Albums!ScreensInv
<1>7. /\ \A row, that \in opened : row = that
      /\ focus \in 0 .. MaxFocus
  BY ScreensFacts
<1> QED
  BY <1>1, <1>2, <1>3, <1>4, <1>5, <1>6, <1>7 DEF Albums!TypeOK

-----------------------------------------------------------------------------
(* The types of the search                                                  *)

\* The uploads of the Search tab, and of any other over the same catalog.
LEMMA SearchUpload ==
    ASSUME Upload
    PROVE  \E user \in Users : \E upload \in Uploads[user] : \E new :
               Adds(Ids, user, upload, new)
<1>1. PICK user \in Users : \E upload \in Uploads[user] : InsertTrack(user, upload)
  BY DEF Upload
<1>2. PICK upload \in Uploads[user] : InsertTrack(user, upload)
  BY <1>1
<1>3. upload \in UploadType
  BY <1>2, CatalogConstants
<1>4. Inserts(Ids, user, upload)
  BY <1>2, Zenon DEF InsertTrack, Inserts
<1> QED
  BY <1>2, <1>3, <1>4, Inserted

\* What the steps of the search read of the typing.
LEMMA SearchConstants ==
    /\ Blank \notin Queries /\ Limit \in Nat \ {0} /\ MaxChanges \in Nat
BY QueriesAssumption DEF QueriesAssumption

\* The search starts in its types.
LEMMA SearchTypedInit == Init => SearchTyped
<1> SUFFICES ASSUME Init PROVE SearchTyped
  OBVIOUS
<1>1. Library(Users, Ids)
  BY FS_EmptySet DEF Init, Library
<1>2. LibraryInv /\ CatalogTypeOK
  BY <1>1, LibraryRows DEF LibraryInv
<1>3. ToSet(results) \cup known = {} /\ Len(results) = 0
  BY DEF Init, ToSet
<1>4. /\ query = Blank /\ effectOf = Blank /\ effects = 0 /\ timer = {} /\ requests = {}
      /\ error = FALSE /\ ended = 0
  BY DEF Init
<1>5. error \in BOOLEAN
  BY <1>4, Zenon
<1>6. TypeOK
  BY <1>2, <1>3, <1>4, <1>5, SearchConstants DEF TypeOK
<1> QED
  BY <1>2, <1>4, <1>6 DEF SearchTyped

\* An answer holds tracks, and no more than the limit.
LEMMA AnswerFits ==
    ASSUME IsFiniteSet(tracks), NEW q, NEW s \in SearchAnswer(Me, q)
    PROVE  ToSet(s) \subseteq tracks /\ Len(s) <= Limit
<1>1. CASE q = Blank
  BY <1>1, SearchConstants DEF SearchAnswer, ToSet
<1>2. CASE q # Blank
  BY <1>2, SearchFits DEF SearchAnswer, Matching, Of
<1> QED
  BY <1>1, <1>2

\* SearchTyped, without the catalog.
SearchTypes ==
    /\ {query, effectOf} \subseteq {Blank} \cup Queries
    /\ effects \in 0 .. MaxChanges /\ ended \in 0 .. effects
    /\ timer \subseteq Queries
    /\ ToSet(results) \cup known \subseteq tracks
    /\ Len(results) <= Limit
    /\ error \in BOOLEAN
    /\ query # effectOf => effects < MaxChanges
    /\ timer # {} => effects > 0
    /\ \A r \in requests :
           /\ r.effect \in 1 .. effects /\ r.query \in Queries
           /\ r = [effect |-> r.effect, query |-> r.query, answer |-> r.answer]
           /\ r.answer # Null => ToSet(r.answer) \subseteq tracks /\ Len(r.answer) <= Limit

\* The invariant of its types is these and that of the library.
LEMMA SearchFacts == SearchTyped <=> Library(Users, Ids) /\ SearchTypes
BY LibraryRows, Zenon DEF SearchTyped, SearchTypes, TypeOK, LibraryInv

\* They are inductive.
LEMMA SearchTypedStep ==
    ASSUME Library(Users, Ids), SearchTypes, [Next]_vars
    PROVE  Library(Users, Ids)' /\ SearchTypes'
<1> USE SearchConstants
<1>1. IsFiniteSet(tracks) /\ Library(Users, Ids) /\ SearchTypes
  BY DEF Library
<1>2. tracks' = tracks => Library(Users, Ids)'
  BY <1>1 DEF Library
<1>3. CASE UploadAny
  <2>1. UNCHANGED <<query, effectOf, effects, timer, results, error, known, ended, requests>>
        /\ Upload
    BY <1>3 DEF UploadAny, screen
  <2>2. PICK user \in Users : \E upload \in Uploads[user] : \E new : Adds(Ids, user, upload, new)
    BY <2>1, SearchUpload
  <2>3. PICK upload \in Uploads[user] : \E new : Adds(Ids, user, upload, new)
    BY <2>2
  <2>4. PICK new : Adds(Ids, user, upload, new)
    BY <2>3
  <2>5. Library(Users, Ids)' /\ tracks \subseteq tracks'
    BY <1>1, <2>4, LibraryGrows DEF Adds
  <2> QED
    BY <1>1, <2>1, <2>5 DEF SearchTypes
<1>4. CASE Type
  <2>1. Matching(Me, query') \subseteq tracks
    BY DEF Matching, Of
  <2>2. known' \subseteq tracks'
    BY <1>4, <2>1 DEF Type
  <2> QED
    BY <1>1, <1>2, <1>4, <2>2 DEF Type, SearchTypes
<1>5. CASE RunEffect
  <2>1. effects' = effects + 1 /\ effects' \in 0 .. MaxChanges /\ query' = query /\ effectOf' = query
        /\ UNCHANGED <<tracks, requests, known>>
    BY <1>1, <1>5 DEF RunEffect, SearchTypes
  <2>2. CASE query = Blank
    <3>1. timer' = {} /\ results' = <<>> /\ error' = FALSE /\ ended' = effects'
      BY <1>5, <2>2 DEF RunEffect
    <3>2. ToSet(results') = {} /\ Len(results') = 0
      BY <3>1 DEF ToSet
    <3>3. error' \in BOOLEAN
      BY <3>1, Zenon
    <3> QED
      BY <1>1, <1>2, <2>1, <2>2, <3>1, <3>2, <3>3 DEF SearchTypes
  <2>3. CASE query # Blank
    BY <1>1, <1>2, <1>5, <2>1, <2>3 DEF RunEffect, SearchTypes
  <2> QED
    BY <2>2, <2>3
<1>6. CASE TimerFires
  BY <1>1, <1>2, <1>6 DEF TimerFires, SearchTypes
<1>7. CASE Handle
  BY <1>1, <1>2, <1>7, AnswerFits DEF Handle, screen, SearchTypes
<1>8. CASE \E r \in requests : Receive(r) \/ Fail(r)
  <2>1. PICK r \in requests : Receive(r) \/ Fail(r)
    BY <1>8
  <2>2. r.effect \in 1 .. effects /\ effects \in Nat
    BY <1>1 DEF SearchTypes
  <2>3. Max({ended, r.effect}) \in 0 .. effects
    <3>1. ended \in 0 .. effects
      BY <1>1 DEF SearchTypes
    <3>2. CASE ended <= r.effect
      <4>1. ended \in 0 .. r.effect
        BY <2>2, <3>1, <3>2
      <4> QED
        BY <2>2, <4>1, MaxOfTwo
    <3>3. CASE ~(ended <= r.effect)
      <4>1. r.effect \in 0 .. ended /\ ended \in Nat
        BY <2>2, <3>1, <3>3
      <4>2. Max({r.effect, ended}) = ended
        BY <4>1, MaxOfTwo
      <4>3. {ended, r.effect} = {r.effect, ended}
        OBVIOUS
      <4> QED
        BY <3>1, <4>2, <4>3
    <3> QED
      BY <3>2, <3>3
  <2> QED
    BY <1>1, <1>2, <2>1, <2>3 DEF Receive, Fail, SearchTypes
<1>9. CASE UNCHANGED vars
  BY <1>1, <1>2, <1>9 DEF vars, SearchTypes
<1> QED
  BY <1>3, <1>4, <1>5, <1>6, <1>7, <1>8, <1>9 DEF Next

-----------------------------------------------------------------------------
(* The upload screen                                                        *)

\* The upload screen is over the same catalog.
LEMMA SamePreview ==
    /\ \A upload : Preview!Resolve(upload) = Resolve(upload)
    /\ \A id, user, nt, ext : Preview!Row(id, user, nt, ext) = Row(id, user, nt, ext)
    /\ \A n : Preview!TrimSpace(n) = TrimSpace(n)
    /\ \A m, n : Preview!Or(m, n) = Or(m, n)
    /\ Preview!Blank = Blank /\ Preview!Space = Space
    /\ \A n : Preview!NullableTrackNumber(n) = NullableTrackNumber(n)
    /\ Preview!UploadType = UploadType /\ Preview!TagType = TagType
    /\ \A S : Preview!IsFiniteSet(S) = IsFiniteSet(S)
    /\ \A S : Preview!Cardinality(S) = Cardinality(S)
    /\ \A S : Preview!Min(S) = Min(S) /\ Preview!Max(S) = Max(S)
    /\ \A S : Preview!SetToSeq(S) = SetToSeq(S)
<1>1. Preview!Blank = Blank /\ Preview!Space = Space
  BY DEF Preview!Blank, Blank, Preview!Space, Space
<1>2. \A m, n : Preview!Or(m, n) = Or(m, n)
  BY <1>1, Zenon DEF Preview!Or, Or
<1>3. \A n : Preview!TrimSpace(n) = TrimSpace(n)
  BY <1>1, Zenon DEF Preview!TrimSpace, TrimSpace
<1>4. \A x : Preview!Override(x) = Override(x)
  BY Zenon DEF Preview!Override, Override
<1>5. \A x : Preview!ExtractMetadata(x) = ExtractMetadata(x)
  BY <1>1, Zenon DEF Preview!ExtractMetadata, ExtractMetadata, Preview!Untagged, Untagged
<1>6. \A upload : Preview!Resolve(upload) = Resolve(upload)
  BY <1>2, <1>3, <1>4, <1>5, Zenon DEF Preview!Resolve, Resolve
<1>7. \A n : Preview!Int32(n) = Int32(n)
  BY Zenon DEF Preview!Int32, Int32
<1>8. \A n : Preview!NullableTrackNumber(n) = NullableTrackNumber(n)
  BY <1>7, Zenon DEF Preview!NullableTrackNumber, NullableTrackNumber
<1>9. \A x : Preview!NullableString(x) = NullableString(x)
  BY Zenon DEF Preview!NullableString, NullableString
<1>10. \A nt : Preview!AlbumArtist(nt) = AlbumArtist(nt)
  BY <1>2, Zenon DEF Preview!AlbumArtist, AlbumArtist
<1>11. \A id, user, nt, ext : Preview!Row(id, user, nt, ext) = Row(id, user, nt, ext)
  BY <1>8, <1>9, <1>10, Zenon DEF Preview!Row, Row
<1>12. Preview!UploadType = UploadType /\ Preview!TagType = TagType
  BY DEF Preview!UploadType, UploadType, Preview!TagType, TagType, Preview!FormType, FormType
<1>13. \A S : Preview!IsFiniteSet(S) = IsFiniteSet(S)
  BY Zenon DEF Preview!IsFiniteSet, IsFiniteSet
<1>14. \A S : Preview!Cardinality(S) = Cardinality(S)
  BY Zenon DEF Preview!Cardinality, Cardinality
<1>15. \A S : Preview!Min(S) = Min(S) /\ Preview!Max(S) = Max(S)
  BY Zenon DEF Preview!Min, Min, Preview!Max, Max
<1>16. \A f : Preview!IsInjective(f) = IsInjective(f)
  BY Zenon DEF Preview!IsInjective, IsInjective
<1>17. \A S : Preview!SetToSeq(S) = SetToSeq(S)
  BY <1>14, <1>16, Zenon DEF Preview!SetToSeq, SetToSeq
<1> QED
  BY <1>1, <1>2, <1>3, <1>6, <1>8, <1>11, <1>12, <1>13, <1>14, <1>15, <1>17

\* And lists it alike.
LEMMA SameLists ==
    /\ \A user : Preview!ListAlbums(user) = Albums!ListAlbums(user)
    /\ \A user, album, artist :
           Preview!ListTracksByAlbum(user, album, artist) = Albums!ListTracksByAlbum(user, album, artist)
    /\ \A list : Preview!ToSet(list) = ToSet(list)
    /\ \A user, id : Preview!GetTrack(user, id) = {t \in Of(user) : t.id = id}
<1>1. \A S : Preview!SetToSeqs(S) = SetToSeqs(S)
  BY SamePreview, Zenon DEF Preview!SetToSeqs, SetToSeqs
<1>2. \A k, l : Preview!Precedes(k, l) <=> Precedes(k, l)
  BY DEF Preview!Precedes, Precedes
<1>3. \A key : Preview!Ordered(key) = Ordered(key)
  BY <1>1, <1>2, Zenon DEF Preview!Ordered, Ordered
<1>4. \A user : Preview!Of(user) = Of(user)
  BY DEF Preview!Of, Of
<1>5. \A n : Preview!NullsLast(n) = NullsLast(n)
  BY DEF Preview!NullsLast, NullsLast
<1>6. \A list : Preview!ToSet(list) = ToSet(list)
  BY DEF Preview!ToSet, ToSet
<1>7. \A S : Preview!Representative(S) = Representative(S)
  BY SamePreview, Zenon DEF Preview!Representative, Representative
<1>8. \A user, album, artist : Preview!AlbumOf(user, album, artist) = Albums!AlbumOf(user, album, artist)
  BY <1>4, SameCatalog, Zenon DEF Preview!AlbumOf, Albums!AlbumOf
<1>9. \A user, album, artist : Preview!OnAlbum(user, album, artist) = Albums!OnAlbum(user, album, artist)
  BY <1>4, SameCatalog, SameInserts, SamePreview, Zenon DEF Preview!OnAlbum, Albums!OnAlbum
<1>10. \A S, album, artist : Preview!AlbumSummary(S, album, artist) = Albums!AlbumSummary(S, album, artist)
  BY <1>7, SameCatalog, SamePreview, Zenon DEF Preview!AlbumSummary, Albums!AlbumSummary
<1>11. \A user : Preview!ListAlbums(user) = Albums!ListAlbums(user)
  BY <1>3, <1>4, <1>8, <1>10, SameCatalog, Zenon DEF Preview!ListAlbums, Albums!ListAlbums
<1>12. \A user, album, artist :
          Preview!ListTracksByAlbum(user, album, artist) = Albums!ListTracksByAlbum(user, album, artist)
  BY <1>3, <1>5, <1>9, SameCatalog, Zenon DEF Preview!ListTracksByAlbum, Albums!ListTracksByAlbum
<1>13. \A user, id : Preview!GetTrack(user, id) = {t \in Of(user) : t.id = id}
  BY <1>4, Zenon DEF Preview!GetTrack
<1> QED
  BY <1>6, <1>11, <1>12, <1>13

\* The invariant of its library is that of the others.
LEMMA PreviewRows == Preview!LibraryInv <=> Library(Users, Ids)
BY SamePreview DEF Preview!LibraryInv, Preview!CatalogTypeOK, Library, RowFits

\* What its proofs use of the files.
LEMMA FilesTyped ==
    /\ IsFiniteSet(PickedFiles)
    /\ \A file \in PickedFiles : /\ file.stem \in Nat /\ file.tags \in TagType \cup {Unreadable}
                                 /\ file.segments \in Seq(Preview!SegmentType)
    /\ Texts \subseteq Nat /\ Numbers \subseteq Int /\ MaxBatch \in Nat
BY FilesAssumption, SamePreview DEF Preview!FilesAssumption

\* A bounded set of numbers has a greatest element.
LEMMA MaxIs ==
    ASSUME NEW n \in Nat, NEW S, S \subseteq 1 .. n, S # {}
    PROVE  Max(S) \in S /\ \A y \in S : Max(S) >= y
<1> DEFINE T == {n - m : m \in S}
<1>1. T \subseteq Nat /\ T # {}
  <2>1. \A m \in S : n - m \in Nat
    OBVIOUS
  <2>2. PICK m \in S : TRUE
    OBVIOUS
  <2>3. n - m \in T
    OBVIOUS
  <2> QED
    BY <2>1, <2>3
<1>2. PICK k \in T : \A l \in T : k <= l
  BY <1>1, Least
<1>3. PICK m \in S : k = n - m
  BY <1>2
<1>4. \A l \in S : m >= l
  BY <1>2, <1>3
<1> QED
  BY <1>4 DEF Max

\* What is guessed from a file name.
Guesses == [title : Nat \ {Space}, artist : Nat \ {Space}, album : Nat \ {Space},
            number : Int \cup {Null}]

\* Names and a number make a guess.
LEMMA GuessTyped ==
    ASSUME NEW title \in Nat \ {Space}, NEW artist \in Nat \ {Space}, NEW album \in Nat \ {Space},
           NEW number \in Int \cup {Null}
    PROVE  Preview!Guess(title, artist, album, number) \in Guesses
BY DEF Preview!Guess, Guesses

\* What is guessed from the names alone is of that kind.
LEMMA FallbackTyped ==
    ASSUME NEW segments \in Seq(Preview!SegmentType)
    PROVE  Preview!Fallback(segments) \in Guesses
<1> DEFINE n == Len(segments)
           numeric == {i \in DOMAIN segments : Preview!IsNumeric(segments[i])}
           names == DOMAIN segments \ numeric
           number == IF numeric = {} THEN Null ELSE segments[Min(numeric)].number
           artist == segments[Min(names)].name
           title == segments[Max(names)].name
           album == segments[Min(names \ {Min(names)})].name
<1>1. n \in Nat /\ DOMAIN segments = 1 .. n /\ \A i \in 1 .. n : segments[i] \in Preview!SegmentType
  OBVIOUS
<1>2. Space # Blank /\ Blank \in Nat \ {Space}
  BY DEF Space, Blank
<1>3. \A i \in 1 .. n : /\ segments[i].name \in Nat \ {Space}
                        /\ segments[i].number \in Int \cup {Null}
  BY <1>1, SamePreview DEF Preview!SegmentType
<1>4. numeric \subseteq 1 .. n /\ names \subseteq 1 .. n
  BY <1>1
<1>5. Preview!Fallback(segments) =
        CASE Cardinality(names) = 2 -> Preview!Guess(title, artist, Blank, number)
          [] Cardinality(names) = 3 -> Preview!Guess(title, artist, album, number)
          [] OTHER -> Preview!NoGuess
  BY SamePreview, Zenon DEF Preview!Fallback
<1>6. number \in Int \cup {Null}
  <2>1. CASE numeric # {}
    <3>1. numeric \subseteq Nat
      BY <1>4
    <3>2. Min(numeric) \in 1 .. n
      BY <1>4, <2>1, <3>1, MinIs
    <3> QED
      BY <1>3, <2>1, <3>2
  <2> QED
    BY <2>1
<1> HIDE DEF numeric, names
<1>7. names \subseteq Nat /\ IsFiniteSet(names)
  <2>1. IsFiniteSet(1 .. n)
    BY <1>1, FS_Interval
  <2>2. names \in SUBSET (1 .. n)
    BY <1>4
  <2>3. IsFiniteSet(names)
    BY <2>1, <2>2, FS_Subset
  <2> QED
    BY <1>4, <2>3
<1>8. ASSUME names # {}
      PROVE  artist \in Nat \ {Space} /\ title \in Nat \ {Space}
  <2>1. Min(names) \in 1 .. n /\ Max(names) \in 1 .. n
    BY <1>1, <1>4, <1>7, <1>8, MinIs, MaxIs
  <2> QED
    BY <1>3, <2>1
<1>9. ASSUME Cardinality(names) = 3
      PROVE  names # {} /\ album \in Nat \ {Space}
  <2> DEFINE rest == names \ {Min(names)}
  <2>1. names # {}
    BY <1>7, <1>9, FS_EmptySet
  <2>2. Min(names) \in names
    BY <1>7, <2>1, MinIs
  <2>3. IsFiniteSet(rest) /\ Cardinality(rest) = Cardinality(names) - 1
    BY <1>7, <2>2, FS_RemoveElement
  <2>4. rest # {}
    BY <1>9, <2>3, FS_EmptySet
  <2>5. Min(rest) \in rest
    BY <1>7, <2>4, MinIs
  <2>6. Min(rest) \in 1 .. n
    BY <1>4, <2>5
  <2> QED
    BY <1>3, <2>1, <2>6
<1>10. CASE Cardinality(names) = 2
  <2>1. names # {}
    BY <1>7, <1>10, FS_EmptySet
  <2>2. artist \in Nat \ {Space} /\ title \in Nat \ {Space}
    BY <1>8, <2>1
  <2>3. Preview!Fallback(segments) = Preview!Guess(title, artist, Blank, number)
    BY <1>5, <1>10
  <2> HIDE DEF title, artist, number
  <2> QED
    BY <1>2, <1>6, <2>2, <2>3, GuessTyped
<1>11. CASE Cardinality(names) = 3
  <2>1. artist \in Nat \ {Space} /\ title \in Nat \ {Space} /\ album \in Nat \ {Space}
    BY <1>8, <1>9, <1>11
  <2>2. Preview!Fallback(segments) = Preview!Guess(title, artist, album, number)
    BY <1>5, <1>11
  <2> HIDE DEF title, artist, number, album
  <2> QED
    BY <1>6, <2>1, <2>2, GuessTyped
<1>12. CASE Cardinality(names) \notin {2, 3}
  <2>1. Preview!Fallback(segments) = Preview!NoGuess
    BY <1>5, <1>12
  <2> QED
    BY <1>2, <2>1, GuessTyped, SamePreview DEF Preview!NoGuess
<1> QED
  BY <1>10, <1>11, <1>12

\* And so is what is guessed from any file name.
LEMMA ParseTyped ==
    ASSUME NEW segments \in Seq(Preview!SegmentType)
    PROVE  Preview!ParseFilename(segments) \in Guesses
<1>1. \A i \in 1 .. Len(segments) :
          /\ segments[i].name \in Nat \ {Space} /\ segments[i].number \in Int \cup {Null}
          /\ segments[i].rest \in (Nat \ {Space}) \cup {Null}
  <2>1. \A i \in 1 .. Len(segments) : segments[i] \in Preview!SegmentType
    OBVIOUS
  <2> QED
    BY <2>1, SamePreview DEF Preview!SegmentType
<1>2. CASE Len(segments) = 3
  <2> DEFINE last == Preview!Trailing(segments[3])
  <2>1. segments[3].name \in Nat \ {Space} /\ segments[3].number \in Int \cup {Null}
        /\ segments[3].rest \in (Nat \ {Space}) \cup {Null}
        /\ segments[1].name \in Nat \ {Space} /\ segments[2].name \in Nat \ {Space}
    BY <1>1, <1>2
  <2>2. last.title \in Nat \ {Space} /\ last.number \in Int \cup {Null}
    BY <2>1 DEF Preview!Trailing
  <2>3. Preview!ParseFilename(segments) =
            Preview!Guess(last.title, segments[1].name, segments[2].name, last.number)
    BY <1>2 DEF Preview!ParseFilename
  <2> HIDE DEF last
  <2> QED
    BY <2>1, <2>2, <2>3 DEF Preview!Guess, Guesses
<1>3. CASE Len(segments) = 5 /\ Preview!IsNumeric(segments[2]) /\ Preview!IsNumeric(segments[3])
  <2>1. segments[5].name \in Nat \ {Space} /\ segments[4].name \in Nat \ {Space}
        /\ segments[1].name \in Nat \ {Space} /\ segments[3].number \in Int \cup {Null}
    BY <1>1, <1>3
  <2>2. Preview!ParseFilename(segments) =
            Preview!Guess(segments[5].name, segments[4].name, segments[1].name, segments[3].number)
    BY <1>3 DEF Preview!ParseFilename
  <2> QED
    BY <2>1, <2>2, GuessTyped
<1>4. CASE Len(segments) # 3
           /\ ~(Len(segments) = 5 /\ Preview!IsNumeric(segments[2]) /\ Preview!IsNumeric(segments[3]))
  <2>1. Preview!ParseFilename(segments) = Preview!Fallback(segments)
    BY <1>4 DEF Preview!ParseFilename
  <2> QED
    BY <2>1, FallbackTyped
<1> QED
  BY <1>2, <1>3, <1>4

\* Names are blank or not: what there is to trim and to fall back to.
LEMMA OrTrim ==
    /\ \A n \in Nat : TrimSpace(n) \in Nat \ {Space} /\ TrimSpace(TrimSpace(n)) = TrimSpace(n)
    /\ \A n \in Nat \ {Space} : TrimSpace(n) = n
    /\ \A m, n : Or(m, n) = IF m = Blank THEN n ELSE m
    /\ \A k, m, n : Or(Or(k, m), n) = Or(k, Or(m, n))
    /\ TrimSpace(Blank) = Blank
BY DEF TrimSpace, Or, Blank, Space

\* The row of a file in the preview.
RowOK(row) ==
    /\ row.file \in PickedFiles
    /\ row.fields \in [Preview!Fields -> Int \cup {Null, Malformed}]
    /\ row.fields["title"] \in Nat /\ row.fields["artist"] \in Nat /\ row.fields["album"] \in Nat
    /\ \A field \in Preview!Fields \ row.edited :
           row.fields[field] = Preview!ParseFilename(row.file.segments)[field]

\* What is sent for it.
UploadOf(row) ==
    [stem |-> row.file.stem, tags |-> row.file.tags, form |-> Preview!Form(row.fields)]

\* It is an upload that the server can resolve.
LEMMA UploadTyped ==
    ASSUME NEW row, RowOK(row), albumArtist \in Nat
    PROVE  UploadOf(row) \in UploadType
<1>1. row.file.stem \in Nat /\ row.file.tags \in TagType \cup {Unreadable}
  BY FilesTyped DEF RowOK
<1>2. /\ row.fields.title \in Nat /\ row.fields.artist \in Nat /\ row.fields.album \in Nat
      /\ row.fields.number \in Int \cup {Null, Malformed}
  BY DEF RowOK, Preview!Fields
<1>3. Preview!Form(row.fields) \in FormType
  BY <1>2, OrTrim, SamePreview DEF Preview!Form, FormType
<1> QED
  BY <1>1, <1>3 DEF UploadOf, UploadType

\* What the server makes of the form of a row, and of a blank one.
LEMMA ResolvesForm ==
    ASSUME NEW row, RowOK(row), albumArtist \in Nat
    PROVE  LET nt == Resolve(UploadOf(row))
               self == Preview!ByItself(row.file)
           IN  /\ nt.title = Or(TrimSpace(row.fields["title"]), self.title)
               /\ nt.artist = Or(TrimSpace(row.fields["artist"]), self.artist)
               /\ nt.album = Or(TrimSpace(row.fields["album"]), self.album)
               /\ nt.albumArtist = Or(TrimSpace(albumArtist), self.albumArtist)
<1> DEFINE upload == UploadOf(row)
           form == upload.form
           md == ExtractMetadata(upload.tags)
           blank == [title |-> Blank, artist |-> Blank, album |-> Blank,
                     albumArtist |-> Blank, number |-> 0]
           alone == [stem |-> row.file.stem, tags |-> row.file.tags, form |-> blank]
           nt == Resolve(upload)
           self == Preview!ByItself(row.file)
<1>1. self = Resolve(alone)
  BY SamePreview, Zenon DEF Preview!ByItself
<1>2. upload.stem = row.file.stem /\ upload.tags = row.file.tags
      /\ form = Preview!Form(row.fields)
  BY DEF UploadOf
<1>3. /\ row.fields["title"] \in Nat /\ row.fields["artist"] \in Nat /\ row.fields["album"] \in Nat
  BY DEF RowOK
<1>4. /\ form.title = TrimSpace(row.fields["title"])
      /\ form.artist = TrimSpace(row.fields["artist"])
      /\ form.album = TrimSpace(row.fields["album"])
      /\ form.albumArtist = TrimSpace(albumArtist)
  BY <1>2, SamePreview DEF Preview!Form
<1>5. /\ alone.stem = row.file.stem /\ alone.tags = row.file.tags /\ alone.form = blank
      /\ blank.title = Blank /\ blank.artist = Blank /\ blank.album = Blank
      /\ blank.albumArtist = Blank
  OBVIOUS
<1>6. /\ nt.title = Or(TrimSpace(form.title), Or(md.title, upload.stem))
      /\ nt.artist = Or(TrimSpace(form.artist), Or(md.artist, Unknown))
      /\ nt.album = Or(TrimSpace(form.album), Or(md.album, Unknown))
      /\ nt.albumArtist = Or(TrimSpace(form.albumArtist), md.albumArtist)
  BY DEF Resolve
<1>7. ExtractMetadata(alone.tags) = md
  BY <1>2, <1>5
<1>8. /\ Resolve(alone).title = Or(TrimSpace(Blank), Or(md.title, upload.stem))
      /\ Resolve(alone).artist = Or(TrimSpace(Blank), Or(md.artist, Unknown))
      /\ Resolve(alone).album = Or(TrimSpace(Blank), Or(md.album, Unknown))
      /\ Resolve(alone).albumArtist = Or(TrimSpace(Blank), md.albumArtist)
  BY <1>2, <1>5, <1>7 DEF Resolve
<1> HIDE DEF upload, form, md, alone, nt, self
<1>9. /\ nt.title = Or(TrimSpace(row.fields["title"]), self.title)
      /\ nt.artist = Or(TrimSpace(row.fields["artist"]), self.artist)
      /\ nt.album = Or(TrimSpace(row.fields["album"]), self.album)
      /\ nt.albumArtist = Or(TrimSpace(albumArtist), self.albumArtist)
  BY <1>1, <1>3, <1>4, <1>6, <1>8, OrTrim
<1> QED
  BY <1>9 DEF nt, self, upload

\* What the steps of the upload screen read of the invariant.
LEMMA PreviewFacts ==
    ASSUME Preview!PreviewInv
    PROVE  /\ Library(Users, Ids) /\ IsFiniteSet(tracks)
           /\ uploadStatus \in {"idle", "preview", "uploading", "done"} /\ batches \in Nat
           /\ DOMAIN rows = 1 .. Len(rows) /\ Len(rows) \in 0 .. MaxBatch /\ MaxBatch \in Nat
           /\ \A i \in DOMAIN rows : Preview!RowInv(rows[i]) /\ RowOK(rows[i])
           /\ uploadStatus = "preview" => rows # <<>>
           /\ uploadStatus = "uploading" => current \in DOMAIN rows
           /\ failures \subseteq 1 .. MaxBatch
           /\ typed \in Nat /\ albumArtist = typed
           /\ \A s \in sent : Preview!SentInv(s) /\ s.batch \in Nat
           /\ \A s, that \in sent : s.batch = that.batch => s.typed = that.typed
<1>1. Library(Users, Ids) /\ IsFiniteSet(tracks)
  BY PreviewRows DEF Preview!PreviewInv, Library
<1>2. \A row : Preview!RowInv(row) => RowOK(row)
  BY DEF Preview!RowInv, RowOK
<1> QED
  BY <1>1, <1>2, FilesTyped DEF Preview!PreviewInv

\* What has been sent, after a step that does not send.
LEMMA SentStays ==
    ASSUME Preview!PreviewInv, UNCHANGED <<tracks, sent>>,
           \/ UNCHANGED <<batches, typed>> /\ (uploadStatus' = "preview" => uploadStatus = "preview")
           \/ UNCHANGED <<batches, uploadStatus>> /\ uploadStatus = "preview"
           \/ batches' = batches + 1
    PROVE  \A s \in sent' : Preview!SentInv(s)'
<1> SUFFICES ASSUME NEW s \in sent PROVE Preview!SentInv(s)'
  OBVIOUS
<1>1. Preview!SentInv(s) /\ s.batch \in Nat /\ batches \in Nat
  BY PreviewFacts
<1>2. s.batch <= batches /\ (uploadStatus = "preview" => s.batch < batches)
      /\ (s.batch = batches => s.typed = typed)
  BY <1>1 DEF Preview!SentInv
<1>3. s.batch <= batches' /\ (uploadStatus' = "preview" => s.batch < batches')
      /\ (s.batch = batches' => s.typed = typed')
  BY <1>1, <1>2
<1> QED
  BY <1>1, <1>3 DEF Preview!SentInv

\* The rest, after such a step.
LEMMA PreviewStays ==
    ASSUME Preview!PreviewInv, UNCHANGED tracks,
           \A s \in sent' : Preview!SentInv(s)', sent' = sent,
           uploadStatus' \in {"idle", "preview", "uploading", "done"}, batches' \in Nat,
           DOMAIN rows' = 1 .. Len(rows'), Len(rows') \in 0 .. MaxBatch,
           \A i \in DOMAIN rows' : Preview!RowInv(rows'[i]),
           uploadStatus' = "preview" => rows' # <<>>,
           uploadStatus' = "uploading" => current' \in DOMAIN rows',
           failures' \subseteq 1 .. MaxBatch,
           typed' \in Nat, albumArtist' = typed'
    PROVE  Preview!PreviewInv'
<1>1. Library(Users, Ids)'
  BY PreviewFacts DEF Library
<1>2. Preview!LibraryInv'
  BY <1>1, PreviewRows, PTL
<1>3. \A row : Preview!RowInv(row)' <=> Preview!RowInv(row)
  BY DEF Preview!RowInv
<1>4. \A s \in sent' : s.batch \in Nat
  BY PreviewFacts
<1>5. \A s, that \in sent' : s.batch = that.batch => s.typed = that.typed
  BY PreviewFacts
<1> QED
  BY <1>2, <1>3, <1>4, <1>5 DEF Preview!PreviewInv

\* The upload screen starts in its invariant.
LEMMA PreviewInitial == Preview!Init => Preview!PreviewInv
<1> SUFFICES ASSUME Preview!Init PROVE Preview!PreviewInv
  OBVIOUS
<1>1. Library(Users, Ids)
  BY FS_EmptySet DEF Preview!Init, Library
<1>2. Preview!LibraryInv
  BY <1>1, PreviewRows
<1>3. /\ uploadStatus = "idle" /\ rows = <<>> /\ albumArtist = 0 /\ failures = {}
      /\ batches = 0 /\ typed = 0 /\ sent = {}
  BY SamePreview DEF Preview!Init, Blank
<1> QED
  BY <1>2, <1>3, FilesTyped DEF Preview!PreviewInv

\* Files are picked, and their names guessed.
LEMMA PickPreview == Preview!PreviewInv /\ Preview!Pick => Preview!PreviewInv'
<1> SUFFICES ASSUME Preview!PreviewInv, Preview!Pick PROVE Preview!PreviewInv'
  OBVIOUS
<1>1. /\ albumArtist' = Blank /\ typed' = Blank /\ uploadStatus' = "preview"
      /\ batches' = batches + 1
      /\ UNCHANGED <<tracks, current, failures, edits, sent>>
  BY SamePreview DEF Preview!Pick, Preview!Reset
<1>2. PICK S \in SUBSET PickedFiles :
          /\ Cardinality(S) \in 1 .. MaxBatch
          /\ rows' = [i \in 1 .. Cardinality(S) |-> Preview!BuildPreviewRow(SetToSeq(S)[i])]
  BY SamePreview DEF Preview!Pick
<1> DEFINE n == Cardinality(S)
<1>3. IsFiniteSet(S) /\ n \in Nat
  BY FilesTyped, FS_Subset, FS_CardinalityType
<1>4. SetToSeq(S) \in [1 .. n -> S]
  <2>1. PICK f : f \in Bijection(1 .. n, S)
    BY <1>3, FS_CardinalityType DEF ExistsBijection
  <2>2. f \in [1 .. n -> S] /\ IsInjective(f)
    BY <2>1 DEF Bijection, Injection
  <2> QED
    BY <2>2 DEF SetToSeq
<1>5. /\ rows' = [i \in 1 .. n |-> Preview!BuildPreviewRow(SetToSeq(S)[i])]
      /\ n \in 1 .. MaxBatch /\ MaxBatch \in Nat
  BY <1>2, FilesTyped
<1> HIDE DEF n
<1>6. Len(rows') = n /\ DOMAIN rows' = 1 .. n /\ rows' # <<>>
  BY <1>3, <1>5
<1>7. \A file \in PickedFiles : Preview!RowInv(Preview!BuildPreviewRow(file))
  <2> SUFFICES ASSUME NEW file \in PickedFiles
               PROVE  Preview!RowInv(Preview!BuildPreviewRow(file))
    OBVIOUS
  <2> DEFINE guess == Preview!ParseFilename(file.segments)
             row == Preview!BuildPreviewRow(file)
  <2>1. guess \in Guesses
    BY FilesTyped, ParseTyped
  <2>2. row = [file |-> file, fields |-> guess, edited |-> {}]
    BY DEF Preview!BuildPreviewRow
  <2>3. row.file = file /\ row.fields = guess /\ row.edited = {}
    BY <2>2
  <2> HIDE DEF guess, row
  <2>4. guess \in [Preview!Fields -> Int \cup {Null, Malformed}]
    BY <2>1 DEF Guesses, Preview!Fields
  <2>5. {guess.title, guess.artist, guess.album} \subseteq Nat
    BY <2>1 DEF Guesses
  <2> QED
    BY <2>2, <2>3, <2>4, <2>5 DEF Preview!RowInv, guess, row
<1>8. \A i \in DOMAIN rows' : Preview!RowInv(rows'[i])
  BY <1>4, <1>5, <1>6, <1>7
<1>9. \A s \in sent' : Preview!SentInv(s)'
  BY <1>1, SentStays
<1>10. Blank \in Nat
  BY DEF Blank
<1> QED
  BY <1>1, <1>5, <1>6, <1>8, <1>9, <1>10, PreviewFacts, PreviewStays

-----------------------------------------------------------------------------
(* Its steps                                                                *)

\* The album artist of the batch is typed.
LEMMA TypePreview == Preview!PreviewInv /\ Preview!TypeAlbumArtist => Preview!PreviewInv'
<1> SUFFICES ASSUME Preview!PreviewInv, Preview!TypeAlbumArtist PROVE Preview!PreviewInv'
  OBVIOUS
<1>1. /\ uploadStatus = "preview"
      /\ \E text \in Texts : albumArtist' = text /\ typed' = text
      /\ UNCHANGED <<tracks, uploadStatus, rows, current, failures, batches, sent>>
  BY DEF Preview!TypeAlbumArtist, Preview!Edit
<1>2. \A s \in sent' : Preview!SentInv(s)'
  BY <1>1, SentStays
<1> QED
  BY <1>1, <1>2, FilesTyped, PreviewFacts, PreviewStays

\* A field of a row is edited: it no longer is the guess.
LEMMA UpdatePreview == Preview!PreviewInv /\ Preview!UpdateRow => Preview!PreviewInv'
<1> SUFFICES ASSUME Preview!PreviewInv, Preview!UpdateRow PROVE Preview!PreviewInv'
  OBVIOUS
<1>1. /\ uploadStatus = "preview"
      /\ UNCHANGED <<tracks, uploadStatus, albumArtist, current, failures, batches, typed, sent>>
  BY DEF Preview!UpdateRow, Preview!Edit
<1>2. PICK i \in DOMAIN rows, field \in Preview!Fields :
          \E value \in IF field = "number" THEN Numbers \cup {Null, Malformed} ELSE Texts :
              rows' = [rows EXCEPT ![i] =
                  [file |-> @.file, fields |-> [@.fields EXCEPT ![field] = value],
                   edited |-> @.edited \cup {field}]]
  BY DEF Preview!UpdateRow
<1>3. PICK value \in IF field = "number" THEN Numbers \cup {Null, Malformed} ELSE Texts :
          rows' = [rows EXCEPT ![i] =
              [file |-> @.file, fields |-> [@.fields EXCEPT ![field] = value],
               edited |-> @.edited \cup {field}]]
  BY <1>2
<1> DEFINE row == rows[i]
           values == [row.fields EXCEPT ![field] = value]
           new == [file |-> row.file, fields |-> values, edited |-> row.edited \cup {field}]
<1>4. rows' = [rows EXCEPT ![i] = new]
  BY <1>3, Zenon
<1>5. /\ row.file \in PickedFiles
      /\ row.fields \in [Preview!Fields -> Int \cup {Null, Malformed}]
      /\ {row.fields.title, row.fields.artist, row.fields.album} \subseteq Nat
      /\ row.edited \subseteq Preview!Fields
      /\ \A f \in Preview!Fields \ row.edited :
             row.fields[f] = Preview!ParseFilename(row.file.segments)[f]
  BY PreviewFacts, SamePreview DEF Preview!RowInv
<1> HIDE DEF row
<1>6. value \in Int \cup {Null, Malformed} /\ (field # "number" => value \in Nat)
  <2>1. CASE field = "number"
    BY <2>1, <1>3, FilesTyped
  <2>2. CASE field # "number"
    <3>1. value \in Texts
      BY <2>2, <1>3
    <3> QED
      BY <2>2, <3>1, FilesTyped
  <2> QED
    BY <2>1, <2>2
<1>7. /\ values \in [Preview!Fields -> Int \cup {Null, Malformed}]
      /\ values["title"] \in Nat /\ values["artist"] \in Nat /\ values["album"] \in Nat
      /\ \A f \in Preview!Fields \ {field} : values[f] = row.fields[f]
  BY <1>5, <1>6 DEF Preview!Fields
<1>8. new.file = row.file /\ new.fields = values /\ new.edited = row.edited \cup {field}
  OBVIOUS
<1> HIDE DEF values, new
<1>9. \A f \in Preview!Fields \ new.edited :
          values[f] = Preview!ParseFilename(row.file.segments)[f]
  BY <1>5, <1>7, <1>8
<1>10. Preview!RowInv(new)
  <2>1. new = [file |-> new.file, fields |-> new.fields, edited |-> new.edited]
    BY DEF new
  <2>2. {values.title, values.artist, values.album} \subseteq Nat
    BY <1>7
  <2> QED
    BY <2>1, <2>2, <1>5, <1>7, <1>8, <1>9 DEF Preview!RowInv
<1>11. DOMAIN rows' = DOMAIN rows /\ \A j \in DOMAIN rows' : rows'[j] = rows[j] \/ rows'[j] = new
  BY <1>4
<1>12. \A j \in DOMAIN rows' : Preview!RowInv(rows'[j])
  BY <1>10, <1>11, PreviewFacts
<1>13. Len(rows') = Len(rows) /\ rows' # <<>>
  <2>1. Len(rows) \in Nat /\ DOMAIN rows' = 1 .. Len(rows) /\ i \in DOMAIN rows'
    BY <1>11, PreviewFacts
  <2>2. Len(rows') = Len(rows)
    BY <2>1
  <2> QED
    BY <2>1
<1>14. \A s \in sent' : Preview!SentInv(s)'
  BY <1>1, SentStays
<1>15. DOMAIN rows' = 1 .. Len(rows') /\ Len(rows') \in 0 .. MaxBatch
  BY <1>11, <1>13, PreviewFacts
<1> QED
  BY <1>1, <1>12, <1>13, <1>14, <1>15, PreviewFacts, PreviewStays

\* The batch is given up, confirmed, or over.
LEMMA StatusPreview ==
    Preview!PreviewInv /\ (Preview!Cancel \/ Preview!ConfirmUpload \/ Preview!UploadMore)
        => Preview!PreviewInv'
<1> SUFFICES ASSUME Preview!PreviewInv,
                    Preview!Cancel \/ Preview!ConfirmUpload \/ Preview!UploadMore
             PROVE  Preview!PreviewInv'
  OBVIOUS
<1>1. /\ UNCHANGED <<tracks, rows, albumArtist, batches, typed, sent>>
      /\ uploadStatus' \in {"idle", "uploading"}
      /\ failures' \subseteq 1 .. MaxBatch
      /\ uploadStatus' = "uploading" => uploadStatus = "preview" /\ current' = 1
  BY PreviewFacts DEF Preview!Cancel, Preview!ConfirmUpload, Preview!UploadMore
<1>2. uploadStatus' = "uploading" => current' \in DOMAIN rows'
  <2>1. uploadStatus = "preview" => Len(rows) # 0 
    <3>1. Len(rows) = 0 => DOMAIN rows = {} 
      BY PreviewFacts
    <3> QED
      BY <3>1, PreviewFacts
  <2>2. uploadStatus = "preview" => 1 \in DOMAIN rows
    BY <2>1, PreviewFacts
  <2> QED
    BY <1>1, <2>2
<1>3. \A s \in sent' : Preview!SentInv(s)'
  BY <1>1, SentStays
<1> QED
  BY <1>1, <1>2, <1>3, PreviewFacts, PreviewStays

\* The row that the upload of a row of the preview leaves behind.
LEMMA UploadedRow ==
    ASSUME NEW row, RowOK(row), albumArtist \in Nat,
           NEW id, NEW ext, NEW new, new = Row(id, Me, Resolve(UploadOf(row)), ext)
    PROVE  LET guess == Preview!ParseFilename(row.file.segments)
               self == Preview!ByItself(row.file)
           IN  /\ \A field \in {"title", "artist", "album"} \ row.edited :
                      new[field] = Or(guess[field], self[field])
               /\ new.albumArtist = Or(TrimSpace(albumArtist), Or(self.albumArtist, new.artist))
<1> DEFINE guess == Preview!ParseFilename(row.file.segments)
           self == Preview!ByItself(row.file)
           nt == Resolve(UploadOf(row))
<1>1. /\ nt.title = Or(TrimSpace(row.fields["title"]), self.title)
      /\ nt.artist = Or(TrimSpace(row.fields["artist"]), self.artist)
      /\ nt.album = Or(TrimSpace(row.fields["album"]), self.album)
      /\ nt.albumArtist = Or(TrimSpace(albumArtist), self.albumArtist)
  BY ResolvesForm
<1>2. guess \in Guesses
  <2>1. row.file.segments \in Seq(Preview!SegmentType)
    BY FilesTyped DEF RowOK
  <2> QED
    BY <2>1, ParseTyped
<1>3. /\ "title" \notin row.edited => row.fields["title"] = guess["title"]
      /\ "artist" \notin row.edited => row.fields["artist"] = guess["artist"]
      /\ "album" \notin row.edited => row.fields["album"] = guess["album"]
  BY DEF RowOK, Preview!Fields
<1> HIDE DEF guess, self, nt
<1>4. /\ TrimSpace(guess["title"]) = guess["title"]
      /\ TrimSpace(guess["artist"]) = guess["artist"]
      /\ TrimSpace(guess["album"]) = guess["album"]
  BY <1>2, OrTrim DEF Guesses
<1>5. /\ new.title = nt.title /\ new.artist = nt.artist /\ new.album = nt.album
      /\ new.albumArtist = Or(nt.albumArtist, nt.artist)
  BY DEF Row, AlbumArtist, nt
<1>6. /\ "title" \notin row.edited => new["title"] = Or(guess["title"], self["title"])
      /\ "artist" \notin row.edited => new["artist"] = Or(guess["artist"], self["artist"])
      /\ "album" \notin row.edited => new["album"] = Or(guess["album"], self["album"])
  BY <1>1, <1>3, <1>4, <1>5
<1>7. new.albumArtist = Or(TrimSpace(albumArtist), Or(self.albumArtist, new.artist))
  BY <1>1, <1>5, OrTrim
<1> QED
  BY <1>6, <1>7 DEF guess, self

\* Its number: that of the row if it is one, else that of the tags.
LEMMA UploadedNumber ==
    ASSUME NEW row, RowOK(row),
           NEW id, NEW ext, NEW new, new = Row(id, Me, Resolve(UploadOf(row)), ext),
           "number" \notin row.edited
    PROVE  new.asked = Preview!NumberOr(Preview!ParseFilename(row.file.segments).number,
                                        Preview!ByItself(row.file).number)
<1> DEFINE upload == UploadOf(row)
           form == Preview!Form(row.fields)
           guess == Preview!ParseFilename(row.file.segments)
           self == Preview!ByItself(row.file)
           blank == [title |-> Blank, artist |-> Blank, album |-> Blank,
                     albumArtist |-> Blank, number |-> 0]
           alone == [stem |-> row.file.stem, tags |-> row.file.tags, form |-> blank]
           own == ExtractMetadata(row.file.tags).number
<1>1. guess.number \in Int \cup {Null} /\ row.fields["number"] = guess.number
  <2>1. row.file.segments \in Seq(Preview!SegmentType)
    BY FilesTyped DEF RowOK
  <2>2. guess \in Guesses
    BY <2>1, ParseTyped
  <2>3. row.fields["number"] = guess["number"]
    BY DEF RowOK, Preview!Fields
  <2> HIDE DEF guess
  <2> QED
    BY <2>2, <2>3 DEF Guesses
<1>2. form.number = IF guess.number \in {Null, Malformed} THEN 0 ELSE guess.number
  BY <1>1 DEF Preview!Form
<1>3. upload.form.number = form.number /\ upload.tags = row.file.tags
  BY DEF UploadOf
<1>4. Resolve(upload).number =
          IF Override(upload.form.number) > 0 THEN Override(upload.form.number)
          ELSE ExtractMetadata(upload.tags).number
  BY DEF Resolve
<1>5. self = Resolve(alone)
  BY SamePreview, Zenon DEF Preview!ByItself
<1>6. /\ alone.form.number = 0 /\ alone.tags = row.file.tags
  OBVIOUS
<1>7. Resolve(alone).number =
          IF Override(alone.form.number) > 0 THEN Override(alone.form.number)
          ELSE ExtractMetadata(alone.tags).number
  BY DEF Resolve
<1>8. new.asked = Resolve(upload).number
  BY DEF Row
<1> HIDE DEF upload, form, guess, self, alone, blank
<1>9. Malformed \notin Int
  BY CatalogConstants
<1>10. self.number = own
  BY <1>5, <1>6, <1>7, <1>9 DEF Override
<1>11. new.asked = IF Override(form.number) > 0 THEN Override(form.number) ELSE own
  BY <1>3, <1>4, <1>8
<1>12. new.asked = Preview!NumberOr(guess.number, self.number)
  <2>1. CASE guess.number \in {Null, Malformed}
    BY <1>2, <1>9, <1>10, <1>11, <2>1 DEF Override, Preview!NumberOr
  <2>2. CASE guess.number \notin {Null, Malformed}
    BY <1>1, <1>2, <1>9, <1>10, <1>11, <2>2 DEF Override, Preview!NumberOr
  <2> QED
    BY <2>1, <2>2
<1> QED
  BY <1>12 DEF guess, self

\* An upload that is stored adds a track, and is remembered as sent.
LEMMA StoresOne ==
    ASSUME Preview!PreviewInv, uploadStatus = "uploading", Preview!Stored
    PROVE  LET row == rows[current] IN
           \E new :
               /\ Adds(Ids, Me, UploadOf(row), new)
               /\ sent' = sent \cup {[id |-> new.id, batch |-> batches, file |-> row.file,
                                      edited |-> row.edited, typed |-> typed]}
<1> DEFINE row == rows[current]
<1>1. RowOK(row) /\ albumArtist \in Nat
  BY PreviewFacts
<1>2. UploadOf(row) \in UploadType
  BY <1>1, UploadTyped
<1>3. /\ Preview!InsertTrack(Me, UploadOf(row))
      /\ sent' = sent \cup {[id |-> t.id, batch |-> batches, file |-> row.file,
                             edited |-> row.edited, typed |-> typed] : t \in tracks' \ tracks}
  BY Zenon DEF Preview!Stored, UploadOf, Preview!FormOf
<1>4. Inserts(Ids, Me, UploadOf(row))
  BY <1>3, SamePreview, Zenon DEF Preview!InsertTrack, Inserts
<1>5. PICK new : Adds(Ids, Me, UploadOf(row), new)
  BY <1>2, <1>4, Inserted
<1>6. tracks' \ tracks = {new}
  BY <1>5 DEF Adds
<1>7. sent' = sent \cup {[id |-> new.id, batch |-> batches, file |-> row.file,
                          edited |-> row.edited, typed |-> typed]}
  BY <1>3, <1>6
<1> QED
  BY <1>5, <1>7

\* The library and what has been sent, after such an upload.
LEMMA StoredSent ==
    ASSUME Preview!PreviewInv, uploadStatus = "uploading", Preview!Stored,
           UNCHANGED <<batches, typed>>, uploadStatus' # "preview"
    PROVE  /\ Library(Users, Ids)'
           /\ \A s \in sent' : Preview!SentInv(s)' /\ s.batch \in Nat
           /\ \A s, that \in sent' : s.batch = that.batch => s.typed = that.typed
<1>1. PICK row : row = rows[current]
  OBVIOUS
<1>2. RowOK(row) /\ albumArtist \in Nat /\ albumArtist = typed /\ row.file \in PickedFiles
  BY <1>1, PreviewFacts DEF RowOK
<1>3. PICK new :
          /\ Adds(Ids, Me, UploadOf(row), new)
          /\ sent' = sent \cup {[id |-> new.id, batch |-> batches, file |-> row.file,
                                 edited |-> row.edited, typed |-> typed]}
  BY <1>1, StoresOne
<1>4. PICK ext : new = Row(new.id, Me, Resolve(UploadOf(row)), ext)
  BY <1>3 DEF Adds
<1>5. tracks' = tracks \cup {new} /\ \A t \in tracks : t.id # new.id
  BY <1>3 DEF Adds
<1>6. Library(Users, Ids)'
  BY <1>3, PreviewFacts, LibraryGrows, CatalogConstants
<1> DEFINE guess == Preview!ParseFilename(row.file.segments)
           self == Preview!ByItself(row.file)
<1>7. /\ \A field \in {"title", "artist", "album"} \ row.edited :
             new[field] = Or(guess[field], self[field])
      /\ new.albumArtist = Or(TrimSpace(albumArtist), Or(self.albumArtist, new.artist))
  BY <1>2, <1>4, UploadedRow
<1>17. "number" \notin row.edited => new.asked = Preview!NumberOr(guess.number, self.number)
  BY <1>2, <1>4, UploadedNumber
<1>8. PICK said : said = [id |-> new.id, batch |-> batches, file |-> row.file,
                           edited |-> row.edited, typed |-> typed]
  OBVIOUS
<1>9. /\ said.id = new.id /\ said.batch = batches /\ said.file = row.file
      /\ said.edited = row.edited /\ said.typed = typed
  BY <1>8
<1>10. sent' = sent \cup {said}
  BY <1>3, <1>8
<1>11. batches \in Nat /\ batches' = batches /\ typed' = typed
  BY PreviewFacts
<1>12. Preview!SentInv(said)'
  <2>1. \E t \in tracks' : t.id = said.id
    BY <1>5, <1>9
  <2>2. \A t \in tracks' : t.id = said.id => t = new
    BY <1>5, <1>9
  <2>3. /\ \A field \in {"title", "artist", "album"} \ said.edited :
               new[field] = Or(Preview!ParseFilename(said.file.segments)[field],
                               Preview!ByItself(said.file)[field])
        /\ "number" \notin said.edited =>
               new.asked = Preview!NumberOr(Preview!ParseFilename(said.file.segments).number,
                                            Preview!ByItself(said.file).number)
        /\ said.file \in PickedFiles
        /\ new.albumArtist = Or(TrimSpace(said.typed),
                                Or(Preview!ByItself(said.file).albumArtist, new.artist))
    BY <1>2, <1>7, <1>9, <1>17
  <2>4. \A t \in tracks' : t.id = said.id =>
          /\ \A field \in {"title", "artist", "album"} \ said.edited :
                 t[field] = Preview!Or(Preview!ParseFilename(said.file.segments)[field],
                                       Preview!ByItself(said.file)[field])
          /\ "number" \notin said.edited =>
                 t.asked = Preview!NumberOr(Preview!ParseFilename(said.file.segments).number,
                                            Preview!ByItself(said.file).number)
          /\ said.file \in PickedFiles
          /\ t.albumArtist = Preview!Or(Preview!TrimSpace(said.typed),
                                 Preview!Or(Preview!ByItself(said.file).albumArtist, t.artist))
    BY <2>2, <2>3, SamePreview, Zenon
  <2>5. said.batch <= batches' /\ said.typed = typed'
    BY <1>9, <1>11
  <2> QED
    BY <2>1, <2>4, <2>5 DEF Preview!SentInv
<1>13. ASSUME NEW s \in sent
       PROVE  Preview!SentInv(s)' /\ s.batch \in Nat
  <2>1. Preview!SentInv(s) /\ s.batch \in Nat
    BY PreviewFacts
  <2>2. \A t \in tracks' : t.id = s.id => t \in tracks
    BY <1>5, <2>1 DEF Preview!SentInv
  <2>3. tracks \subseteq tracks'
    BY <1>5
  <2> QED
    BY <1>11, <2>1, <2>2, <2>3, Zenon DEF Preview!SentInv
<1>14. \A s \in sent' : Preview!SentInv(s)' /\ s.batch \in Nat
  <2>1. said.batch \in Nat
    BY <1>9, <1>11
  <2> QED
    BY <1>10, <1>12, <1>13, <2>1, Zenon
<1>15. \A s \in sent : s.batch = batches => s.typed = typed
  BY PreviewFacts DEF Preview!SentInv
<1>16. \A s, that \in sent' : s.batch = that.batch => s.typed = that.typed
  BY <1>9, <1>10, <1>15, PreviewFacts
<1> QED
  BY <1>6, <1>14, <1>16

-----------------------------------------------------------------------------
(* What is uploaded                                                         *)

\* A file is uploaded, or is not.
LEMMA UploadFilePreview == Preview!PreviewInv /\ Preview!UploadFile => Preview!PreviewInv'
<1> SUFFICES ASSUME Preview!PreviewInv, Preview!UploadFile PROVE Preview!PreviewInv'
  OBVIOUS
<1>1. /\ uploadStatus = "uploading"
      /\ Preview!Stored \/ UNCHANGED <<tracks, sent>>
      /\ failures' \in {failures, failures \cup {current}}
      /\ \/ current < Len(rows) /\ current' = current + 1 /\ uploadStatus' = uploadStatus
         \/ uploadStatus' = "done" /\ current' = current
      /\ UNCHANGED <<rows, albumArtist, batches, edits, typed>>
  BY DEF Preview!UploadFile
<1>2. /\ current \in DOMAIN rows /\ DOMAIN rows = 1 .. Len(rows) /\ Len(rows) \in 0 .. MaxBatch
      /\ MaxBatch \in Nat /\ failures \subseteq 1 .. MaxBatch
  BY <1>1, PreviewFacts
<1>3. /\ failures' \subseteq 1 .. MaxBatch
      /\ uploadStatus' \in {"uploading", "done"}
      /\ uploadStatus' = "uploading" => current' \in DOMAIN rows
  BY <1>1, <1>2
<1>4. CASE UNCHANGED <<tracks, sent>>
  <2>1. \A s \in sent' : Preview!SentInv(s)'
    BY <1>1, <1>3, <1>4, SentStays
  <2> QED
    BY <1>1, <1>3, <1>4, <2>1, PreviewFacts, PreviewStays
<1>5. CASE Preview!Stored
  <2>1. /\ Library(Users, Ids)'
        /\ \A s \in sent' : Preview!SentInv(s)' /\ s.batch \in Nat
        /\ \A s, that \in sent' : s.batch = that.batch => s.typed = that.typed
    BY <1>1, <1>3, <1>5, StoredSent
  <2>2. Preview!LibraryInv'
    BY <2>1, PreviewRows, PTL
  <2>3. \A i \in DOMAIN rows' : Preview!RowInv(rows'[i])
    BY <1>1, PreviewFacts
  <2>4. \A row : Preview!RowInv(row)' <=> Preview!RowInv(row)
    BY DEF Preview!RowInv
  <2> QED
    BY <1>1, <1>2, <1>3, <2>1, <2>2, <2>3, <2>4, PreviewFacts DEF Preview!PreviewInv
<1> QED
  BY <1>1, <1>4, <1>5

\* Every step of the upload screen keeps its invariant.
LEMMA PreviewStep == Preview!PreviewInv /\ Preview!Next => Preview!PreviewInv'
BY PickPreview, TypePreview, UpdatePreview, StatusPreview, UploadFilePreview DEF Preview!Next

\* And so does a step of another part.
LEMMA PreviewUnchanged ==
    Preview!PreviewInv /\ UNCHANGED <<tracks, previewVars>> => Preview!PreviewInv'
<1> SUFFICES ASSUME Preview!PreviewInv, UNCHANGED <<tracks, previewVars>> PROVE Preview!PreviewInv'
  OBVIOUS
<1>1. UNCHANGED <<tracks, uploadStatus, rows, albumArtist, current, failures, batches, typed, sent>>
  BY DEF previewVars
<1>2. \A s \in sent' : Preview!SentInv(s)'
  BY <1>1, SentStays
<1> QED
  BY <1>1, <1>2, PreviewFacts, PreviewStays

\* The parts that do not upload have sent nothing.
Uploaded == IF part = "upload" THEN Preview!PreviewInv ELSE uploadStatus = "idle" /\ sent = {}

\* It holds throughout, whatever the other parts do.
LEMMA PreviewInvariance == ClientSpec => []Uploaded
<1>1. ClientInit => Uploaded
  <2>1. Preview!Init => uploadStatus = "idle" /\ sent = {}
    BY DEF Preview!Init
  <2> QED
    BY <2>1, PreviewInitial DEF ClientInit, Uploaded
<1>2. Uploaded /\ [ClientNext]_clientVars => Uploaded'
  <2> SUFFICES ASSUME Uploaded, [ClientNext]_clientVars PROVE Uploaded'
    OBVIOUS
  <2>1. part' = part
    BY DEF ClientNext, clientVars
  <2>2. CASE part = "upload"
    <3>1. Preview!Next \/ UNCHANGED <<tracks, previewVars>>
      BY <2>2 DEF ClientNext, clientVars
    <3>2. Preview!PreviewInv
      BY <2>2 DEF Uploaded
    <3>3. Preview!PreviewInv'
      BY <3>1, <3>2, PreviewStep, PreviewUnchanged
    <3> QED
      BY <2>1, <2>2, <3>3 DEF Uploaded
  <2>3. CASE part # "upload"
    <3>1. UNCHANGED <<uploadStatus, sent>>
      BY <2>3 DEF ClientNext, clientVars, previewVars
    <3> QED
      BY <2>1, <2>3, <3>1 DEF Uploaded
  <2> QED
    BY <2>2, <2>3
<1> QED
  BY <1>1, <1>2, PTL DEF ClientSpec

\* The types of the upload screen.
LEMMA PreviewTyped ==
    ASSUME Preview!PreviewInv
    PROVE  Preview!TypeOK
<1>1. Preview!CatalogTypeOK
  BY DEF Preview!PreviewInv, Preview!LibraryInv
<1>2. \A i \in DOMAIN rows :
          /\ {rows[i].fields.title, rows[i].fields.artist, rows[i].fields.album} \subseteq Nat
          /\ rows[i].edited \subseteq Preview!Fields
  BY PreviewFacts DEF Preview!RowInv
<1>3. {albumArtist, typed} \subseteq Nat
  BY PreviewFacts
<1>4. \A s \in sent : \E t \in tracks : t.id = s.id
  BY PreviewFacts DEF Preview!SentInv
<1> QED
  BY <1>1, <1>2, <1>3, <1>4, PreviewFacts DEF Preview!TypeOK

-----------------------------------------------------------------------------
(* File names                                                               *)

\* Names in order: which is the first, which the second, which the last.
LEMMA NamesInOrder ==
    ASSUME NEW n \in Nat, NEW i \in 1 .. n, NEW j \in 1 .. n, i < j
    PROVE  /\ Min({i, j}) = i /\ Max({i, j}) = j /\ Cardinality({i, j}) = 2
           /\ \A k \in 1 .. n : j < k =>
                  /\ Min({i, j, k}) = i /\ Max({i, j, k}) = k
                  /\ {i, j, k} \ {i} = {j, k} /\ Min({j, k}) = j /\ Cardinality({i, j, k}) = 3
<1>1. \A k, l \in 1 .. n : k < l => Min({k, l}) = k
  <2> SUFFICES ASSUME NEW k \in 1 .. n, NEW l \in 1 .. n, k < l PROVE Min({k, l}) = k
    OBVIOUS
  <2>1. Min({k, l}) \in {k, l} /\ \A y \in {k, l} : Min({k, l}) <= y
    BY MinIs
  <2> QED
    BY <2>1
<1>2. Max({i, j}) = j
  <2>1. Max({i, j}) \in {i, j} /\ \A y \in {i, j} : Max({i, j}) >= y
    BY MaxIs
  <2> QED
    BY <2>1
<1>3. Cardinality({i, j}) = 2 /\ IsFiniteSet({i, j})
  <2>1. IsFiniteSet({i}) /\ Cardinality({i}) = 1
    BY FS_Singleton
  <2>2. j \notin {i} /\ {i} \cup {j} = {i, j}
    OBVIOUS
  <2>3. IsFiniteSet({i} \cup {j}) /\ Cardinality({i} \cup {j}) = 2
    BY <2>1, <2>2, FS_AddElement
  <2> QED
    BY <2>2, <2>3
<1>4. ASSUME NEW k \in 1 .. n, j < k
      PROVE  /\ Min({i, j, k}) = i /\ Max({i, j, k}) = k
             /\ {i, j, k} \ {i} = {j, k} /\ Cardinality({i, j, k}) = 3
  <2>1. Min({i, j, k}) \in {i, j, k} /\ \A y \in {i, j, k} : Min({i, j, k}) <= y
    BY MinIs
  <2>2. Max({i, j, k}) \in {i, j, k} /\ \A y \in {i, j, k} : Max({i, j, k}) >= y
    BY <1>4, MaxIs
  <2>3. k \notin {i, j} /\ {i, j} \cup {k} = {i, j, k}
    BY <1>4
  <2>4. Cardinality({i, j} \cup {k}) = 3
    BY <1>3, <2>3, FS_AddElement
  <2> QED
    BY <1>4, <2>1, <2>2, <2>3, <2>4
<1> QED
  BY <1>1, <1>2, <1>3, <1>4

\* The number a name has in the fallback: the first of its segments that is one.
LEMMA FirstNumber ==
    ASSUME NEW s \in Seq(Preview!SegmentType), NEW number,
           LET names == {i \in DOMAIN s : ~Preview!IsNumeric(s[i])}
           IN  \/ names = DOMAIN s /\ number = Null
               \/ \E i \in DOMAIN s \ names : 1 .. i - 1 \subseteq names /\ number = s[i].number
    PROVE  LET numeric == {i \in DOMAIN s : Preview!IsNumeric(s[i])}
           IN  number = IF numeric = {} THEN Null ELSE s[Min(numeric)].number
<1> DEFINE numeric == {i \in DOMAIN s : Preview!IsNumeric(s[i])}
           names == {i \in DOMAIN s : ~Preview!IsNumeric(s[i])}
<1>1. DOMAIN s = 1 .. Len(s) /\ Len(s) \in Nat
  OBVIOUS
<1>2. numeric = DOMAIN s \ names /\ names \subseteq DOMAIN s /\ numeric \subseteq DOMAIN s
  OBVIOUS
<1>3. \/ names = DOMAIN s /\ number = Null
      \/ \E i \in DOMAIN s \ names : 1 .. i - 1 \subseteq names /\ number = s[i].number
  OBVIOUS
<1> HIDE DEF numeric, names
<1>4. CASE names = DOMAIN s /\ number = Null
  BY <1>2, <1>4 DEF numeric
<1>5. ASSUME NEW i \in DOMAIN s \ names, 1 .. i - 1 \subseteq names, number = s[i].number
      PROVE  numeric # {} /\ number = s[Min(numeric)].number
  <2>1. i \in numeric /\ \A k \in numeric : i <= k
    BY <1>1, <1>2, <1>5
  <2>2. numeric \subseteq Nat
    BY <1>1, <1>2
  <2>3. Min(numeric) \in numeric /\ \A k \in numeric : Min(numeric) <= k
    BY <2>1, <2>2, MinIs
  <2>4. Min(numeric) = i
    <3>1. i \in Nat /\ Min(numeric) \in Nat /\ i <= Min(numeric) /\ Min(numeric) <= i
      BY <2>1, <2>2, <2>3
    <3> QED
      BY <3>1
  <2> QED
    BY <1>5, <2>1, <2>4
<1> QED
  BY <1>3, <1>4, <1>5 DEF numeric

\* The fallback reads two or three names.
LEMMA FallbackReads ==
    ASSUME NEW s \in Seq(Preview!SegmentType), NEW number,
           LET names == {i \in DOMAIN s : ~Preview!IsNumeric(s[i])}
           IN  \/ names = DOMAIN s /\ number = Null
               \/ \E i \in DOMAIN s \ names : 1 .. i - 1 \subseteq names /\ number = s[i].number
    PROVE  LET names == {i \in DOMAIN s : ~Preview!IsNumeric(s[i])}
           IN  /\ \A i, j \in names : i < j /\ names = {i, j} =>
                      Preview!Fallback(s) = Preview!Guess(s[j].name, s[i].name, Blank, number)
               /\ \A i, j, k \in names : i < j /\ j < k /\ names = {i, j, k} =>
                      Preview!Fallback(s) = Preview!Guess(s[k].name, s[i].name, s[j].name, number)
<1> DEFINE numeric == {i \in DOMAIN s : Preview!IsNumeric(s[i])}
           names == {i \in DOMAIN s : ~Preview!IsNumeric(s[i])}
           rest == DOMAIN s \ numeric
           track == IF numeric = {} THEN Null ELSE s[Min(numeric)].number
           artist == s[Min(rest)].name
           title == s[Max(rest)].name
           album == s[Min(rest \ {Min(rest)})].name
<1>1. track = number
  BY FirstNumber
<1>2. names = rest /\ DOMAIN s = 1 .. Len(s) /\ Len(s) \in Nat
  OBVIOUS
<1>3. Preview!Fallback(s) =
        CASE Cardinality(rest) = 2 -> Preview!Guess(title, artist, Blank, track)
          [] Cardinality(rest) = 3 -> Preview!Guess(title, artist, album, track)
          [] OTHER -> Preview!NoGuess
  BY SamePreview, Zenon DEF Preview!Fallback
<1> HIDE DEF track
<1>4. names \subseteq 1 .. Len(s)
  BY <1>2
<1> HIDE DEF names, rest, numeric
<1>5. ASSUME NEW i \in names, NEW j \in names, i < j, names = {i, j}
      PROVE  Preview!Fallback(s) = Preview!Guess(s[j].name, s[i].name, Blank, number)
  <2>1. Min(rest) = i /\ Max(rest) = j /\ Cardinality(rest) = 2
    BY <1>2, <1>4, <1>5, NamesInOrder
  <2>2. Preview!Fallback(s) = Preview!Guess(title, artist, Blank, track)
    BY <1>3, <2>1
  <2> QED
    BY <1>1, <2>1, <2>2, Zenon
<1>6. ASSUME NEW i \in names, NEW j \in names, NEW k \in names, i < j, j < k, names = {i, j, k}
      PROVE  Preview!Fallback(s) = Preview!Guess(s[k].name, s[i].name, s[j].name, number)
  <2>1. Min({i, j, k}) = i /\ Max({i, j, k}) = k /\ {i, j, k} \ {i} = {j, k} /\ Min({j, k}) = j
        /\ Cardinality({i, j, k}) = 3
    BY <1>2, <1>4, <1>6, NamesInOrder
  <2>2. Min(rest) = i /\ Max(rest) = k /\ Min(rest \ {Min(rest)}) = j /\ Cardinality(rest) = 3
    BY <1>2, <1>6, <2>1
  <2>3. Cardinality(rest) # 2
    BY <2>2
  <2>4. Preview!Fallback(s) = Preview!Guess(title, artist, album, track)
    BY <1>3, <2>2, <2>3
  <2> QED
    BY <1>1, <2>2, <2>4, Zenon
<1> QED
  BY <1>5, <1>6 DEF names

\* A name that is recognised is read as it is meant.
LEMMA NamesAreRead ==
    ASSUME NEW file \in PickedFiles, Preview!Recognised(file)
    PROVE  Preview!ParseFilename(file.segments) = file.meaning
<1> DEFINE s == file.segments
           names == {i \in DOMAIN s : ~Preview!IsNumeric(s[i])}
           means == file.meaning
           Placed == /\ Len(s) = 3 /\ names = 1 .. 3
                     /\ means = Preview!Guess(IF s[3].rest = Null THEN s[3].name ELSE s[3].rest,
                                              s[1].name, s[2].name, s[3].number)
           Indexed == /\ Len(s) = 5 /\ names = {1, 4, 5}
                      /\ means = Preview!Guess(s[5].name, s[4].name, s[1].name, s[3].number)
           Named == /\ Len(s) # 3 /\ (Len(s) = 5 => names \cap {2, 3} # {})
                    /\ \/ names = DOMAIN s /\ means.number = Null
                       \/ \E i \in DOMAIN s \ names :
                              1 .. i - 1 \subseteq names /\ means.number = s[i].number
                    /\ \/ \E i, j \in names :
                              /\ i < j /\ names = {i, j}
                              /\ means = Preview!Guess(s[j].name, s[i].name, Blank, means.number)
                       \/ \E i, j, k \in names :
                              /\ i < j /\ j < k /\ names = {i, j, k}
                              /\ means = Preview!Guess(s[k].name, s[i].name, s[j].name, means.number)
           Unread == /\ Len(s) \notin {3, 5} /\ Cardinality(names) \notin {2, 3}
                     /\ means = Preview!NoGuess
<1>1. s \in Seq(Preview!SegmentType) /\ DOMAIN s = 1 .. Len(s) /\ Len(s) \in Nat
  BY FilesTyped
<1>2. CASE Placed
  <2>1. 3 \in names
    BY <1>2
  <2>2. ~Preview!IsNumeric(s[3])
    BY <2>1
  <2>3. s[3].rest = Null => s[3].number = Null
    BY <2>2 DEF Preview!IsNumeric
  <2> DEFINE last == Preview!Trailing(s[3])
  <2>4. last.title = (IF s[3].rest = Null THEN s[3].name ELSE s[3].rest)
        /\ last.number = s[3].number
    BY <2>3 DEF Preview!Trailing
  <2>5. Preview!ParseFilename(s) = Preview!Guess(last.title, s[1].name, s[2].name, last.number)
    BY <1>2 DEF Preview!ParseFilename
  <2> HIDE DEF last
  <2> QED
    BY <1>2, <2>4, <2>5
<1>3. CASE Indexed
  <2>1. 2 \in DOMAIN s \ names /\ 3 \in DOMAIN s \ names
    BY <1>1, <1>3
  <2>2. Preview!IsNumeric(s[2]) /\ Preview!IsNumeric(s[3])
    BY <2>1
  <2> QED
    BY <1>3, <2>2 DEF Preview!ParseFilename
<1>4. ASSUME Len(s) # 3, Len(s) = 5 => names \cap {2, 3} # {}
      PROVE  Preview!ParseFilename(s) = Preview!Fallback(s)
  <2>1. ~(Len(s) = 5 /\ Preview!IsNumeric(s[2]) /\ Preview!IsNumeric(s[3]))
    BY <1>4
  <2> QED
    BY <1>4, <2>1 DEF Preview!ParseFilename
<1>5. CASE Named
  <2>1. Preview!ParseFilename(s) = Preview!Fallback(s)
    BY <1>4, <1>5
  <2> DEFINE number == means.number
  <2>2. /\ \A i, j \in names : i < j /\ names = {i, j} =>
               Preview!Fallback(s) = Preview!Guess(s[j].name, s[i].name, Blank, number)
        /\ \A i, j, k \in names : i < j /\ j < k /\ names = {i, j, k} =>
               Preview!Fallback(s) = Preview!Guess(s[k].name, s[i].name, s[j].name, number)
    <3>1. \/ names = DOMAIN s /\ number = Null
          \/ \E i \in DOMAIN s \ names : 1 .. i - 1 \subseteq names /\ number = s[i].number
      BY <1>5
    <3> HIDE DEF number
    <3> QED
      BY <1>1, <3>1, FallbackReads
  <2> HIDE DEF names
  <2> QED
    BY <1>5, <2>1, <2>2
<1>6. CASE Unread
  <2>1. Preview!ParseFilename(s) = Preview!Fallback(s)
    BY <1>4, <1>6
  <2>2. names = DOMAIN s \ {i \in DOMAIN s : Preview!IsNumeric(s[i])}
    OBVIOUS
  <2> HIDE DEF names
  <2>3. Preview!Fallback(s) = Preview!NoGuess
    BY <1>6, <2>2, SamePreview DEF Preview!Fallback
  <2> QED
    BY <1>6, <2>1, <2>3
<1>7. Placed \/ Indexed \/ Named \/ Unread
  BY SamePreview, Zenon DEF Preview!Recognised
<1>8. Preview!ParseFilename(s) = means
  <2> HIDE DEF Placed, Indexed, Named, Unread
  <2> QED
    BY <1>2, <1>3, <1>5, <1>6, <1>7
<1> QED
  BY <1>8

-----------------------------------------------------------------------------
(* Meaning                                                                  *)

\* The tracks of a batch under an album artist are on one album, and those of
\* one without go by the tags.
LEMMA BatchesGroup ==
    ASSUME Preview!PreviewInv
    PROVE  Preview!BatchGroups
<1> SUFFICES ASSUME NEW s \in sent, NEW that \in sent,
                    NEW t \in Preview!GetTrack(Me, s.id), NEW u \in Preview!GetTrack(Me, that.id)
             PROVE  /\ /\ s.batch = that.batch
                       /\ Preview!TrimSpace(s.typed) # Preview!Blank /\ t.album = u.album
                       => \A list \in Preview!ListAlbums(Me) : \E i \in DOMAIN list :
                              \A tracklist \in Preview!ListTracksByAlbum(Me, list[i].album, list[i].artist) :
                                  {t, u} \subseteq Preview!ToSet(tracklist)
                    /\ Preview!TrimSpace(s.typed) = Preview!Blank =>
                           t.albumArtist = Preview!Or(Preview!ByItself(s.file).albumArtist, t.artist)
  BY DEF Preview!BatchGroups
<1>1. /\ t \in Of(Me) /\ u \in Of(Me) /\ t \in tracks /\ u \in tracks
      /\ t.id = s.id /\ u.id = that.id
  BY SameLists DEF Of
<1>2. Preview!SentInv(s) /\ Preview!SentInv(that) /\ IsFiniteSet(tracks)
      /\ (s.batch = that.batch => s.typed = that.typed)
  BY PreviewFacts
<1>3. /\ t.albumArtist = Or(TrimSpace(s.typed), Or(Preview!ByItself(s.file).albumArtist, t.artist))
      /\ u.albumArtist = Or(TrimSpace(that.typed),
                            Or(Preview!ByItself(that.file).albumArtist, u.artist))
  BY <1>1, <1>2, SamePreview, Zenon DEF Preview!SentInv
<1>4. ASSUME s.batch = that.batch, TrimSpace(s.typed) # Blank, t.album = u.album,
             NEW list \in Albums!ListAlbums(Me)
      PROVE  \E i \in DOMAIN list :
                 \A tracklist \in Albums!ListTracksByAlbum(Me, list[i].album, list[i].artist) :
                     {t, u} \subseteq ToSet(tracklist)
  <2>1. t.albumArtist = u.albumArtist
    BY <1>2, <1>3, <1>4, OrTrim
  <2>2. PICK i \in DOMAIN list : list[i] = SummaryOf(Me, t)
    BY <1>1, <1>2, ListsAlbums
  <2>3. list[i].album = t.album /\ list[i].artist = t.albumArtist
    BY <2>2, SummaryIs
  <2>4. {t, u} \subseteq Albums!OnAlbum(Me, list[i].album, list[i].artist)
    BY <1>1, <1>4, <2>1, <2>3 DEF Albums!OnAlbum, Albums!Of, Of
  <2>5. ASSUME NEW tracklist \in Albums!ListTracksByAlbum(Me, list[i].album, list[i].artist)
        PROVE  {t, u} \subseteq ToSet(tracklist)
    BY <1>2, <2>4, <2>5, ListsTracks
  <2> QED
    BY <2>5
<1>5. TrimSpace(s.typed) = Blank =>
          t.albumArtist = Or(Preview!ByItself(s.file).albumArtist, t.artist)
  BY <1>3, OrTrim
<1> QED
  BY <1>4, <1>5, SameLists, SamePreview

\* Of files whose names are recognised: the preview shows what they mean; the
\* tracks have the names that the file name or the user gave, and else those of
\* the tags; and the album artist of a batch groups that batch.
THEOREM UploadsKeepMeaning ==
    ASSUME Preview!FilesRecognised
    PROVE  ClientSpec => []UploadsAsMeant
<1>1. \A file \in PickedFiles : Preview!ParseFilename(file.segments) = file.meaning
  BY NamesAreRead DEF Preview!FilesRecognised
<1>2. Uploaded => UploadsAsMeant
  <2> SUFFICES ASSUME Uploaded PROVE UploadsAsMeant
    OBVIOUS
  <2>1. CASE part # "upload"
    BY <2>1 DEF Uploaded, UploadsAsMeant, ReadsFileNames, NoSilentOverride, BatchGroups,
       Preview!ReadsFileNames, Preview!NoSilentOverride, Preview!BatchGroups
  <2>2. CASE part = "upload"
    <3>1. Preview!PreviewInv
      BY <2>2 DEF Uploaded
    <3>2. ReadsFileNames
      <4> SUFFICES ASSUME NEW i \in DOMAIN rows, NEW field \in Preview!Fields \ rows[i].edited
                   PROVE  rows[i].fields[field] = rows[i].file.meaning[field]
        BY DEF ReadsFileNames, Preview!ReadsFileNames
      <4>1. RowOK(rows[i])
        BY <3>1, PreviewFacts
      <4> QED
        BY <1>1, <4>1 DEF RowOK
    <3>3. NoSilentOverride
      <4> SUFFICES ASSUME NEW s \in sent, NEW t \in Preview!GetTrack(Me, s.id)
                   PROVE  /\ \A field \in {"title", "artist", "album"} \ s.edited :
                                 t[field] = Preview!Or(s.file.meaning[field],
                                                       Preview!ByItself(s.file)[field])
                          /\ "number" \notin s.edited =>
                                 t.asked = Preview!NumberOr(s.file.meaning.number,
                                                            Preview!ByItself(s.file).number)
        BY Zenon DEF NoSilentOverride, Preview!NoSilentOverride
      <4>1. t \in tracks /\ t.id = s.id
        BY SameLists DEF Of
      <4>2. Preview!SentInv(s)
        BY <3>1, PreviewFacts
      <4>3. /\ s.file \in PickedFiles
            /\ \A field \in {"title", "artist", "album"} \ s.edited :
                   t[field] = Preview!Or(Preview!ParseFilename(s.file.segments)[field],
                                         Preview!ByItself(s.file)[field])
            /\ "number" \notin s.edited =>
                   t.asked = Preview!NumberOr(Preview!ParseFilename(s.file.segments).number,
                                              Preview!ByItself(s.file).number)
        BY <4>1, <4>2, Zenon DEF Preview!SentInv
      <4> QED
        BY <1>1, <4>3
    <3> QED
      BY <3>1, <3>2, <3>3, BatchesGroup DEF UploadsAsMeant, BatchGroups
  <2> QED
    BY <2>1, <2>2
<1> QED
  BY <1>2, PreviewInvariance, PTL

\* The types of the search, while it is the part in use.
Searching == part = "search" => Library(Users, Ids) /\ SearchTypes

\* They are kept throughout, whatever the other parts do.
LEMMA SearchingInvariance == ClientSpec => []Searching
<1>1. ClientInit => Searching
  BY SearchTypedInit, SearchFacts DEF ClientInit, Searching
<1>2. Searching /\ [ClientNext]_clientVars => Searching'
  <2> SUFFICES ASSUME Searching, [ClientNext]_clientVars, part = "search" PROVE Searching'
    BY DEF Searching, ClientNext, clientVars
  <2>1. [Next]_vars
    BY DEF ClientNext, clientVars, findVars, vars
  <2>2. Library(Users, Ids) /\ SearchTypes
    BY DEF Searching
  <2> QED
    BY <2>1, <2>2, SearchTypedStep DEF Searching
<1> QED
  BY <1>1, <1>2, PTL DEF ClientSpec

\* Every part of the client keeps its types, and the summaries of albums and
\* artists agree with what their listings hold, whatever has been uploaded.
THEOREM CatalogStaysConsistent == ClientSpec => []CatalogConsistent
<1>1. Browsed /\ Searching /\ Uploaded /\ Play!TypeOK
        => CatalogConsistent
  BY AlbumsTyped, SearchFacts, PreviewTyped
  DEF Browsed, Searching, Uploaded, SearchTyped, CatalogConsistent, ClientTypeOK, SummariesAgree
<1> QED
  BY <1>1, AlbumsInvariance, SearchingInvariance, PreviewInvariance, PlayerInvariance, PTL
=============================================================================
