------------------------------- MODULE Player -------------------------------
(***************************************************************************)
(* Playback of a queue (hooks/usePlayer.tsx): the list a screen shows is   *)
(* handed over with the tapped index, and the player moves through it on   *)
(* the buttons of the dock and, in an effect, when a track finishes.       *)
(*                                                                         *)
(* The audio player is native: it reports its status in frames that reach  *)
(* the component later.  A frame is rendered on its own and its effect     *)
(* runs after that render, with the queue and index of that render; a      *)
(* press may come first.  The state an effect sets is rendered later, too, *)
(* so a handler may work with the index of an earlier render.  Frames are  *)
(* taken to be rendered one by one, and the report of a finish to be       *)
(* handled before the next finish.                                         *)
(***************************************************************************)
EXTENDS Naturals, Sequences

CONSTANTS
    Queues,     \* the lists that screens hand over
    NoTrack,
    MaxPresses, \* bound on what the user does
    MaxFrames   \* bound on the frames in flight

Tracks == UNION {{q[i] : i \in DOMAIN q} : q \in Queues}

QueuesAssumption ==
    /\ \A q \in Queues : q \in Seq(Tracks) /\ q # <<>>
    /\ NoTrack \notin Tracks
    /\ MaxPresses \in Nat /\ MaxFrames \in Nat \ {0}

VARIABLES
    queue, index,  \* the state, index counted from 0
    shown,         \* the index of the last render, which handlers use
    status,        \* the status last rendered
    effect,        \* effects that have yet to run, none or one: a closure
    dep,           \* didJustFinish when the effect ran last
    advanced,      \* advancedForFinish.current
    native,        \* the audio player
    frames,        \* status frames on their way
    presses        \* what the user has done so far

vars == <<queue, index, shown, status, effect, dep, advanced, native, frames, presses>>
component == <<queue, index, shown, status, effect, dep, advanced>>

Frame == [playing : BOOLEAN, didJustFinish : BOOLEAN]
Closure == [queue : {<<>>} \cup Queues, index : Nat, late : BOOLEAN, didJustFinish : BOOLEAN]
FrameOf(n) == [playing |-> n.phase = "playing", didJustFinish |-> n.reporting]

\* The audio player: what it has loaded, whether it still reports that it has
\* just finished, whether a frame has said that it has not, and whether an
\* automatic advance has started it.
Player == [track : Tracks \cup {NoTrack}, phase : {"playing", "paused", "finished"},
           reporting : BOOLEAN, announced : BOOLEAN, auto : BOOLEAN]

Init ==
    /\ queue = <<>> /\ index = 0 /\ shown = 0
    /\ status = [playing |-> FALSE, didJustFinish |-> FALSE]
    /\ effect = {} /\ dep = FALSE /\ advanced = FALSE
    /\ native = [track |-> NoTrack, phase |-> "paused", reporting |-> FALSE,
                 announced |-> FALSE, auto |-> FALSE]
    /\ frames = <<>> /\ presses = 0

TrackAt(q, at) == q[at + 1]
HasNext(q, at) == at + 1 < Len(q)

-----------------------------------------------------------------------------
\* playAt: replace, then play; nothing if there is no such track.
PlayAt(q, at, auto) ==
    native' = IF at \in 0 .. Len(q) - 1
              THEN [track |-> TrackAt(q, at), phase |-> "playing",
                    reporting |-> FALSE, announced |-> FALSE, auto |-> auto]
              ELSE native

\* React runs an effect that is due before it renders what a press has changed:
\* at most one press comes between a render and its effect.
Press(at) ==
    /\ presses < MaxPresses
    /\ presses' = presses + 1
    /\ \A closure \in effect : ~closure.late
    /\ effect' = {[closure EXCEPT !.late = TRUE] : closure \in effect}
    /\ index' = at /\ shown' = at
    /\ UNCHANGED <<status, dep, advanced, frames>>

PlayQueue ==
    \E q \in Queues : \E at \in 0 .. Len(q) - 1 :
        /\ Press(at)
        /\ queue' = q
        /\ PlayAt(q, at, FALSE)

PlayNext ==
    /\ HasNext(queue, shown)
    /\ Press(shown + 1)
    /\ PlayAt(queue, shown + 1, FALSE)
    /\ UNCHANGED queue

\* Mutant of PlayPrevious: the dock is not told.
PlayPreviousUnshown ==
    /\ shown > 0
    /\ Press(index)
    /\ PlayAt(queue, shown - 1, FALSE)
    /\ UNCHANGED queue

PlayPrevious ==
    /\ shown > 0
    /\ Press(shown - 1)
    /\ PlayAt(queue, shown - 1, FALSE)
    /\ UNCHANGED queue

\* The user goes back into a track that has finished.
Restarted(phase) ==
    [native EXCEPT !.phase = phase, !.reporting = FALSE, !.announced = FALSE,
                   !.auto = FALSE]

\* By the status rendered last.  At the end of a track play() starts it again
\* on some platforms and does nothing on others.
TogglePlayPause ==
    /\ shown < Len(queue)
    /\ Press(index)
    /\ \/ /\ status.playing
          /\ native' = [native EXCEPT !.phase = IF @ = "playing" THEN "paused" ELSE @]
       \/ /\ ~status.playing
          /\ \/ native.phase # "finished" /\ native' = [native EXCEPT !.phase = "playing"]
             \/ native.phase = "finished" /\ UNCHANGED native
             \/ /\ native.phase = "finished"
                /\ native' = Restarted("playing")
    /\ UNCHANGED queue

\* seekTo, back into a track that has finished.
Seek ==
    /\ shown < Len(queue)
    /\ native.phase = "finished"
    /\ Press(index)
    /\ native' = Restarted("paused")
    /\ UNCHANGED queue

-----------------------------------------------------------------------------
\* The audio player reports its status, and finishes a track it plays.
Report ==
    /\ native.track # NoTrack
    /\ Len(frames) < MaxFrames
    /\ \/ UNCHANGED native
       \/ native.reporting /\ native' = [native EXCEPT !.reporting = FALSE]
       \/ ~native.reporting /\ native' = [native EXCEPT !.announced = TRUE]
    /\ frames' = Append(frames, FrameOf(native'))
    /\ UNCHANGED <<component, presses>>

Finish ==
    /\ native.phase = "playing"
    /\ native.announced
    /\ \A i \in DOMAIN frames : ~frames[i].didJustFinish
    /\ \A closure \in effect : ~closure.didJustFinish
    /\ Len(frames) < MaxFrames
    /\ native' = [native EXCEPT !.phase = "finished", !.reporting = TRUE,
                                !.announced = FALSE]
    /\ frames' = Append(frames, FrameOf(native'))
    /\ UNCHANGED <<component, presses>>

\* A frame is rendered, with the effect that belongs to this render.
RenderFrame ==
    /\ frames # <<>>
    /\ effect = {}
    /\ status' = Head(frames)
    /\ frames' = Tail(frames)
    /\ shown' = index
    /\ effect' = {[queue |-> queue, index |-> index, late |-> FALSE,
                   didJustFinish |-> Head(frames).didJustFinish]}
    /\ UNCHANGED <<queue, index, dep, advanced, native, presses>>

\* The index an effect has set is rendered.
RenderIndex ==
    /\ effect = {}
    /\ shown # index
    /\ shown' = index
    /\ UNCHANGED <<queue, index, status, effect, dep, advanced, native, frames, presses>>

Advance(closure) ==
    IF HasNext(closure.queue, closure.index)
    THEN /\ index' = closure.index + 1
         /\ PlayAt(closure.queue, closure.index + 1, TRUE)
    ELSE UNCHANGED <<index, native>>

\* Mutants of RunEffect: on every render and not gated by the ref; the ref is
\* not reset.
RunEffectUngated ==
    \E closure \in effect :
        /\ effect' = {}
        /\ dep' = closure.didJustFinish
        /\ IF closure.didJustFinish THEN Advance(closure) ELSE UNCHANGED <<index, native>>
        /\ UNCHANGED <<queue, shown, status, advanced, frames, presses>>

RunEffectOnce ==
    \E closure \in effect :
        /\ effect' = {}
        /\ dep' = closure.didJustFinish
        /\ advanced' = (advanced \/ closure.didJustFinish)
        /\ IF closure.didJustFinish /\ ~advanced THEN Advance(closure)
           ELSE UNCHANGED <<index, native>>
        /\ UNCHANGED <<queue, shown, status, frames, presses>>

\* The effect, which has [status.didJustFinish] as its dependencies.
RunEffect ==
    \E closure \in effect :
        /\ effect' = {}
        /\ dep' = closure.didJustFinish
        /\ IF closure.didJustFinish = dep THEN UNCHANGED <<index, advanced, native>>
           ELSE IF ~closure.didJustFinish
           THEN advanced' = FALSE /\ UNCHANGED <<index, native>>
           ELSE IF advanced THEN UNCHANGED <<index, advanced, native>>
           ELSE advanced' = TRUE /\ Advance(closure)
        /\ UNCHANGED <<queue, shown, status, frames, presses>>

-----------------------------------------------------------------------------
Next ==
    \/ PlayQueue \/ PlayNext \/ PlayPrevious \/ TogglePlayPause \/ Seek
    \/ Report \/ Finish
    \/ RenderFrame \/ RenderIndex \/ RunEffect

Spec == Init /\ [][Next]_vars

\* React renders what has arrived and runs its effects.  Nothing makes the user
\* press a button or a track come to its end.
Fairness == WF_vars(RenderFrame) /\ WF_vars(RunEffect)

-----------------------------------------------------------------------------
TypeOK ==
    /\ queue \in {<<>>} \cup Queues
    /\ index \in Nat /\ shown \in Nat
    /\ status \in Frame
    /\ effect \subseteq Closure
    /\ \A one, other \in effect : one = other
    /\ dep \in BOOLEAN /\ advanced \in BOOLEAN
    /\ native \in Player
    /\ frames \in Seq(Frame) /\ Len(frames) <= MaxFrames
    /\ presses \in 0 .. MaxPresses

\* The effect has run and called playAt.
AutoAdvances == effect # {} /\ effect' = {} /\ native' # native

\* One finish, one advance: a track that auto-advance has started is never cut
\* off by auto-advance, however many frames repeat didJustFinish.
OneAdvancePerFinish ==
    [][AutoAdvances /\ native.auto => native.phase = "finished"]_vars

\* The dock shows the track that is loaded.
DockAgrees ==
    queue # <<>> => index < Len(queue) /\ native.track = TrackAt(queue, index)

\* Only an effect that a press has overtaken can part them.
DockFollows ==
    [][DockAgrees => DockAgrees' \/ \E closure \in effect : closure.late]_vars

\* A track that finishes is followed by the next one, unless the user decides
\* otherwise.
FinishAdvances ==
    (native.phase = "finished" /\ HasNext(queue, index)) ~> native.phase # "finished"

\* "automatically when a track finishes": auto-advance leaves a track that has
\* finished.
AdvanceLeavesFinished == [][AutoAdvances => native.phase = "finished"]_vars

\* The inductive invariant of OneAdvancePerFinish.  What the hook has still to
\* hear of: the closure of its effect, then the frames.
Says(i) == frames[i].didJustFinish
Fall == \A i, j \in DOMAIN frames : i < j /\ Says(j) => Says(i)
Rise == \A i, j \in DOMAIN frames : i < j /\ Says(i) => Says(j)

\* The reports of a finish follow each other: there is none of another finish
\* behind them,
OneFinish ==
    /\ \A i, j, k \in DOMAIN frames : i < j /\ j < k /\ Says(i) /\ Says(k) => Says(j)
    /\ \A closure \in effect : closure.didJustFinish => Fall

\* and none has ended while the player still makes them.
Reporting ==
    native.reporting =>
        /\ native.phase = "finished"
        /\ Rise
        /\ \A closure \in effect : closure.didJustFinish => \A i \in DOMAIN frames : Says(i)

\* No finish is left to hear of while a track plays that an advance has started:
\* what still says so repeats the finish before it.
NoneLeft ==
    native.auto /\ native.phase # "finished" =>
        /\ Fall
        /\ \A closure \in effect :
               /\ closure.didJustFinish => dep
               /\ ~closure.didJustFinish => \A i \in DOMAIN frames : ~Says(i)
        /\ ~dep => \A i \in DOMAIN frames : ~Says(i)

FinishInv == advanced = dep /\ OneFinish /\ Reporting /\ NoneLeft

\* And of DockFollows: a closure that no press has overtaken is of the present
\* queue, and the handlers' index is one of the queue unless it is the present.
DockInv ==
    /\ shown # index => shown < Len(queue)
    /\ \A closure \in effect :
        /\ shown = index
        /\ ~closure.late => closure.queue = queue /\ closure.index = index
        /\ HasNext(closure.queue, closure.index) => shown < Len(queue)

PlayerInv == FinishInv /\ DockInv
=============================================================================
