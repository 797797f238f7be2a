------------------------------- MODULE Search -------------------------------
(***************************************************************************)
(* The Search tab over the catalog (app/(tabs)/search.tsx, api/search.go): *)
(* every change of the query runs an effect that cancels the one before,   *)
(* its timer and its answer, and sends a request 300 ms later.  Requests   *)
(* are answered in any order and may fail; uploads go on meanwhile.        *)
(*                                                                         *)
(* A query is trimmed text; Containing gives the names that it is a        *)
(* substring of, without regard to case and with no wildcards.             *)
(***************************************************************************)
EXTENDS Catalog

CONSTANTS
    Queries,     \* the queries typed, apart from the blank one
    Containing,
    Limit,       \* the LIMIT of the statement, 100
    MaxChanges   \* bound on the changes of the query

ASSUME QueriesAssumption ==
    /\ CatalogAssumption
    /\ Blank \notin Queries /\ Containing \in [Queries -> SUBSET Nat]
    /\ Limit \in Nat \ {0} /\ MaxChanges \in Nat

VARIABLES
    query,      \* the trimmed query
    effectOf,   \* the query the effect ran for last
    effects,    \* how often it ran: a request belongs to one run
    timer,      \* the query that waits for its 300 ms, none or one
    requests,
    results, error,
    known,      \* history: what matched when the query was typed
    ended       \* history: the last run of the effect that was answered

vars == <<tracks, query, effectOf, effects, timer, requests, results, error, known, ended>>
screen == <<query, effectOf, effects, timer, results, error, known, ended>>

Init ==
    /\ tracks = {}
    /\ query = Blank /\ effectOf = Blank /\ effects = 0
    /\ timer = {} /\ requests = {}
    /\ results = <<>> /\ error = FALSE
    /\ known = {} /\ ended = 0

-----------------------------------------------------------------------------
Matching(user, q) ==
    {t \in Of(user) : {t.title, t.artist, t.album} \cap Containing[q] # {}}

SearchTracks(user, q) ==
    {SubSeq(s, 1, Min({Limit, Len(s)})) :
        s \in Ordered([t \in Matching(user, q) |-> <<t.title>>])}

\* handleSearch
SearchAnswer(user, q) == IF q = Blank THEN {<<>>} ELSE SearchTracks(user, q)

\* React runs the effect of one change before it renders the next.
Type ==
    /\ query = effectOf
    /\ effects < MaxChanges
    /\ query' \in ({Blank} \cup Queries) \ {query}
    /\ known' = IF query' = Blank THEN {} ELSE Matching(Me, query')
    /\ UNCHANGED <<tracks, effectOf, effects, timer, requests, results, error, ended>>

\* Mutant of RunEffect: a timer that is running is not started again.
RunEffectThrottled ==
    /\ query # effectOf
    /\ effectOf' = query /\ effects' = effects + 1
    /\ IF query = Blank
       THEN timer' = {} /\ results' = <<>> /\ error' = FALSE /\ ended' = effects'
       ELSE /\ timer' = IF timer = {} THEN {query} ELSE {}
            /\ UNCHANGED <<results, error, ended>>
    /\ UNCHANGED <<tracks, query, requests, known>>

\* The cleanup of the effect before, then the effect: [trimmed] has changed.
RunEffect ==
    /\ query # effectOf
    /\ effectOf' = query /\ effects' = effects + 1
    /\ IF query = Blank
       THEN timer' = {} /\ results' = <<>> /\ error' = FALSE /\ ended' = effects'
       ELSE timer' = {query} /\ UNCHANGED <<results, error, ended>>
    /\ UNCHANGED <<tracks, query, requests, known>>

TimerFires ==
    /\ \E q \in timer :
           requests' = requests \cup {[effect |-> effects, query |-> q, answer |-> Null]}
    /\ timer' = {}
    /\ UNCHANGED <<tracks, query, effectOf, effects, results, error, known, ended>>

Handle ==
    \E r \in requests :
        /\ r.answer = Null
        /\ \E s \in SearchAnswer(Me, r.query) :
               requests' = (requests \ {r}) \cup {[r EXCEPT !.answer = s]}
        /\ UNCHANGED <<tracks, screen>>

\* Mutant of Ignored: no answer is.
NeverIgnored(r) == FALSE

\* The effect that sent the request has been cleaned up.
Ignored(r) == r.effect # effects

Receive(r) ==
    /\ r.answer # Null
    /\ requests' = requests \ {r}
    /\ IF Ignored(r) THEN UNCHANGED <<results, error, ended>>
       ELSE /\ results' = r.answer /\ error' = FALSE
            /\ ended' = Max({ended, r.effect})
    /\ UNCHANGED <<tracks, query, effectOf, effects, timer, known>>

\* Before or after the server has answered.
Fail(r) ==
    /\ requests' = requests \ {r}
    /\ IF Ignored(r) THEN UNCHANGED <<error, ended>>
       ELSE error' = TRUE /\ ended' = Max({ended, r.effect})
    /\ UNCHANGED <<tracks, query, effectOf, effects, timer, results, known>>

UploadAny == Upload /\ UNCHANGED <<screen, requests>>

Next ==
    \/ UploadAny \/ Type
    \/ RunEffect \/ TimerFires
    \/ Handle
    \/ \E r \in requests : Receive(r) \/ Fail(r)

Spec == Init /\ [][Next]_vars

\* React runs its effects, timers expire, the server answers, and a request
\* comes back or fails: this is asked of the network, as the client sets no
\* timeout.  Nobody has to type or to upload.
Fairness ==
    /\ WF_vars(RunEffect) /\ WF_vars(TimerFires) /\ WF_vars(Handle)
    /\ WF_vars(\E r \in requests : Receive(r))

-----------------------------------------------------------------------------
\* The query on the screen has been answered.
Settled == effectOf = query /\ ended = effects

TypeOK ==
    /\ CatalogTypeOK
    /\ {query, effectOf} \subseteq {Blank} \cup Queries
    /\ effects \in 0 .. MaxChanges /\ ended \in 0 .. effects
    /\ timer \subseteq Queries
    /\ \A r \in requests : r.effect \in 1 .. effects /\ r.query \in Queries
    /\ ToSet(results) \cup known \subseteq tracks
    /\ Len(results) <= Limit
    /\ error \in BOOLEAN

\* Tracks of the user that match the query, with every match there was when it
\* was typed, as far as they fit.
Shows(list, q) ==
    IF q = Blank THEN list = <<>>
    ELSE /\ ToSet(list) \subseteq Matching(Me, q)
         /\ known \subseteq ToSet(list) \/ Len(list) = Limit

\* Once the search has settled, the screen shows the results of the query that
\* is typed and of no other ("guard against an earlier request resolving after a
\* later one", search.tsx:24-26).
ShowsTheQuery == Settled /\ ~error => Shows(results, query)

\* Its inductive invariant: what a request of the present run of the effect asks
\* for and is answered.
RequestInv(r) ==
    /\ r = [effect |-> r.effect, query |-> r.query, answer |-> r.answer]
    /\ r.effect \in 0 .. effects
    /\ r.effect = effects => r.query = effectOf
    /\ r.effect = effects /\ r.answer # Null /\ query = effectOf => Shows(r.answer, query)

SearchInv ==
    /\ IsFiniteSet(tracks)
    /\ effects \in Nat /\ ended \in 0 .. effects
    /\ timer \subseteq {effectOf}
    /\ query # Blank => known \subseteq Matching(Me, query)
    /\ \A r \in requests : RequestInv(r)
    /\ ShowsTheQuery

\* The types are inductive with what answers hold, and with what there is to wait
\* for: an effect that has to run, a timer of one that has run.
SearchTyped ==
    /\ LibraryInv /\ TypeOK
    /\ query # effectOf => effects < MaxChanges
    /\ timer # {} => effects > 0
    /\ \A r \in requests :
           /\ r = [effect |-> r.effect, query |-> r.query, answer |-> r.answer]
           /\ r.answer # Null => ToSet(r.answer) \subseteq tracks /\ Len(r.answer) <= Limit

\* A query that is not changed any more is answered.
SearchEnds == \A q \in Queries : query = q ~> Settled \/ query # q
=============================================================================
