----------------------------- MODULE Streaming -----------------------------
(***************************************************************************)
(* Audio and artwork on their way to a player (api/tracks.go, artwork.go,  *)
(* middleware.go): the token of the URL is checked, the row looked up for  *)
(* its user, and the object served, by the server itself or by a redirect  *)
(* to a URL of the object store that is good for a while.                  *)
(*                                                                         *)
(* The server may be started again with another secret, backend or         *)
(* lifetime.  The object store is external: it serves a signed URL until   *)
(* it expires, whatever has happened since.  Time passes between any two   *)
(* steps, also within a handler.                                           *)
(***************************************************************************)
EXTENDS Integers, FiniteSets

CONSTANTS
    Users, Tracks,
    Configs,     \* the environments the server is started with
    TokenTTL,
    DefaultTTL,  \* defaultStreamURLTTL
    MaxPresign,  \* the longest lifetime the object store signs
    MaxTime, MaxLogins, MaxStarts, MaxUrls,  \* bounds
    None

ASSUME TracksAssumption ==
    None \notin Tracks \cup Users /\ None \notin [user : Users, artwork : BOOLEAN]
ASSUME LifetimeAssumption ==
    /\ {TokenTTL, DefaultTTL, MaxPresign} \subseteq Nat \ {0}
    /\ DefaultTTL <= MaxPresign
ASSUME ConfigsAssumption ==
    \A c \in Configs : c.backend \in {"fs", "r2", "neon"} /\ c.ttl \in Int \cup {None}
ASSUME BoundsAssumption == {MaxTime, MaxLogins, MaxStarts, MaxUrls} \subseteq Nat

Kinds == {"audio", "artwork"}
Presigners == {"r2", "neon"}

VARIABLES
    now,
    config,   \* of the running server, None while there is none
    starts,
    rows,     \* the row of each track, its owner and whether it has artwork; or None
    objects,  \* for each backend, its keys
    tokens,   \* handed out
    pending,  \* requests that have passed withAuth
    urls,     \* presigned URLs handed out
    answer    \* history: what a player was answered in the last step, and whether
              \* that was because a call of the handler had failed

vars == <<now, config, starts, rows, objects, tokens, pending, urls, answer>>

\* The answer to a request that gets no object.
Answered(status, fault) ==
    [status |-> status, user |-> None, track |-> None, kind |-> None, authorized |-> 0,
     issued |-> 0, key |-> None, type |-> None, fault |-> fault]

NoAnswer == Answered(0, None)

Init ==
    /\ now = 0
    /\ config = None /\ starts = 0
    /\ rows = [t \in Tracks |-> None]
    /\ objects = [b \in {"fs", "r2", "neon"} |-> {}]
    /\ tokens = {} /\ pending = {} /\ urls = {} /\ answer = NoAnswer

-----------------------------------------------------------------------------
\* main: the backend of STORAGE_BACKEND, whose objects stay where they are.
Start ==
    /\ config = None /\ starts < MaxStarts
    /\ config' \in Configs
    /\ starts' = starts + 1
    /\ UNCHANGED <<now, rows, objects, tokens, pending, urls>>
    /\ answer' = NoAnswer

Stop ==
    /\ config # None
    /\ config' = None /\ pending' = {}
    /\ UNCHANGED <<now, starts, rows, objects, tokens, urls>>
    /\ answer' = NoAnswer

\* Mutant of StreamURLTTL: the lifetime is taken as it is.
StreamURLTTLAsIs == IF config.ttl = None THEN DefaultTTL ELSE config.ttl

\* parseDurEnv and NewServer: unset, zero and negative mean the default.
StreamURLTTL ==
    IF config.ttl = None THEN DefaultTTL
    ELSE IF config.ttl <= 0 THEN DefaultTTL ELSE config.ttl

Tick ==
    /\ now < MaxTime
    /\ now' = now + 1
    /\ UNCHANGED <<config, starts, rows, objects, tokens, pending, urls>>
    /\ answer' = NoAnswer

\* Mutant of GenerateToken: the lifetime is added twice.
GenerateTokenTwice(user) ==
    [user |-> user, secret |-> config.secret, expires |-> now + TokenTTL + TokenTTL]

GenerateToken(user) == [user |-> user, secret |-> config.secret, expires |-> now + TokenTTL]

Login ==
    /\ config # None
    /\ Cardinality(tokens) < MaxLogins
    /\ \E user \in Users : tokens' = tokens \cup {GenerateToken(user)}
    /\ UNCHANGED <<now, config, starts, rows, objects, pending, urls>>
    /\ answer' = NoAnswer

\* Mutant of ArtworkKey: without the extension.
ArtworkKeyBare(t) == <<t, "audio">>

\* StorageKey + ArtworkExt
ArtworkKey(t) == <<t, "artwork">>

KeyOf(t, kind) == IF kind = "audio" THEN <<t, "audio">> ELSE ArtworkKey(t)

-----------------------------------------------------------------------------
\* Mutant of ParseToken: expiry is not looked at.
ParseTokenForever(token) ==
    IF token # None /\ token.secret = config.secret
    THEN token.user ELSE None

ParseToken(token) ==
    IF token # None /\ token.secret = config.secret /\ now < token.expires
    THEN token.user ELSE None

ObjectsOf(t, pictured) == {<<t, "audio">>} \cup IF pictured THEN {<<t, "artwork">>} ELSE {}

\* handleUpload: the objects first, then the row.
Upload ==
    /\ config # None
    /\ \E t \in Tracks, token \in tokens, pictured \in BOOLEAN :
           /\ rows[t] = None
           /\ ParseToken(token) # None
           /\ rows' = [rows EXCEPT ![t] = [user |-> ParseToken(token), artwork |-> pictured]]
           /\ objects' = [objects EXCEPT ![config.backend] = @ \cup ObjectsOf(t, pictured)]
    /\ UNCHANGED <<now, config, starts, tokens, pending, urls>>
    /\ answer' = NoAnswer

\* The header goes before the query parameter.
TokenOf(header, query) == IF header = None THEN query ELSE header

\* withAuth: a token that is refused is answered 401 and goes no further.
WithAuth ==
    /\ config # None
    /\ \E header, query \in tokens \cup {None} :
           LET token == TokenOf(header, query)
               user == IF token = None THEN None ELSE ParseToken(token)
           IN  IF user = None
               THEN answer' = Answered(401, None) /\ UNCHANGED pending
               ELSE /\ pending = {}
                    /\ \E t \in Tracks, kind \in Kinds :
                           pending' = {[user |-> user, track |-> t, kind |-> kind,
                                        authorized |-> now]}
                    /\ answer' = NoAnswer
    /\ UNCHANGED <<now, config, starts, rows, objects, tokens, urls>>

\* GetTrack is scoped to the user.
GetTrack(t, user) == {row \in {rows[t]} \ {None} : row.user = user}

\* The answer to one that gets bytes, with what it was for.
Served(r, issued, key, type) ==
    [status |-> 200, user |-> r.user, track |-> r.track, kind |-> r.kind,
     authorized |-> r.authorized, issued |-> issued, key |-> key, type |-> type,
     fault |-> None]

\* Answers handleStream and handleArtwork give before there is an object: there
\* is no such row, or no artwork.
Refuses(r) == \A row \in GetTrack(r.track, r.user) : r.kind = "artwork" /\ ~row.artwork

\* Any error of GetTrack is answered like a row that is not there.
Refuse(r) ==
    /\ \/ Refuses(r) /\ answer' = Answered(404, None)
       \/ answer' = Answered(404, "database")
    /\ UNCHANGED urls

\* serveObject gets an error that does not say that the object is missing.
StoreFails(r) == answer' = Answered(500, "store") /\ UNCHANGED urls

\* The signature pins the type, which comes from the row, not from the object.
Signed(r) ==
    [of |-> r, issued |-> now, backend |-> config.backend,
     key |-> KeyOf(r.track, r.kind), type |-> r.kind, expires |-> now + StreamURLTTL]

Presign(r) ==
    /\ ~Refuses(r) /\ config.backend \in Presigners
    /\ \/ StoreFails(r)
       \/ /\ StreamURLTTL \in 1 .. MaxPresign
          /\ Cardinality(urls) < MaxUrls
          /\ urls' = urls \cup {Signed(r)}
          /\ answer' = Answered(302, None)
       \/ /\ StreamURLTTL \notin 1 .. MaxPresign
          /\ answer' = Answered(500, None)
          /\ UNCHANGED urls

\* Storage.Open, then http.ServeContent
Open(r) ==
    /\ ~Refuses(r) /\ config.backend \notin Presigners
    /\ \/ StoreFails(r)
       \/ LET key == KeyOf(r.track, r.kind)
          IN  /\ answer' = IF key \in objects[config.backend]
                           THEN Served(r, now, key, r.kind)
                           ELSE Answered(404, None)
              /\ UNCHANGED urls

Handle ==
    /\ \E r \in pending : Refuse(r) \/ Presign(r) \/ Open(r)
    /\ pending' = {}
    /\ UNCHANGED <<now, config, starts, rows, objects, tokens>>

\* A player follows a redirect, at once or when it seeks much later: the object
\* store looks at the signature and the time, and at nothing else.
Follow ==
    /\ \E url \in urls :
           answer' = IF now >= url.expires THEN Answered(403, None)
                     ELSE IF url.key \notin objects[url.backend]
                     THEN Answered(404, None)
                     ELSE Served(url.of, url.issued, url.key, url.type)
    /\ UNCHANGED <<now, config, starts, rows, objects, tokens, pending, urls>>

Next ==
    \/ Start \/ Stop \/ Tick \/ Login \/ Upload
    \/ WithAuth \/ Handle \/ Follow

Spec == Init /\ [][Next]_vars

-----------------------------------------------------------------------------
\* Requests that have passed withAuth.
Requests == [user : Users, track : Tracks, kind : Kinds, authorized : 0 .. now]

\* What a player can be answered.
Answers ==
    [status : {0, 200, 302, 401, 403, 404, 500}, user : Users \cup {None},
     track : Tracks \cup {None}, kind : Kinds \cup {None}, authorized : Nat, issued : Nat,
     key : (Tracks \X Kinds) \cup {None}, type : Kinds \cup {None},
     fault : {None, "database", "store"}]

\* Tokens and signed URLs are good for no longer than their lifetimes.
TypeOK ==
    /\ now \in 0 .. MaxTime /\ starts \in 0 .. MaxStarts
    /\ config \in Configs \cup {None}
    /\ rows \in [Tracks -> [user : Users, artwork : BOOLEAN] \cup {None}]
    /\ objects \in [{"fs", "r2", "neon"} -> SUBSET (Tracks \X Kinds)]
    /\ tokens \subseteq [user : Users, secret : {c.secret : c \in Configs},
                         expires : 0 .. now + TokenTTL]
    /\ pending \subseteq Requests
    /\ Cardinality(pending) <= 1
    /\ urls \subseteq [of : Requests, issued : 0 .. now, backend : Presigners,
                       key : Tracks \X Kinds, type : Kinds, expires : 0 .. now + MaxPresign]
    /\ answer \in Answers

Delivered == answer.status = 200

\* Whatever bytes a player gets, by whichever way and however late, are those of
\* the track and kind it asked for, with the type of that kind, and the track is
\* that of the user whose token asked.
DeliversWhatWasAsked ==
    Delivered => /\ answer.key = <<answer.track, answer.kind>>
                 /\ answer.type = answer.kind
                 /\ rows[answer.track].user = answer.user

\* Nobody gets anything else, and nothing leaves its range.
DeliveryConsistent == TypeOK /\ DeliversWhatWasAsked

\* Some token of the user was in force at that time.
InForce(user, time) ==
    \E token \in tokens :
        token.user = user /\ time \in token.expires - TokenTTL .. token.expires - 1

Lifetime(c) == IF c.ttl = None \/ c.ttl <= 0 THEN DefaultTTL ELSE c.ttl

\* "a leaked stream URL is usable by anyone until it expires (bounded ...)"
\* (DECISIONS.md:173): a request that delivers bytes passed withAuth with a token
\* that was then in force, and a signed URL is of no use once the lifetime of
\* some configuration has gone by since it was handed out, even if the server,
\* its secret or its backend has changed since.
AccessEnds ==
    [][answer' # answer /\ answer'.status = 200 =>
           /\ InForce(answer'.user, answer'.authorized)
           /\ \/ answer'.issued = now
              \/ \E c \in Configs : now < answer'.issued + Lifetime(c)]_vars

\* The row and the object a request is for, in the backend of the running server.
Available(r) ==
    /\ rows[r.track] # None /\ rows[r.track].user = r.user
    /\ <<r.track, r.kind>> \in objects[config.backend]

AnsweredRightly(r) ==
    \/ answer'.status \in {200, 302} /\ answer'.fault = None
    \/ answer'.status = 404 /\ answer'.fault = "database"
    \/ answer'.status = 500 /\ answer'.fault = "store"
    \/ answer'.status = 404 /\ answer'.fault = None /\ ~Available(r)
    \/ answer'.status = 500 /\ answer'.fault = None /\ Lifetime(config) > MaxPresign

\* A request that is turned away is so for a reason: a call of the handler failed,
\* or, without failure, there is no such row or object (404), or the lifetime is
\* more than the object store signs (500).  So a user's stored track is served
\* under every other lifetime the server may have been given, also one that is
\* unset, zero or negative.
ServesWhatIsStored ==
    [][pending # {} /\ pending' = {} /\ config' # None =>
           \A r \in pending : AnsweredRightly(r)]_vars

\* The inductive invariant of the three: what a request or a signed URL was made
\* of still holds, however much later it is used.
Owns(user, t) == rows[t] # None /\ rows[t].user = user

UrlInv(url) ==
    /\ url.key = <<url.of.track, url.of.kind>> /\ url.type = url.of.kind
    /\ Owns(url.of.user, url.of.track)
    /\ InForce(url.of.user, url.of.authorized)
    /\ \E c \in Configs : url.expires = url.issued + Lifetime(c)

StreamingInv ==
    /\ \A r, s \in pending : r = s
    /\ \A r \in pending : InForce(r.user, r.authorized)
    /\ \A url \in urls : UrlInv(url)
    \* Artwork is stored only for rows that say so.
    /\ \A b \in DOMAIN objects, t \in Tracks :
        <<t, "artwork">> \in objects[b] => rows[t] # None /\ rows[t].artwork
    /\ pending # {} => config # None
    /\ DeliversWhatWasAsked
=============================================================================
