------------------------- MODULE Streaming_proofs -------------------------
(***************************************************************************)
(* Proofs about Streaming, for any users, tracks and environments of the   *)
(* server, and any lifetimes of tokens and signed URLs.                    *)
(***************************************************************************)
EXTENDS Streaming, FiniteSetTheorems, TLAPS

LEMMA LifetimesTyped ==
    /\ TokenTTL \in Nat \ {0} /\ DefaultTTL \in Nat \ {0} /\ MaxPresign \in Nat \ {0}
    /\ DefaultTTL <= MaxPresign
    /\ MaxTime \in Nat /\ MaxLogins \in Nat /\ MaxStarts \in Nat /\ MaxUrls \in Nat
BY LifetimeAssumption, BoundsAssumption

LEMMA InitInv == Init => TypeOK /\ StreamingInv
<1> SUFFICES ASSUME Init PROVE TypeOK /\ StreamingInv
  OBVIOUS
<1> USE LifetimesTyped DEF Init
<1>1. NoAnswer \in Answers
  BY DEF NoAnswer, Answered, Answers
<1>2. Cardinality(pending) <= 1
  BY FS_EmptySet
<1>3. /\ now \in 0 .. MaxTime /\ starts \in 0 .. MaxStarts
      /\ rows \in [Tracks -> [user : Users, artwork : BOOLEAN] \cup {None}]
      /\ objects \in [{"fs", "r2", "neon"} -> SUBSET (Tracks \X Kinds)]
  OBVIOUS
<1>4. TypeOK
  BY <1>1, <1>2, <1>3 DEF TypeOK
<1>5. StreamingInv
  BY DEF StreamingInv, DeliversWhatWasAsked, Delivered, NoAnswer, Answered
<1> QED
  BY <1>4, <1>5

-----------------------------------------------------------------------------
(* Requests                                                                 *)

LEMMA RequestTyped ==
    ASSUME NEW r, r \in Requests, now \in Nat
    PROVE  /\ r.user \in Users /\ r.track \in Tracks /\ r.kind \in Kinds
           /\ r.authorized \in Nat
           /\ <<r.track, r.kind>> \in Tracks \X Kinds
           /\ KeyOf(r.track, r.kind) = <<r.track, r.kind>>
<1>1. /\ r.user \in Users /\ r.track \in Tracks /\ r.kind \in Kinds
      /\ r.authorized \in 0 .. now
  BY DEF Requests
<1>2. KeyOf(r.track, r.kind) = <<r.track, r.kind>>
  BY <1>1 DEF KeyOf, ArtworkKey, Kinds
<1> QED
  BY <1>1, <1>2

\* A request that is not refused is for a track of its user.
LEMMA Granted ==
    ASSUME TypeOK, NEW r \in pending, ~Refuses(r)
    PROVE  Owns(r.user, r.track)
<1>1. PICK row \in GetTrack(r.track, r.user) : TRUE
  BY Zenon DEF Refuses
<1>2. row = rows[r.track] /\ row # None /\ row.user = r.user
  BY DEF GetTrack
<1> QED
  BY <1>2 DEF Owns

LEMMA AnsweredTyped ==
    ASSUME NEW status \in {302, 401, 403, 404, 500}, NEW fault \in {None, "database", "store"}
    PROVE  /\ Answered(status, fault) \in Answers
           /\ Answered(status, fault).status = status
           /\ Answered(status, fault).fault = fault
BY DEF Answered, Answers

LEMMA ServedTyped ==
    ASSUME NEW r, r \in Requests, now \in Nat, NEW issued \in Nat,
           NEW key \in Tracks \X Kinds, NEW type \in Kinds
    PROVE  Served(r, issued, key, type) \in Answers
<1>1. /\ r.user \in Users \cup {None} /\ r.track \in Tracks \cup {None}
      /\ r.kind \in Kinds \cup {None} /\ r.authorized \in Nat
  BY DEF Requests
<1>2. /\ 200 \in {0, 200, 302, 401, 403, 404, 500}
      /\ key \in (Tracks \X Kinds) \cup {None} /\ type \in Kinds \cup {None}
  OBVIOUS
<1> QED
  BY <1>1, <1>2 DEF Served, Answers

LEMMA RunningTyped ==
    ASSUME TypeOK, config # None
    PROVE  /\ config \in Configs
           /\ config.backend \in {"fs", "r2", "neon"}
           /\ config.ttl \in Int \cup {None}
BY ConfigsAssumption DEF TypeOK

\* The answer to a request: nothing, or the bytes it asked for.
LEMMA OpenAnswers ==
    ASSUME TypeOK, NEW r \in pending, Open(r)
    PROVE  /\ answer' \in Answers
           /\ \/ answer' = Served(r, now, <<r.track, r.kind>>, r.kind)
              \/ /\ <<r.track, r.kind>> \notin objects[config.backend]
                 /\ answer' = Answered(404, None)
              \/ answer' = Answered(500, "store")
<1>1. r \in Requests /\ now \in Nat
  BY LifetimesTyped DEF TypeOK
<1> QED
  BY <1>1, RequestTyped, AnsweredTyped, ServedTyped DEF Open, StoreFails

\* A signed URL says whose request it was made of, and for how long it is good.
LEMMA PresignAnswers ==
    ASSUME TypeOK, StreamingInv, NEW r \in pending, Presign(r)
    PROVE  /\ answer' \in Answers /\ answer'.status \in {302, 500}
           /\ answer'.status = 500 =>
                answer'.fault = "store" \/ StreamURLTTL \notin 1 .. MaxPresign
           /\ answer'.status = 302 => answer'.fault = None
           /\ answer'.fault \in {None, "store"}
           /\ \A url \in urls' \ urls :
                /\ url \in [of : Requests, issued : 0 .. now, backend : Presigners,
                            key : Tracks \X Kinds, type : Kinds,
                            expires : 0 .. now + MaxPresign]
                /\ UrlInv(url)
<1>1. r \in Requests /\ now \in Nat /\ now \in 0 .. now
  BY LifetimesTyped DEF TypeOK
<1>2. CASE StoreFails(r)
  BY <1>2, AnsweredTyped DEF StoreFails
<1>3. CASE StreamURLTTL \notin 1 .. MaxPresign /\ ~StoreFails(r)
  BY <1>3, AnsweredTyped DEF Presign
<1>4. CASE StreamURLTTL \in 1 .. MaxPresign /\ ~StoreFails(r)
  <2>1. answer' = Answered(302, None) /\ urls' = urls \cup {Signed(r)}
    BY <1>4 DEF Presign
  <2>2. config \in Configs /\ StreamURLTTL = Lifetime(config)
    BY RunningTyped DEF StreamURLTTL, Lifetime, StreamingInv
  <2>3. now + StreamURLTTL \in 0 .. now + MaxPresign
    BY <1>1, <1>4, LifetimesTyped
  <2>4. Signed(r) \in [of : Requests, issued : 0 .. now, backend : Presigners,
                       key : Tracks \X Kinds, type : Kinds, expires : 0 .. now + MaxPresign]
    BY <1>1, <2>3, RequestTyped DEF Presign, Signed
  <2>5. /\ Signed(r).of = r /\ Signed(r).type = r.kind
        /\ Signed(r).key = <<r.track, r.kind>>
        /\ Signed(r).expires = Signed(r).issued + Lifetime(config)
    BY <1>1, <2>2, RequestTyped DEF Signed
  <2>6. Owns(r.user, r.track) /\ InForce(r.user, r.authorized)
    BY Granted DEF Presign, StreamingInv
  <2>7. UrlInv(Signed(r))
    BY <2>2, <2>5, <2>6 DEF UrlInv
  <2> QED
    BY <1>1, <2>1, <2>4, <2>7, AnsweredTyped
<1> QED
  BY <1>2, <1>3, <1>4

\* What becomes of a signed URL.
LEMMA FollowAnswers ==
    ASSUME TypeOK, StreamingInv, Follow
    PROVE  /\ answer' \in Answers
           /\ answer'.status = 200 => \E url \in urls :
                /\ answer' = Served(url.of, url.issued, url.key, url.type)
                /\ now < url.expires
<1>1. PICK url \in urls :
        answer' = IF now >= url.expires THEN Answered(403, None)
                  ELSE IF url.key \notin objects[url.backend]
                  THEN Answered(404, None)
                  ELSE Served(url.of, url.issued, url.key, url.type)
  BY DEF Follow
<1>2. /\ url.of \in Requests /\ url.key \in Tracks \X Kinds /\ url.type \in Kinds
      /\ url.issued \in Nat /\ url.expires \in Nat /\ now \in Nat
  BY LifetimesTyped DEF TypeOK
<1>3. answer' \in Answers
  BY <1>1, <1>2, AnsweredTyped, ServedTyped
<1>4. \A status \in {403, 404} : Answered(status, None).status = status
  BY AnsweredTyped
<1>5. ASSUME answer'.status = 200
      PROVE  answer' = Served(url.of, url.issued, url.key, url.type) /\ now < url.expires
  BY <1>1, <1>2, <1>4, <1>5
<1> QED
  BY <1>3, <1>5

\* What is added to the rows and the objects.
LEMMA Uploads ==
    ASSUME Upload
    PROVE  \E t \in Tracks, token \in tokens, pictured \in BOOLEAN :
               /\ rows[t] = None
               /\ ParseToken(token) # None
               /\ rows' = [rows EXCEPT ![t] = [user |-> ParseToken(token), artwork |-> pictured]]
               /\ objects' = [objects EXCEPT ![config.backend] = @ \cup ObjectsOf(t, pictured)]
BY Zenon DEF Upload

-----------------------------------------------------------------------------
(* Types                                                                    *)

LEMMA NoAnswerTyped == NoAnswer \in Answers /\ NoAnswer.status = 0
BY DEF NoAnswer, Answered, Answers

LEMMA SameTime == ASSUME now' = now PROVE Requests' = Requests
BY DEF Requests

LEMMA NextTyped == ASSUME TypeOK, StreamingInv, [Next]_vars PROVE TypeOK'
<1> USE LifetimesTyped, NoAnswerTyped, SameTime
<1>1. CASE UNCHANGED vars
  BY <1>1 DEF vars, TypeOK
<1>2. CASE Start
  BY <1>2 DEF Start, TypeOK
<1>3. CASE Stop
  BY <1>3, FS_EmptySet DEF Stop, TypeOK
<1>4. CASE Tick
  <2>1. now \in Nat /\ now' = now + 1 /\ now' \in 0 .. MaxTime
    BY <1>4 DEF Tick, TypeOK
  <2>2. /\ tokens' \subseteq [user : Users, secret : {c.secret : c \in Configs},
                              expires : 0 .. now' + TokenTTL]
        /\ pending' \subseteq Requests' /\ Requests \subseteq Requests'
        /\ urls' \subseteq [of : Requests', issued : 0 .. now', backend : Presigners,
                            key : Tracks \X Kinds, type : Kinds,
                            expires : 0 .. now' + MaxPresign]
    <3>1. /\ 0 .. now + TokenTTL \subseteq 0 .. now' + TokenTTL
          /\ 0 .. now \subseteq 0 .. now'
          /\ 0 .. now + MaxPresign \subseteq 0 .. now' + MaxPresign
      BY <2>1
    <3> QED
      <4>1. Requests \subseteq Requests'
        BY <3>1 DEF Requests
      <4> QED
        BY <1>4, <3>1, <4>1 DEF Tick, TypeOK
  <2> QED
    BY <1>4, <2>1, <2>2 DEF Tick, TypeOK
<1>5. CASE Login
  <2>1. PICK user \in Users : tokens' = tokens \cup {GenerateToken(user)}
    BY <1>5 DEF Login
  <2>2. now + TokenTTL \in 0 .. now + TokenTTL
    BY DEF TypeOK
  <2>3. GenerateToken(user) \in [user : Users, secret : {c.secret : c \in Configs},
                                 expires : 0 .. now + TokenTTL]
    BY <1>5, <2>2, RunningTyped DEF Login, GenerateToken
  <2> QED
    BY <1>5, <2>1, <2>3 DEF Login, TypeOK
<1>6. CASE Upload
  <2>1. PICK t \in Tracks, token \in tokens, pictured \in BOOLEAN :
            /\ rows[t] = None
            /\ ParseToken(token) # None
            /\ rows' = [rows EXCEPT ![t] = [user |-> ParseToken(token), artwork |-> pictured]]
            /\ objects' = [objects EXCEPT ![config.backend] = @ \cup ObjectsOf(t, pictured)]
    BY <1>6, Uploads, Zenon
  <2>2. ParseToken(token) \in Users
    BY <2>1 DEF ParseToken, TypeOK
  <2>3. rows' \in [Tracks -> [user : Users, artwork : BOOLEAN] \cup {None}]
    BY <2>1, <2>2 DEF TypeOK
  <2>4. objects' \in [{"fs", "r2", "neon"} -> SUBSET (Tracks \X Kinds)]
    <3>1. ObjectsOf(t, pictured) \subseteq Tracks \X Kinds
      <4>1. {<<t, "audio">>} \subseteq Tracks \X Kinds /\ {<<t, "artwork">>} \subseteq Tracks \X Kinds
        BY DEF Kinds
      <4>2. CASE pictured
        BY <4>1, <4>2, Zenon DEF ObjectsOf
      <4>3. CASE ~pictured
        BY <4>1, <4>3, Zenon DEF ObjectsOf
      <4> QED
        BY <4>2, <4>3
    <3>2. \A b \in {"fs", "r2", "neon"} : objects'[b] \subseteq Tracks \X Kinds
      BY <2>1, <3>1 DEF TypeOK
    <3>3. objects' = [b \in {"fs", "r2", "neon"} |-> objects'[b]]
      BY <2>1 DEF TypeOK
    <3> QED
      BY <3>2, <3>3
  <2> QED
    BY <1>6, <2>3, <2>4 DEF Upload, TypeOK
<1>7. CASE WithAuth
  <2>1. CASE UNCHANGED pending /\ answer' = Answered(401, None)
    BY <1>7, <2>1, AnsweredTyped DEF WithAuth, TypeOK
  <2>2. ASSUME NEW user \in Users, NEW t \in Tracks, NEW kind \in Kinds,
               pending' = {[user |-> user, track |-> t, kind |-> kind, authorized |-> now]},
               answer' = NoAnswer
        PROVE  TypeOK'
    <3>1. Cardinality(pending') = 1
      BY <2>2, FS_Singleton, Zenon
    <3>2. now \in 0 .. now
      BY DEF TypeOK
    <3>3. pending' \subseteq Requests
      BY <2>2, <3>2 DEF Requests
    <3> QED
      BY <1>7, <2>2, <3>1, <3>3 DEF WithAuth, TypeOK
  <2>3. \A token \in tokens : ParseToken(token) \in Users \cup {None}
    BY DEF ParseToken, TypeOK
  <2> QED
    BY <1>7, <2>1, <2>2, <2>3 DEF WithAuth, TokenOf
<1>8. CASE Handle
  <2>1. PICK r \in pending : Refuse(r) \/ Presign(r) \/ Open(r)
    BY <1>8 DEF Handle
  <2>2. answer' \in Answers
    <3>1. Refuse(r) => answer' \in Answers
      BY LifetimesTyped, AnsweredTyped DEF Refuse, TypeOK
    <3>2. Presign(r) => answer' \in Answers
      BY PresignAnswers
    <3>3. Open(r) => answer' \in Answers
      BY OpenAnswers
    <3> QED
      BY <2>1, <3>1, <3>2, <3>3
  <2>3. urls' \subseteq [of : Requests, issued : 0 .. now, backend : Presigners,
                        key : Tracks \X Kinds, type : Kinds, expires : 0 .. now + MaxPresign]
    BY <2>1, PresignAnswers DEF Refuse, Open, StoreFails, TypeOK
  <2> QED
    BY <1>8, <2>2, <2>3, FS_EmptySet DEF Handle, TypeOK
<1>9. CASE Follow
  BY <1>9, FollowAnswers DEF Follow, TypeOK
<1> QED
  BY <1>1, <1>2, <1>3, <1>4, <1>5, <1>6, <1>7, <1>8, <1>9 DEF Next

-----------------------------------------------------------------------------
(* What was so when a request was admitted or a URL signed stays so.        *)

LEMMA RowsStay ==
    ASSUME TypeOK, [Next]_vars, NEW t \in Tracks, rows[t] # None
    PROVE  rows'[t] = rows[t]
<1>1. CASE Upload
  <2>1. PICK u \in Tracks, token \in tokens, pictured \in BOOLEAN :
            /\ rows[u] = None
            /\ ParseToken(token) # None
            /\ rows' = [rows EXCEPT ![u] = [user |-> ParseToken(token), artwork |-> pictured]]
            /\ objects' = [objects EXCEPT ![config.backend] = @ \cup ObjectsOf(u, pictured)]
    BY <1>1, Uploads, Zenon
  <2>2. u # t
    BY <2>1
  <2> QED
    BY <2>1, <2>2 DEF TypeOK
<1>2. CASE ~Upload
  BY <1>2 DEF Next, vars, Start, Stop, Tick, Login, WithAuth, Handle, Follow
<1> QED
  BY <1>1, <1>2

LEMMA StillOwns ==
    ASSUME TypeOK, [Next]_vars, NEW user, NEW t \in Tracks, Owns(user, t)
    PROVE  Owns(user, t)'
BY RowsStay DEF Owns

LEMMA TokensStay == ASSUME [Next]_vars PROVE tokens \subseteq tokens'
BY DEF Next, vars, Start, Stop, Tick, Login, Upload, WithAuth, Handle, Follow

LEMMA StillInForce ==
    ASSUME [Next]_vars, NEW user, NEW time, InForce(user, time)
    PROVE  InForce(user, time)'
BY TokensStay DEF InForce

LEMMA UrlsStay ==
    ASSUME TypeOK, StreamingInv, [Next]_vars, NEW url \in urls
    PROVE  UrlInv(url)'
<1>1. url.of \in Requests /\ UrlInv(url)
  BY DEF TypeOK, StreamingInv
<1>2. url.of.user \in Users /\ url.of.track \in Tracks
  BY <1>1 DEF Requests
<1>3. Owns(url.of.user, url.of.track)'
  BY <1>1, <1>2, StillOwns DEF UrlInv
<1>4. InForce(url.of.user, url.of.authorized)'
  BY <1>1, StillInForce DEF UrlInv
<1> QED
  BY <1>1, <1>3, <1>4 DEF UrlInv

\* Bytes served are those the request asked for, of a track of its user.
LEMMA ServedAsAsked ==
    ASSUME TypeOK, [Next]_vars, NEW r \in Requests, Owns(r.user, r.track),
           NEW issued, answer' = Served(r, issued, <<r.track, r.kind>>, r.kind)
    PROVE  DeliversWhatWasAsked'
<1>1. r.track \in Tracks
  BY DEF Requests
<1>2. Owns(r.user, r.track)'
  BY <1>1, StillOwns
<1> QED
  BY <1>2 DEF DeliversWhatWasAsked, Served, Owns

\* A token that is accepted is in force.
LEMMA Accepted ==
    ASSUME TypeOK, NEW token \in tokens, ParseToken(token) # None
    PROVE  ParseToken(token) \in Users /\ InForce(ParseToken(token), now)
<1>1. ParseToken(token) = token.user /\ now < token.expires
  BY DEF ParseToken
<1>2. token.user \in Users /\ token.expires \in 0 .. now + TokenTTL /\ now \in Nat
  BY LifetimesTyped DEF TypeOK
<1>3. now \in token.expires - TokenTTL .. token.expires - 1
  BY <1>1, <1>2, LifetimesTyped
<1> QED
  BY <1>1, <1>2, <1>3 DEF InForce

LEMMA NextInv == ASSUME TypeOK, StreamingInv, [Next]_vars PROVE StreamingInv'
<1> USE UrlsStay, StillInForce
<1>1. ASSUME UNCHANGED <<objects, rows>>
      PROVE  \A b \in DOMAIN objects', t \in Tracks :
                 <<t, "artwork">> \in objects'[b] => rows'[t] # None /\ rows'[t].artwork
  BY <1>1 DEF StreamingInv
<1>2. NoAnswer.status # 200 /\ Answered(401, None).status # 200
  BY NoAnswerTyped, AnsweredTyped
<1>3. ASSUME answer'.status # 200 PROVE DeliversWhatWasAsked'
  BY <1>3 DEF DeliversWhatWasAsked, Delivered
<1>4. CASE UNCHANGED vars
  BY <1>4 DEF vars, StreamingInv, DeliversWhatWasAsked, Delivered, UrlInv, Owns, InForce
<1>5. CASE Start \/ Stop \/ Tick \/ Login
  <2>1. DeliversWhatWasAsked'
    BY <1>2, <1>3, <1>5 DEF Start, Stop, Tick, Login
  <2>2. UNCHANGED <<objects, rows, urls>> /\ pending' \subseteq pending
    BY <1>5 DEF Start, Stop, Tick, Login
  <2>3. pending' # {} => config' # None
    BY <1>5 DEF Start, Stop, Tick, Login, StreamingInv
  <2> QED
    BY <1>1, <2>1, <2>2, <2>3 DEF StreamingInv
<1>6. CASE Upload
  <2>1. DeliversWhatWasAsked'
    BY <1>2, <1>3, <1>6 DEF Upload
  <2>2. PICK u \in Tracks, token \in tokens, pictured \in BOOLEAN :
            /\ rows[u] = None
            /\ ParseToken(token) # None
            /\ rows' = [rows EXCEPT ![u] = [user |-> ParseToken(token), artwork |-> pictured]]
            /\ objects' = [objects EXCEPT ![config.backend] = @ \cup ObjectsOf(u, pictured)]
    BY <1>6, Uploads, Zenon
  <2>3. ASSUME NEW b \in DOMAIN objects', NEW t \in Tracks, <<t, "artwork">> \in objects'[b]
        PROVE  rows'[t] # None /\ rows'[t].artwork
    <3>1. CASE <<t, "artwork">> \in objects[b]
      <4>1. rows[t] # None /\ rows[t].artwork
        BY <2>2, <2>3, <3>1 DEF StreamingInv
      <4> QED
        BY <4>1, RowsStay
    <3>2. CASE <<t, "artwork">> \notin objects[b]
      <4>1. <<t, "artwork">> \in ObjectsOf(u, pictured)
        BY <2>2, <2>3, <3>2 DEF TypeOK
      <4>2. t = u /\ pictured
        BY <4>1 DEF ObjectsOf
      <4>3. rows'[t] = [user |-> ParseToken(token), artwork |-> pictured]
        BY <2>2, <4>2 DEF TypeOK
      <4>4. rows'[t] # None
        BY <2>2, <4>3, Accepted, TracksAssumption
      <4> QED
        BY <4>2, <4>3, <4>4
    <3> QED
      BY <3>1, <3>2
  <2>4. UNCHANGED <<config, pending, urls>>
    BY <1>6 DEF Upload
  <2> QED
    BY <2>1, <2>3, <2>4 DEF StreamingInv
<1>7. CASE WithAuth
  <2>1. CASE UNCHANGED pending
    BY <1>1, <1>2, <1>3, <1>7, <2>1 DEF WithAuth, StreamingInv
  <2>2. ASSUME NEW user, NEW time, InForce(user, time), NEW t \in Tracks, NEW kind \in Kinds,
               pending' = {[user |-> user, track |-> t, kind |-> kind, authorized |-> time]},
               answer' = NoAnswer
        PROVE  StreamingInv'
    <3>1. InForce(user, time)'
      BY <2>2, StillInForce
    <3>2. /\ \A r, s \in pending' : r = s
          /\ \A r \in pending' : InForce(r.user, r.authorized)'
      BY <2>2, <3>1
    <3>3. UNCHANGED <<config, objects, rows, urls>> /\ config # None
      BY <1>7 DEF WithAuth
    <3>4. DeliversWhatWasAsked'
      BY <1>2, <1>3, <2>2
    <3> QED
      BY <1>1, <3>2, <3>3, <3>4 DEF StreamingInv
  <2>3. \A token \in tokens : ParseToken(token) # None => InForce(ParseToken(token), now)
    BY Accepted
  <2> QED
    BY <1>7, <2>1, <2>2, <2>3 DEF WithAuth, TokenOf
<1>8. CASE Handle
  <2>1. PICK r \in pending : Refuse(r) \/ Presign(r) \/ Open(r)
    BY <1>8 DEF Handle
  <2>2. now \in Nat /\ r \in Requests
    BY DEF TypeOK
  <2>3. /\ Answered(404, None).status # 200 /\ Answered(404, "database").status # 200
        /\ Answered(500, "store").status # 200
    BY AnsweredTyped
  <2>4. DeliversWhatWasAsked'
    <3>1. CASE Refuse(r)
      BY <1>3, <2>3, <3>1 DEF Refuse
    <3>2. CASE Presign(r)
      BY <1>3, <3>2, PresignAnswers
    <3>3. CASE Open(r)
      <4>1. Owns(r.user, r.track)
        BY <3>3, Granted DEF Open
      <4>2. CASE answer' = Served(r, now, <<r.track, r.kind>>, r.kind)
        BY <2>2, <4>1, <4>2, ServedAsAsked
      <4>3. CASE answer' \in {Answered(404, None), Answered(500, "store")}
        BY <1>3, <2>3, <4>3
      <4> QED
        BY <3>3, <4>2, <4>3, OpenAnswers
    <3> QED
      BY <2>1, <3>1, <3>2, <3>3
  <2>5. \A url \in urls' : UrlInv(url)'
    <3>1. ASSUME NEW url \in urls' \ urls PROVE UrlInv(url)'
      <4>1. /\ UrlInv(url) /\ url.of \in Requests
        BY <2>1, <3>1, PresignAnswers DEF Refuse, Open, StoreFails
      <4>2. Owns(url.of.user, url.of.track)'
        BY <4>1, StillOwns DEF UrlInv, Requests
      <4> QED
        BY <4>1, <4>2 DEF UrlInv
    <3> QED
      BY <3>1
  <2> QED
    BY <1>1, <1>8, <2>4, <2>5 DEF Handle, StreamingInv
<1>9. CASE Follow
  <2>1. DeliversWhatWasAsked'
    <3>1. CASE answer'.status # 200
      BY <1>3, <3>1
    <3>2. CASE answer'.status = 200
      <4>1. PICK url \in urls : answer' = Served(url.of, url.issued, url.key, url.type)
        BY <1>9, <3>2, FollowAnswers
      <4>2. url.of \in Requests /\ UrlInv(url)
        BY DEF TypeOK, StreamingInv
      <4> QED
        BY <4>1, <4>2, ServedAsAsked DEF UrlInv
    <3> QED
      BY <3>1, <3>2
  <2> QED
    BY <1>1, <1>9, <2>1 DEF Follow, StreamingInv
<1> QED
  BY <1>4, <1>5, <1>6, <1>7, <1>8, <1>9 DEF Next

-----------------------------------------------------------------------------
(* Theorems                                                                 *)

\* Requests and signed URLs keep what they were made of: the user's row, and a
\* token that was in force when the request was admitted.
THEOREM StreamingInvariant == Spec => [](TypeOK /\ StreamingInv)
<1>1. TypeOK /\ StreamingInv /\ [Next]_vars => TypeOK' /\ StreamingInv'
  BY NextTyped, NextInv
<1> QED
  BY <1>1, InitInv, PTL DEF Spec

\* Bytes that reach a player, from the server or by a redirect however late it
\* is followed, are those of the track and kind it asked for, and the track is
\* that of the user whose token asked.
THEOREM DeliversInOrder == Spec => []DeliveryConsistent
<1>1. TypeOK /\ StreamingInv => DeliveryConsistent
  BY DEF StreamingInv, DeliveryConsistent
<1> QED
  BY <1>1, StreamingInvariant, PTL

\* Bytes come out of two steps only.
LEMMA BytesFrom ==
    ASSUME TypeOK, StreamingInv, [Next]_vars, answer' # answer, answer'.status = 200
    PROVE  \/ \E r \in pending :
                 answer' = Served(r, now, <<r.track, r.kind>>, r.kind)
           \/ \E url \in urls :
                 /\ answer' = Served(url.of, url.issued, url.key, url.type)
                 /\ now < url.expires
<1>1. NoAnswer.status # 200 /\ Answered(401, None).status # 200
  BY NoAnswerTyped, AnsweredTyped
<1>2. Handle \/ Follow
  BY <1>1 DEF Next, vars, Start, Stop, Tick, Login, Upload, WithAuth
<1>3. CASE Follow
  BY <1>3, FollowAnswers
<1>4. CASE Handle
  <2>1. PICK r \in pending : Refuse(r) \/ Presign(r) \/ Open(r)
    BY <1>4 DEF Handle
  <2>2. /\ Answered(404, None).status # 200 /\ Answered(404, "database").status # 200
        /\ Answered(500, "store").status # 200
    BY AnsweredTyped
  <2>3. ~Refuse(r) /\ ~Presign(r)
    BY <2>2, PresignAnswers DEF Refuse
  <2> QED
    BY <2>1, <2>2, <2>3, OpenAnswers
<1> QED
  BY <1>2, <1>3, <1>4

\* Bytes go only to requests that were admitted with a token then in force, and
\* a signed URL yields none once its lifetime is over.
THEOREM AccessIsBounded == Spec => AccessEnds
<1> DEFINE Bounded ==
              answer' # answer /\ answer'.status = 200 =>
                /\ InForce(answer'.user, answer'.authorized)
                /\ \/ answer'.issued = now
                   \/ \E c \in Configs : now < answer'.issued + Lifetime(c)
<1>1. ASSUME TypeOK, StreamingInv, [Next]_vars, answer' # answer, answer'.status = 200
      PROVE  /\ InForce(answer'.user, answer'.authorized)
             /\ \/ answer'.issued = now
                \/ \E c \in Configs : now < answer'.issued + Lifetime(c)
  <2>1. ASSUME NEW r \in pending, answer' = Served(r, now, <<r.track, r.kind>>, r.kind)
        PROVE  InForce(answer'.user, answer'.authorized) /\ answer'.issued = now
    BY <1>1, <2>1 DEF Served, StreamingInv
  <2>2. ASSUME NEW url \in urls, now < url.expires,
               answer' = Served(url.of, url.issued, url.key, url.type)
        PROVE  /\ InForce(answer'.user, answer'.authorized)
               /\ \E c \in Configs : now < answer'.issued + Lifetime(c)
    <3>1. UrlInv(url)
      BY <1>1 DEF StreamingInv
    <3>2. /\ answer'.user = url.of.user /\ answer'.authorized = url.of.authorized
          /\ answer'.issued = url.issued
      BY <2>2 DEF Served
    <3> QED
      BY <2>2, <3>1, <3>2 DEF UrlInv
  <2>3. \/ \E r \in pending : answer' = Served(r, now, <<r.track, r.kind>>, r.kind)
        \/ \E url \in urls : /\ answer' = Served(url.of, url.issued, url.key, url.type)
                              /\ now < url.expires
    BY <1>1, BytesFrom
  <2> QED
    BY <2>1, <2>2, <2>3
<1>2. TypeOK /\ StreamingInv /\ [Next]_vars => [Bounded]_vars
  BY <1>1
<1> QED
  BY <1>2, StreamingInvariant, PTL DEF Spec, AccessEnds

\* A request is turned away because a call of the handler failed, because the row
\* or the object is not there, or because the configured lifetime is longer than
\* the object store signs, and is told so by its status; whatever else the server
\* was configured with, a user's stored track is served.
THEOREM StoredIsServed == Spec => ServesWhatIsStored
<1> DEFINE Serves ==
              pending # {} /\ pending' = {} /\ config' # None =>
                \A r \in pending : AnsweredRightly(r)
<1>1. ASSUME TypeOK, StreamingInv, [Next]_vars,
             pending # {}, pending' = {}, config' # None, NEW r \in pending
      PROVE  AnsweredRightly(r)
  <2>1. Handle
    BY <1>1 DEF Next, vars, Start, Stop, Tick, Login, Upload, WithAuth, Follow
  <2>2. Refuse(r) \/ Presign(r) \/ Open(r)
    BY <1>1, <2>1 DEF Handle, StreamingInv
  <2>3. r \in Requests /\ config \in Configs /\ config.backend \in DOMAIN objects
    BY <1>1, RunningTyped DEF StreamingInv, TypeOK
  \* Artwork is stored only for rows that say so.
  <2>4. Refuses(r) => ~Available(r)
    <3>1. ASSUME Available(r) PROVE ~Refuses(r)
      <4>1. rows[r.track] \in GetTrack(r.track, r.user)
        BY <3>1 DEF GetTrack, Available
      <4>2. r.track \in Tracks /\ (r.kind = "artwork" => rows[r.track].artwork)
        BY <1>1, <2>3, <3>1 DEF StreamingInv, Requests, Available
      <4> QED
        BY <4>1, <4>2, Zenon DEF Refuses
    <3> QED
      BY <3>1
  <2>5. StreamURLTTL \notin 1 .. MaxPresign => Lifetime(config) > MaxPresign
    BY <2>3, LifetimesTyped, ConfigsAssumption DEF StreamURLTTL, Lifetime
  <2>6. CASE Refuse(r)
    BY <2>4, <2>6, AnsweredTyped DEF Refuse, AnsweredRightly
  <2>7. CASE Presign(r)
    BY <1>1, <2>5, <2>7, PresignAnswers DEF AnsweredRightly
  <2>8. CASE Open(r)
    <3>1. /\ Served(r, now, <<r.track, r.kind>>, r.kind).status = 200
          /\ Served(r, now, <<r.track, r.kind>>, r.kind).fault = None
      BY DEF Served
    <3> QED
      BY <1>1, <2>8, <3>1, OpenAnswers, AnsweredTyped DEF AnsweredRightly, Available
  <2> QED
    BY <2>2, <2>6, <2>7, <2>8
<1>2. TypeOK /\ StreamingInv /\ [Next]_vars => [Serves]_vars
  BY <1>1
<1> QED
  BY <1>2, StreamingInvariant, PTL DEF Spec, ServesWhatIsStored
=============================================================================
