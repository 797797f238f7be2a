--------------------------- MODULE Accounts_proofs ---------------------------
(***************************************************************************)
(* Proofs about Accounts, for any number of emails, passwords and          *)
(* concurrent requests (finitely many of the last where they are counted). *)
(***************************************************************************)
EXTENDS Accounts, FiniteSetTheorems, TLAPS

-----------------------------------------------------------------------------
(* Types                                                                    *)

LEMMA InitTyped == Init => TypeOK
BY AccountsAssumption DEF Init, TypeOK, Labels, Replies

\* The two ways in which a step usually ends.
LEMMA StepTyped ==
    ASSUME TypeOK, NEW h \in Handlers, NEW from, NEW to \in Labels \ {"idle", "policy"},
           from \in Labels \ {"idle"}, Step(h, from, to),
           from # "policy" \/ req[h].form = "fine"
    PROVE  TypeOK'
BY DEF TypeOK, Step, Goto

LEMMA AnswerTyped ==
    ASSUME TypeOK, NEW h \in Handlers, NEW status \in Replies, Answer(h, status)
    PROVE  /\ pc' \in [Handlers -> Labels]
           /\ req' \in [Handlers -> Request \cup {NoRequest}]
           /\ \A g \in Handlers : pc'[g] = "idle" <=> req'[g] = NoRequest
           /\ \A g \in Handlers :
                pc'[g] \notin {"idle", "policy"} => req'[g].form = "fine"
           /\ reply' \in [Handlers -> Replies]
BY DEF TypeOK, Answer, Goto, Labels

LEMMA RefuseTyped ==
    ASSUME TypeOK, NEW h \in Handlers, NEW status \in Replies, Refuse(h, status)
    PROVE  TypeOK'
BY AnswerTyped DEF TypeOK, Refuse

LEMMA NextTyped == ASSUME TypeOK, [Next]_vars PROVE TypeOK'
<1>1. ASSUME UNCHANGED vars PROVE TypeOK'
  BY <1>1 DEF vars, TypeOK
<1>2. ASSUME Restart PROVE TypeOK'
  BY <1>2 DEF Restart, TypeOK
<1>3. ASSUME NEW h \in Handlers, Receive(h) PROVE TypeOK'
  <2>1. PICK q \in Received :
            /\ pc[h] = "idle"
            /\ Goto(h, IF q.op = "login" THEN "lookup" ELSE "policy")
            /\ q.op = "login" => q.form = "fine"
            /\ req' = [req EXCEPT ![h] = q]
            /\ reply' = [reply EXCEPT ![h] = "none"]
            /\ UNCHANGED <<mode, users, origin, tokens>>
    BY <1>3 DEF Receive, Received
  <2>2. q \in Request /\ q # NoRequest
    BY AccountsAssumption DEF Received
  <2> QED
    BY <2>1, <2>2 DEF TypeOK, Goto, Labels, Replies
<1>4. ASSUME NEW h \in Handlers, BadForm(h) PROVE TypeOK'
  BY <1>4, RefuseTyped DEF BadForm, Replies
<1>5. ASSUME NEW h \in Handlers, CheckPolicy(h) PROVE TypeOK'
  BY <1>5, RefuseTyped, StepTyped DEF CheckPolicy, Replies, Labels
<1>6. ASSUME NEW h \in Handlers, CreateFirstUser(h) PROVE TypeOK'
  BY <1>6, RefuseTyped, StepTyped DEF CreateFirstUser, Replies, Labels
<1>7. ASSUME NEW h \in Handlers, InsertUser(h) PROVE TypeOK'
  BY <1>7, RefuseTyped, StepTyped DEF InsertUser, Replies, Labels
<1>8. ASSUME NEW h \in Handlers, CommitUser(h) PROVE TypeOK'
  <2>1. req[h] \in Request /\ req[h].form = "fine"
    BY <1>8 DEF CommitUser, TypeOK
  <2>2. /\ users' \in [Emails -> Passwords \cup {NoAccount}]
        /\ origin' \in [Emails -> ModeNames \cup {NoAccount}]
    BY <1>8, <2>1, AccountsAssumption DEF CommitUser, TypeOK, Request
  <2>3. CASE Answer(h, "error")
    BY <1>8, <2>2, <2>3, AnswerTyped DEF CommitUser, TypeOK, Replies
  <2>4. CASE Goto(h, "token") /\ UNCHANGED <<req, reply>>
    BY <1>8, <2>1, <2>2, <2>4 DEF CommitUser, Goto, TypeOK, Labels
  <2> QED
    BY <1>8, <2>3, <2>4 DEF CommitUser
<1>9. ASSUME NEW h \in Handlers, LookupUser(h) PROVE TypeOK'
  BY <1>9, RefuseTyped, StepTyped DEF LookupUser, Replies, Labels
<1>10. ASSUME NEW h \in Handlers, WriteToken(h) PROVE TypeOK'
  <2>1. req[h] \in Request
    BY <1>10 DEF WriteToken, TypeOK
  <2>2. tokens' \subseteq [email: Emails, holder: Passwords]
    BY <1>10, <2>1 DEF WriteToken, TypeOK, Request
  <2> QED
    BY <1>10, <2>2, AnswerTyped DEF WriteToken, TypeOK, Replies
<1>11. ASSUME NEW h \in Handlers, Fail(h) PROVE TypeOK'
  BY <1>11, RefuseTyped DEF Fail, Replies
<1> QED
  BY <1>1, <1>2, <1>3, <1>4, <1>5, <1>6, <1>7, <1>8, <1>9, <1>10, <1>11
  DEF Next, Serve

\* The variables keep their types; behind the policy check every request has
\* a well-formed email and a password that bcrypt has hashed.
THEOREM TypeCorrect == Spec => []TypeOK
<1>1. Init => TypeOK
  BY InitTyped
<1>2. TypeOK /\ [Next]_vars => TypeOK'
  BY NextTyped
<1> QED
  BY <1>1, <1>2, PTL DEF Spec

-----------------------------------------------------------------------------
(* Tokens                                                                   *)

LEMMA InitInv == Init => AccountsInv
BY DEF Init, AccountsInv, TokenHolderKnowsPassword, HandlerInv

\* A handler that moves on without writing keeps what is known of all others.
LEMMA StepKeepsInv ==
    ASSUME TypeOK, AccountsInv, NEW h \in Handlers, NEW from,
           NEW to \in Labels \ {"commit", "token"}, Step(h, from, to)
    PROVE  AccountsInv'
<1>1. \A g \in Handlers : HandlerInv(g)'
  BY DEF AccountsInv, HandlerInv, Inserting, Step, Goto, TypeOK
<1> QED
  BY <1>1 DEF AccountsInv, TokenHolderKnowsPassword, Step

LEMMA RefuseKeepsInv ==
    ASSUME TypeOK, AccountsInv, NEW h \in Handlers, NEW status, Refuse(h, status)
    PROVE  AccountsInv'
<1>1. \A g \in Handlers : HandlerInv(g)'
  BY DEF AccountsInv, HandlerInv, Inserting, Refuse, Answer, Goto, TypeOK
<1> QED
  BY <1>1 DEF AccountsInv, TokenHolderKnowsPassword, Refuse

LEMMA NextInv == ASSUME TypeOK, AccountsInv, [Next]_vars PROVE AccountsInv'
<1>1. ASSUME UNCHANGED vars PROVE AccountsInv'
  BY <1>1 DEF vars, AccountsInv, TokenHolderKnowsPassword, HandlerInv, Inserting
<1>2. ASSUME Restart PROVE AccountsInv'
  BY <1>2 DEF Restart, AccountsInv, TokenHolderKnowsPassword, HandlerInv, Inserting
<1>3. ASSUME NEW h \in Handlers, Receive(h) PROVE AccountsInv'
  <2>1. PICK q \in Received :
            /\ pc[h] = "idle"
            /\ Goto(h, IF q.op = "login" THEN "lookup" ELSE "policy")
            /\ req' = [req EXCEPT ![h] = q]
            /\ UNCHANGED <<users, tokens>>
    BY <1>3 DEF Receive
  <2>2. \A g \in Handlers : HandlerInv(g)'
    BY <2>1 DEF AccountsInv, HandlerInv, Inserting, Goto, TypeOK
  <2> QED
    BY <2>1, <2>2 DEF AccountsInv, TokenHolderKnowsPassword
<1>4. ASSUME NEW h \in Handlers, BadForm(h) PROVE AccountsInv'
  BY <1>4, RefuseKeepsInv DEF BadForm
<1>5. ASSUME NEW h \in Handlers, CheckPolicy(h) PROVE AccountsInv'
  BY <1>5, RefuseKeepsInv, StepKeepsInv DEF CheckPolicy, Labels
<1>6. ASSUME NEW h \in Handlers, CreateFirstUser(h) PROVE AccountsInv'
  BY <1>6, RefuseKeepsInv, StepKeepsInv DEF CreateFirstUser, Labels
<1>7. ASSUME NEW h \in Handlers, InsertUser(h) PROVE AccountsInv'
  <2>1. CASE users[req[h].email] = NoAccount /\ Step(h, "insert", "commit")
    <3>1. \A g \in Handlers : HandlerInv(g)'
      BY <1>7, <2>1 DEF InsertUser, AccountsInv, HandlerInv, Inserting, Step, Goto, TypeOK
    <3> QED
      BY <2>1, <3>1 DEF AccountsInv, TokenHolderKnowsPassword, Step
  <2> QED
    BY <1>7, <2>1, RefuseKeepsInv DEF InsertUser
<1>8. ASSUME NEW h \in Handlers, CommitUser(h) PROVE AccountsInv'
  <2>1. /\ req[h] \in Request /\ req[h].email \in Emails
        /\ users[req[h].email] = NoAccount
        /\ Inserting(h) = {}
        /\ pc[h] = "commit"
    BY <1>8 DEF CommitUser, TypeOK, AccountsInv, HandlerInv, Request
  \* No token and no handler about to write one names an account not there.
  <2>2. TokenHolderKnowsPassword'
    <3> SUFFICES ASSUME NEW t \in tokens PROVE users'[t.email] = t.holder
      BY <1>8 DEF CommitUser, TokenHolderKnowsPassword
    <3>1. users[t.email] = t.holder /\ t.email \in Emails /\ t.holder # NoAccount
      BY AccountsAssumption DEF AccountsInv, TokenHolderKnowsPassword, TypeOK
    <3> QED
      BY <1>8, <2>1, <3>1 DEF CommitUser, TypeOK
  <2>3. ASSUME NEW g \in Handlers PROVE HandlerInv(g)'
    <3>1. CASE g = h
      <4>1. pc'[h] # "commit"
        BY <1>8 DEF CommitUser, Answer, Goto, TypeOK
      <4>2. pc'[h] = "token" => users'[req'[h].email] = req'[h].password
        BY <1>8, <2>1 DEF CommitUser, Answer, Goto, TypeOK
      <4> QED
        BY <3>1, <4>1, <4>2 DEF HandlerInv
    <3>2. CASE g # h
      <4>1. /\ pc'[g] = pc[g] /\ req'[g] = req[g]
            /\ pc'[h] # "commit"
            /\ \A f \in Handlers \ {h} : pc'[f] = pc[f] /\ req'[f] = req[f]
        BY <1>8, <3>2 DEF CommitUser, Answer, Goto, TypeOK
      <4>2. CASE pc[g] = "commit"
        <5>1. req[g].email # req[h].email
          BY <2>1, <3>2, <4>2 DEF Inserting
        <5>2. users'[req[g].email] = users[req[g].email]
          BY <1>8, <5>1 DEF CommitUser, TypeOK
        <5>3. Inserting(g)' \subseteq Inserting(g)
          BY <4>1 DEF Inserting
        <5> QED
          BY <4>1, <4>2, <5>2, <5>3 DEF HandlerInv, AccountsInv
      <4>3. CASE pc[g] = "token"
        <5>1. users[req[g].email] = req[g].password /\ req[g] \in Request
          BY <4>3 DEF AccountsInv, HandlerInv, TypeOK
        <5>2. req[g].email # req[h].email
          BY <2>1, <5>1, AccountsAssumption DEF Request
        <5>3. users'[req[g].email] = users[req[g].email]
          BY <1>8, <5>2 DEF CommitUser, TypeOK
        <5> QED
          BY <4>1, <4>3, <5>1, <5>3 DEF HandlerInv
      <4> QED
        BY <4>1, <4>2, <4>3 DEF HandlerInv
    <3> QED
      BY <3>1, <3>2
  <2> QED
    BY <2>2, <2>3 DEF AccountsInv
<1>9. ASSUME NEW h \in Handlers, LookupUser(h) PROVE AccountsInv'
  <2>1. CASE users[req[h].email] = req[h].password /\ Step(h, "lookup", "token")
    <3>1. \A g \in Handlers : HandlerInv(g)'
      BY <2>1 DEF AccountsInv, HandlerInv, Inserting, Step, Goto, TypeOK
    <3> QED
      BY <2>1, <3>1 DEF AccountsInv, TokenHolderKnowsPassword, Step
  <2> QED
    BY <1>9, <2>1, RefuseKeepsInv DEF LookupUser
<1>10. ASSUME NEW h \in Handlers, WriteToken(h) PROVE AccountsInv'
  <2>1. TokenHolderKnowsPassword'
    BY <1>10 DEF WriteToken, AccountsInv, HandlerInv, TokenHolderKnowsPassword
  <2>2. \A g \in Handlers : HandlerInv(g)'
    BY <1>10 DEF WriteToken, AccountsInv, HandlerInv, Inserting, Answer, Goto, TypeOK
  <2> QED
    BY <2>1, <2>2 DEF AccountsInv
<1>11. ASSUME NEW h \in Handlers, Fail(h) PROVE AccountsInv'
  BY <1>11, RefuseKeepsInv DEF Fail
<1> QED
  BY <1>1, <1>2, <1>3, <1>4, <1>5, <1>6, <1>7, <1>8, <1>9, <1>10, <1>11
  DEF Next, Serve

\* A token is only ever held by somebody who presented the password of the
\* account it names.
THEOREM TokensHeldByOwners == Spec => []TokenHolderKnowsPassword
<1>1. Init => TypeOK /\ AccountsInv
  BY InitTyped, InitInv
<1>2. TypeOK /\ AccountsInv /\ [Next]_vars => (TypeOK /\ AccountsInv)'
  BY NextTyped, NextInv
<1>3. AccountsInv => TokenHolderKnowsPassword
  BY DEF AccountsInv
<1> QED
  BY <1>1, <1>2, <1>3, PTL DEF Spec

-----------------------------------------------------------------------------
(* Registration answered with a conflict                                    *)

\* "Email already registered" is said of committed accounts only.
THEOREM ConflictsAreReal == Spec => TakenIsTaken
<1> DEFINE Honest == \A h \in Handlers :
              pc[h] # "idle" /\ reply'[h] = "taken" => users[req[h].email] # NoAccount
           Quiet == \A h \in Handlers : pc[h] # "idle" => reply[h] = "none"
<1>1. Init => TypeOK /\ Quiet
  BY InitTyped DEF Init
<1>2. TypeOK /\ Quiet /\ [Next]_vars => Quiet'
  <2> SUFFICES ASSUME TypeOK, Quiet, [Next]_vars PROVE Quiet'
    OBVIOUS
  <2> USE DEF TypeOK, Goto, Answer, Refuse, Step
  <2>1. CASE UNCHANGED vars \/ Restart
    BY <2>1 DEF vars, Restart
  <2>2. ASSUME NEW h \in Handlers, Receive(h) PROVE Quiet'
    BY <2>2 DEF Receive
  <2>3. ASSUME NEW h \in Handlers, BadForm(h) \/ CheckPolicy(h) \/ CreateFirstUser(h)
        PROVE Quiet'
    BY <2>3 DEF BadForm, CheckPolicy, CreateFirstUser
  <2>4. ASSUME NEW h \in Handlers, InsertUser(h) \/ CommitUser(h) PROVE Quiet'
    BY <2>4 DEF InsertUser, CommitUser
  <2>5. ASSUME NEW h \in Handlers, LookupUser(h) \/ WriteToken(h) \/ Fail(h) PROVE Quiet'
    BY <2>5 DEF LookupUser, WriteToken, Fail
  <2> QED
    BY <2>1, <2>2, <2>3, <2>4, <2>5 DEF Next, Serve
<1>3. TypeOK /\ Quiet /\ [Next]_vars => [Honest]_vars
  <2> SUFFICES ASSUME TypeOK, Quiet, Next PROVE Honest
    BY DEF vars
  <2> USE DEF TypeOK, Goto, Answer, Refuse, Step
  <2>1. CASE Restart
    BY <2>1 DEF Restart
  <2>2. ASSUME NEW h \in Handlers, Receive(h) PROVE Honest
    BY <2>2 DEF Receive
  <2>3. ASSUME NEW h \in Handlers, BadForm(h) \/ CheckPolicy(h) \/ CreateFirstUser(h)
        PROVE Honest
    BY <2>3 DEF BadForm, CheckPolicy, CreateFirstUser
  <2>4. ASSUME NEW h \in Handlers, InsertUser(h) \/ CommitUser(h) PROVE Honest
    BY <2>4 DEF InsertUser, CommitUser
  <2>5. ASSUME NEW h \in Handlers, LookupUser(h) \/ WriteToken(h) \/ Fail(h) PROVE Honest
    BY <2>5 DEF LookupUser, WriteToken, Fail
  <2> QED
    BY <2>1, <2>2, <2>3, <2>4, <2>5 DEF Next, Serve
<1>4. TypeOK /\ [Next]_vars => TypeOK'
  BY NextTyped
<1> QED
  BY <1>1, <1>2, <1>3, <1>4, PTL DEF Spec, TakenIsTaken

-----------------------------------------------------------------------------
(* The closed server                                                        *)

\* A step that creates no account and admits nobody leaves room for all.
LEMMA RoomKept ==
    ASSUME IsFiniteSet(Handlers), ClosedInv, IsFiniteSet(Bootstrapped),
           users' = users, origin' = origin, Admitted' \subseteq Admitted
    PROVE  ClosedInv' /\ IsFiniteSet(Bootstrapped)'
<1>1. Bootstrapped' = Bootstrapped /\ Registered' = Registered
  BY DEF Bootstrapped, Registered
<1>2. /\ IsFiniteSet(Admitted)
      /\ Cardinality(Admitted') <= Cardinality(Admitted)
      /\ IsFiniteSet(Admitted')
  BY FS_Subset DEF Admitted
<1> QED
  BY <1>1, <1>2, FS_CardinalityType DEF ClosedInv

LEMMA ClosedStep ==
    ASSUME IsFiniteSet(Handlers), TypeOK, AccountsInv,
           ClosedInv, IsFiniteSet(Bootstrapped), [Next]_vars
    PROVE  ClosedInv' /\ IsFiniteSet(Bootstrapped)'
<1> USE DEF Goto, Answer, Refuse, Step
<1>1. ASSUME UNCHANGED vars \/ Restart PROVE ClosedInv' /\ IsFiniteSet(Bootstrapped)'
  \* A restart finds no handler at work.
  <2>1. Admitted' \subseteq Admitted
    BY <1>1 DEF vars, Restart, Admitted
  <2> QED
    BY <1>1, <2>1, RoomKept DEF vars, Restart
<1>2. ASSUME NEW h \in Handlers,
             Receive(h) \/ BadForm(h) \/ CheckPolicy(h) \/ InsertUser(h)
             \/ LookupUser(h) \/ WriteToken(h) \/ Fail(h)
      PROVE  ClosedInv' /\ IsFiniteSet(Bootstrapped)'
  <2>1. users' = users /\ origin' = origin
    BY <1>2 DEF Receive, BadForm, CheckPolicy, InsertUser, LookupUser, WriteToken, Fail
  <2>2. Admitted' \subseteq Admitted
    BY <1>2 DEF TypeOK, Admitted, Receive, BadForm, CheckPolicy, InsertUser,
                LookupUser, WriteToken, Fail
  <2> QED
    BY <2>1, <2>2, RoomKept
<1>3. ASSUME NEW h \in Handlers, CreateFirstUser(h)
      PROVE  ClosedInv' /\ IsFiniteSet(Bootstrapped)'
  <2>1. users' = users /\ origin' = origin
    BY <1>3 DEF CreateFirstUser
  <2>2. CASE Registered = {}
    <3>1. Bootstrapped' = {} /\ Cardinality(Bootstrapped') = 0
      BY <2>1, <2>2, FS_EmptySet DEF ClosedInv, Bootstrapped
    <3>2. IsFiniteSet(Admitted') /\ Cardinality(Admitted') <= Cardinality(Handlers)
      BY FS_Subset DEF Admitted
    <3> QED
      BY <3>1, <3>2, FS_EmptySet, FS_CardinalityType DEF ClosedInv
  <2>3. CASE Registered # {}
    <3>1. Admitted' \subseteq Admitted
      BY <1>3, <2>3 DEF CreateFirstUser, TypeOK, Admitted
    <3> QED
      BY <2>1, <3>1, RoomKept
  <2> QED
    BY <2>2, <2>3
<1>4. ASSUME NEW h \in Handlers, CommitUser(h)
      PROVE  ClosedInv' /\ IsFiniteSet(Bootstrapped)'
  <2> DEFINE e == req[h].email
  <2>1. /\ e \in Emails /\ req[h].password # NoAccount
        /\ users[e] = NoAccount
    BY <1>4, AccountsAssumption
    DEF CommitUser, TypeOK, AccountsInv, HandlerInv, Request
  <2>2. e \notin Bootstrapped /\ e \in Registered'
    BY <1>4, <2>1 DEF CommitUser, ClosedInv, Registered, TypeOK
  <2>3. Registered \subseteq Registered'
    BY <1>4, <2>1 DEF CommitUser, Registered, TypeOK
  <2>4. Bootstrapped' = IF mode = "closed" THEN Bootstrapped \cup {e} ELSE Bootstrapped
    BY <1>4, <2>1, <2>2 DEF CommitUser, Bootstrapped, TypeOK
  <2>5. IsFiniteSet(Admitted) /\ mode' = mode
    BY <1>4, FS_Subset DEF Admitted, CommitUser
  <2>6. CASE mode = "closed"
    <3>1. h \in Admitted /\ Admitted' = Admitted \ {h}
      BY <1>4, <2>5, <2>6 DEF CommitUser, TypeOK, Admitted
    <3>2. IsFiniteSet(Admitted') /\ Cardinality(Admitted') = Cardinality(Admitted) - 1
      BY <2>5, <3>1, FS_RemoveElement
    <3>3. /\ IsFiniteSet(Bootstrapped')
          /\ Cardinality(Bootstrapped') = Cardinality(Bootstrapped) + 1
      BY <2>2, <2>4, <2>6, FS_AddElement
    <3> QED
      BY <2>2, <2>3, <2>4, <2>5, <3>2, <3>3, FS_CardinalityType DEF ClosedInv
  <2>7. CASE mode # "closed"
    <3>1. Admitted' = Admitted /\ Bootstrapped' = Bootstrapped
      BY <2>4, <2>5, <2>7 DEF Admitted
    <3> QED
      BY <2>3, <3>1 DEF ClosedInv
  <2> QED
    BY <2>6, <2>7
<1> QED
  BY <1>1, <1>2, <1>3, <1>4 DEF Next, Serve

\* The server bootstraps at most as many accounts as it serves requests at
\* once, ever: the race for the first account is bounded, and over once it is
\* decided.
THEOREM ClosedAdmitsFew ==
    ASSUME IsFiniteSet(Handlers)
    PROVE  Spec => []ClosedBounded
<1> DEFINE Inv == TypeOK /\ AccountsInv /\ ClosedInv /\ IsFiniteSet(Bootstrapped)
<1>1. Init => Inv
  <2> SUFFICES ASSUME Init PROVE ClosedInv /\ IsFiniteSet(Bootstrapped)
    BY InitTyped, InitInv
  <2>1. Bootstrapped = {} /\ Admitted = {}
    BY AccountsAssumption DEF Init, Bootstrapped, Admitted, ModeNames
  <2> QED
    BY <2>1, FS_EmptySet, FS_CardinalityType DEF ClosedInv
<1>2. Inv /\ [Next]_vars => Inv'
  BY NextTyped, NextInv, ClosedStep
<1>3. Inv => ClosedBounded
  <2> SUFFICES ASSUME Inv PROVE ClosedBounded
    OBVIOUS
  <2>1. IsFiniteSet(Admitted)
    BY FS_Subset DEF Admitted
  <2> QED
    BY <2>1, FS_CardinalityType DEF ClosedInv, ClosedBounded
<1> QED
  BY <1>1, <1>2, <1>3, PTL DEF Spec
=============================================================================
