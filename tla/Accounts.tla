------------------------------ MODULE Accounts ------------------------------
(***************************************************************************)
(* Registration and login: handleRegister and handleLogin                  *)
(* (internal/api/auth.go) over table users (internal/store/users.go).      *)
(* Every INSERT is a transaction of its own; table users has a unique      *)
(* index on email, where an INSERT waits for a concurrent one of the same  *)
(* email to end.  One action is one step of a statement that others can    *)
(* see or wait for.                                                        *)
(*                                                                         *)
(* Emails are the normalised ones (trimmed, lower case); a bcrypt hash is  *)
(* represented by the password it is of; a token by the account it names.  *)
(***************************************************************************)
EXTENDS Naturals, FiniteSets

CONSTANTS
    Emails,
    Passwords,
    Handlers,   \* concurrent requests
    Modes,      \* how the server may be (re)started: see ModeNames
    NoRequest, NoAccount

ModeNames == {"open", "invite", "closed"}

\* form: what the request's email and password look like; "tooLong" is a
\* password of more than the 72 bytes bcrypt takes.
Request == [op: {"register", "login"}, email: Emails, password: Passwords,
            code: BOOLEAN,      \* it carries the right invite code
            form: {"fine", "invalid", "tooLong"}]

ASSUME AccountsAssumption ==
    /\ Modes \subseteq ModeNames /\ Modes # {}
    /\ NoRequest \notin Request
    /\ NoAccount \notin Passwords /\ NoAccount \notin ModeNames

VARIABLES
    mode,       \* RegistrationPolicy of the running process
    users,      \* committed: the password of each account
    origin,     \* history: the mode in which each account was created
    pc,         \* the step each handler is about to take
    req,        \* the request it serves
    reply,      \* how it answered the last one
    tokens      \* issued: the account a token names, the password its
                \* holder presented

vars == <<mode, users, origin, pc, req, reply, tokens>>

Labels == {"idle", "policy", "first", "insert", "commit", "lookup", "token"}
Replies == {"none", "created", "ok", "invalid", "unauthorized", "forbidden",
            "taken", "error"}

TypeOK ==
    /\ mode \in Modes
    /\ users \in [Emails -> Passwords \cup {NoAccount}]
    /\ origin \in [Emails -> ModeNames \cup {NoAccount}]
    /\ pc \in [Handlers -> Labels]
    /\ req \in [Handlers -> Request \cup {NoRequest}]
    /\ \A h \in Handlers :
        pc[h] = "idle" <=> req[h] = NoRequest
    /\ \A h \in Handlers :
        pc[h] \notin {"idle", "policy"} => req[h].form = "fine"
    /\ reply \in [Handlers -> Replies]
    /\ tokens \subseteq [email: Emails, holder: Passwords]

Init ==
    /\ mode \in Modes
    /\ users = [e \in Emails |-> NoAccount]
    /\ origin = [e \in Emails |-> NoAccount]
    /\ pc = [h \in Handlers |-> "idle"]
    /\ req = [h \in Handlers |-> NoRequest]
    /\ reply = [h \in Handlers |-> "none"]
    /\ tokens = {}

Registered == {e \in Emails : users[e] # NoAccount}

Goto(h, label) == pc' = [pc EXCEPT ![h] = label]

Step(h, from, to) ==
    /\ pc[h] = from /\ Goto(h, to)
    /\ UNCHANGED <<mode, users, origin, req, reply, tokens>>

Answer(h, status) ==
    /\ Goto(h, "idle")
    /\ req' = [req EXCEPT ![h] = NoRequest]
    /\ reply' = [reply EXCEPT ![h] = status]

Refuse(h, status) == Answer(h, status) /\ UNCHANGED <<mode, users, origin, tokens>>

\* A login has no code and its form is not looked at; the code of a request
\* whose form is refused does not matter.
Received == {q \in Request :
                /\ q.op = "login" => q.form = "fine" /\ ~q.code
                /\ q.form # "fine" => ~q.code}

Receive(h) ==
    \E q \in Received :
        /\ pc[h] = "idle"
        /\ Goto(h, IF q.op = "login" THEN "lookup" ELSE "policy")
        /\ req' = [req EXCEPT ![h] = q]
        /\ reply' = [reply EXCEPT ![h] = "none"]
        /\ UNCHANGED <<mode, users, origin, tokens>>

-----------------------------------------------------------------------------
(* handleRegister                                                           *)

\* The form is checked, then the password hashed, then the mode looked at.
BadForm(h) ==
    /\ pc[h] = "policy"
    /\ \/ req[h].form = "invalid" /\ Refuse(h, "invalid")
       \/ req[h].form = "tooLong" /\ Refuse(h, "error")

\* Mutant: the form is not checked.
CheckPolicyAlone(h) ==
    /\ pc[h] = "policy"
    /\ \/ mode = "open" /\ Step(h, "policy", "insert")
       \/ mode = "invite" /\ req[h].code /\ Step(h, "policy", "insert")
       \/ mode = "invite" /\ ~req[h].code /\ Refuse(h, "forbidden")
       \/ mode = "closed" /\ Step(h, "policy", "first")

CheckPolicy(h) ==
    /\ pc[h] = "policy" /\ req[h].form = "fine"
    /\ \/ mode = "open" /\ Step(h, "policy", "insert")
       \/ mode = "invite" /\ req[h].code /\ Step(h, "policy", "insert")
       \/ mode = "invite" /\ ~req[h].code /\ Refuse(h, "forbidden")
       \/ mode = "closed" /\ Step(h, "policy", "first")

\* Mutant: no look at the table before the INSERT.
CreateUnchecked(h) == Step(h, "first", "insert")

\* CreateFirstUser's NOT EXISTS: the statement's snapshot shows committed
\* accounts only.
CreateFirstUser(h) ==
    /\ pc[h] = "first"
    /\ \/ Registered = {} /\ Step(h, "first", "insert")
       \/ Registered # {} /\ Refuse(h, "forbidden")

\* The other transactions that have inserted h's email.
Inserting(h) ==
    {g \in Handlers \ {h} : pc[g] = "commit" /\ req[g].email = req[h].email}

\* Mutant: an existing account is overwritten (ON CONFLICT DO UPDATE).
InsertOrUpdate(h) ==
    pc[h] = "insert" /\ Inserting(h) = {} /\ Step(h, "insert", "commit")

\* Mutant: a pending insert of the same email counts as the email taken.
InsertNoWait(h) ==
    /\ pc[h] = "insert"
    /\ \/ users[req[h].email] = NoAccount /\ Inserting(h) = {} /\ Step(h, "insert", "commit")
       \/ (users[req[h].email] # NoAccount \/ Inserting(h) # {}) /\ Refuse(h, "taken")

\* CreateUser, and CreateFirstUser on an empty table.
InsertUser(h) ==
    /\ pc[h] = "insert" /\ Inserting(h) = {}
    /\ \/ users[req[h].email] = NoAccount /\ Step(h, "insert", "commit")
       \/ users[req[h].email] # NoAccount /\ Refuse(h, "taken")

\* The answer to a commit that took effect may be lost on its way.
CommitUser(h) ==
    /\ pc[h] = "commit"
    /\ users' = [users EXCEPT ![req[h].email] = req[h].password]
    /\ origin' = [origin EXCEPT ![req[h].email] = mode]
    /\ \/ Goto(h, "token") /\ UNCHANGED <<req, reply>>
       \/ Answer(h, "error")
    /\ UNCHANGED <<mode, tokens>>

-----------------------------------------------------------------------------
(* handleLogin, writeToken                                                  *)

\* Mutant: the email is looked up, the password not compared.
LookupOnly(h) ==
    /\ pc[h] = "lookup"
    /\ \/ users[req[h].email] # NoAccount /\ Step(h, "lookup", "token")
       \/ users[req[h].email] = NoAccount /\ Refuse(h, "unauthorized")

\* GetUserByEmail and CheckPassword: a password too long for bcrypt, or too
\* short to have been registered, never compares equal.
LookupUser(h) ==
    /\ pc[h] = "lookup"
    /\ \/ users[req[h].email] = req[h].password /\ Step(h, "lookup", "token")
       \/ users[req[h].email] # req[h].password /\ Refuse(h, "unauthorized")

WriteToken(h) ==
    /\ pc[h] = "token"
    /\ tokens' = tokens \cup {[email |-> req[h].email, holder |-> req[h].password]}
    /\ Answer(h, IF req[h].op = "login" THEN "ok" ELSE "created")
    /\ UNCHANGED <<mode, users, origin>>

-----------------------------------------------------------------------------

\* The client goes away, the database fails: an INSERT not committed is undone.
Fail(h) == pc[h] # "idle" /\ Refuse(h, "error")

\* The operator restarts the server with other settings.
Restart ==
    /\ \A h \in Handlers : pc[h] = "idle"
    /\ mode' \in Modes
    /\ UNCHANGED <<users, origin, pc, req, reply, tokens>>

Serve(h) ==
    \/ BadForm(h) \/ CheckPolicy(h) \/ CreateFirstUser(h) \/ InsertUser(h)
    \/ CommitUser(h) \/ LookupUser(h) \/ WriteToken(h)

Next == Restart \/ \E h \in Handlers : Receive(h) \/ Serve(h) \/ Fail(h)

Spec == Init /\ [][Next]_vars

-----------------------------------------------------------------------------
(* Properties                                                               *)

\* Whoever holds a token has presented the password of the account it names:
\* of two clients who register one email at once, only the one whose password
\* is stored gets a token, and no later registration or login changes that.
TokenHolderKnowsPassword == \A t \in tokens : users[t.email] = t.holder

\* A client told "email already registered" can rely on the account being
\* there: the registration that got in first is not undone any more.
TakenIsTaken ==
    [][\A h \in Handlers :
        pc[h] # "idle" /\ reply'[h] = "taken" => users[req[h].email] # NoAccount]_vars

\* Accounts created without an open door or a code to show.
Bootstrapped == {e \in Emails : origin[e] = "closed"}

\* However often the server is restarted, in whichever mode, it has no more
\* bootstrapped accounts than the requests that can be past CreateFirstUser's
\* check when the first of them commits: the race for the first account ends,
\* nobody is admitted later.
ClosedBounded == Cardinality(Bootstrapped) <= Cardinality(Handlers)

\* What the comment on CreateFirstUser says: two concurrent callers cannot
\* both win.  Their NOT EXISTS look at snapshots without each other's row.
BootstrapHasOneWinner == Cardinality(Bootstrapped) <= 1

-----------------------------------------------------------------------------
(* The inductive invariant                                                  *)

\* Where the unique index puts the handlers: an account to be committed does
\* not exist yet and is committed by one transaction only; a token is written
\* for an account whose password the request has.
HandlerInv(h) ==
    /\ pc[h] = "commit" => users[req[h].email] = NoAccount /\ Inserting(h) = {}
    /\ pc[h] = "token" => users[req[h].email] = req[h].password

AccountsInv ==
    /\ TokenHolderKnowsPassword
    /\ \A h \in Handlers : HandlerInv(h)

\* The handlers that will bootstrap an account unless something fails.
Admitted == {h \in Handlers : mode = "closed" /\ pc[h] \in {"insert", "commit"}}

ClosedInv ==
    /\ Cardinality(Bootstrapped) + Cardinality(Admitted) <= Cardinality(Handlers)
    /\ Bootstrapped \subseteq Registered
=============================================================================
