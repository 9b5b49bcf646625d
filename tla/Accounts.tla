------------------------------ MODULE Accounts ------------------------------
(***************************************************************************)
(* Accounts with a password: registration, login, logout, the password     *)
(* reset by mail, the verification of the address, and how a request finds *)
(* out who made it (modules/auth, http/request-context.ts, data/auth.ts).  *)
(*                                                                         *)
(* Each handler is a sequence of statements with an await between any two, *)
(* so a request is a process that stops between them: the other requests   *)
(* may run there, and the request may be lost there.  Rows are never       *)
(* locked and no two statements share a transaction.                       *)
(*                                                                         *)
(* A password is the number of the change that set it.  Tokens, cookies    *)
(* and hashes are the identity of the row they open.  The GitHub sign-in   *)
(* that gives out access tokens is the module DeviceLogin; here it is one  *)
(* step, ApproveDevice.                                                    *)
(***************************************************************************)
EXTENDS Naturals, Sequences, FiniteSets

CONSTANTS
    Users,        \* people, by e-mail address
    Requests,     \* requests the server handles at the same time
    MaxRequests,  \* requests in all (bound)
    MaxCuts,      \* requests lost or failing between two statements (bound)
    MaxLapses     \* sessions and mailed tokens that outlive their time (bound)

ASSUME SomeUser == Users # {}

VARIABLES
    users,        \* users
    passwords,    \* password_credentials: number of the latest change, 0 for no row
    homes,        \* workspaces the user is a member of
    verified,     \* users.email_verified_at is set
    mailed,       \* email_verification_tokens and password_reset_tokens
    sessions,     \* web_sessions
    access,       \* access_tokens
    req,          \* the requests in progress
    resetDone,    \* the latest password whose reset has been answered (history)
    made, cuts, lapses

tables == <<users, passwords, homes, verified, mailed, sessions, access>>
bounds == <<made, cuts, lapses>>
vars == <<tables, req, resetDone, bounds>>

Stages ==
    {"idle", "insert_user", "insert_password", "create_home", "invalidate", "create_token",
     "open_session", "consume", "set_password", "end_sessions", "revoke_access",
     "consume_mail", "set_verified", "touch", "find_home", "make_home", "authorized"}

(* What a request keeps between two statements. *)
Idle == [at |-> "idle", user |-> CHOOSE u \in Users : TRUE, for |-> "none",
         version |-> 0, token |-> 0]

-----------------------------------------------------------------------------
(* Faulty variants: each breaks a property in place of the definition      *)
(* whose name begins its own.                                              *)

ResetOrderRevokingFirst == <<"consume", "end_sessions", "revoke_access", "set_password", "idle">>

UsableWhateverItsState(t, kind) == t \in DOMAIN mailed /\ mailed[t].kind = kind

TouchWritingTheRowBack(i) == sessions' = [sessions EXCEPT ![i].live = TRUE]

-----------------------------------------------------------------------------

MailedToken(kind, u) ==
    [kind |-> kind, user |-> u, state |-> "fresh", doubtful |-> FALSE, spent |-> 0]

Init ==
    /\ users = {} /\ verified = {}
    /\ passwords = [u \in Users |-> 0]
    /\ homes = [u \in Users |-> 0]
    /\ mailed = <<>> /\ sessions = <<>> /\ access = <<>>
    /\ req = [r \in Requests |-> Idle]
    /\ resetDone = [u \in Users |-> 0]
    /\ made = 0 /\ cuts = 0 /\ lapses = 0

(* Request r goes on to a stage; once answered it keeps nothing. *)
GoOn(r, stage) ==
    /\ req' = [req EXCEPT ![r] = IF stage = "idle" THEN Idle ELSE [@ EXCEPT !.at = stage]]
    /\ UNCHANGED bounds

Arrive(r, entry) ==
    /\ req[r].at = "idle"
    /\ made < MaxRequests
    /\ made' = made + 1
    /\ req' = [req EXCEPT ![r] = entry]
    /\ UNCHANGED <<tables, resetDone, cuts, lapses>>

(* The last stages of a password reset. *)
ResetOrder == <<"consume", "set_password", "end_sessions", "revoke_access", "idle">>

AfterReset(stage) ==
    ResetOrder[(CHOOSE i \in DOMAIN ResetOrder : ResetOrder[i] = stage) + 1]

(* Answering a reset makes it the one that counts. *)
GoOnWithReset(r) ==
    /\ GoOn(r, AfterReset(req[r].at))
    /\ LET u == req[r].user
           v == IF req[r].at = "set_password" THEN passwords'[u] ELSE req[r].version
       IN  resetDone' = IF AfterReset(req[r].at) = "idle" /\ v > resetDone[u]
                        THEN [resetDone EXCEPT ![u] = v] ELSE resetDone

-----------------------------------------------------------------------------
(* Registration: the row of the user, the password, the workspace, the     *)
(* verification mail, the session.                                         *)

Register(r, u) ==
    /\ u \notin users
    /\ Arrive(r, [Idle EXCEPT !.at = "insert_user", !.user = u, !.for = "verify"])

(* users.email is unique: the slower of two registrations gets an error. *)
InsertUser(r) ==
    LET u == req[r].user IN
    /\ req[r].at = "insert_user"
    /\ users' = users \cup {u}
    /\ GoOn(r, IF u \in users THEN "idle" ELSE "insert_password")
    /\ UNCHANGED <<passwords, homes, verified, mailed, sessions, access, resetDone>>

(* An INSERT: it fails if a reset has written the row meanwhile. *)
InsertPassword(r) ==
    LET u == req[r].user IN
    /\ req[r].at = "insert_password"
    /\ IF passwords[u] # 0
       THEN GoOn(r, "idle") /\ UNCHANGED passwords
       ELSE /\ passwords' = [passwords EXCEPT ![u] = 1]
            /\ req' = [req EXCEPT ![r].at = "create_home", ![r].version = 1]
            /\ UNCHANGED bounds
    /\ UNCHANGED <<users, homes, verified, mailed, sessions, access, resetDone>>

AddHome(u) == homes' = [homes EXCEPT ![u] = @ + 1]

(* The workspace and the membership that makes it the user's. *)
CreateHome(r) ==
    /\ req[r].at = "create_home"
    /\ AddHome(req[r].user)
    /\ GoOn(r, "invalidate")
    /\ UNCHANGED <<users, passwords, verified, mailed, sessions, access, resetDone>>

(* Login reads the user and the hash in one query; the password given is   *)
(* the one that hash was made of, or the request is answered at once.      *)
Login(r, u) ==
    /\ u \in users /\ passwords[u] # 0
    /\ Arrive(r, [Idle EXCEPT !.at = "open_session", !.user = u, !.version = passwords[u]])

(* createWebSession.  late: the password has been changed since it was     *)
(* checked.                                                                *)
OpenSession(r) ==
    LET u == req[r].user IN
    /\ req[r].at = "open_session"
    /\ sessions' = Append(sessions,
           [user |-> u, version |-> req[r].version, live |-> TRUE, old |-> FALSE,
            late |-> req[r].version # passwords[u]])
    /\ GoOn(r, "idle")
    /\ UNCHANGED <<users, passwords, homes, verified, mailed, access, resetDone>>

-----------------------------------------------------------------------------
(* Mailed tokens: the earlier ones of the user are invalidated, then a new *)
(* one is written.                                                         *)

ForgotPassword(r, u) ==
    /\ u \in users
    /\ Arrive(r, [Idle EXCEPT !.at = "invalidate", !.user = u, !.for = "reset"])

Invalidate(kind, u) ==
    mailed' = [t \in DOMAIN mailed |->
                  IF mailed[t].kind = kind /\ mailed[t].user = u
                  THEN [mailed[t] EXCEPT !.state = "consumed"] ELSE mailed[t]]

InvalidateTokens(r) ==
    /\ req[r].at = "invalidate"
    /\ Invalidate(req[r].for, req[r].user)
    /\ GoOn(r, "create_token")
    /\ UNCHANGED <<users, passwords, homes, verified, sessions, access, resetDone>>

CreateToken(r) ==
    /\ req[r].at = "create_token"
    /\ mailed' = Append(mailed, MailedToken(req[r].for, req[r].user))
    /\ GoOn(r, IF req[r].for = "verify" THEN "open_session" ELSE "idle")
    /\ UNCHANGED <<users, passwords, homes, verified, sessions, access, resetDone>>

(* A token row that verifyEmailToken or verifyPasswordResetToken accepts *)
Usable(t, kind) ==
    t \in DOMAIN mailed /\ mailed[t].kind = kind /\ mailed[t].state = "fresh"

ResetPassword(r, t) ==
    /\ Usable(t, "reset")
    /\ Arrive(r, [Idle EXCEPT !.at = "consume", !.user = mailed[t].user, !.token = t])

(* The token is read a second time and marked; nobody looks at the answer  *)
(* that says it had been consumed already.  doubtful: another request has  *)
(* had the token verified too, or marking it has failed.                   *)
ConsumeResetToken(r) ==
    LET t == req[r].token
        rival == \E q \in Requests \ {r} : req[q].at = "consume" /\ req[q].token = t
    IN
    /\ req[r].at = "consume"
    /\ mailed' = [mailed EXCEPT ![t].state = "consumed", ![t].doubtful = @ \/ rival]
    /\ GoOnWithReset(r)
    /\ UNCHANGED <<users, passwords, homes, verified, sessions, access>>

(* consumePasswordResetToken catches every exception and answers false:    *)
(* the token stays as it is, and the handler goes on.                      *)
ConsumeFails(r) ==
    /\ req[r].at = "consume"
    /\ cuts < MaxCuts
    /\ cuts' = cuts + 1
    /\ mailed' = [mailed EXCEPT ![req[r].token].doubtful = TRUE]
    /\ req' = [req EXCEPT ![r].at = AfterReset("consume")]
    /\ UNCHANGED <<users, passwords, homes, verified, sessions, access, resetDone,
                   made, lapses>>

(* An upsert. *)
SetPassword(r) ==
    LET u == req[r].user
        v == passwords[u] + 1
    IN
    /\ req[r].at = "set_password"
    /\ passwords' = [passwords EXCEPT ![u] = v]
    /\ mailed' = [mailed EXCEPT ![req[r].token].spent = @ + 1]
    /\ req' = [req EXCEPT ![r] = IF AfterReset("set_password") = "idle" THEN Idle
                                 ELSE [@ EXCEPT !.at = AfterReset("set_password"), !.version = v]]
    /\ resetDone' = IF AfterReset("set_password") = "idle"
                    THEN [resetDone EXCEPT ![u] = v] ELSE resetDone
    /\ UNCHANGED <<users, homes, verified, sessions, access, bounds>>

KillRows(rows, u) ==
    [i \in DOMAIN rows |-> IF rows[i].user = u THEN [rows[i] EXCEPT !.live = FALSE] ELSE rows[i]]

EndSessions(r) ==
    /\ req[r].at = "end_sessions"
    /\ sessions' = KillRows(sessions, req[r].user)
    /\ GoOnWithReset(r)
    /\ UNCHANGED <<users, passwords, homes, verified, mailed, access>>

RevokeAccess(r) ==
    /\ req[r].at = "revoke_access"
    /\ access' = KillRows(access, req[r].user)
    /\ GoOnWithReset(r)
    /\ UNCHANGED <<users, passwords, homes, verified, mailed, sessions>>

VerifyEmail(r, t) ==
    /\ Usable(t, "verify")
    /\ Arrive(r, [Idle EXCEPT !.at = "consume_mail", !.user = mailed[t].user, !.token = t])

ConsumeVerification(r) ==
    /\ req[r].at = "consume_mail"
    /\ mailed' = [mailed EXCEPT ![req[r].token].state = "consumed",
                                ![req[r].token].spent = @ + 1]
    /\ GoOn(r, "set_verified")
    /\ UNCHANGED <<users, passwords, homes, verified, sessions, access, resetDone>>

SetVerified(r) ==
    /\ req[r].at = "set_verified"
    /\ verified' = verified \cup {req[r].user}
    /\ GoOn(r, "idle")
    /\ UNCHANGED <<users, passwords, homes, mailed, sessions, access, resetDone>>

-----------------------------------------------------------------------------
(* Who is asking: a bearer token or a session cookie.                      *)

(* An approved sign-in with GitHub has made an access token, and for a     *)
(* newcomer the user and the workspace.                                    *)
ApproveDevice(u) ==
    /\ made < MaxRequests
    /\ made' = made + 1
    /\ users' = users \cup {u}
    /\ IF u \in users THEN UNCHANGED homes ELSE AddHome(u)
    /\ access' = Append(access, [user |-> u, version |-> passwords[u], live |-> TRUE])
    /\ UNCHANGED <<passwords, verified, mailed, sessions, req, resetDone, cuts, lapses>>

(* One query: the token, its user, and a workspace of theirs. *)
BearerRequest(r, i) ==
    /\ i \in DOMAIN access /\ access[i].live /\ homes[access[i].user] > 0
    /\ Arrive(r, [Idle EXCEPT !.at = "authorized", !.user = access[i].user,
                              !.for = "access", !.token = i])

CookieRequest(r, i) ==
    /\ i \in DOMAIN sessions /\ sessions[i].live
    /\ Arrive(r, [Idle EXCEPT !.at = "touch", !.user = sessions[i].user,
                              !.for = "session", !.token = i])

(* An UPDATE of last_seen_at by id: it makes no row where there is none. *)
Touch(i) == UNCHANGED sessions

(* An expired session is deleted, any other is marked as seen. *)
TouchSession(r) ==
    LET i == req[r].token IN
    /\ req[r].at = "touch"
    /\ IF sessions[i].old
       THEN sessions' = [sessions EXCEPT ![i].live = FALSE] /\ GoOn(r, "idle")
       ELSE Touch(i) /\ GoOn(r, "find_home")
    /\ UNCHANGED <<users, passwords, homes, verified, mailed, access, resetDone>>

FindHome(r) ==
    /\ req[r].at = "find_home"
    /\ GoOn(r, IF homes[req[r].user] > 0 THEN "authorized" ELSE "make_home")
    /\ UNCHANGED <<tables, resetDone>>

(* getDefaultWorkspace makes one for a user who has none. *)
MakeHome(r) ==
    /\ req[r].at = "make_home"
    /\ AddHome(req[r].user)
    /\ GoOn(r, "authorized")
    /\ UNCHANGED <<users, passwords, verified, mailed, sessions, access, resetDone>>

(* The request was for something else, or it is the logout. *)
Serve(r) ==
    /\ req[r].at = "authorized"
    /\ GoOn(r, "idle")
    /\ UNCHANGED <<tables, resetDone>>

Logout(r) ==
    LET i == req[r].token IN
    /\ req[r].at = "authorized"
    /\ IF req[r].for = "access"
       THEN access' = [access EXCEPT ![i].live = FALSE] /\ UNCHANGED sessions
       ELSE sessions' = [sessions EXCEPT ![i].live = FALSE] /\ UNCHANGED access
    /\ GoOn(r, "idle")
    /\ UNCHANGED <<users, passwords, homes, verified, mailed, resetDone>>

-----------------------------------------------------------------------------

(* A request is lost, or a statement of it throws where nothing but the    *)
(* handler catches: the client gets an error, or no answer.                *)
Cut(r) ==
    /\ req[r].at # "idle"
    /\ cuts < MaxCuts
    /\ cuts' = cuts + 1
    /\ req' = [req EXCEPT ![r] = Idle]
    /\ UNCHANGED <<tables, resetDone, made, lapses>>

(* A mailed token that cannot be written is none: the handler goes on. *)
MailFails(r) ==
    /\ req[r].at \in {"invalidate", "create_token"} /\ req[r].for = "verify"
    /\ cuts < MaxCuts
    /\ cuts' = cuts + 1
    /\ req' = [req EXCEPT ![r].at = "open_session"]
    /\ UNCHANGED <<tables, resetDone, made, lapses>>

Lapse ==
    /\ lapses < MaxLapses
    /\ lapses' = lapses + 1
    /\ \/ \E t \in DOMAIN mailed :
             /\ mailed[t].state = "fresh"
             /\ mailed' = [mailed EXCEPT ![t].state = "lapsed"]
             /\ UNCHANGED sessions
       \/ \E i \in DOMAIN sessions :
             /\ sessions[i].live /\ ~ sessions[i].old
             /\ sessions' = [sessions EXCEPT ![i].old = TRUE]
             /\ UNCHANGED mailed
    /\ UNCHANGED <<users, passwords, homes, verified, access, req, resetDone, made, cuts>>

Statement(r) ==
    \/ InsertUser(r) \/ InsertPassword(r) \/ CreateHome(r) \/ OpenSession(r)
    \/ InvalidateTokens(r) \/ CreateToken(r)
    \/ ConsumeResetToken(r) \/ SetPassword(r) \/ EndSessions(r) \/ RevokeAccess(r)
    \/ ConsumeVerification(r) \/ SetVerified(r)
    \/ TouchSession(r) \/ FindHome(r) \/ MakeHome(r) \/ Serve(r) \/ Logout(r)

Next ==
    \/ \E r \in Requests :
           \/ \E u \in Users : Register(r, u) \/ Login(r, u) \/ ForgotPassword(r, u)
           \/ \E t \in DOMAIN mailed : ResetPassword(r, t) \/ VerifyEmail(r, t)
           \/ \E i \in DOMAIN access : BearerRequest(r, i)
           \/ \E i \in DOMAIN sessions : CookieRequest(r, i)
           \/ Statement(r)
           \/ Cut(r) \/ MailFails(r) \/ ConsumeFails(r)
    \/ \E u \in Users : ApproveDevice(u)
    \/ Lapse

Spec == Init /\ [][Next]_vars

-----------------------------------------------------------------------------

MailRows == [kind : {"verify", "reset"}, user : Users, doubtful : BOOLEAN, spent : Nat,
             state : {"fresh", "consumed", "lapsed"}]

SessionRows == [user : Users, version : Nat, live : BOOLEAN, old : BOOLEAN, late : BOOLEAN]

AccessRows == [user : Users, version : Nat, live : BOOLEAN]

RequestStates == [at : Stages, user : Users, version : Nat, token : Nat,
                  for : {"none", "verify", "reset", "access", "session"}]

(* The shape of every variable. *)
TypeOK ==
    /\ users \subseteq Users /\ verified \subseteq Users
    /\ passwords \in [Users -> Nat]
    /\ homes \in [Users -> Nat]
    /\ mailed \in Seq(MailRows)
    /\ sessions \in Seq(SessionRows)
    /\ access \in Seq(AccessRows)
    /\ req \in [Requests -> RequestStates]
    /\ resetDone \in [Users -> Nat]
    /\ made \in Nat /\ cuts \in Nat /\ lapses \in Nat

-----------------------------------------------------------------------------

(* "Revoke all existing sessions for security" (auth.handlers.ts:1298):    *)
(* once a reset has been answered, nothing opened with an older password   *)
(* is live, whatever ran beside it; but for the session of a login that    *)
(* had checked the old password before the reset changed it.               *)
RevokedOnReset ==
    /\ \A i \in DOMAIN sessions :
           sessions[i].live =>
               sessions[i].late \/ sessions[i].version >= resetDone[sessions[i].user]
    /\ \A i \in DOMAIN access :
           access[i].live => access[i].version >= resetDone[access[i].user]

(* A reset token changes the password once, unless a second request had    *)
(* it verified before the first one consumed it, or the database failed    *)
(* when the first one was to mark it, which the handler does not notice.   *)
TokenSpentOnce ==
    \A t \in DOMAIN mailed :
        mailed[t].kind = "reset" /\ ~ mailed[t].doubtful => mailed[t].spent <= 1

(* A session that was ended and an access token that was revoked never     *)
(* come back, not by a request that had read the row before.               *)
EndedForGood ==
    [][/\ \A i \in DOMAIN sessions : ~ sessions[i].live => ~ sessions'[i].live
       /\ \A i \in DOMAIN access : ~ access[i].live => ~ access'[i].live]_vars

=============================================================================
